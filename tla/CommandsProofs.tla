--------------------------- MODULE CommandsProofs ---------------------------
(***************************************************************************)
(* What a client learns of its command is true of it, what is run is what  *)
(* is pinned, and a pin stays: proof for any clients, commands, locks,     *)
(* tools, sources, configurations, releases and capacities of a channel.   *)
(***************************************************************************)
EXTENDS Commands, SequenceTheorems, TLAPS

--------------------------------------------------------------------------------
(* Clients and the daemon. *)

Readers == {"off", "request", "hash", "serve", "read", "ended"}
Connection ==
  [reader : Readers, hash : Binaries, out : Seq(Packets), pump : {"off", "run", "ended"},
   ctx : {"none", "live", "cancelled", "returned"}, left : 0 .. MaxOutput]
Status == {"start", "wait", "local", "ok", "failed", "gone"}

In(out, packet) == \E i \in DOMAIN out : out[i] = packet

(***************************************************************************)
(* A client's connection d, what it knows, s, and where its command is, l: *)
(* a result that waits in the channel, or that the client has, is true of  *)
(* the command; a refusal, and a request not looked at yet, mean that it   *)
(* has not begun, but that a client no longer waiting may have begun it.   *)
(***************************************************************************)
Agree(d, s, l) ==
  /\ s = "start" => d.reader = "off" /\ d.out = <<>> /\ l = "idle"
  /\ d.reader \in {"request", "hash"} => l = "idle" /\ s # "local"
  /\ In(d.out, "ok") => l = "done"
  /\ In(d.out, "restarting") => d.reader \in {"read", "ended"} /\ (s = "wait" => l = "idle")
  /\ s = "ok" => l = "done"

Typed ==
  /\ client \in [Clients -> Status] /\ conn \in [Clients -> Connection]
  /\ \A c \in Clients : Len(conn[c].out) <= ChanCap
  /\ disk \in Binaries /\ daemon \in [up : BOOLEAN, bin : Binaries, restart : BOOLEAN]
  /\ pc = [p \in Procs |-> pc[p]] /\ Clients = Procs

IInv == Typed /\ \A c \in Clients : Agree(conn[c], client[c], pc[c])

-----------------------------------------------------------------------------
(***************************************************************************)
(* The commands: once one is over it stays so, and none starts by itself.  *)
(***************************************************************************)
Steady ==
  /\ pc' = [p \in Procs |-> pc'[p]]
  /\ \A p \in Procs : pc[p] \in {"idle", "done"} => pc'[p] = pc[p]

LEMMA GotoSteady ==
  ASSUME pc = [q \in Procs |-> pc[q]], NEW p \in Procs, pc[p] \notin {"idle", "done"}, NEW l, Goto(p, l)
  PROVE  Steady
  BY DEF Goto, Steady

LEMMA LockSteady ==
  ASSUME pc = [q \in Procs |-> pc[q]], NEW p \in Procs, LockStep(p) \/ Fail(p)
  PROVE  Steady
  <1>1. CASE EnsureFiles(p)
    BY <1>1, GotoSteady DEF EnsureFiles
  <1>2. CASE Create(p)
    BY <1>2, GotoSteady DEF Create
  <1>3. CASE Load(p)
    BY <1>3, GotoSteady DEF Load
  <1>4. CASE LoadTools(p)
    BY <1>4, GotoSteady DEF LoadTools
  <1>5. CASE Resolve(p)
    BY <1>5 DEF Resolve, Steady
  <1>6. CASE UpdateLoad(p)
    BY <1>6, GotoSteady DEF UpdateLoad
  <1>7. CASE UpdateWrite(p)
    BY <1>7, GotoSteady DEF UpdateWrite
  <1>8. CASE Install(p)
    BY <1>8, GotoSteady DEF Install
  <1>9. CASE Fail(p)
    BY <1>9, GotoSteady DEF Fail, Working, Resting
  <1> QED BY <1>1, <1>2, <1>3, <1>4, <1>5, <1>6, <1>7, <1>8, <1>9 DEF LockStep

LEMMA KilledSteady ==
  ASSUME NEW ps, Killed(ps)
  PROVE  Steady
  BY DEF Killed, Steady, Working, Resting

-----------------------------------------------------------------------------
(***************************************************************************)
(* One client moves on, or all stay.                                       *)
(***************************************************************************)
LEMMA OneMoves ==
  ASSUME IInv, NEW c \in Clients,
         \A e \in Clients \ {c} : conn'[e] = conn[e] /\ client'[e] = client[e] /\ pc'[e] = pc[e],
         Typed', Agree(conn'[c], client'[c], pc'[c])
  PROVE  IInv'
  <1> SUFFICES ASSUME NEW e \in Clients PROVE Agree(conn'[e], client'[e], pc'[e])
    BY DEF IInv, Agree, In
  <1>1. CASE e = c
    BY <1>1
  <1>2. CASE e # c
    BY <1>2 DEF IInv
  <1> QED BY <1>1, <1>2

\* A step of a command that leaves the daemon and the clients alone.
LEMMA LockInv ==
  ASSUME IInv, Steady, UNCHANGED daemonVars
  PROVE  IInv'
  <1>1. Typed'
    BY DEF IInv, Typed, Steady, daemonVars
  <1>2. ASSUME NEW c \in Clients PROVE Agree(conn'[c], client'[c], pc'[c])
    <2>1. conn'[c] = conn[c] /\ client'[c] = client[c] /\ Agree(conn[c], client[c], pc[c])
      BY DEF IInv, daemonVars
    <2>2. pc[c] \in {"idle", "done"} => pc'[c] = pc[c]
      BY DEF IInv, Typed, Steady
    <2> QED BY <2>1, <2>2 DEF Agree
  <1> QED BY <1>1, <1>2 DEF IInv, Agree, In

\* The connection and the knowledge of one client change.
LEMMA Change ==
  ASSUME IInv, NEW c \in Clients, NEW d \in Connection, Len(d.out) <= ChanCap, NEW s \in Status,
         conn' = [conn EXCEPT ![c] = d], client' = [client EXCEPT ![c] = s],
         \/ pc' = pc
         \/ pc' = [pc EXCEPT ![c] = "ensure"],
         disk' \in Binaries, daemon' \in [up : BOOLEAN, bin : Binaries, restart : BOOLEAN],
         Agree(d, s, pc'[c])
  PROVE  IInv'
  <1>1. Typed'
    BY DEF IInv, Typed
  <1>2. conn'[c] = d /\ client'[c] = s
    BY DEF IInv, Typed
  <1>3. \A e \in Clients \ {c} : conn'[e] = conn[e] /\ client'[e] = client[e] /\ pc'[e] = pc[e]
    BY DEF IInv, Typed
  <1> QED BY <1>1, <1>2, <1>3, OneMoves

LEMMA Appended ==
  ASSUME NEW q \in Seq(Packets), NEW x \in Packets
  PROVE  /\ Append(q, x) \in Seq(Packets) /\ Len(Append(q, x)) = Len(q) + 1
         /\ \A y : In(Append(q, x), y) => y = x \/ In(q, y)
  BY AppendProperties DEF In

LEMMA NoConnection == NoConn \in Connection /\ NoConn.reader = "off" /\ NoConn.out = <<>>
  BY DaemonAssumption DEF NoConn, Connection, Readers, Binaries, Packets

\* The clients that lose their connection: none has a result it was not told.
Cut ==
  /\ conn' \in [Clients -> Connection]
  /\ \A c \in Clients : \/ conn'[c] = NoConn
                        \/ conn'[c].reader = conn[c].reader /\ conn'[c].out = conn[c].out

LEMMA Lost ==
  ASSUME IInv, NEW gone, client' = LostClients(gone), Cut, Steady, disk' \in Binaries, daemon' \in [up : BOOLEAN, bin : Binaries, restart : BOOLEAN]
  PROVE  IInv'
  <1>1. NoConn.reader = "off" /\ NoConn.out = <<>>
    BY NoConnection
  <1>2. client' \in [Clients -> Status]
    BY DEF IInv, Typed, LostClients, Status
  <1>3. \A c \in Clients : Len(conn'[c].out) <= ChanCap
    BY <1>1, DaemonAssumption DEF IInv, Typed, Cut
  <1>4. Typed'
    BY <1>2, <1>3 DEF IInv, Typed, Steady, Cut
  <1>5. ASSUME NEW c \in Clients PROVE Agree(conn'[c], client'[c], pc'[c])
    <2>1. client'[c] = client[c] \/ (client[c] = "wait" /\ client'[c] = "failed")
      BY DEF IInv, Typed, LostClients
    <2>2. pc[c] \in {"idle", "done"} => pc'[c] = pc[c]
      BY DEF IInv, Typed, Steady
    <2>3. Agree(conn[c], client[c], pc[c])
      BY DEF IInv
    <2>4. CASE conn'[c] = NoConn
      BY <1>1, <2>1, <2>2, <2>3, <2>4 DEF Agree, In
    <2>5. CASE conn'[c].reader = conn[c].reader /\ conn'[c].out = conn[c].out
      BY <2>1, <2>2, <2>3, <2>5 DEF Agree
    <2> QED BY <2>4, <2>5 DEF Cut
  <1> QED BY <1>4, <1>5 DEF IInv, Agree, In

-----------------------------------------------------------------------------
(***************************************************************************)
(* The steps of a client and of its connection.                            *)
(***************************************************************************)
LEMMA ConnectInv ==
  ASSUME IInv, NEW c \in Clients, Connect(c)
  PROVE  IInv'
  <1>1. client[c] = "start" /\ pc' = pc /\ UNCHANGED <<daemon, disk>>
    BY DEF Connect, Dial, DialFails, lockVars
  <1>2. conn[c].reader = "off" /\ conn[c].out = <<>> /\ pc[c] = "idle"
    BY <1>1 DEF IInv, Agree
  <1>3. CASE Dial(c)
    <2> DEFINE d == [reader |-> "request", hash |-> disk, out |-> <<>>, pump |-> "run",
                     ctx |-> "live", left |-> MaxOutput]
    <2>1. d \in Connection /\ Len(d.out) <= ChanCap
      BY DaemonAssumption DEF Connection, Readers, IInv, Typed
    <2>2. Agree(d, "wait", pc'[c])
      BY <1>1, <1>2 DEF Agree, In
    <2>3. conn' = [conn EXCEPT ![c] = d] /\ client' = [client EXCEPT ![c] = "wait"]
      BY <1>3 DEF Dial, Say
    <2>4. "wait" \in Status /\ disk' \in Binaries /\ daemon' \in [up : BOOLEAN, bin : Binaries, restart : BOOLEAN]
      BY <1>1 DEF Status, IInv, Typed
    <2> HIDE DEF d
    <2> QED BY <1>1, <2>1, <2>2, <2>3, <2>4, Change
  <1>4. CASE DialFails(c)
    <2> DEFINE d == conn[c]
    <2>1. d \in Connection /\ Len(d.out) <= ChanCap
      BY DEF IInv, Typed
    <2>2. Agree(d, "local", pc'[c])
      BY <1>1, <1>2 DEF Agree, In
    <2>3. conn' = [conn EXCEPT ![c] = d] /\ client' = [client EXCEPT ![c] = "local"]
      BY <1>4 DEF DialFails, Say, IInv, Typed
    <2>4. "local" \in Status /\ disk' \in Binaries /\ daemon' \in [up : BOOLEAN, bin : Binaries, restart : BOOLEAN]
      BY <1>1 DEF Status, IInv, Typed
    <2> HIDE DEF d
    <2> QED BY <1>1, <2>1, <2>2, <2>3, <2>4, Change
  <1> QED BY <1>3, <1>4 DEF Connect

\* The command of a client starts, in the daemon or in its own process.
LEMMA StartInv ==
  ASSUME IInv, NEW c \in Clients, StartRemote(c) \/ StartLocal(c)
  PROVE  IInv'
  <1>1. /\ pc[c] = "idle" /\ pc' = [pc EXCEPT ![c] = "ensure"]
        /\ UNCHANGED <<client, daemon, disk>>
    BY DEF StartRemote, StartLocal, Begin, Goto, Serve, daemonVars
  <1>2. pc'[c] = "ensure" /\ Agree(conn[c], client[c], pc[c])
    BY <1>1 DEF IInv, Typed
  <1>3. /\ client' = [client EXCEPT ![c] = client[c]] /\ client[c] \in Status
        /\ disk' \in Binaries /\ daemon' \in [up : BOOLEAN, bin : Binaries, restart : BOOLEAN]
    BY <1>1 DEF IInv, Typed
  <1>4. conn[c] \in Connection /\ Len(conn[c].out) <= ChanCap
    BY DEF IInv, Typed
  <1>5. CASE StartLocal(c)
    <2>1. client[c] = "local" /\ conn' = [conn EXCEPT ![c] = conn[c]]
      BY <1>5 DEF StartLocal, daemonVars, IInv, Typed
    <2>2. Agree(conn[c], client[c], pc'[c])
      BY <1>1, <1>2, <2>1 DEF Agree
    <2> QED BY <1>1, <1>3, <1>4, <2>1, <2>2, Change
  <1>6. CASE StartRemote(c)
    <2> DEFINE d == [conn[c] EXCEPT !.reader = "serve"]
    <2>1. conn[c].reader = "hash" /\ conn' = [conn EXCEPT ![c] = d]
      BY <1>6 DEF StartRemote, Serve
    <2>2. d \in Connection /\ d.reader = "serve" /\ d.out = conn[c].out
      BY <1>4 DEF Connection, Readers
    <2> HIDE DEF d
    <2>3. Agree(d, client[c], pc'[c])
      BY <1>1, <1>2, <2>1, <2>2 DEF Agree
    <2> QED BY <1>1, <1>3, <1>4, <2>1, <2>2, <2>3, Change
  <1> QED BY <1>5, <1>6

\* Only the connection changes.
LEMMA ChangeConn ==
  ASSUME IInv, NEW c \in Clients, NEW d \in Connection, Len(d.out) <= ChanCap,
         conn' = [conn EXCEPT ![c] = d], UNCHANGED <<client, disk, pc>>,
         daemon' \in [up : BOOLEAN, bin : Binaries, restart : BOOLEAN],
         Agree(d, client[c], pc[c])
  PROVE  IInv'
  <1>1. client' = [client EXCEPT ![c] = client[c]] /\ client[c] \in Status /\ disk' \in Binaries
    BY DEF IInv, Typed
  <1>2. Agree(d, client[c], pc'[c])
    BY DEF Agree
  <1> QED BY <1>1, <1>2, Change

\* The binary on disk is not the one that runs.
LEMMA RefuseInv ==
  ASSUME IInv, NEW c \in Clients, conn[c].reader \in {"request", "hash"}, Refuse(c), pc' = pc
  PROVE  IInv'
  <1> DEFINE q == Append(conn[c].out, "restarting")
             d == [conn[c] EXCEPT !.reader = "read", !.out = q]
  <1>1. conn[c] \in Connection /\ Len(conn[c].out) < ChanCap /\ conn[c].out \in Seq(Packets)
    BY DEF IInv, Typed, Connection, Refuse, Room
  <1>2. q \in Seq(Packets) /\ Len(q) <= ChanCap /\ \A y : In(q, y) => y = "restarting" \/ In(conn[c].out, y)
    BY <1>1, Appended, DaemonAssumption DEF Packets
  <1>3. conn' = [conn EXCEPT ![c] = d] /\ UNCHANGED <<client, disk, pc>>
    BY DEF Refuse, Send
  <1>4. daemon' \in [up : BOOLEAN, bin : Binaries, restart : BOOLEAN]
    BY DEF Refuse, IInv, Typed
  <1> HIDE DEF q
  <1>5. d \in Connection /\ d.reader = "read" /\ d.out = q
    BY <1>1, <1>2 DEF Connection, Readers
  <1> HIDE DEF d
  <1>6. Agree(d, client[c], pc[c])
    BY <1>2, <1>5 DEF IInv, Agree
  <1> QED BY <1>2, <1>3, <1>4, <1>5, <1>6, ChangeConn

LEMMA ReaderInv ==
  ASSUME IInv, NEW c \in Clients, Reader(c)
  PROVE  IInv'
  <1>1. conn[c] \in Connection /\ Len(conn[c].out) <= ChanCap /\ Agree(conn[c], client[c], pc[c])
    BY DEF IInv, Typed
  <1>2. pc' = pc
    BY DEF Reader, lockVars
  <1>3. CASE CheckTime(c) /\ disk # daemon.bin
    BY <1>2, <1>3, RefuseInv DEF CheckTime
  <1>4. CASE CheckTime(c) /\ disk = daemon.bin
    <2> DEFINE d == [conn[c] EXCEPT !.reader = "hash"]
    <2>1. /\ conn[c].reader = "request" /\ conn' = [conn EXCEPT ![c] = d]
          /\ UNCHANGED <<client, daemon, disk>>
      BY <1>4 DEF CheckTime
    <2>2. d \in Connection /\ d.reader = "hash" /\ d.out = conn[c].out
      BY <1>1 DEF Connection, Readers
    <2> HIDE DEF d
    <2>3. Agree(d, client[c], pc[c])
      BY <1>1, <2>1, <2>2 DEF Agree
    <2>4. daemon' \in [up : BOOLEAN, bin : Binaries, restart : BOOLEAN]
      BY <2>1 DEF IInv, Typed
    <2> QED BY <1>1, <1>2, <2>1, <2>2, <2>3, <2>4, ChangeConn
  <1>5. CASE CheckHash(c)
    BY <1>2, <1>5, RefuseInv DEF CheckHash
  <1>6. CASE ReadEnds(c)
    <2> DEFINE d == [conn[c] EXCEPT !.reader = "ended", !.ctx = Cancelled(c)]
    <2>1. /\ conn[c].reader = "read" /\ conn' = [conn EXCEPT ![c] = d]
          /\ UNCHANGED <<client, daemon, disk>>
      BY <1>6 DEF ReadEnds
    <2>2. d \in Connection /\ d.reader = "ended" /\ d.out = conn[c].out
      BY <1>1 DEF Connection, Readers, Cancelled
    <2> HIDE DEF d
    <2>3. Agree(d, client[c], pc[c])
      BY <1>1, <2>1, <2>2 DEF Agree
    <2>4. daemon' \in [up : BOOLEAN, bin : Binaries, restart : BOOLEAN]
      BY <2>1 DEF IInv, Typed
    <2> QED BY <1>1, <1>2, <2>1, <2>2, <2>3, <2>4, ChangeConn
  <1> QED BY <1>3, <1>4, <1>5, <1>6 DEF Reader

LEMMA WriteInv ==
  ASSUME IInv, NEW c \in Clients, Write(c)
  PROVE  IInv'
  <1> DEFINE q == Append(conn[c].out, "text")
             d == [conn[c] EXCEPT !.out = q, !.left = @ - 1]
  <1>1. /\ conn[c] \in Connection /\ Len(conn[c].out) < ChanCap /\ conn[c].out \in Seq(Packets)
        /\ conn[c].left > 0
    BY DEF IInv, Typed, Connection, Write, Output, Room
  <1>2. q \in Seq(Packets) /\ Len(q) <= ChanCap /\ \A y : In(q, y) => y = "text" \/ In(conn[c].out, y)
    BY <1>1, Appended, DaemonAssumption DEF Packets
  <1>3. conn' = [conn EXCEPT ![c] = d] /\ UNCHANGED <<client, disk, pc, daemon>>
    BY DEF Write, Output, Send, lockVars
  <1>4. daemon' \in [up : BOOLEAN, bin : Binaries, restart : BOOLEAN]
    BY <1>3 DEF IInv, Typed
  <1>5. conn[c].left - 1 \in 0 .. MaxOutput /\ q # <<>>
    BY <1>1, DaemonAssumption DEF Connection
  <1> HIDE DEF q
  <1>6. d \in Connection /\ d.reader = conn[c].reader /\ d.out = q
    BY <1>1, <1>2, <1>5 DEF Connection
  <1> HIDE DEF d
  <1>7. conn[c].reader = "serve"
    BY DEF Write, Output, Serving
  <1>8. Agree(d, client[c], pc[c])
    BY <1>2, <1>6, <1>7 DEF IInv, Agree
  <1> QED BY <1>2, <1>3, <1>4, <1>6, <1>8, ChangeConn

\* The command in the daemon is over and its result is put into the channel.
LEMMA EndRemoteInv ==
  ASSUME IInv, NEW c \in Clients, EndRemote(c)
  PROVE  IInv'
  <1> DEFINE x == IF Good(c) THEN "ok" ELSE "error"
             q == Append(conn[c].out, x)
             d == [conn[c] EXCEPT !.reader = "read", !.out = q]
  <1>1. /\ conn[c] \in Connection /\ Len(conn[c].out) < ChanCap /\ conn[c].out \in Seq(Packets)
        /\ conn[c].reader = "serve"
    BY DEF IInv, Typed, Connection, EndRemote, Finish, Serving, Room
  <1>2. x \in Packets /\ x # "restarting" /\ (x = "ok" => pc[c] = "done")
    BY DEF Packets, Good
  <1>3. conn' = [conn EXCEPT ![c] = d] /\ UNCHANGED <<client, disk, pc, daemon>>
    BY DEF EndRemote, Finish, Send, lockVars
  <1> HIDE DEF x
  <1>4. q \in Seq(Packets) /\ Len(q) <= ChanCap /\ \A y : In(q, y) => y = x \/ In(conn[c].out, y)
    BY <1>1, <1>2, Appended, DaemonAssumption
  <1>5. daemon' \in [up : BOOLEAN, bin : Binaries, restart : BOOLEAN]
    BY <1>3 DEF IInv, Typed
  <1> HIDE DEF q
  <1>6. d \in Connection /\ d.reader = "read" /\ d.out = q
    BY <1>1, <1>4 DEF Connection, Readers
  <1> HIDE DEF d
  <1>7. Agree(d, client[c], pc[c])
    BY <1>1, <1>2, <1>4, <1>6 DEF IInv, Agree
  <1> QED BY <1>3, <1>4, <1>5, <1>6, <1>7, ChangeConn

\* Only what a client knows changes.
LEMMA ChangeClient ==
  ASSUME IInv, NEW c \in Clients, NEW s \in Status, client' = [client EXCEPT ![c] = s],
         UNCHANGED <<conn, daemon, disk>>, Steady, Agree(conn[c], s, pc'[c])
  PROVE  IInv'
  <1>1. Typed'
    BY DEF IInv, Typed, Steady
  <1>2. client'[c] = s /\ Agree(conn'[c], client'[c], pc'[c])
    BY DEF IInv, Typed
  <1>3. ASSUME NEW e \in Clients \ {c} PROVE Agree(conn'[e], client'[e], pc'[e])
    <2>1. conn'[e] = conn[e] /\ client'[e] = client[e] /\ Agree(conn[e], client[e], pc[e])
      BY DEF IInv, Typed
    <2>2. pc[e] \in {"idle", "done"} => pc'[e] = pc[e]
      BY DEF IInv, Typed, Steady
    <2> QED BY <2>1, <2>2 DEF Agree
  <1> QED BY <1>1, <1>2, <1>3 DEF IInv, Agree, In

LEMMA EndLocalInv ==
  ASSUME IInv, NEW c \in Clients, EndLocal(c)
  PROVE  IInv'
  <1> DEFINE s == IF Good(c) THEN "ok" ELSE "failed"
  <1>1. /\ client[c] = "local" /\ client' = [client EXCEPT ![c] = s]
        /\ UNCHANGED <<conn, daemon, disk, pc>>
    BY DEF EndLocal, LocalEnds, Say, lockVars
  <1>2. s \in Status /\ s \notin {"start", "wait", "local"} /\ (s = "ok" => pc[c] = "done")
    BY DEF Status, Good
  <1> HIDE DEF s
  <1>3. Steady
    BY <1>1 DEF Steady, IInv, Typed
  <1>4. Agree(conn[c], s, pc'[c])
    BY <1>1, <1>2 DEF IInv, Agree
  <1> QED BY <1>1, <1>2, <1>3, <1>4, ChangeClient

LEMMA InterruptedInv ==
  ASSUME IInv, NEW c \in Clients, Interrupted(c)
  PROVE  IInv'
  <1>1. /\ client' = [client EXCEPT ![c] = "gone"] /\ UNCHANGED <<conn, daemon, disk>>
        /\ client[c] \in {"wait", "local"}
    BY DEF Interrupted, Interrupt, Say
  <1>2. Steady
    BY KilledSteady DEF Interrupted
  <1>3. pc[c] \in {"idle", "done"} => pc'[c] = pc[c]
    BY <1>2 DEF Steady, IInv, Typed
  <1>4. Agree(conn[c], "gone", pc'[c])
    BY <1>1, <1>3 DEF IInv, Agree
  <1> QED BY <1>1, <1>2, <1>4, ChangeClient DEF Status

\* A packet reaches the client, or the write fails.
LEMMA PumpedInv ==
  ASSUME IInv, NEW c \in Clients, Pumped(c)
  PROVE  IInv'
  <1> DEFINE o == conn[c].out
  <1>1. /\ conn[c] \in Connection /\ o \in Seq(Packets) /\ o # <<>> /\ Len(o) <= ChanCap
        /\ UNCHANGED <<daemon, disk, pc>>
    BY DEF IInv, Typed, Connection, Pumped, Pump, lockVars
  <1>2. /\ Tail(o) \in Seq(Packets) /\ Len(Tail(o)) <= ChanCap
        /\ \A y : In(Tail(o), y) => In(o, y)
        /\ Head(o) \in Packets /\ In(o, Head(o))
    <2>1. /\ Tail(o) \in Seq(Packets) /\ Len(Tail(o)) = Len(o) - 1 /\ Head(o) \in Packets
          /\ \A i \in 1 .. Len(Tail(o)) : Tail(o)[i] = o[i + 1]
      BY <1>1, HeadTailProperties
    <2>2. Head(o) = o[1] /\ 1 \in DOMAIN o
      BY <1>1
    <2> QED BY <1>1, <2>1, <2>2, DaemonAssumption DEF In
  <1>3. Agree(conn[c], client[c], pc[c])
    BY DEF IInv
  <1>4. disk' \in Binaries /\ daemon' \in [up : BOOLEAN, bin : Binaries, restart : BOOLEAN]
    BY <1>1 DEF IInv, Typed
  <1>5. CASE client[c] = "wait"
    <2> DEFINE s == Understood(Head(o))
               d == [conn[c] EXCEPT !.out = Tail(o)]
    <2>1. client' = [client EXCEPT ![c] = s] /\ conn' = [conn EXCEPT ![c] = d]
      BY <1>5 DEF Pumped, Pump, Say
    <2>2. /\ s \in {"wait", "ok", "failed", "local"}
          /\ s = "ok" => Head(o) = "ok"
          /\ s = "local" => Head(o) = "restarting"
      BY <1>2 DEF Understood, Packets
    <2>3. d \in Connection /\ d.reader = conn[c].reader /\ d.out = Tail(o)
      BY <1>1, <1>2 DEF Connection
    <2> HIDE DEF s, d
    <2>4. Agree(d, s, pc[c])
      BY <1>2, <1>3, <1>5, <2>2, <2>3 DEF Agree
    <2>5. s \in Status /\ Agree(d, s, pc'[c])
      BY <1>1, <2>2, <2>4 DEF Status
    <2> QED BY <1>1, <1>2, <1>4, <2>1, <2>3, <2>5, Change
  <1>6. CASE client[c] # "wait"
    <2> DEFINE d == [conn[c] EXCEPT !.out = Tail(o), !.pump = "ended", !.ctx = Cancelled(c)]
    <2>1. UNCHANGED client /\ conn' = [conn EXCEPT ![c] = d]
      BY <1>6 DEF Pumped, Pump
    <2>2. d \in Connection /\ d.reader = conn[c].reader /\ d.out = Tail(o)
      BY <1>1, <1>2 DEF Connection, Cancelled
    <2> HIDE DEF d
    <2>3. Agree(d, client[c], pc[c])
      BY <1>2, <1>3, <1>6, <2>2 DEF Agree, In
    <2> QED BY <1>1, <1>2, <1>4, <2>1, <2>2, <2>3, ChangeConn
  <1> QED BY <1>5, <1>6

\* The handler returns, executes the new binary, or the daemon ends.
LEMMA ReturnedInv ==
  ASSUME IInv, NEW c \in Clients, Returned(c)
  PROVE  IInv'
  <1> DEFINE d == [conn[c] EXCEPT !.ctx = "returned"]
  <1>1. /\ conn' = [conn EXCEPT ![c] = d] /\ client' = LostClients({c})
        /\ UNCHANGED <<daemon, disk, pc>>
    BY DEF Returned, Return, lockVars
  <1>2. d \in Connection /\ d.reader = conn[c].reader /\ d.out = conn[c].out
    <2>1. conn[c] \in Connection
      BY DEF IInv, Typed
    <2> QED BY <2>1 DEF Connection
  <1> HIDE DEF d
  <1>3. Cut
    BY <1>1, <1>2 DEF IInv, Typed, Cut
  <1>4. Steady
    BY <1>1 DEF Steady, IInv, Typed
  <1>5. disk' \in Binaries /\ daemon' \in [up : BOOLEAN, bin : Binaries, restart : BOOLEAN]
    BY <1>1 DEF IInv, Typed
  <1> QED BY <1>1, <1>3, <1>4, <1>5, Lost

LEMMA EndedInv ==
  ASSUME IInv, Stopped \/ \E c \in Clients : Restarted(c)
  PROVE  IInv'
  <1>1. conn' = [e \in Clients |-> NoConn] /\ client' = LostClients(Clients) /\ UNCHANGED disk
    BY DEF Stopped, Exit, Restarted, Exec
  <1>2. Steady
    BY KilledSteady DEF Stopped, Restarted
  <1>3. daemon' \in [up : BOOLEAN, bin : Binaries, restart : BOOLEAN]
    <2>1. disk \in Binaries /\ daemon \in [up : BOOLEAN, bin : Binaries, restart : BOOLEAN]
      BY DEF IInv, Typed
    <2>2. CASE Stopped
      BY <2>1, <2>2 DEF Stopped, Exit
    <2>3. CASE \E c \in Clients : Restarted(c)
      BY <2>1, <2>3 DEF Restarted, Exec
    <2> QED BY <2>2, <2>3
  <1>4. Cut
    BY <1>1, NoConnection DEF Cut
  <1>5. disk' \in Binaries
    BY <1>1 DEF IInv, Typed
  <1> QED BY <1>1, <1>2, <1>3, <1>4, <1>5, Lost

LEMMA EnvironmentInv ==
  ASSUME IInv, Environment
  PROVE  IInv'
  <1>1. CASE StartDaemon /\ UNCHANGED lockVars
    BY <1>1 DEF StartDaemon, lockVars, IInv, Typed, Agree, In
  <1>2. CASE Replace /\ UNCHANGED lockVars
    <2>1. disk' \in Binaries
      BY <1>2, DaemonAssumption DEF Replace, Binaries, IInv, Typed
    <2> QED BY <1>2, <2>1 DEF Replace, lockVars, IInv, Typed, Agree, In
  <1>3. CASE Publish /\ UNCHANGED daemonVars
    BY <1>3, LockInv DEF Publish, Steady, IInv, Typed
  <1> QED BY <1>1, <1>2, <1>3 DEF Environment

-----------------------------------------------------------------------------
LEMMA InitInv == Init => IInv
  <1> SUFFICES ASSUME Init PROVE IInv
    OBVIOUS
  <1>1. PICK s \in Scenarios : LockInit(s.files, s.config, s.jobs) /\ DaemonInit(s.clients)
    BY DEF Init
  <1>2. client \in [Clients -> {"start", "local"}]
    BY <1>1, ScenarioAssumption DEF DaemonInit
  <1>3. conn = [c \in Clients |-> NoConn] /\ pc = [p \in Procs |-> "idle"] /\ Clients = Procs
    BY <1>1, SameNames DEF DaemonInit, LockInit
  <1>4. disk \in Binaries /\ daemon \in [up : BOOLEAN, bin : Binaries, restart : BOOLEAN]
    BY <1>1, DaemonAssumption DEF DaemonInit, Binaries
  <1>5. Typed
    BY <1>2, <1>3, <1>4, NoConnection, DaemonAssumption DEF Typed, Status
  <1>6. \A c \in Clients : Agree(conn[c], client[c], pc[c])
    <2>1. ASSUME NEW c \in Clients
          PROVE  Agree(conn[c], client[c], pc[c])
      <3>1. /\ conn[c] = NoConn /\ client[c] \in {"start", "local"} /\ pc[c] = "idle"
            /\ \A packet : ~In(<<>>, packet)
        BY <1>2, <1>3 DEF In
      <3> QED BY <3>1, NoConnection DEF Agree
    <2> QED BY <2>1
  <1> QED BY <1>5, <1>6 DEF IInv

LEMMA NextInv == IInv /\ [Next]_vars => IInv'
  <1> SUFFICES ASSUME IInv, [Next]_vars PROVE IInv'
    OBVIOUS
  <1>1. CASE UNCHANGED vars
    <2>1. UNCHANGED daemonVars /\ Steady
      BY <1>1 DEF vars, lockVars, Steady, IInv, Typed
    <2> QED BY <2>1, LockInv
  <1>2. ASSUME NEW c \in Clients, Advance(c) \/ Fails(c) PROVE IInv'
    <2>1. Steady
      BY <1>2, LockSteady DEF Advance, Fails, IInv, Typed
    <2> QED BY <1>2, <2>1, LockInv DEF Advance, Fails
  <1> QED BY <1>1, <1>2, ConnectInv, StartInv, ReaderInv, WriteInv, EndRemoteInv, EndLocalInv,
             InterruptedInv, PumpedInv, ReturnedInv, EndedInv, EnvironmentInv
          DEF Next, Progress

(***************************************************************************)
(* A client that reports success has had its command run to its end        *)
(* (TryRemoteRaw, handleRequest): no restart or end of the daemon, full    *)
(* channel or interruption makes it say so too early.                      *)
(***************************************************************************)
THEOREM SuccessIsTrue == Spec => []OkMeansDone
  <1>1. IInv => OkMeansDone
    BY DEF IInv, Agree, OkMeansDone
  <1> QED BY <1>1, InitInv, NextInv, PTL DEF Spec

\* A client turns to its own process only before its command has begun.
LEMMA TurnsAway ==
  ASSUME IInv, [Next]_vars, NEW c \in Clients, client[c] # "local", client'[c] = "local"
  PROVE  pc[c] = "idle"
  <1>1. Agree(conn[c], client[c], pc[c]) /\ client \in [Clients -> Status]
    BY DEF IInv, Typed
  <1>2. ASSUME client' = client PROVE FALSE
    BY <1>2
  <1>3. ASSUME NEW gone, client' = LostClients(gone) PROVE FALSE
    BY <1>3 DEF LostClients
  <1>4. ASSUME NEW e \in Clients, NEW s, Say(e, s) PROVE e = c /\ s = "local"
    BY <1>1, <1>4 DEF Say
  <1>5. ASSUME NEW e \in Clients, Connect(e) PROVE pc[c] = "idle"
    BY <1>1, <1>4, <1>5 DEF Connect, Dial, DialFails, Agree
  <1>6. ASSUME NEW e \in Clients, Pumped(e) PROVE pc[c] = "idle"
    <2> DEFINE o == conn[e].out
    <2>1. client[e] = "wait" /\ Say(e, Understood(Head(o))) /\ o # <<>>
      BY <1>2, <1>6 DEF Pumped, Pump
    <2>2. e = c /\ Understood(Head(o)) = "local"
      BY <1>4, <2>1
    <2>3. o \in Seq(Packets)
      BY DEF IInv, Typed, Connection
    <2>4. Head(o) \in Packets /\ Head(o) = o[1] /\ 1 \in DOMAIN o
      BY <2>1, <2>3
    <2>5. Head(o) = "restarting"
      BY <2>2, <2>4 DEF Understood, Packets
    <2>6. In(o, "restarting")
      BY <2>4, <2>5 DEF In
    <2> QED BY <1>1, <2>1, <2>2, <2>6 DEF Agree
  <1>7. ASSUME NEW e \in Clients, EndLocal(e) \/ Interrupted(e) PROVE FALSE
    BY <1>4, <1>7 DEF EndLocal, LocalEnds, Interrupted, Interrupt
  <1>8. ASSUME NEW e \in Clients, Returned(e) \/ Restarted(e) PROVE FALSE
    BY <1>3, <1>8 DEF Returned, Return, Restarted, Exec
  <1>9. ASSUME Stopped PROVE FALSE
    BY <1>3, <1>9 DEF Stopped, Exit
  <1>10. ASSUME NEW e \in Clients,
                \/ StartRemote(e) \/ StartLocal(e) \/ Advance(e) \/ EndRemote(e)
                \/ Reader(e) \/ Write(e) \/ Fails(e)
         PROVE FALSE
    BY <1>2, <1>10 DEF StartRemote, Serve, StartLocal, Advance, EndRemote, Finish, Reader,
       CheckTime, CheckHash, Refuse, ReadEnds, Write, Output, Fails, daemonVars
  <1>11. ASSUME Environment PROVE FALSE
    BY <1>2, <1>11 DEF Environment, StartDaemon, Replace, daemonVars
  <1>12. ASSUME UNCHANGED vars PROVE FALSE
    BY <1>2, <1>12 DEF vars, daemonVars
  <1> QED BY <1>5, <1>6, <1>7, <1>8, <1>9, <1>10, <1>11, <1>12 DEF Next, Progress

(***************************************************************************)
(* No command is run twice: a client runs its command itself only while    *)
(* the daemon has not begun it (the second result of TryRemoteRaw),        *)
(* however often the binary is replaced and the daemon restarts.           *)
(***************************************************************************)
THEOREM NobodyRunsTwice == Spec => NotTwice
  <1>1. IInv /\ [Next]_vars =>
          [\A c \in Clients : (client[c] # "local" /\ client'[c] = "local") => pc[c] = "idle"]_vars
    BY TurnsAway
  <1> QED BY <1>1, InitInv, NextInv, PTL DEF Spec, NotTwice

--------------------------------------------------------------------------------
(* The lock of a workspace. *)

Row == Pins \cup {None}

LEMMA RowFacts ==
  /\ None \in Row
  /\ \A x \in Pins : x # None
  /\ \A l \in [Rows -> Row] : Contents(l) = l
  /\ Contents(NoFile) = Empty
  /\ \A l \in {NoFile} \cup [Rows -> Row] : Contents(l) \in [Rows -> Row]
  /\ Empty \in [Rows -> Row] /\ \A r \in Rows : Empty[r] = None
  /\ NoPins \in [Items -> Row] /\ \A i \in Items : NoPins[i] = None
  <1>1. None \in Row /\ \A x \in Pins : x # None
    BY DEF Row, Pins, None, Tracked
  <1>2. Empty \in [Rows -> Row] /\ \A r \in Rows : Empty[r] = None
    BY <1>1 DEF Empty
  <1>3. NoPins \in [Items -> Row] /\ \A i \in Items : NoPins[i] = None
    BY <1>1 DEF NoPins
  <1>4. Contents(NoFile) = Empty
    BY DEF Contents
  <1>5. ASSUME NEW l \in [Rows -> Row] PROVE Contents(l) = l
    <2>1. CASE Rows = {}
      <3>1. l = [r \in Rows |-> None]
        BY <2>1
      <3> QED BY <3>1 DEF Contents, Empty
    <2>2. CASE Rows # {}
      <3>1. PICK r \in Rows : TRUE
        BY <2>2
      <3>2. NoFile[r].ref = "no file"
        BY <3>1 DEF NoFile
      <3>3. l[r] \in Row
        BY <3>1
      <3>4. l[r].ref # "no file"
        <4>1. l[r] \in Pins => l[r].ref \in Tracked
          BY DEF Pins
        <4>2. l[r] = None => l[r].ref = "none"
          BY DEF None
        <4> QED BY <3>3, <4>1, <4>2 DEF Row, Tracked
      <3> QED BY <3>2, <3>4 DEF Contents
    <2> QED BY <2>1, <2>2
  <1> QED BY <1>1, <1>2, <1>3, <1>4, <1>5 DEF Contents

LEMMA RowOfItem ==
  /\ \A t \in Tools : t \in Items /\ t \in Rows /\ RowOf(t) = t /\ t \notin Aliases
  /\ \A a \in Aliases : a \in Items /\ a \notin Tools /\ RowOf(a) = RepoOf[a]
                        /\ RepoOf[a] \in Repos /\ RepoOf[a] \in Rows /\ RepoOf[a] \notin Tools
  /\ \A i \in Items : RowOf(i) \in Rows /\ (i \in Tools \/ i \in Aliases)
  BY LockAssumption DEF Items, Rows, RowOf

-----------------------------------------------------------------------------
(***************************************************************************)
(* Types.  The lock files and what the commands remember of them.          *)
(***************************************************************************)
Places == Resting \cup {"ensure", "create", "load", "tools", "resolve", "update", "write", "install"}

RowsTyped ==
  /\ lock \in [Workspaces -> {NoFile} \cup [Rows -> Row]]
  /\ want \in [Aliases -> Wants] /\ latest \in 1 .. MaxVersion
  /\ job \in [Procs -> Jobs] /\ pc \in [Procs -> Places]
  /\ todo \in [Procs -> SUBSET Items] /\ pins \in [Procs -> [Items -> Row]]
  /\ buf \in [Procs -> [Rows -> Row]]
  /\ seen \in [Procs -> SUBSET Rows] /\ late \in [Procs -> SUBSET Rows]

LEMMA JobFacts ==
  ASSUME RowsTyped, NEW p \in Procs
  PROVE  /\ job[p] \in Jobs /\ WS(p) \in Workspaces
         /\ job[p].kind \in {"run", "refresh", "lock"}
         /\ job[p].kind = "run" => job[p].tool \in Tools
         /\ File(p) \in {NoFile} \cup [Rows -> Row]
         /\ Contents(File(p)) \in [Rows -> Row]
  <1>1. job[p] \in Jobs
    BY DEF RowsTyped
  <1>2. WS(p) \in Workspaces /\ job[p].kind \in {"run", "refresh", "lock"}
        /\ (job[p].kind = "run" => job[p].tool \in Tools)
    BY <1>1 DEF Jobs, WS
  <1>3. File(p) \in {NoFile} \cup [Rows -> Row]
    BY <1>2 DEF RowsTyped, File
  <1> QED BY <1>1, <1>2, <1>3, RowFacts

\* A job in another workspace is a job.
LEMMA JobMoves ==
  ASSUME NEW j \in Jobs
  PROVE  [j EXCEPT !.ws = "home"] \in Jobs
  BY DEF Jobs, Workspaces

LEMMA AnswerFacts ==
  ASSUME RowsTyped, NEW i \in Items, NEW x \in Answers(i)
  PROVE  x \in Pins /\ (i \in Aliases => Matches(want[i], x))
  <1>1. latest \in 1 .. MaxVersion /\ MaxVersion \in Nat /\ (i \in Aliases => want[i] \in Wants /\ i \notin Tools)
    BY LockAssumption, RowOfItem DEF RowsTyped
  <1>2. CASE i \in Tools
    BY <1>1, <1>2, RowOfItem DEF Answers, Pins, Tracked
  <1>3. CASE i \notin Tools
    BY <1>1, <1>3, RowOfItem DEF Answers, Pins, Tracked, Wants, Matches
  <1> QED BY <1>2, <1>3

\* UpsertTool, UpsertSource: the rows of the items, and no others, change.
LEMMA UpsertFacts ==
  ASSUME NEW l \in [Rows -> Row], NEW new \in [Items -> Row], NEW m \in Upserts(l, new)
  PROVE  /\ m \in [Rows -> Row]
         /\ \A r \in Rows : \/ m[r] = l[r] /\ \A i \in Items : RowOf(i) = r => new[i] = None
                            \/ \E i \in Items : RowOf(i) = r /\ new[i] # None /\ m[r] = new[i]
  <1>1. m \in [Rows -> Row]
    BY DEF Upserts
  <1>2. ASSUME NEW r \in Rows
        PROVE  \/ m[r] = l[r] /\ \A i \in Items : RowOf(i) = r => new[i] = None
               \/ \E i \in Items : RowOf(i) = r /\ new[i] # None /\ m[r] = new[i]
    <2> DEFINE mine == {i \in Items : RowOf(i) = r /\ new[i] # None}
    <2>1. IF mine = {} THEN m[r] = l[r] ELSE m[r] \in {new[i] : i \in mine}
      BY DEF Upserts
    <2> QED BY <2>1
  <1> QED BY <1>1, <1>2

LEMMA BatchFacts ==
  ASSUME RowsTyped, NEW p \in Procs, NEW batch \in Batches(p)
  PROVE  /\ batch \subseteq Items /\ \A i \in batch : pins[p][i] # None
         /\ \/ batch = {i \in Items : pins[p][i] # None} /\ \A t \in Tools : pins[p][t] = None
            \/ \E t \in Tools : pins[p][t] # None /\ batch = {t}
         /\ Only(p, batch) \in [Items -> Row]
         /\ \A i \in Items : Only(p, batch)[i] = IF i \in batch THEN pins[p][i] ELSE None
  <1> DEFINE found == {i \in Items : pins[p][i] # None}
  <1>1. CASE found \cap Tools # {}
    <2>1. batch \in {{t} : t \in found \cap Tools}
      BY <1>1 DEF Batches
    <2> QED BY <2>1, RowFacts DEF Only, RowsTyped
  <1>2. CASE found \cap Tools = {}
    <2>1. batch = found
      BY <1>2 DEF Batches
    <2>2. \A t \in Tools : pins[p][t] = None
      BY <1>2, RowOfItem
    <2> QED BY <2>1, <2>2, RowFacts DEF Only, RowsTyped
  <1> QED BY <1>1, <1>2

\* writeSumFile, seen by another command and by the one that writes.
LEMMA WriteOwnNotes ==
  ASSUME NEW p \in Procs, NEW w, NEW new, WriteFile(p, w, new), job[p].kind # "run"
  PROVE  seen'[p] = seen[p]
  BY DEF WriteFile

LEMMA WriteTyped ==
  ASSUME RowsTyped, NEW p \in Procs, NEW w \in Workspaces, NEW new \in [Rows -> Row],
         WriteFile(p, w, new)
  PROVE  /\ lock' \in [Workspaces -> {NoFile} \cup [Rows -> Row]]
         /\ seen' \in [Procs -> SUBSET Rows] /\ late' \in [Procs -> SUBSET Rows]
  <1> DEFINE changed == {r \in Rows : Contents(lock[w])[r] # new[r]}
             stale(q) == IF q # p /\ Working(q) /\ WS(q) = w THEN changed ELSE {}
  <1>1. \A q \in Procs : stale(q) \subseteq Rows
    OBVIOUS
  <1>2. /\ lock' = [lock EXCEPT ![w] = new]
        /\ late' = [q \in Procs |-> IF q = p THEN {} ELSE late[q] \cup stale(q)]
        /\ seen' = [q \in Procs |-> IF q = p /\ job[p].kind = "run" THEN {}
                                    ELSE seen[q] \cup stale(q)]
    BY DEF WriteFile
  <1> HIDE DEF stale
  <1> QED BY <1>1, <1>2 DEF RowsTyped

LEMMA WriteElsewhere ==
  ASSUME RowsTyped, NEW p \in Procs, NEW w \in Workspaces, NEW new \in [Rows -> Row],
         WriteFile(p, w, new), NEW q \in Procs \ {p}, Working(q), WS(q)' = WS(q)
  PROVE  \E add \in SUBSET Rows :
           /\ seen'[q] = seen[q] \cup add /\ late'[q] = late[q] \cup add
           /\ \A r \in Rows \ add : Contents(File(q)')[r] = Contents(File(q))[r]
  <1> DEFINE changed == {r \in Rows : Contents(lock[w])[r] # new[r]}
             stale(e) == IF e # p /\ Working(e) /\ WS(e) = w THEN changed ELSE {}
  <1>1. /\ lock' = [lock EXCEPT ![w] = new]
        /\ late'[q] = late[q] \cup stale(q) /\ seen'[q] = seen[q] \cup stale(q)
    BY DEF WriteFile
  <1>2. File(q)' = IF WS(q) = w THEN new ELSE File(q)
    BY <1>1, JobFacts DEF File, RowsTyped
  <1>3. Contents(new) = new
    BY RowFacts
  <1>4. CASE WS(q) = w
    <2>1. stale(q) = changed
      BY <1>4
    <2>2. \A r \in Rows \ changed : Contents(File(q))[r] = new[r]
      BY <1>4 DEF File
    <2> QED BY <1>1, <1>2, <1>3, <1>4, <2>1, <2>2
  <1>5. CASE WS(q) # w
    BY <1>1, <1>2, <1>5
  <1> QED BY <1>4, <1>5

\* What the steps of a command do to the types.
LEMMA StepTyped ==
  ASSUME RowsTyped, NEW p \in Procs, Begin(p) \/ LockStep(p) \/ Fail(p)
  PROVE  RowsTyped'
  <1> USE DEF Keep, local, Goto, Places, Resting
  <1>1. /\ job[p] \in Jobs /\ WS(p) \in Workspaces /\ Contents(File(p)) \in [Rows -> Row]
        /\ job[p].kind = "run" => job[p].tool \in Tools
    BY JobFacts
  <1>2. CASE Begin(p)
    BY <1>2 DEF Begin, RowsTyped
  <1>3. CASE EnsureFiles(p)
    BY <1>3 DEF EnsureFiles, RowsTyped
  <1>4. CASE Create(p)
    <2>1. WriteFile(p, WS(p), Empty) /\ Empty \in [Rows -> Row]
      BY <1>4, RowFacts DEF Create
    <2>2. /\ lock' \in [Workspaces -> {NoFile} \cup [Rows -> Row]]
          /\ seen' \in [Procs -> SUBSET Rows] /\ late' \in [Procs -> SUBSET Rows]
      BY <1>1, <2>1, WriteTyped
    <2> QED BY <1>4, <2>2 DEF Create, RowsTyped
  <1>5. CASE Load(p)
    <2> DEFINE known == Known(p, Contents(File(p)))
               t == {i \in Concerns(p) : known[i] = None}
    <2>1. known \in [Items -> Row]
      <3> SUFFICES ASSUME NEW i \in Items PROVE known[i] \in Row
        BY DEF Known
      <3>1. i \in Tools => i \in Rows
        BY RowOfItem
      <3>2. i \in Aliases => RepoOf[i] \in Rows
        BY RowOfItem
      <3> QED BY <1>1, <3>1, <3>2, RowFacts, RowOfItem DEF Known
    <2>2. t \subseteq Items
      BY <1>1, RowOfItem DEF Concerns, Items
    <2>3. /\ pins' = [pins EXCEPT ![p] = known] /\ todo' = [todo EXCEPT ![p] = t]
          /\ seen' = [seen EXCEPT ![p] = {}] /\ pc' = [pc EXCEPT ![p] = "resolve"]
          /\ UNCHANGED <<lock, want, latest, job, buf, late>>
      BY <1>5 DEF Load
    <2> HIDE DEF known, t
    <2> QED BY <2>1, <2>2, <2>3 DEF RowsTyped
  <1>6. CASE LoadTools(p)
    <2> DEFINE t == NeedsWork(Contents(File(p)))
    <2>1. t \subseteq Items
      BY RowOfItem DEF NeedsWork
    <2>2. /\ todo' = [todo EXCEPT ![p] = t] /\ pins' = [pins EXCEPT ![p] = NoPins]
          /\ pc' \in {[pc EXCEPT ![p] = "done"], [pc EXCEPT ![p] = "resolve"]}
          /\ UNCHANGED <<lock, want, latest, job, buf, seen, late>>
      BY <1>6 DEF LoadTools
    <2> HIDE DEF t
    <2> QED BY <2>1, <2>2, RowFacts DEF RowsTyped
  <1>7. CASE Resolve(p)
    <2>1. PICK found \in [todo[p] -> UNION {Answers(i) : i \in todo[p]}] :
             /\ \A i \in todo[p] : found[i] \in Answers(i)
             /\ pins' = [pins EXCEPT ![p] =
                           [i \in Items |-> IF i \in todo[p] THEN found[i] ELSE @[i]]]
      BY <1>7 DEF Resolve
    <2>2. \A i \in todo[p] : found[i] \in Row
      BY <2>1, AnswerFacts DEF RowsTyped, Row
    <2>3. pins' \in [Procs -> [Items -> Row]]
      BY <2>1, <2>2 DEF RowsTyped
    <2> QED BY <1>7, <2>3 DEF Resolve, RowsTyped
  <1>8. CASE UpdateLoad(p)
    BY <1>1, <1>8 DEF UpdateLoad, RowsTyped
  <1>9. CASE UpdateWrite(p)
    <2>1. PICK batch \in Batches(p) :
            /\ \E new \in Upserts(buf[p], Only(p, batch)) :
                 IF Reported(p, batch)
                   THEN WriteFile(p, WS(p), new)
                   ELSE /\ seen' = [seen EXCEPT ![p] = IF job[p].kind = "run" THEN late[p] ELSE @]
                        /\ late' = [late EXCEPT ![p] = {}]
                        /\ UNCHANGED lock
            /\ pc' = [pc EXCEPT ![p] = After(p, batch)]
            /\ pins' = [pins EXCEPT ![p] =
                          IF job[p].kind = "run" THEN @
                          ELSE [i \in Items |-> IF i \in batch THEN None ELSE @[i]]]
      BY <1>9 DEF UpdateWrite
    <2>2. PICK new \in Upserts(buf[p], Only(p, batch)) :
            IF Reported(p, batch)
              THEN WriteFile(p, WS(p), new)
              ELSE /\ seen' = [seen EXCEPT ![p] = IF job[p].kind = "run" THEN late[p] ELSE @]
                   /\ late' = [late EXCEPT ![p] = {}]
                   /\ UNCHANGED lock
      BY <2>1
    <2>3. new \in [Rows -> Row]
      <3>1. buf[p] \in [Rows -> Row] /\ Only(p, batch) \in [Items -> Row]
        BY BatchFacts DEF RowsTyped
      <3> QED BY <3>1, UpsertFacts
    <2>4. /\ lock' \in [Workspaces -> {NoFile} \cup [Rows -> Row]]
          /\ seen' \in [Procs -> SUBSET Rows] /\ late' \in [Procs -> SUBSET Rows]
      <3>1. CASE Reported(p, batch)
        BY <1>1, <2>2, <2>3, <3>1, WriteTyped
      <3>2. CASE ~Reported(p, batch)
        <4>1. /\ lock' = lock /\ late' = [late EXCEPT ![p] = {}]
              /\ seen' = [seen EXCEPT ![p] = IF job[p].kind = "run" THEN late[p] ELSE @]
          BY <2>2, <3>2
        <4>2. seen[p] \subseteq Rows /\ late[p] \subseteq Rows
          BY DEF RowsTyped
        <4>3. seen' \in [Procs -> SUBSET Rows] /\ late' \in [Procs -> SUBSET Rows]
          BY <4>1, <4>2 DEF RowsTyped
        <4> QED BY <4>1, <4>3 DEF RowsTyped
      <3> QED BY <3>1, <3>2
    <2>5. pins' \in [Procs -> [Items -> Row]]
      BY <2>1, RowFacts DEF RowsTyped
    <2>6. pc' \in [Procs -> Places]
      BY <2>1 DEF After, RowsTyped
    <2>7. buf' \in [Procs -> [Rows -> Row]]
      BY <1>9, RowFacts DEF UpdateWrite, RowsTyped
    <2> QED BY <1>9, <2>4, <2>5, <2>6, <2>7 DEF UpdateWrite, RowsTyped
  <1>10. CASE Install(p)
    BY <1>10, RowFacts DEF Install, RowsTyped
  <1>11. CASE Fail(p)
    <2>1. job' \in [Procs -> Jobs] /\ pc' \in [Procs -> Places]
      <3>1. [job[p] EXCEPT !.ws = "home"] \in Jobs
        BY <1>1, JobMoves
      <3>2. /\ job' = [job EXCEPT ![p] = [job[p] EXCEPT !.ws = "home"]] \/ job' = job
            /\ pc' \in [Procs -> Places]
        <4>1. pc' = [pc EXCEPT ![p] = "ensure"] \/ pc' = [pc EXCEPT ![p] = "failed"]
          BY <1>11 DEF Fail
        <4>2. pc' \in [Procs -> Places]
          BY <4>1 DEF RowsTyped
        <4>3. job' = [job EXCEPT ![p] = [job[p] EXCEPT !.ws = "home"]] \/ job' = job
          BY <1>11 DEF Fail
        <4> QED BY <4>2, <4>3
      <3> HIDE DEF Places
      <3>3. job \in [Procs -> Jobs]
        BY DEF RowsTyped
      <3>4. job' \in [Procs -> Jobs]
        BY <3>1, <3>2, <3>3
      <3> QED BY <3>2, <3>4
    <2> QED BY <1>11, <2>1, RowFacts DEF Fail, RowsTyped
  <1> QED BY <1>2, <1>3, <1>4, <1>5, <1>6, <1>7, <1>8, <1>9, <1>10, <1>11 DEF LockStep

-----------------------------------------------------------------------------
(***************************************************************************)
(* The invariant of one command, in the terms of its lock file: a row that *)
(* nobody wrote since the command decided (`seen`), or since updateSumFile *)
(* loaded (`late`), is what the command took it for.                       *)
(***************************************************************************)
Held(p) == Contents(File(p))

\* Item i has a pin to write, or is being looked up.
Meant(p, i) == pins[p][i] # None \/ i \in todo[p]

Active == {"resolve", "update", "write"}

\* RefreshWorkspaceLocks is past its sources.
OnTools(p) == pc[p] = "tools" \/ \E t \in Tools : Meant(p, t)

\* The row of a source is as one of its aliases asks.
Wanted(a, row) ==
  row # None /\ \E b \in Aliases : RepoOf[b] = RepoOf[a] /\ Matches(want[b], row)

Fresh(p) ==
  /\ pc[p] \in {"tools", "update"} => job[p].kind = "refresh"
  /\ pc[p] = "install" => job[p].kind = "run"
  /\ pc[p] = "create" => \A r \in Rows \ late[p] : Held(p)[r] = None
  /\ pc[p] = "write" =>
       late[p] \subseteq seen[p] /\ \A r \in Rows \ late[p] : Held(p)[r] = buf[p][r]
  /\ pc[p] \in {"update", "write", "install"} => todo[p] = {}
  /\ pc[p] = "resolve" => \A i \in todo[p] : pins[p][i] = None

Running(p) ==
  job[p].kind = "run" =>
    /\ pc[p] \in {"resolve", "write", "install"} =>
         /\ \A i \in Items : Meant(p, i) <=> i = job[p].tool
         /\ job[p].tool \in seen[p] \/ Held(p)[job[p].tool] \in {None, pins[p][job[p].tool]}
    /\ pc[p] = "install" =>
         job[p].tool \in seen[p] \/ Held(p)[job[p].tool] = pins[p][job[p].tool]

Sources(p) ==
  (job[p].kind # "run" /\ pc[p] \in Active) =>
    /\ \A a \in Aliases :
         /\ pins[p][a] # None => Matches(want[a], pins[p][a])
         /\ (Meant(p, a) /\ job[p].kind = "refresh" /\ RepoOf[a] \notin seen[p])
              => pins[p][a] = Held(p)[RepoOf[a]] \/ ~Reusable(a, Held(p))
    /\ \A t \in Tools :
         Meant(p, t) => job[p].kind = "refresh" /\ (t \in seen[p] \/ Held(p)[t] = None)

Phases(p) ==
  job[p].kind = "refresh" =>
    /\ pc[p] = "update" => OnTools(p)
    /\ (OnTools(p) /\ pc[p] \in Active \cup {"tools"}) =>
         \A a \in Aliases : RepoOf[a] \in seen[p] \/ Wanted(a, Held(p)[RepoOf[a]])
    /\ (OnTools(p) /\ pc[p] \in Active) =>
         /\ \A a \in Aliases : ~Meant(p, a)
         /\ \A t \in Tools : t \in seen[p] \/ Held(p)[t] # None \/ Meant(p, t)
    /\ (~OnTools(p) /\ pc[p] \in Active) => \A a \in Aliases : Meant(p, a)

Book(p) == Fresh(p) /\ Running(p) /\ Sources(p) /\ Phases(p)

RowsInv == RowsTyped /\ \A p \in Procs : Book(p)

\* A command that is not at work has nothing to remember.
LEMMA AtRest ==
  ASSUME NEW p \in Procs, pc'[p] \notin Active \cup {"create", "tools", "install"}
  PROVE  Book(p)'
  BY DEF Book, Fresh, Running, Sources, Phases, Active

\* Whatever others write is noted, and the rest stays.
LEMMA Untouched ==
  ASSUME RowsTyped, NEW p \in Procs, Book(p), UNCHANGED want,
         pc'[p] = pc[p], job'[p] = job[p], todo'[p] = todo[p], pins'[p] = pins[p], buf'[p] = buf[p],
         NEW add \in SUBSET Rows, seen'[p] = seen[p] \cup add, late'[p] = late[p] \cup add,
         \A r \in Rows \ add : Held(p)'[r] = Held(p)[r]
  PROVE  Book(p)'
  <1>1. Fresh(p)'
    BY DEF Book, Fresh
  <1>2. \A i \in Items : Meant(p, i)' = Meant(p, i)
    BY DEF Meant
  <1>3. OnTools(p)' = OnTools(p)
    BY <1>2, RowOfItem DEF OnTools
  <1>4. Running(p)'
    <2> SUFFICES ASSUME job[p].kind = "run" PROVE Running(p)'
      BY DEF Running
    <2>1. job[p].tool \in Rows
      BY JobFacts, RowOfItem
    <2> QED BY <1>2, <2>1 DEF Book, Running
  <1>5. \A a \in Aliases : RepoOf[a] \notin add =>
           /\ Reusable(a, Held(p))' = Reusable(a, Held(p))
           /\ Wanted(a, Held(p)[RepoOf[a]])' = Wanted(a, Held(p)[RepoOf[a]])
    BY RowOfItem DEF Reusable, Wanted, Matches
  <1>6. Sources(p)'
    BY <1>2, <1>5, RowOfItem DEF Book, Sources, Matches
  <1>7. Phases(p)'
    BY <1>2, <1>3, <1>5, RowOfItem DEF Book, Phases
  <1> QED BY <1>1, <1>4, <1>6, <1>7 DEF Book

\* A step of p that does not write, or writes, leaves the others their books.
LEMMA Stays ==
  ASSUME RowsInv, NEW q \in Procs, UNCHANGED <<lock, want>>,
         pc'[q] = pc[q], job'[q] = job[q], todo'[q] = todo[q], pins'[q] = pins[q],
         buf'[q] = buf[q], seen'[q] = seen[q], late'[q] = late[q]
  PROVE  Book(q)'
  <1>1. Held(q)' = Held(q)
    BY DEF Held, File, WS
  <1>2. PICK add \in SUBSET Rows : add = {}
    OBVIOUS
  <1>3. /\ seen'[q] = seen[q] \cup add /\ late'[q] = late[q] \cup add
        /\ \A r \in Rows \ add : Held(q)'[r] = Held(q)[r]
    BY <1>1, <1>2
  <1> QED BY <1>3, Untouched DEF RowsInv

LEMMA Notes ==
  ASSUME RowsInv, NEW p \in Procs, NEW q \in Procs \ {p}, UNCHANGED want,
         NEW w \in Workspaces, NEW new \in [Rows -> Row], WriteFile(p, w, new),
         pc'[q] = pc[q], job'[q] = job[q], todo'[q] = todo[q], pins'[q] = pins[q], buf'[q] = buf[q]
  PROVE  Book(q)'
  <1>1. CASE Working(q)
    <2>1. WS(q)' = WS(q)
      BY DEF WS
    <2>0. RowsTyped
      BY DEF RowsInv
    <2>2. PICK add \in SUBSET Rows :
            /\ seen'[q] = seen[q] \cup add /\ late'[q] = late[q] \cup add
            /\ \A r \in Rows \ add : Contents(File(q)')[r] = Contents(File(q))[r]
      BY <1>1, <2>0, <2>1, WriteElsewhere
    <2>3. \A r \in Rows \ add : Held(q)'[r] = Held(q)[r]
      BY <2>2 DEF Held
    <2> QED BY <2>2, <2>3, Untouched DEF RowsInv
  <1>2. CASE ~Working(q)
    BY <1>2, AtRest DEF Working, Resting, Active
  <1> QED BY <1>1, <1>2

LEMMA StepOthers ==
  ASSUME RowsInv, NEW p \in Procs, NEW q \in Procs \ {p}, Begin(p) \/ LockStep(p) \/ Fail(p)
  PROVE  Book(q)'
  <1> USE DEF Keep, local, Goto
  <1>1. WS(p) \in Workspaces /\ RowsTyped
    BY JobFacts DEF RowsInv
  <1>2. CASE Begin(p)
    BY <1>1, <1>2, Stays DEF Begin, RowsTyped
  <1>3. CASE EnsureFiles(p)
    BY <1>1, <1>3, Stays DEF EnsureFiles, RowsTyped
  <1>4. CASE Create(p)
    <2>1. WriteFile(p, WS(p), Empty) /\ Empty \in [Rows -> Row]
      BY <1>4, RowFacts DEF Create
    <2>2. /\ pc'[q] = pc[q] /\ job'[q] = job[q] /\ todo'[q] = todo[q] /\ pins'[q] = pins[q]
          /\ buf'[q] = buf[q] /\ UNCHANGED want
      BY <1>1, <1>4 DEF Create, RowsTyped
    <2> QED BY <1>1, <2>1, <2>2, Notes
  <1>5. CASE Load(p)
    BY <1>1, <1>5, Stays DEF Load, RowsTyped
  <1>6. CASE LoadTools(p)
    BY <1>1, <1>6, Stays DEF LoadTools, RowsTyped
  <1>7. CASE Resolve(p)
    BY <1>1, <1>7, Stays DEF Resolve, RowsTyped
  <1>8. CASE UpdateLoad(p)
    BY <1>1, <1>8, Stays DEF UpdateLoad, RowsTyped
  <1>9. CASE UpdateWrite(p)
    <2>1. PICK batch \in Batches(p) :
            /\ \E new \in Upserts(buf[p], Only(p, batch)) :
                 IF Reported(p, batch)
                   THEN WriteFile(p, WS(p), new)
                   ELSE /\ seen' = [seen EXCEPT ![p] = IF job[p].kind = "run" THEN late[p] ELSE @]
                        /\ late' = [late EXCEPT ![p] = {}]
                        /\ UNCHANGED lock
      BY <1>9 DEF UpdateWrite
    <2>2. PICK new \in Upserts(buf[p], Only(p, batch)) :
            IF Reported(p, batch)
              THEN WriteFile(p, WS(p), new)
              ELSE /\ seen' = [seen EXCEPT ![p] = IF job[p].kind = "run" THEN late[p] ELSE @]
                   /\ late' = [late EXCEPT ![p] = {}]
                   /\ UNCHANGED lock
      BY <2>1
    <2>3. new \in [Rows -> Row]
      <3>1. buf[p] \in [Rows -> Row] /\ Only(p, batch) \in [Items -> Row]
        BY <1>1, BatchFacts DEF RowsTyped
      <3> QED BY <3>1, UpsertFacts
    <2>4. /\ pc'[q] = pc[q] /\ job'[q] = job[q] /\ todo'[q] = todo[q] /\ pins'[q] = pins[q]
          /\ buf'[q] = buf[q] /\ UNCHANGED want
      BY <1>1, <1>9 DEF UpdateWrite, RowsTyped
    <2>5. CASE Reported(p, batch)
      BY <1>1, <2>2, <2>3, <2>4, <2>5, Notes
    <2>6. CASE ~Reported(p, batch)
      BY <1>1, <2>2, <2>4, <2>6, Stays DEF RowsTyped
    <2> QED BY <2>5, <2>6
  <1>10. CASE Install(p)
    BY <1>1, <1>10, Stays DEF Install, RowsTyped
  <1>11. CASE Fail(p)
    BY <1>1, <1>11, Stays DEF Fail, RowsTyped
  <1> QED BY <1>2, <1>3, <1>4, <1>5, <1>6, <1>7, <1>8, <1>9, <1>10, <1>11 DEF LockStep

-----------------------------------------------------------------------------
(***************************************************************************)
(* What a step does to the books of the command that takes it.             *)
(***************************************************************************)
LEMMA SimpleOwn ==
  ASSUME RowsInv, NEW p \in Procs, Begin(p) \/ EnsureFiles(p) \/ Create(p) \/ Install(p) \/ Fail(p)
  PROVE  Book(p)'
  <1>1. RowsTyped
    BY DEF RowsInv
  <1>2. CASE EnsureFiles(p) /\ File(p) = NoFile
    <2>1. pc'[p] = "create" /\ late'[p] = {} /\ Held(p)' = Held(p)
      BY <1>1, <1>2 DEF EnsureFiles, Goto, Keep, local, RowsTyped, Held, File, WS
    <2>2. \A r \in Rows : Held(p)[r] = None
      BY <1>2, RowFacts DEF Held
    <2> QED BY <2>1, <2>2 DEF Book, Fresh, Running, Sources, Phases, Active
  <1>3. CASE ~(EnsureFiles(p) /\ File(p) = NoFile)
    <2>1. pc'[p] \in {"ensure", "load", "done", "failed"}
      BY <1>1, <1>3 DEF Begin, EnsureFiles, Create, Install, Fail, Goto, RowsTyped
    <2> QED BY <2>1, AtRest DEF Active
  <1> QED BY <1>2, <1>3

LEMMA LoadOwn ==
  ASSUME RowsInv, NEW p \in Procs, Load(p)
  PROVE  Book(p)'
  <1> DEFINE known == Known(p, Held(p))
             t == {i \in Concerns(p) : known[i] = None}
  <1>1. /\ pins'[p] = known /\ todo'[p] = t /\ seen'[p] = {} /\ pc'[p] = "resolve"
        /\ UNCHANGED <<lock, want, job>> /\ Held(p)' = Held(p)
    BY DEF Load, Goto, Keep, RowsInv, RowsTyped, Held, File, WS
  <1>2. Held(p) \in [Rows -> Row] /\ job[p].kind \in {"run", "refresh", "lock"}
        /\ (job[p].kind = "run" => job[p].tool \in Tools)
    BY JobFacts DEF RowsInv, Held
  <1>3. Fresh(p)'
    BY <1>1 DEF Fresh
  <1>4. \A i \in Items : i \in t <=> i \in Concerns(p) /\ known[i] = None
    OBVIOUS
  <1>5. \A i \in Items : known[i] =
          CASE job[p].kind = "run" /\ i = job[p].tool -> Held(p)[i]
            [] job[p].kind = "refresh" /\ i \in Aliases /\ Reusable(i, Held(p)) -> Held(p)[RepoOf[i]]
            [] OTHER -> None
    BY DEF Known
  <1> HIDE DEF known, t
  <1>6. CASE job[p].kind = "run"
    <2>1. \A i \in Items : Meant(p, i)' <=> i = job[p].tool
      BY <1>1, <1>2, <1>4, <1>5, <1>6, RowOfItem DEF Meant, Concerns
    <2>2. known[job[p].tool] = Held(p)[job[p].tool]
      BY <1>2, <1>5, <1>6, RowOfItem
    <2> QED BY <1>1, <1>3, <1>6, <2>1, <2>2 DEF Book, Running, Sources, Phases
  <1>7. CASE job[p].kind # "run"
    <2>1. \A i \in Tools : ~Meant(p, i)'
      BY <1>1, <1>4, <1>5, <1>7, RowOfItem DEF Meant, Concerns
    <2>2. \A a \in Aliases :
            IF job[p].kind = "refresh" /\ Reusable(a, Held(p)) THEN known[a] = Held(p)[RepoOf[a]]
                                                            ELSE known[a] = None
      BY <1>5, <1>7, RowOfItem
    <2>3. \A a \in Aliases : Meant(p, a)'
      BY <1>1, <1>4, <1>7, RowOfItem DEF Meant, Concerns
    <2>4. ASSUME NEW a \in Aliases PROVE known[a] # None => Matches(want[a], known[a])
      BY <2>2 DEF Reusable
    <2>5. ASSUME NEW a \in Aliases, job[p].kind = "refresh"
          PROVE  known[a] = Held(p)[RepoOf[a]] \/ ~Reusable(a, Held(p))
      BY <2>2, <2>5
    <2>6. \A a \in Aliases : (Reusable(a, Held(p))' <=> Reusable(a, Held(p)))
                          /\ (Matches(want[a], pins[p][a])' <=> Matches(want[a], known[a]))
      BY <1>1 DEF Reusable, Matches
    <2>7. Sources(p)'
      BY <1>1, <2>1, <2>4, <2>5, <2>6 DEF Sources, Matches
    <2>8. ~OnTools(p)'
      BY <1>1, <2>1 DEF OnTools
    <2>9. Phases(p)'
      BY <1>1, <2>3, <2>8 DEF Phases
    <2> QED BY <1>1, <1>3, <1>7, <2>7, <2>9 DEF Book, Running
  <1> QED BY <1>6, <1>7

LEMMA LoadToolsOwn ==
  ASSUME RowsInv, NEW p \in Procs, LoadTools(p)
  PROVE  Book(p)'
  <1> DEFINE needs == NeedsWork(Held(p))
  <1>1. /\ pc[p] = "tools" /\ todo'[p] = needs /\ pins'[p] = NoPins
        /\ pc'[p] = IF needs = {} THEN "done" ELSE "resolve"
        /\ UNCHANGED <<want, job, seen>> /\ Held(p)' = Held(p)
    BY DEF LoadTools, Goto, Keep, RowsInv, RowsTyped, Held, File, WS
  <1>2. CASE needs = {}
    BY <1>1, <1>2, AtRest DEF Active
  <1>3. CASE needs # {}
    <2>1. needs \subseteq Tools /\ \A t \in Tools : t \in needs <=> Held(p)[t] = None
      BY DEF NeedsWork
    <2> HIDE DEF needs
    <2>2. \A i \in Items : Meant(p, i)' <=> i \in needs
      BY <1>1, RowFacts DEF Meant
    <2>3. Fresh(p)'
      BY <1>1, <1>3, <2>1, RowFacts, RowOfItem DEF Fresh
    <2>4. job[p].kind = "refresh"
      BY <1>1 DEF RowsInv, Book, Fresh
    <2>5. \A a \in Aliases : pins'[p][a] = None /\ ~Meant(p, a)'
      BY <1>1, <2>1, <2>2, RowFacts, RowOfItem
    <2>6. OnTools(p) /\ OnTools(p)'
      BY <1>1, <1>3, <2>1, <2>2, RowOfItem DEF OnTools
    <2>7. Sources(p)'
      BY <1>1, <2>1, <2>2, <2>4, <2>5, RowOfItem DEF Sources
    <2>8. \A a \in Aliases : RepoOf[a] \in seen[p] \/ Wanted(a, Held(p)[RepoOf[a]])
      BY <1>1, <2>4, <2>6 DEF RowsInv, Book, Phases
    <2>9. \A a \in Aliases : Wanted(a, Held(p)[RepoOf[a]])' <=> Wanted(a, Held(p)[RepoOf[a]])
      BY <1>1 DEF Wanted, Matches
    <2>10. Phases(p)'
      BY <1>1, <1>3, <2>1, <2>2, <2>5, <2>6, <2>8, <2>9, RowOfItem DEF Phases
    <2> QED BY <1>1, <2>3, <2>4, <2>7, <2>10 DEF Book, Running
  <1> QED BY <1>2, <1>3

LEMMA ResolveOwn ==
  ASSUME RowsInv, NEW p \in Procs, Resolve(p)
  PROVE  Book(p)'
  <1>1. PICK found \in [todo[p] -> UNION {Answers(i) : i \in todo[p]}] :
           /\ \A i \in todo[p] : found[i] \in Answers(i)
           /\ pins' = [pins EXCEPT ![p] = [i \in Items |-> IF i \in todo[p] THEN found[i] ELSE @[i]]]
    BY DEF Resolve
  <1>2. /\ pc[p] = "resolve" /\ todo[p] # {} /\ todo'[p] = {} /\ todo[p] \subseteq Items
        /\ UNCHANGED <<want, job, pc, seen>> /\ Held(p)' = Held(p)
    BY DEF Resolve, Keep, RowsInv, RowsTyped, Held, File, WS
  <1>3. \A i \in Items : pins'[p][i] = IF i \in todo[p] THEN found[i] ELSE pins[p][i]
    BY <1>1 DEF RowsInv, RowsTyped
  <1>4. \A i \in todo[p] : found[i] # None /\ (i \in Aliases => Matches(want[i], found[i]))
    BY <1>1, <1>2, AnswerFacts, RowFacts DEF RowsInv
  <1>5. \A i \in todo[p] : pins[p][i] = None
    BY <1>2 DEF RowsInv, Book, Fresh
  <1>6. \A i \in Items : Meant(p, i)' <=> Meant(p, i)
    BY <1>2, <1>3, <1>4 DEF Meant
  <1>7. OnTools(p)' <=> OnTools(p)
    BY <1>2, <1>6, RowOfItem DEF OnTools
  <1>8. \A a \in Aliases : Matches(want[a], pins[p][a])' <=> Matches(want[a], pins'[p][a])
    BY <1>2 DEF Matches
  <1>9. \A a \in Aliases : /\ Wanted(a, Held(p)[RepoOf[a]])' <=> Wanted(a, Held(p)[RepoOf[a]])
                           /\ Reusable(a, Held(p))' <=> Reusable(a, Held(p))
    BY <1>2 DEF Wanted, Matches, Reusable
  <1>10. Fresh(p)'
    BY <1>2 DEF Fresh
  <1>11. Running(p)'
    <2> SUFFICES ASSUME job[p].kind = "run" PROVE Running(p)'
      BY <1>2 DEF Running
    <2>1. job[p].tool \in Items
      BY JobFacts, RowOfItem DEF RowsInv
    <2>2. \A i \in Items : Meant(p, i) <=> i = job[p].tool
      BY <1>2 DEF RowsInv, Book, Running
    <2>3. job[p].tool \in todo[p]
      BY <1>2, <2>2 DEF Meant
    <2>4. job[p].tool \in seen[p] \/ Held(p)[job[p].tool] = None
      BY <1>2, <1>5, <2>3 DEF RowsInv, Book, Running
    <2> QED BY <1>2, <1>6, <2>1, <2>2, <2>4 DEF Running
  <1>12. Sources(p)'
    <2> SUFFICES ASSUME job[p].kind # "run" PROVE Sources(p)'
      BY <1>2 DEF Sources
    <2>1. Sources(p) /\ pc[p] \in Active
      BY <1>2 DEF RowsInv, Book, Active
    <2>2. ASSUME NEW a \in Aliases
          PROVE  /\ pins'[p][a] # None => Matches(want[a], pins'[p][a])
                 /\ (Meant(p, a) /\ job[p].kind = "refresh" /\ RepoOf[a] \notin seen[p])
                      => pins'[p][a] = Held(p)[RepoOf[a]] \/ ~Reusable(a, Held(p))
      <3>1. CASE a \in todo[p]
        <4>1. pins'[p][a] = found[a] /\ pins[p][a] = None
          BY <1>2, <1>3, <1>5, <3>1
        <4>2. Reusable(a, Held(p)) => Held(p)[RepoOf[a]] # None
          BY DEF Reusable
        <4> QED BY <1>4, <2>1, <3>1, <4>1, <4>2 DEF Sources
      <3>2. CASE a \notin todo[p]
        <4>1. pins'[p][a] = pins[p][a]
          BY <1>3, <3>2, RowOfItem
        <4> QED BY <2>1, <4>1 DEF Sources
      <3> QED BY <3>1, <3>2
    <2>3. \A t \in Tools : Meant(p, t) => job[p].kind = "refresh" /\ (t \in seen[p] \/ Held(p)[t] = None)
      BY <2>1 DEF Sources
    <2> QED BY <1>2, <1>6, <1>8, <1>9, <2>2, <2>3, RowOfItem DEF Sources, Matches
  <1>13. Phases(p)'
    BY <1>2, <1>6, <1>7, <1>9, RowOfItem DEF RowsInv, Book, Phases
  <1> QED BY <1>10, <1>11, <1>12, <1>13 DEF Book

LEMMA UpdateLoadOwn ==
  ASSUME RowsInv, NEW p \in Procs, UpdateLoad(p)
  PROVE  Book(p)'
  <1>1. /\ pc[p] \in {"resolve", "update"} /\ todo[p] = {} /\ pc'[p] = "write"
        /\ buf'[p] = Held(p) /\ late'[p] = {}
        /\ UNCHANGED <<want, job, seen, pins, todo>> /\ Held(p)' = Held(p)
    BY DEF UpdateLoad, Goto, Keep, RowsInv, RowsTyped, Held, File, WS, Book, Fresh
  <1>2. \A i \in Items : Meant(p, i)' <=> Meant(p, i)
    BY <1>1 DEF Meant
  <1>3. OnTools(p)' <=> OnTools(p)
    BY <1>1, <1>2, RowOfItem DEF OnTools
  <1>4. \A a \in Aliases : /\ Wanted(a, Held(p)[RepoOf[a]])' <=> Wanted(a, Held(p)[RepoOf[a]])
                           /\ Reusable(a, Held(p))' <=> Reusable(a, Held(p))
                           /\ Matches(want[a], pins[p][a])' <=> Matches(want[a], pins[p][a])
    BY <1>1 DEF Wanted, Matches, Reusable
  <1>5. Fresh(p)'
    BY <1>1 DEF Fresh
  <1>6. Running(p)'
    <2>1. job[p].kind = "run" => job[p].tool \in Items
      BY JobFacts, RowOfItem DEF RowsInv
    <2> QED BY <1>1, <1>2, <2>1 DEF RowsInv, Book, Fresh, Running
  <1>7. Sources(p)'
    BY <1>1, <1>2, <1>4, RowOfItem DEF RowsInv, Book, Sources, Active
  <1>8. Phases(p)'
    BY <1>1, <1>2, <1>3, <1>4, RowOfItem DEF RowsInv, Book, Phases, Active
  <1> QED BY <1>5, <1>6, <1>7, <1>8 DEF Book

\* The write of updateSumFile: rows of the batch get its pins, the others stay
\* as they were loaded; what it did not write, nobody else has since.
LEMMA UpdateWriteFacts ==
  ASSUME RowsInv, NEW p \in Procs, UpdateWrite(p)
  PROVE  \E batch \in Batches(p), new \in [Rows -> Row] :
           /\ pc'[p] = After(p, batch)
           /\ \A r \in Rows : \/ new[r] = buf[p][r] /\ \A i \in batch : RowOf(i) # r
                              \/ \E i \in batch : RowOf(i) = r /\ new[r] = pins[p][i]
           /\ \A r \in Rows \ seen'[p] : Held(p)'[r] = new[r]
           /\ \A i \in Items : pins'[p][i] = IF job[p].kind # "run" /\ i \in batch THEN None
                                             ELSE pins[p][i]
           /\ lock' = lock \/ lock' = [lock EXCEPT ![WS(p)] = new]
           /\ job[p].kind # "run" => seen'[p] = seen[p]
  <1>1. PICK batch \in Batches(p) :
          /\ \E new \in Upserts(buf[p], Only(p, batch)) :
               IF Reported(p, batch)
                 THEN WriteFile(p, WS(p), new)
                 ELSE /\ seen' = [seen EXCEPT ![p] = IF job[p].kind = "run" THEN late[p] ELSE @]
                      /\ late' = [late EXCEPT ![p] = {}]
                      /\ UNCHANGED lock
          /\ pc' = [pc EXCEPT ![p] = After(p, batch)]
          /\ pins' = [pins EXCEPT ![p] =
                        IF job[p].kind = "run" THEN @
                        ELSE [i \in Items |-> IF i \in batch THEN None ELSE @[i]]]
    BY DEF UpdateWrite, Goto
  <1>2. PICK new \in Upserts(buf[p], Only(p, batch)) :
          IF Reported(p, batch)
            THEN WriteFile(p, WS(p), new)
            ELSE /\ seen' = [seen EXCEPT ![p] = IF job[p].kind = "run" THEN late[p] ELSE @]
                 /\ late' = [late EXCEPT ![p] = {}]
                 /\ UNCHANGED lock
    BY <1>1
  <1>3. RowsTyped /\ buf[p] \in [Rows -> Row] /\ WS(p) \in Workspaces /\ Only(p, batch) \in [Items -> Row]
    BY JobFacts, BatchFacts DEF RowsInv, RowsTyped
  <1>4. /\ batch \subseteq Items /\ \A i \in batch : pins[p][i] # None
        /\ \A i \in Items : Only(p, batch)[i] = IF i \in batch THEN pins[p][i] ELSE None
    BY <1>3, BatchFacts
  <1>5. /\ new \in [Rows -> Row]
        /\ \A r \in Rows : \/ new[r] = buf[p][r] /\ \A i \in Items : RowOf(i) = r => Only(p, batch)[i] = None
                           \/ \E i \in Items : RowOf(i) = r /\ Only(p, batch)[i] # None /\ new[r] = Only(p, batch)[i]
    BY <1>3, UpsertFacts
  <1>6. \A r \in Rows : \/ new[r] = buf[p][r] /\ \A i \in batch : RowOf(i) # r
                        \/ \E i \in batch : RowOf(i) = r /\ new[r] = pins[p][i]
    BY <1>4, <1>5
  <1>7. /\ pc'[p] = After(p, batch)
        /\ \A i \in Items : pins'[p][i] = IF job[p].kind # "run" /\ i \in batch THEN None
                                          ELSE pins[p][i]
    BY <1>1, <1>3 DEF RowsTyped
  <1>8. job' = job /\ late[p] \subseteq seen[p] /\ \A r \in Rows \ late[p] : Held(p)[r] = buf[p][r]
    BY DEF UpdateWrite, RowsInv, Book, Fresh
  <1>9. CASE Reported(p, batch)
    <2>1. lock' = [lock EXCEPT ![WS(p)] = new]
      BY <1>2, <1>9 DEF WriteFile
    <2>2. File(p)' = new
      BY <1>3, <1>8, <2>1 DEF File, WS, RowsTyped
    <2>3. Held(p)' = new
      BY <1>5, <2>2, RowFacts DEF Held
    <2>4. job[p].kind # "run" => seen'[p] = seen[p]
      <3>1. WriteFile(p, WS(p), new)
        BY <1>2, <1>9
      <3> QED BY <3>1, WriteOwnNotes
    <2>5. lock' = lock \/ lock' = [lock EXCEPT ![WS(p)] = new]
      BY <2>1
    <2>6. \A r \in Rows \ seen'[p] : Held(p)'[r] = new[r]
      BY <2>3
    <2>7. new \in [Rows -> Row]
      BY <1>5
    <2> USE <2>7
    <2> WITNESS batch \in Batches(p), new \in [Rows -> Row]
    <2> QED BY <1>6, <1>7, <2>4, <2>5, <2>6
  <1>10. CASE ~Reported(p, batch)
    <2>0. \A r \in Rows : new[r] = buf[p][r]
      BY <1>4, <1>6, <1>10 DEF Reported
    <2>1. lock' = lock /\ seen'[p] = IF job[p].kind = "run" THEN late[p] ELSE seen[p]
      BY <1>2, <1>3, <1>10 DEF RowsTyped
    <2>2. Held(p)' = Held(p)
      BY <1>8, <2>1 DEF Held, File, WS
    <2>3. \A r \in Rows \ seen'[p] : Held(p)'[r] = new[r]
      BY <1>8, <2>0, <2>1, <2>2
    <2> QED BY <1>5, <1>6, <1>7, <2>1, <2>3
  <1> QED BY <1>9, <1>10

LEMMA UpdateWriteOwn ==
  ASSUME RowsInv, NEW p \in Procs, UpdateWrite(p)
  PROVE  Book(p)'
  <1>1. PICK batch \in Batches(p), new \in [Rows -> Row] :
           /\ pc'[p] = After(p, batch)
           /\ \A r \in Rows : \/ new[r] = buf[p][r] /\ \A i \in batch : RowOf(i) # r
                              \/ \E i \in batch : RowOf(i) = r /\ new[r] = pins[p][i]
           /\ \A r \in Rows \ seen'[p] : Held(p)'[r] = new[r]
           /\ \A i \in Items : pins'[p][i] = IF job[p].kind # "run" /\ i \in batch THEN None
                                             ELSE pins[p][i]
           /\ job[p].kind # "run" => seen'[p] = seen[p]
    BY UpdateWriteFacts
  <1>2. /\ pc[p] = "write" /\ todo[p] = {} /\ late[p] \subseteq seen[p]
        /\ \A r \in Rows \ late[p] : Held(p)[r] = buf[p][r]
        /\ UNCHANGED <<want, job, todo>> /\ Book(p) /\ RowsTyped
    BY DEF UpdateWrite, RowsInv, Book, Fresh
  <1>3. /\ batch \subseteq Items /\ \A i \in batch : pins[p][i] # None
        /\ \/ batch = {i \in Items : pins[p][i] # None} /\ \A t \in Tools : pins[p][t] = None
           \/ \E t \in Tools : pins[p][t] # None /\ batch = {t}
    BY <1>2, BatchFacts
  <1>4. \A i \in Items : Meant(p, i) <=> pins[p][i] # None
    BY <1>2 DEF Meant
  <1>5. \A i \in Items : Meant(p, i)' <=> pins'[p][i] # None
    BY <1>2 DEF Meant
  <1>6. /\ job[p].kind \in {"run", "refresh", "lock"}
        /\ job[p].kind = "run" => job[p].tool \in Tools
    BY <1>2, JobFacts
  <1>7. CASE job[p].kind = "run"
    <2>1. pc'[p] = "install"
      BY <1>1, <1>7 DEF After
    <2>2. job[p].tool \in Tools /\ \A i \in Items : pins[p][i] # None <=> i = job[p].tool
      BY <1>2, <1>4, <1>6, <1>7 DEF Book, Running
    <2>3. batch = {job[p].tool}
      BY <1>3, <2>2, RowOfItem
    <2>4. new[job[p].tool] = pins[p][job[p].tool] /\ pins'[p][job[p].tool] = pins[p][job[p].tool]
      BY <1>1, <1>7, <2>2, <2>3, RowOfItem
    <2>5. job[p].tool \in seen'[p] \/ Held(p)'[job[p].tool] = pins'[p][job[p].tool]
      BY <1>1, <2>2, <2>4, RowOfItem
    <2>6. \A i \in Items : Meant(p, i)' <=> i = job[p].tool
      BY <1>1, <1>5, <1>7, <2>2
    <2> QED BY <1>2, <1>7, <2>1, <2>5, <2>6 DEF Book, Fresh, Running, Sources, Phases
  <1>8. CASE job[p].kind = "lock"
    BY <1>1, <1>8, AtRest DEF After, Active
  <1>9. CASE job[p].kind = "refresh" /\ batch \subseteq Aliases
    <2>1. batch = {i \in Items : pins[p][i] # None} /\ \A t \in Tools : pins[p][t] = None
      BY <1>3, <1>9, RowOfItem
    <2>2. pc'[p] = "tools" /\ seen'[p] = seen[p]
      <3>1. {i \in Items : pins[p][i] # None} \cap Tools = {}
        BY <2>1
      <3>2. Batches(p) = {batch}
        BY <2>1, <3>1 DEF Batches
      <3> QED BY <1>1, <1>9, <3>2 DEF After
    <2>3. ~OnTools(p)
      BY <1>2, <1>4, <2>1, RowOfItem DEF OnTools
    <2>4. \A a \in Aliases : a \in batch
      BY <1>2, <1>4, <1>9, <2>1, <2>3, RowOfItem DEF Book, Phases, Active
    <2>5. ASSUME NEW a \in Aliases, RepoOf[a] \notin seen[p]
          PROVE  Wanted(a, Held(p)[RepoOf[a]])'
      <3>1. Held(p)'[RepoOf[a]] = new[RepoOf[a]]
        BY <1>1, <2>2, <2>5, RowOfItem
      <3>2. PICK i \in batch : RowOf(i) = RepoOf[a] /\ new[RepoOf[a]] = pins[p][i]
        BY <1>1, <2>4, RowOfItem
      <3>3. i \in Aliases /\ RepoOf[i] = RepoOf[a] /\ pins[p][i] # None
        BY <1>3, <1>9, <3>2, RowOfItem
      <3>4. Matches(want[i], pins[p][i])
        BY <1>2, <1>9, <3>3 DEF Book, Sources, Active
      <3> QED BY <1>2, <3>1, <3>2, <3>3, <3>4 DEF Wanted, Matches
    <2> QED BY <1>2, <1>9, <2>2, <2>5 DEF Book, Fresh, Running, Sources, Phases, Active
  <1>10. CASE job[p].kind = "refresh" /\ ~(batch \subseteq Aliases)
    <2>1. PICK t \in Tools : pins[p][t] # None /\ batch = {t}
      BY <1>3, <1>10, RowOfItem DEF Items
    <2>2. OnTools(p) /\ seen'[p] = seen[p]
      BY <1>1, <1>4, <1>10, <2>1, RowOfItem DEF OnTools
    <2>3. CASE Batches(p) = {batch}
      <3>1. pc'[p] = "done"
        BY <1>1, <1>10, <2>3 DEF After
      <3> QED BY <3>1, AtRest DEF Active
    <2>4. CASE Batches(p) # {batch}
      <3>1. pc'[p] = "update"
        BY <1>1, <1>10, <2>4 DEF After
      <3>2. PICK u \in Tools : pins[p][u] # None /\ u # t
        <4>1. t \in {i \in Items : pins[p][i] # None} \cap Tools
          BY <2>1, RowOfItem
        <4>2. Batches(p) = {{e} : e \in {k \in Items : pins[p][k] # None} \cap Tools}
          BY <4>1 DEF Batches
        <4> QED BY <2>1, <2>4, <4>1, <4>2
      <3>3. OnTools(p)'
        BY <1>1, <1>5, <2>1, <3>2, RowOfItem DEF OnTools
      <3>4. \A a \in Aliases : ~Meant(p, a) /\ ~Meant(p, a)' /\ pins'[p][a] = None
        BY <1>1, <1>2, <1>4, <1>5, <1>10, <2>1, <2>2, RowOfItem DEF Book, Phases, Active
      <3>5. \A r \in Rows \ seen[p] : r # t => Held(p)'[r] = Held(p)[r]
        BY <1>1, <1>2, <2>1, <2>2, RowOfItem
      <3>6. t \notin seen[p] => Held(p)'[t] # None
        BY <1>1, <2>1, <2>2, RowOfItem
      <3>7. Fresh(p)'
        BY <1>2, <1>10, <3>1 DEF Fresh
      <3>8. Sources(p)'
        <4>1. ASSUME NEW e \in Tools, Meant(p, e)' PROVE e \in seen[p] \/ Held(p)'[e] = None
          <5>1. e # t /\ Meant(p, e)
            BY <1>1, <1>4, <1>5, <1>10, <2>1, <4>1, RowOfItem
          <5>2. e \in seen[p] \/ Held(p)[e] = None
            BY <1>2, <1>10, <5>1 DEF Book, Sources, Active
          <5> QED BY <3>5, <5>1, <5>2, RowOfItem
        <4> QED BY <1>2, <1>10, <2>2, <3>4, <4>1 DEF Sources
      <3>9. Phases(p)'
        <4>1. ASSUME NEW a \in Aliases, RepoOf[a] \notin seen[p]
              PROVE  Wanted(a, Held(p)[RepoOf[a]])'
          <5>1. Wanted(a, Held(p)[RepoOf[a]])
            BY <1>2, <1>10, <2>2, <4>1 DEF Book, Phases, Active
          <5>2. Held(p)'[RepoOf[a]] = Held(p)[RepoOf[a]]
            BY <3>5, <4>1, RowOfItem
          <5> QED BY <1>2, <5>1, <5>2 DEF Wanted, Matches
        <4>2. ASSUME NEW e \in Tools PROVE e \in seen[p] \/ Held(p)'[e] # None \/ Meant(p, e)'
          <5>1. CASE e = t
            BY <3>6, <5>1
          <5>2. CASE e # t
            <6>1. e \in seen[p] \/ Held(p)[e] # None \/ Meant(p, e)
              BY <1>2, <1>10, <2>2 DEF Book, Phases, Active
            <6>2. Meant(p, e) => Meant(p, e)'
              BY <1>1, <1>4, <1>5, <2>1, <5>2, RowOfItem
            <6> QED BY <3>5, <5>2, <6>1, <6>2, RowOfItem
          <5> QED BY <5>1, <5>2
        <4> QED BY <2>2, <3>1, <3>3, <3>4, <4>1, <4>2 DEF Phases
      <3> QED BY <1>2, <1>10, <3>7, <3>8, <3>9 DEF Book, Running
    <2> QED BY <2>3, <2>4
  <1> QED BY <1>6, <1>7, <1>8, <1>9, <1>10

-----------------------------------------------------------------------------
LEMMA RowsInit == Init => RowsInv
  <1> SUFFICES ASSUME Init PROVE RowsInv
    OBVIOUS
  <1>1. PICK s \in Scenarios : LockInit(s.files, s.config, s.jobs)
    BY DEF Init
  <1>2. /\ s.files \in [Workspaces -> {NoFile} \cup [Rows -> Row]]
        /\ s.config \in [Aliases -> Wants] /\ s.jobs \in [Procs -> Jobs]
    BY ScenarioAssumption DEF Row
  <1>3. 1 \in 1 .. MaxVersion
    BY LockAssumption
  <1>4. RowsTyped
    BY <1>1, <1>2, <1>3, RowFacts DEF LockInit, RowsTyped, Places, Resting
  <1>5. ASSUME NEW p \in Procs PROVE Book(p)
    <2>1. pc[p] = "idle"
      BY <1>1 DEF LockInit
    <2> QED BY <2>1 DEF Book, Fresh, Running, Sources, Phases, Active
  <1> QED BY <1>4, <1>5 DEF RowsInv

\* What the daemon, its clients and their connections do leaves the lock alone,
\* but that commands start, end and die with them.
LEMMA LockNext ==
  ASSUME [Next]_vars, SameNames
  PROVE  \/ UNCHANGED lockVars \/ Publish \/ \E ps : Killed(ps)
         \/ \E p \in Procs : Begin(p) \/ LockStep(p) \/ Fail(p)
  BY DEF Next, vars, Progress, Connect, StartRemote, StartLocal, Advance, EndRemote, EndLocal,
     Reader, Pumped, Returned, Restarted, Write, Fails, Interrupted, Stopped, Environment

LEMMA RowsNext == RowsInv /\ [Next]_vars => RowsInv'
  <1> SUFFICES ASSUME RowsInv, [Next]_vars PROVE RowsInv'
    OBVIOUS
  <1>1. CASE UNCHANGED lockVars
    <2>1. RowsTyped'
      BY <1>1 DEF lockVars, RowsInv, RowsTyped
    <2>2. ASSUME NEW p \in Procs PROVE Book(p)'
      BY <1>1, Stays DEF lockVars
    <2> QED BY <2>1, <2>2 DEF RowsInv
  <1>2. CASE Publish
    <2>1. RowsTyped'
      BY <1>2, LockAssumption DEF Publish, local, RowsInv, RowsTyped
    <2>2. ASSUME NEW p \in Procs PROVE Book(p)'
      BY <1>2, Stays DEF Publish, local
    <2> QED BY <2>1, <2>2 DEF RowsInv
  <1>3. ASSUME NEW ps, Killed(ps) PROVE RowsInv'
    <2>1. RowsTyped'
      BY <1>3 DEF Killed, Keep, local, RowsInv, RowsTyped, Places, Resting
    <2>2. ASSUME NEW p \in Procs PROVE Book(p)'
      <3>1. CASE pc'[p] = pc[p]
        BY <1>3, <3>1, Stays DEF Killed, Keep, local
      <3>2. CASE pc'[p] # pc[p]
        <4>1. pc'[p] = "killed"
          BY <1>3, <3>2 DEF Killed
        <4> QED BY <4>1, AtRest DEF Active
      <3> QED BY <3>1, <3>2
    <2> QED BY <2>1, <2>2 DEF RowsInv
  <1>4. ASSUME NEW p \in Procs, Begin(p) \/ LockStep(p) \/ Fail(p) PROVE RowsInv'
    <2>1. RowsTyped'
      BY <1>4, StepTyped DEF RowsInv
    <2>2. Book(p)'
      BY <1>4, SimpleOwn, LoadOwn, LoadToolsOwn, ResolveOwn, UpdateLoadOwn, UpdateWriteOwn
         DEF LockStep
    <2>3. \A q \in Procs \ {p} : Book(q)'
      BY <1>4, StepOthers
    <2> QED BY <2>1, <2>2, <2>3 DEF RowsInv
  <1> QED BY <1>1, <1>2, <1>3, <1>4, LockNext, SameNames

LEMMA Inductive == Spec => []RowsInv
  BY RowsInit, RowsNext, PTL DEF Spec

(***************************************************************************)
(* What is run is what is pinned (resolveLazyToolInWorkspace): a command   *)
(* that is about to install a version has it in the lock of its workspace, *)
(* unless another command wrote that row after it.                         *)
(***************************************************************************)
THEOREM WhatRunsIsPinned == Spec => []RunsPinned
  <1>1. RowsInv => RunsPinned
    BY DEF RowsInv, Book, Fresh, Running, RunsPinned, Held
  <1> QED BY <1>1, Inductive, PTL

-----------------------------------------------------------------------------
(***************************************************************************)
(* A pin stays.  Only a command that creates or writes the file changes a  *)
(* row, and the write of updateSumFile changes one it found pinned, and    *)
(* nobody touched since, only for `mod lock` or another configuration.     *)
(***************************************************************************)
LEMMA WriteKeepsPins ==
  ASSUME RowsInv, NEW p \in Procs, UpdateWrite(p), NEW w \in Workspaces, NEW r \in Rows
  PROVE  PinStays(w, r)
  <1>1. PICK batch \in Batches(p), new \in [Rows -> Row] :
           /\ pc'[p] = After(p, batch)
           /\ \A e \in Rows : \/ new[e] = buf[p][e] /\ \A i \in batch : RowOf(i) # e
                              \/ \E i \in batch : RowOf(i) = e /\ new[e] = pins[p][i]
           /\ lock' = lock \/ lock' = [lock EXCEPT ![WS(p)] = new]
    BY UpdateWriteFacts
  <1>2. /\ pc[p] = "write" /\ todo[p] = {} /\ Book(p) /\ RowsTyped /\ pc'[p] # pc[p]
        /\ \A e \in Rows \ late[p] : Held(p)[e] = buf[p][e]
    BY <1>1 DEF UpdateWrite, RowsInv, Book, Fresh, After
  <1>3. batch \subseteq Items /\ \A i \in batch : pins[p][i] # None
    BY <1>2, BatchFacts
  <1> DEFINE old == Contents(lock[w])[r]
  <1> SUFFICES ASSUME old # None, Contents(lock'[w])[r] # old, r \notin late[p]
               PROVE  MayReplace(p, w, r)
    <2>1. (r \in late[p] /\ WS(p) = w) => MayReplace(p, w, r)
      BY <1>2 DEF MayReplace
    <2>2. (old # None /\ Contents(lock'[w])[r] # old) => WS(p) = w
      BY <1>1, <1>2 DEF RowsTyped
    <2> QED BY <2>1, <2>2 DEF PinStays
  <1>4. WS(p) = w /\ Contents(lock'[w]) = new /\ old = Held(p)[r]
    <2>1. lock' = [lock EXCEPT ![WS(p)] = new] /\ lock \in [Workspaces -> {NoFile} \cup [Rows -> Row]]
      BY <1>1, <1>2 DEF RowsTyped
    <2>2. WS(p) = w
      BY <2>1
    <2>3. lock'[w] = new /\ Contents(new) = new
      BY <2>1, <2>2, RowFacts
    <2> QED BY <2>2, <2>3 DEF Held, File
  <1>5. PICK i \in batch : RowOf(i) = r /\ new[r] = pins[p][i]
    BY <1>1, <1>2, <1>4
  <1>6. i \in Items /\ pins[p][i] # None /\ pins[p][i] # old /\ Meant(p, i)
    BY <1>3, <1>4, <1>5 DEF Meant
  <1>7. CASE r \in seen[p]
    BY <1>2, <1>4, <1>5, <1>6, <1>7 DEF MayReplace
  <1>8. CASE r \notin seen[p] /\ job[p].kind = "run"
    <2>1. i = job[p].tool /\ Held(p)[i] \in {None, pins[p][i]} /\ r = i
      <3>1. i = job[p].tool
        BY <1>2, <1>6, <1>8 DEF Book, Running
      <3>2. r = i
        BY <1>2, <1>5, <1>8, <3>1, JobFacts, RowOfItem
      <3> QED BY <1>2, <1>8, <3>1, <3>2 DEF Book, Running
    <2> QED BY <1>4, <1>6, <2>1
  <1>9. CASE r \notin seen[p] /\ job[p].kind # "run"
    <2>1. i \in Aliases
      <3>1. i \in Tools => r = i /\ Held(p)[i] = None
        BY <1>2, <1>5, <1>6, <1>9, RowOfItem DEF Book, Sources, Active
      <3> QED BY <1>4, <1>6, <3>1, RowOfItem
    <2>2. RepoOf[i] = r
      BY <1>5, <2>1, RowOfItem
    <2>3. job[p].kind = "refresh" => ~Reusable(i, Held(p))
      BY <1>2, <1>4, <1>6, <1>9, <2>1, <2>2 DEF Book, Sources, Active
    <2>4. job[p].kind = "lock" \/ ~Matches(want[i], old)
      BY <1>2, <1>4, <1>9, <2>2, <2>3, JobFacts DEF Reusable
    <2> QED BY <1>2, <1>4, <1>9, <2>1, <2>2, <2>4 DEF MayReplace
  <1> QED BY <1>7, <1>8, <1>9

\* EnsureLockFile replaces a row only when it came into being meanwhile.
LEMMA CreateKeepsPins ==
  ASSUME RowsInv, NEW p \in Procs, Create(p), NEW w \in Workspaces, NEW r \in Rows
  PROVE  PinStays(w, r)
  <1>1. /\ pc[p] = "create" /\ pc'[p] = "load" /\ lock' = [lock EXCEPT ![WS(p)] = Empty]
        /\ \A e \in Rows \ late[p] : Held(p)[e] = None
    BY DEF Create, Goto, WriteFile, RowsInv, RowsTyped, Book, Fresh
  <1>2. WS(p) # w => lock'[w] = lock[w]
    BY <1>1 DEF RowsInv, RowsTyped
  <1>3. WS(p) = w => \A e \in Rows : Contents(lock[w])[e] # None => e \in late[p]
    BY <1>1 DEF Held, File
  <1> QED BY <1>1, <1>2, <1>3 DEF PinStays, MayReplace

LEMMA LockChanges ==
  ASSUME [Next]_vars, SameNames, lock' # lock
  PROVE  \E p \in Procs : Create(p) \/ UpdateWrite(p)
  BY LockNext DEF lockVars, Publish, Killed, Keep, Begin, LockStep, EnsureFiles, Load, LoadTools,
     Resolve, UpdateLoad, Install, Fail

(***************************************************************************)
(* A pin stays (updateSumFile, RefreshLazyToolLocks, GenerateLockWithConfig):*)
(* a row on disk changes only because a command wrote over what others had *)
(* written since it loaded or decided, or because `mod lock` or the        *)
(* configuration asks for another pin.                                     *)
(***************************************************************************)
THEOREM PinsAreKept == Spec => PinsStay
  <1>1. RowsInv /\ [Next]_vars => [\A w \in Workspaces, r \in Rows : PinStays(w, r)]_vars
    <2> SUFFICES ASSUME RowsInv, [Next]_vars, NEW w \in Workspaces, NEW r \in Rows
                 PROVE  PinStays(w, r)
      OBVIOUS
    <2>1. CASE lock' = lock
      BY <2>1 DEF PinStays
    <2>2. CASE lock' # lock
      BY <2>2, LockChanges, CreateKeepsPins, WriteKeepsPins, SameNames
    <2> QED BY <2>1, <2>2
  <1> QED BY <1>1, Inductive, PTL DEF Spec, PinsStay

-----------------------------------------------------------------------------
LEMMA EndsWithTools ==
  ASSUME RowsInv, NEW p \in Procs, LoadTools(p)
  PROVE  LeavesPins(p)
  <1>1. /\ pc[p] = "tools" /\ Book(p) /\ RowsTyped /\ UNCHANGED <<lock, seen>>
        /\ pc'[p] = "done" => \A t \in Tools : Held(p)[t] # None
    BY DEF LoadTools, NeedsWork, Goto, Keep, RowsInv, RowsTyped, Held
  <1> SUFFICES ASSUME job[p].kind = "refresh", pc'[p] = "done", NEW i \in Items,
                      RowOf(i) \notin seen[p]
               PROVE  /\ Held(p)[RowOf(i)] # None
                      /\ i \in Aliases => \E a \in Aliases : RepoOf[a] = RepoOf[i]
                                                 /\ Matches(want[a], Held(p)[RowOf(i)])
    BY <1>1 DEF LeavesPins, Held, File
  <1>2. CASE i \in Tools
    BY <1>1, <1>2, RowOfItem
  <1>3. CASE i \in Aliases
    BY <1>1, <1>3, RowOfItem DEF Book, Phases, OnTools, Wanted
  <1> QED BY <1>2, <1>3, RowOfItem

LEMMA EndsWithWrite ==
  ASSUME RowsInv, NEW p \in Procs, UpdateWrite(p)
  PROVE  LeavesPins(p)
  <1>1. PICK batch \in Batches(p), new \in [Rows -> Row] :
           /\ pc'[p] = After(p, batch)
           /\ \A r \in Rows : \/ new[r] = buf[p][r] /\ \A i \in batch : RowOf(i) # r
                              \/ \E i \in batch : RowOf(i) = r /\ new[r] = pins[p][i]
           /\ \A r \in Rows \ seen'[p] : Held(p)'[r] = new[r]
           /\ job[p].kind # "run" => seen'[p] = seen[p]
    BY UpdateWriteFacts
  <1>2. /\ pc[p] = "write" /\ todo[p] = {} /\ late[p] \subseteq seen[p] /\ job' = job
        /\ \A r \in Rows \ late[p] : Held(p)[r] = buf[p][r]
        /\ Book(p) /\ RowsTyped
    BY DEF UpdateWrite, RowsInv, Book, Fresh
  <1> SUFFICES ASSUME job[p].kind = "refresh", pc'[p] = "done", NEW i \in Items,
                      RowOf(i) \notin seen[p]
               PROVE  /\ Held(p)'[RowOf(i)] # None
                      /\ i \in Aliases => \E a \in Aliases : RepoOf[a] = RepoOf[i]
                                                 /\ Matches(want[a], Held(p)'[RowOf(i)])
    BY <1>1, <1>2 DEF LeavesPins, Held, File, WS
  <1>3. ~(batch \subseteq Aliases) /\ Batches(p) = {batch}
    BY <1>1 DEF After
  <1>4. PICK t \in Tools : pins[p][t] # None /\ batch = {t}
    BY <1>2, <1>3, BatchFacts, RowOfItem DEF Items
  <1>5. \A e \in Tools : pins[p][e] # None => e = t
    <2>1. t \in {e \in Items : pins[p][e] # None} \cap Tools
      BY <1>4, RowOfItem
    <2>2. Batches(p) = {{e} : e \in {k \in Items : pins[p][k] # None} \cap Tools}
      BY <2>1 DEF Batches
    <2> SUFFICES ASSUME NEW e \in Tools, pins[p][e] # None PROVE e = t
      OBVIOUS
    <2>3. {e} \in Batches(p)
      BY <2>2, RowOfItem
    <2> QED BY <1>3, <1>4, <2>3
  <1>6. OnTools(p)
    BY <1>4, RowOfItem DEF OnTools, Meant
  <1>7. \A r \in Rows \ seen[p] : r # t => Held(p)'[r] = Held(p)[r]
    BY <1>1, <1>2, <1>4, RowOfItem
  <1>8. CASE i = t
    BY <1>1, <1>4, <1>8, RowOfItem
  <1>9. CASE i \in Tools /\ i # t
    <2>1. ~Meant(p, i)
      BY <1>2, <1>5, <1>9 DEF Meant
    <2> QED BY <1>2, <1>6, <1>7, <1>9, <2>1, RowOfItem DEF Book, Phases, Active
  <1>10. CASE i \in Aliases
    BY <1>2, <1>6, <1>7, <1>10, RowOfItem DEF Book, Phases, Active, Wanted
  <1> QED BY <1>8, <1>9, <1>10, RowOfItem

\* The other steps do not end a refresh.
LEMMA RefreshEnds ==
  ASSUME RowsInv, [Next]_vars, SameNames, NEW p \in Procs
  PROVE  LoadTools(p) \/ UpdateWrite(p) \/ LeavesPins(p)
  <1> SUFFICES ASSUME job[p].kind = "refresh", pc'[p] = "done", pc[p] # "done"
               PROVE  LoadTools(p) \/ UpdateWrite(p)
    BY DEF LeavesPins
  <1>1. PICK q \in Procs : Begin(q) \/ LockStep(q) \/ Fail(q)
    <2>1. ~UNCHANGED lockVars
      BY DEF lockVars
    <2>2. ~Publish /\ ~\E ps : Killed(ps)
      BY DEF Publish, Killed
    <2> QED BY <2>1, <2>2, LockNext
  <1>2. CASE q # p
    BY <1>1, <1>2 DEF RowsInv, RowsTyped, Begin, LockStep, EnsureFiles, Create, Load, LoadTools, Resolve,
       UpdateLoad, UpdateWrite, Install, Fail, Goto
  <1>3. CASE q = p
    <2>1. pc[p] = "install" => job[p].kind = "run"
      BY DEF RowsInv, Book, Fresh
    <2> QED BY <1>1, <1>3, <2>1 DEF RowsInv, RowsTyped, Begin, LockStep, EnsureFiles, Create, Load, Resolve,
          UpdateLoad, Install, Fail, Goto
  <1> QED BY <1>2, <1>3

(***************************************************************************)
(* A refresh that ends well leaves a row for every tool and every source,  *)
(* as the configuration asks, except for rows that others wrote meanwhile  *)
(* (RefreshWorkspaceLocks).                                                *)
(***************************************************************************)
THEOREM RefreshLeavesPins == Spec => RefreshPins
  <1>1. RowsInv /\ [Next]_vars => [\A p \in Procs : LeavesPins(p)]_vars
    BY EndsWithTools, EndsWithWrite, RefreshEnds, SameNames
  <1> QED BY <1>1, Inductive, PTL DEF Spec, RefreshPins
=============================================================================
