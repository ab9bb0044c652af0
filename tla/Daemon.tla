------------------------------- MODULE Daemon -------------------------------
(***************************************************************************)
(* The modot daemon (cmd/modot/daemon/daemon.go) and its clients           *)
(* (cmd/modot/utils/root.go, TryRemoteRaw).  Each connection has three     *)
(* goroutines: the handler waits for the end, the reader takes a request   *)
(* and runs its command, the pump moves packets from a bounded channel to  *)
(* the socket.  The daemon must not run a command when the binary on disk  *)
(* is not the one it runs: it says DAEMON_RESTARTING, raises a flag, and a *)
(* handler that returns executes the new binary.                           *)
(*                                                                         *)
(* What a command does is left open: Commands.tla starts one with Serve or *)
(* RunLocally and ends it with Finish or LocalEnds.                        *)
(***************************************************************************)
EXTENDS Naturals, Sequences

CONSTANTS
    Clients,      \* each sends one command
    ChanCap,      \* capacity of a connection's output channel (1000)
    MaxOutput,    \* bound on the output packets of one command
    MaxBinary     \* bound on replacements of the binary on disk

ASSUME DaemonAssumption ==
    /\ ChanCap \in Nat \ {0} /\ MaxOutput \in Nat /\ MaxBinary \in Nat

VARIABLES
    client,   \* [Clients -> where TryRemoteRaw is]
    conn,     \* [Clients -> the daemon's end of the connection]
    daemon,   \* the daemon process: up, the binary it runs, restart flag
    disk      \* the binary on disk: its modification time and hash

daemonVars == <<client, conn, daemon, disk>>

Binaries == 0 .. MaxBinary
Packets == {"text", "ok", "error", "restarting"}
NoConn == [reader |-> "off", hash |-> 0, out |-> <<>>, pump |-> "off",
           ctx |-> "none", left |-> 0]

DaemonTypeOK ==
    /\ client \in [Clients -> {"start", "wait", "local", "ok", "failed", "gone"}]
    /\ conn \in [Clients ->
          [reader : {"off", "request", "hash", "serve", "read", "ended"},
           hash : Binaries, out : Seq(Packets), pump : {"off", "run", "ended"},
           ctx : {"none", "live", "cancelled", "returned"}, left : 0 .. MaxOutput]]
    /\ \A c \in Clients : Len(conn[c].out) <= ChanCap
    /\ daemon \in [up : BOOLEAN, bin : Binaries, restart : BOOLEAN]
    /\ disk \in Binaries

Serving(c) == conn[c].reader = "serve"
Room(c) == Len(conn[c].out) < ChanCap
Send(c, packet) == Append(conn[c].out, packet)
Cancelled(c) == IF conn[c].ctx = "live" THEN "cancelled" ELSE conn[c].ctx
Say(c, s) == client' = [client EXCEPT ![c] = s]

----------------------------------------------------------------------------
(* The client. *)

\* The socket answers; the client hashes its own binary and sends the request.
Dial(c) ==
    /\ client[c] = "start" /\ daemon.up
    /\ Say(c, "wait")
    /\ conn' = [conn EXCEPT ![c] =
          [reader |-> "request", hash |-> disk, out |-> <<>>, pump |-> "run",
           ctx |-> "live", left |-> MaxOutput]]
    /\ UNCHANGED <<daemon, disk>>

\* No daemon: the command runs in the client's process.
DialFails(c) ==
    /\ client[c] = "start" /\ ~daemon.up
    /\ Say(c, "local")
    /\ UNCHANGED <<conn, daemon, disk>>

\* The user interrupts the client: its end of the socket closes.
Interrupt(c) ==
    /\ client[c] \in {"wait", "local"}
    /\ Say(c, "gone")
    /\ UNCHANGED <<conn, daemon, disk>>

\* The command that ran in the client's process is over.
LocalEnds(c, good) ==
    /\ client[c] = "local"
    /\ Say(c, IF good THEN "ok" ELSE "failed")
    /\ UNCHANGED <<conn, daemon, disk>>

\* What TryRemoteRaw makes of a packet: output is printed, a result ends it.
Understood(packet) ==
    CASE packet = "text" -> "wait"
      [] packet = "ok" -> "ok"
      [] packet = "error" -> "failed"
      [] packet = "restarting" -> "local"

\* Mistake: a client that loses its connection runs the command itself.
RetriedClients(gone) ==
    [c \in Clients |-> IF c \in gone /\ client[c] = "wait" THEN "local" ELSE client[c]]

\* The connection ends before the result: an error, never a second try.
LostClients(gone) ==
    [c \in Clients |-> IF c \in gone /\ client[c] = "wait" THEN "failed" ELSE client[c]]

----------------------------------------------------------------------------
(* The connection in the daemon. *)

\* Mistake: the flag is raised, and the client is not told.
RefuseSilently(c) ==
    /\ daemon' = [daemon EXCEPT !.restart = TRUE]
    /\ conn' = [conn EXCEPT ![c].reader = "read"]
    /\ UNCHANGED <<client, disk>>

\* Raise the flag and answer DAEMON_RESTARTING; the reader goes on reading.
Refuse(c) ==
    /\ Room(c)
    /\ daemon' = [daemon EXCEPT !.restart = TRUE]
    /\ conn' = [conn EXCEPT ![c].reader = "read", ![c].out = Send(c, "restarting")]
    /\ UNCHANGED <<client, disk>>

\* handleRequest, first check: the modification time of the binary.
CheckTime(c) ==
    /\ conn[c].reader = "request"
    /\ IF disk # daemon.bin
         THEN Refuse(c)
         ELSE /\ conn' = [conn EXCEPT ![c].reader = "hash"]
              /\ UNCHANGED <<client, daemon, disk>>

\* Second check: the hash of the binary on disk against the client's.
CheckHash(c) ==
    /\ conn[c].reader = "hash" /\ disk # conn[c].hash
    /\ Refuse(c)

\* Both hold: the command starts.
Serve(c) ==
    /\ conn[c].reader = "hash" /\ disk = conn[c].hash
    /\ conn' = [conn EXCEPT ![c].reader = "serve"]
    /\ UNCHANGED <<client, daemon, disk>>

\* StreamPacketWriter.Write, blocking while the channel is full.
Output(c) ==
    /\ Serving(c) /\ Room(c) /\ conn[c].left > 0
    /\ conn' = [conn EXCEPT ![c].out = Send(c, "text"), ![c].left = @ - 1]
    /\ UNCHANGED <<client, daemon, disk>>

\* Mistake: the error of the command is not put into the response.
AlwaysOk(c, good) ==
    /\ Serving(c) /\ Room(c)
    /\ conn' = [conn EXCEPT ![c].reader = "read", ![c].out = Send(c, "ok")]
    /\ UNCHANGED <<client, daemon, disk>>

\* Mistake: the result does not wait for room in the channel.
FinishAtOnce(c, good) ==
    /\ Serving(c)
    /\ conn' = [conn EXCEPT ![c].reader = "read",
                            ![c].out = Send(c, IF good THEN "ok" ELSE "error")]
    /\ UNCHANGED <<client, daemon, disk>>

\* The command is over: its result goes the same way as its output.
Finish(c, good) ==
    /\ Serving(c) /\ Room(c)
    /\ conn' = [conn EXCEPT ![c].reader = "read",
                            ![c].out = Send(c, IF good THEN "ok" ELSE "error")]
    /\ UNCHANGED <<client, daemon, disk>>

\* ReadJSON fails when the client has closed: the reader cancels and ends.
ReadEnds(c) ==
    /\ conn[c].reader = "read" /\ client[c] # "wait"
    /\ conn' = [conn EXCEPT ![c].reader = "ended", ![c].ctx = Cancelled(c)]
    /\ UNCHANGED <<client, daemon, disk>>

\* WriteJSON: the packet reaches the client, or the write fails, which ends
\* the pump and cancels.
Pump(c) ==
    /\ conn[c].pump = "run" /\ conn[c].out # <<>>
    /\ \/ /\ client[c] = "wait"
          /\ Say(c, Understood(Head(conn[c].out)))
          /\ conn' = [conn EXCEPT ![c].out = Tail(@)]
       \/ /\ client[c] # "wait"
          /\ conn' = [conn EXCEPT ![c].out = Tail(@), ![c].pump = "ended",
                                  ![c].ctx = Cancelled(c)]
          /\ UNCHANGED client
    /\ UNCHANGED <<daemon, disk>>

\* The handler has waited for the context and for the pump.
Over(c) == conn[c].ctx = "cancelled" /\ conn[c].pump = "ended"

\* It returns and the connection is closed. A command that still writes to
\* the full channel stays blocked.
Return(c) ==
    /\ Over(c) /\ ~daemon.restart
    /\ conn' = [conn EXCEPT ![c].ctx = "returned"]
    /\ client' = LostClients({c})
    /\ UNCHANGED <<daemon, disk>>

\* It executes the binary on disk: every connection and goroutine is gone.
Exec(c) ==
    /\ Over(c) /\ daemon.restart
    /\ daemon' = [up |-> TRUE, bin |-> disk, restart |-> FALSE]
    /\ conn' = [d \in Clients |-> NoConn]
    /\ client' = LostClients(Clients)
    /\ UNCHANGED disk

----------------------------------------------------------------------------
(* The daemon and the binary. *)

\* The tray cancels (Exit, or Apply after the binary changed): the process
\* ends.
Exit ==
    /\ daemon.up
    /\ daemon' = [daemon EXCEPT !.up = FALSE, !.restart = FALSE]
    /\ conn' = [d \in Clients |-> NoConn]
    /\ client' = LostClients(Clients)
    /\ UNCHANGED disk

\* `modot daemon`: the modification time is taken at the start.
StartDaemon ==
    /\ ~daemon.up
    /\ daemon' = [up |-> TRUE, bin |-> disk, restart |-> FALSE]
    /\ UNCHANGED <<client, conn, disk>>

\* An update renames a new binary into place.
Replace ==
    /\ disk < MaxBinary
    /\ disk' = disk + 1
    /\ UNCHANGED <<client, conn, daemon>>

\* Clients in "start" ask the daemon, the others never do.
DaemonInit(clients) ==
    /\ client = clients
    /\ conn = [c \in Clients |-> NoConn]
    /\ daemon = [up |-> TRUE, bin |-> 0, restart |-> FALSE]
    /\ disk = 0

=============================================================================
