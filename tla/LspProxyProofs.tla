--------------------------- MODULE LspProxyProofs ---------------------------
(***************************************************************************)
(* A server process that runs is registered or being initialized, and none *)
(* is left after exit, an answer is to the request it is taken for, and an *)
(* edit reaches every server that has to hear of it: proofs for any        *)
(* servers, languages, documents and bindings, and any bounds.             *)
(***************************************************************************)
EXTENDS LspProxy, FiniteSetTheorems, SequenceTheorems, TLAPS

Fields == {"proc", "reading", "next", "pending", "chan", "inbox", "pipe", "full", "ready",
           "seen", "ask"}

\* Of a Backend only the names of its fields matter here.
IsBackend(b) == b = [x \in Fields |-> b[x]]
Shaped(f) == f = [s \in Servers |-> [x \in Fields |-> f[s][x]]]

\* What a step may do to processes: server s keeps its state or gets another.
Kept(s) == srv'[s].proc = srv[s].proc \/ srv'[s].proc # "up"

Typed ==
  /\ Shaped(srv)
  /\ todo \in Seq(Servers)
  /\ backends \subseteq Servers /\ IsFiniteSet(backends)

\* The server whose initialization is under way.
Starting(s) == pc \in {"init", "greet", "replay"} /\ todo # <<>> /\ s = Head(todo)

(***************************************************************************)
(* NoOrphans is not inductive: closeAll ends with whatever is registered   *)
(* still in its list, and a list is worked off from its head.              *)
(***************************************************************************)
Registered == \A s \in Servers : srv[s].proc = "up" => s \in backends \/ Starting(s)

Covered ==
  /\ pc \in {"init", "greet", "replay"} => todo # <<>>
  /\ pc = "close" => \A s \in backends : \E i \in DOMAIN todo : todo[i] = s
  /\ pc = "done" => backends = {}

IInv == Typed /\ Registered /\ Covered

LEMMA NoProcShape ==
  /\ IsBackend(NoProc) /\ NoProc.proc = "none"
  /\ IsBackend(Closed) /\ Closed.proc = "gone"
  BY DEF NoProc, Closed, Fields, IsBackend

\* A change of one Backend that keeps its fields keeps the shape of all.
LEMMA OneShaped ==
  ASSUME Shaped(srv), NEW s \in Servers, NEW b, IsBackend(b),
         srv' = [srv EXCEPT ![s] = b]
  PROVE  Shaped(srv') /\ \A t \in Servers : srv'[t] = IF t = s THEN b ELSE srv[t]
  BY DEF Shaped, IsBackend

LEMMA TypedShaped == Typed => Shaped(srv)
  BY DEF Typed

LEMMA InvShaped == IInv => Shaped(srv)
  BY TypedShaped DEF IInv

LEMMA TypedDomain == Typed => DOMAIN srv = Servers
  BY TypedShaped DEF Shaped

LEMMA InvDomain == IInv => DOMAIN srv = Servers
  BY TypedDomain DEF IInv

LEMMA ServerShaped == \A s \in Servers : Shaped(srv) => IsBackend(srv[s])
  BY DEF Shaped, IsBackend

\* A Backend that was started and asked to initialize.
Started == [NoProc EXCEPT !.proc = "up", !.reading = TRUE]
LEMMA StartedShape ==
  \A n : LET b == Sent(Started, NoProc.next, n) IN IsBackend(b) /\ b.seen = <<>>
  <1> SUFFICES ASSUME NEW n
               PROVE  LET b == Sent(Started, NoProc.next, n)
                      IN  IsBackend(b) /\ b.seen = <<>>
    OBVIOUS
  <1>1. IsBackend(Started) /\ Started.seen = <<>>
    BY DEF Started, NoProc, Fields, IsBackend
  <1> HIDE DEF Started
  <1> DEFINE id == NoProc.next
  <1> HIDE DEF id
  <1>2. IsBackend(Sent(Started, id, n))
          /\ Sent(Started, id, n).seen = Started.seen
    BY <1>1 DEF Sent, Fields, IsBackend
  <1> QED BY <1>1, <1>2 DEF id

\* The operations of a Backend keep its fields, and its process.
LEMMA BackendShape ==
  ASSUME NEW b, IsBackend(b), NEW id, NEW n, NEW note
  PROVE  /\ IsBackend(Sent(b, id, n))
         /\ Sent(b, id, n).proc = b.proc
         /\ IsBackend(GiveUp(b))
         /\ GiveUp(b).proc = b.proc
         /\ IsBackend(FailPending(b))
         /\ FailPending(b).proc = b.proc
         /\ IsBackend(Notified(b, note))
         /\ Notified(b, note).proc = b.proc
  BY DEF Sent, GiveUp, FailPending, Notified, Fields, IsBackend

\* A step of a goroutine or of a server starts no process.
LEMMA Beside ==
  ASSUME IInv, Shaped(srv'), \A s \in Servers : srv'[s].proc = "up" => srv[s].proc = "up",
         UNCHANGED <<pc, todo, backends>>
  PROVE  IInv'
  <1>1. Typed'
    BY DEF IInv, Typed
  <1>2. Registered'
    BY DEF IInv, Registered, Starting
  <1>3. Covered'
    BY DEF IInv, Covered
  <1> QED BY <1>1, <1>2, <1>3 DEF IInv

\* A step of the loop that touches no server.
LEMMA Elsewhere ==
  ASSUME IInv, UNCHANGED <<srv, backends>>, todo' \in Seq(Servers),
         pc \notin {"init", "greet", "replay"}, pc' \notin {"init", "greet", "replay", "close", "done"}
  PROVE  IInv'
  <1>1. Typed'
    BY DEF IInv, Typed
  <1>2. Registered'
    BY DEF IInv, Registered, Starting
  <1> QED BY <1>1, <1>2 DEF IInv, Covered

LEMMA InitInv == Init => IInv
  <1> SUFFICES ASSUME Init PROVE IInv
    OBVIOUS
  <1>1. srv = [s \in Servers |-> NoProc] /\ backends = {} /\ todo = <<>> /\ pc = "read"
    BY DEF Init
  <1>2. Shaped(srv)
    BY <1>1, NoProcShape DEF Shaped, IsBackend
  <1>3. \A s \in Servers : srv[s].proc # "up"
    BY <1>1, NoProcShape
  <1>4. IsFiniteSet(backends)
    BY <1>1, FS_EmptySet
  <1> QED BY <1>1, <1>2, <1>3, <1>4 DEF IInv, Typed, Registered, Covered

\* The order in which a finite set is visited leaves out none of it.
LEMMA OrdersCover ==
  ASSUME NEW S, IsFiniteSet(S), NEW o \in Orders(S)
  PROVE  o \in Seq(S) /\ \A x \in S : \E i \in DOMAIN o : o[i] = x
  <1> DEFINE n == Cardinality(S)
  <1>1. n \in Nat
    BY FS_CardinalityType
  <1>2. o \in [1..n -> S] /\ \A i, j \in 1..n : o[i] = o[j] => i = j
    BY DEF Orders
  <1>3. o \in Injection(1..n, S)
    BY <1>2 DEF Injection, IsInjective
  <1>4. IsFiniteSet(1..n) /\ Cardinality(1..n) = n
    BY <1>1, FS_Interval
  <1>5. o \in Surjection(1..n, S)
    BY <1>3, <1>4, FS_Injection
  <1> QED BY <1>1, <1>2, <1>5 DEF Surjection

-----------------------------------------------------------------------------
(***************************************************************************)
(* The loop reads a message.                                               *)
(***************************************************************************)
LEMMA Resolved == \A d : ResolveLanguage(d) # None /\ d \in Docs => ResolveLanguage(d) \in Languages
  BY LspAssumption DEF ResolveLanguage

LEMMA EnsureStarts ==
  ASSUME NEW l, l # None => l \in Languages, Ensure(l), todo \in Seq(Servers)
  PROVE  todo' \in Seq(Servers) /\ pc' \in {"route", "start"}
  BY LspAssumption DEF Ensure

LEMMA EditorInv == IInv /\ Editor => IInv'
  <1> SUFFICES ASSUME IInv, Editor PROVE IInv'
    OBVIOUS
  <1>1. pc = "read" /\ todo \in Seq(Servers) /\ Shaped(srv)
    BY DEF Editor, ReadInitialize, ReadOpen, ReadChange, ReadClose, ReadNotify, ReadRequest,
           ReadShutdown, ReadBroken, Read, IInv, Typed
  <1>2. CASE ReadInitialize
    BY <1>1, <1>2, Beside DEF ReadInitialize
  <1>3. ASSUME NEW d \in Docs, ReadOpen(d) PROVE IInv'
    <2>1. CASE ResolveLanguage(d) = None
      BY <1>1, <1>3, <2>1, Beside DEF ReadOpen
    <2>2. CASE ResolveLanguage(d) # None
      <3>1. Ensure(ResolveLanguage(d)) /\ UNCHANGED <<srv, backends>>
        BY <1>3, <2>2 DEF ReadOpen
      <3>2. todo' \in Seq(Servers) /\ pc' \in {"route", "start"}
        BY <1>1, <3>1, Resolved, EnsureStarts
      <3> QED BY <1>1, <3>1, <3>2, Elsewhere
    <2> QED BY <2>1, <2>2
  <1>4. ASSUME NEW d \in Docs, ReadChange(d) \/ ReadClose(d) PROVE IInv'
    <2>1. UNCHANGED <<pc, srv, todo, backends>>
      BY <1>4 DEF ReadChange, ReadClose
    <2> QED BY <1>1, <2>1, Beside
  <1>5. ASSUME NEW d, ReadNotify(d) PROVE IInv'
    <2>1. UNCHANGED <<pc, srv, todo, backends>>
      BY <1>5 DEF ReadNotify, LoopVars
    <2> QED BY <1>1, <2>1, Beside
  <1>6. ASSUME NEW d \in Docs \cup {None}, NEW c, ReadRequest(d, c) PROVE IInv'
    <2>1. Ensure(ResolveLanguage(d)) /\ UNCHANGED <<srv, backends>>
      BY <1>6 DEF ReadRequest
    <2>2. ResolveLanguage(d) # None => ResolveLanguage(d) \in Languages
      BY Resolved DEF ResolveLanguage
    <2>3. todo' \in Seq(Servers) /\ pc' \in {"route", "start"}
      BY <1>1, <2>1, <2>2, EnsureStarts
    <2> QED BY <1>1, <2>1, <2>3, Elsewhere
  <1>7. ASSUME NEW kind, ReadShutdown(kind) PROVE IInv'
    <2>1. pc' = "close" /\ todo' \in Orders(backends) /\ UNCHANGED <<srv, backends>>
      BY <1>7 DEF ReadShutdown
    <2>2. todo' \in Seq(backends) /\ \A s \in backends : \E i \in DOMAIN todo' : todo'[i] = s
      BY <2>1, OrdersCover DEF IInv, Typed
    <2>3. todo' \in Seq(Servers)
      BY <2>2 DEF IInv, Typed
    <2>4. Typed' /\ Covered'
      BY <2>1, <2>2, <2>3 DEF IInv, Typed, Covered
    <2>5. Registered'
      BY <1>1, <2>1 DEF IInv, Registered, Starting
    <2> QED BY <2>4, <2>5 DEF IInv
  <1>8. CASE ReadBroken
    <2>1. pc' = "failed" /\ UNCHANGED <<srv, backends, todo>>
      BY <1>8 DEF ReadBroken, LoopVars
    <2> QED BY <1>1, <2>1, Elsewhere
  <1> QED BY <1>2, <1>3, <1>4, <1>5, <1>6, <1>7, <1>8 DEF Editor

-----------------------------------------------------------------------------
(***************************************************************************)
(* ensureLanguage.                                                         *)
(***************************************************************************)
LEMMA StartServerInv ==
  ASSUME IInv, StartServer
  PROVE  IInv'
  <1> DEFINE s == Head(todo)
             b == Sent([NoProc EXCEPT !.proc = "up", !.reading = TRUE], NoProc.next, cur.n)
  <1>1. /\ pc = "start" /\ todo # <<>> /\ pc' = "init" /\ srv' = [srv EXCEPT ![s] = b]
        /\ UNCHANGED <<backends, todo>>
    BY DEF StartServer
  <1>2. s \in Servers
    BY <1>1 DEF IInv, Typed
  <1>3. IsBackend(b)
    BY StartedShape DEF Started
  <1> HIDE DEF b
  <1>4. Shaped(srv') /\ \A t \in Servers : srv'[t] = IF t = s THEN b ELSE srv[t]
    BY <1>1, <1>2, <1>3, OneShaped, InvShaped
  <1>5. Registered'
    BY <1>1, <1>4 DEF IInv, Registered, Starting
  <1> QED BY <1>1, <1>4, <1>5 DEF IInv, Typed, Covered

LEMMA InitDoneInv ==
  ASSUME IInv, InitDone \/ Greet
  PROVE  IInv'
  <1> DEFINE s == Head(todo)
  <1>1. /\ pc \in {"init", "greet"} /\ pc' \in {"greet", "replay"}
        /\ UNCHANGED <<backends, todo>> /\ todo # <<>>
    BY DEF InitDone, Greet, IInv, Covered
  <1>2. s \in Servers
    BY <1>1 DEF IInv, Typed
  <1>3. IsBackend(srv[s])
    BY <1>2 DEF IInv, Typed, Shaped, IsBackend
  <1>4. PICK b : IsBackend(b) /\ b.proc = srv[s].proc /\ srv' = [srv EXCEPT ![s] = b]
    <2>1. CASE InitDone
      <3>1. srv' = [srv EXCEPT ![s] = [srv[s] EXCEPT !.chan = Empty]]
        BY <2>1 DEF InitDone
      <3>2. /\ IsBackend([srv[s] EXCEPT !.chan = Empty])
            /\ [srv[s] EXCEPT !.chan = Empty].proc = srv[s].proc
        BY <1>3 DEF Fields, IsBackend
      <3> QED BY <3>1, <3>2
    <2>2. CASE Greet
      <3>1. srv' = [srv EXCEPT ![s] = [srv[s] EXCEPT !.ready = TRUE]]
        BY <2>2 DEF Greet
      <3>2. /\ IsBackend([srv[s] EXCEPT !.ready = TRUE])
            /\ [srv[s] EXCEPT !.ready = TRUE].proc = srv[s].proc
        BY <1>3 DEF Fields, IsBackend
      <3> QED BY <3>1, <3>2
    <2> QED BY <2>1, <2>2
  <1>5. Shaped(srv') /\ \A t \in Servers : srv'[t] = IF t = s THEN b ELSE srv[t]
    BY <1>2, <1>4, OneShaped, InvShaped
  <1>6. Registered'
    BY <1>1, <1>4, <1>5 DEF IInv, Registered, Starting
  <1> QED BY <1>1, <1>5, <1>6 DEF IInv, Typed, Covered

LEMMA InitFailsInv ==
  ASSUME IInv, InitFails
  PROVE  IInv'
  <1> DEFINE s == Head(todo)
  <1>1. /\ pc \in {"init", "greet"} /\ srv' = [srv EXCEPT ![s] = Closed] /\ UNCHANGED backends
        /\ todo' = <<>> /\ pc' \in {"read", "route"} /\ todo # <<>>
    BY DEF InitFails, InitError, EnsureFails, IInv, Covered
  <1>2. s \in Servers
    BY <1>1 DEF IInv, Typed
  <1>3. Shaped(srv') /\ \A t \in Servers : srv'[t] = IF t = s THEN Closed ELSE srv[t]
    <2>1. srv' = [srv EXCEPT ![s] = Closed] /\ IsBackend(Closed) /\ Shaped(srv)
      BY <1>1, NoProcShape, InvShaped
    <2> HIDE DEF s
    <2> QED BY <1>2, <2>1, OneShaped
  <1>4. Registered'
    BY <1>1, <1>3, NoProcShape DEF IInv, Registered, Starting
  <1> QED BY <1>1, <1>3, <1>4 DEF IInv, Typed, Covered

LEMMA RegisterInv ==
  ASSUME IInv, Register
  PROVE  IInv'
  <1> DEFINE s == Head(todo)
  <1>1. /\ pc = "replay" /\ pc' = "start" /\ todo # <<>>
        /\ backends' = backends \cup {s} /\ todo' = Tail(todo)
    BY DEF Register, IInv, Covered
  <1>2. s \in Servers /\ Tail(todo) \in Seq(Servers)
    BY <1>1 DEF IInv, Typed
  <1>3. PICK notes : srv' = [srv EXCEPT ![s].seen = notes]
    BY Zenon DEF Register
  <1> DEFINE b == [srv[s] EXCEPT !.seen = notes]
  <1>4. IsBackend(srv[s])
    BY <1>2 DEF IInv, Typed, Shaped, IsBackend
  <1>5. IsBackend(b) /\ b.proc = srv[s].proc /\ srv' = [srv EXCEPT ![s] = b]
    BY <1>3, <1>4 DEF Fields, IsBackend
  <1> HIDE DEF b
  <1>6. Shaped(srv') /\ \A t \in Servers : srv'[t] = IF t = s THEN b ELSE srv[t]
    BY <1>2, <1>5, OneShaped, InvShaped
  <1>7. IsFiniteSet(backends')
    BY <1>1, FS_AddElement DEF IInv, Typed
  <1>8. Registered'
    BY <1>1, <1>5, <1>6 DEF IInv, Registered, Starting
  <1> QED BY <1>1, <1>2, <1>6, <1>7, <1>8 DEF IInv, Typed, Covered

-----------------------------------------------------------------------------
(***************************************************************************)
(* Requests: each asks a server that runs, or one that does not.           *)
(***************************************************************************)
LEMMA CallInv ==
  ASSUME IInv, NEW s \in Servers, Issue(s) \/ Receive(s) \/ Timeout(s)
  PROVE  IInv'
  <1>1. UNCHANGED <<pc, todo, backends>>
    BY DEF Issue, Receive, Timeout, Waiting
  <1>2. IsBackend(srv[s])
    BY DEF IInv, Typed, Shaped, IsBackend
  <1>3. PICK b : IsBackend(b) /\ b.proc = srv[s].proc /\ srv' = [srv EXCEPT ![s] = b]
    <2>1. CASE Issue(s)
      <3>1. CASE Writable(s)
        <4> DEFINE b == Sent(srv[s], FreshId(s), cur.n)
        <4>1. srv' = [srv EXCEPT ![s] = b]
          BY <2>1, <3>1 DEF Issue
        <4>2. IsBackend(b) /\ b.proc = srv[s].proc
          BY <1>2, BackendShape
        <4> HIDE DEF b
        <4> QED BY <4>1, <4>2
      <3>2. CASE ~Writable(s)
        <4>1. srv' = [srv EXCEPT ![s] = [srv[s] EXCEPT !.next = FreshId(s) + 1]]
          BY <2>1, <3>2 DEF Issue
        <4> QED BY <1>2, <4>1 DEF Fields, IsBackend
      <3> QED BY <3>1, <3>2
    <2>2. CASE Receive(s)
      BY <1>2, <2>2 DEF Receive, Fields, IsBackend
    <2>3. CASE Timeout(s)
      BY <1>2, <2>3, BackendShape DEF Timeout
    <2> QED BY <2>1, <2>2, <2>3
  <1>4. Shaped(srv') /\ \A t \in Servers : srv'[t] = IF t = s THEN b ELSE srv[t]
    BY <1>3, OneShaped, InvShaped
  <1> QED BY <1>1, <1>3, <1>4, Beside

-----------------------------------------------------------------------------
(***************************************************************************)
(* closeAll.                                                               *)
(***************************************************************************)
\* The server at the head of the list is killed and forgotten.
LEMMA DismissInv ==
  ASSUME IInv, pc = "close", todo # <<>>, UNCHANGED pc, Dismiss(Head(todo)),
         srv' = [srv EXCEPT ![Head(todo)] = Closed]
  PROVE  IInv'
  <1> DEFINE s == Head(todo)
  <1>1. s \in Servers /\ todo' = Tail(todo) /\ todo' \in Seq(Servers) /\ backends' = backends \ {s}
    BY DEF Dismiss, IInv, Typed
  <1>2. Shaped(srv') /\ \A t \in Servers : srv'[t] = IF t = s THEN Closed ELSE srv[t]
    <2>1. srv' = [srv EXCEPT ![s] = Closed] /\ Shaped(srv)
      BY DEF IInv, Typed
    <2> HIDE DEF s
    <2> QED BY <1>1, <2>1, NoProcShape, OneShaped
  <1>3. Typed'
    BY <1>1, <1>2, FS_RemoveElement DEF IInv, Typed
  <1>4. Registered'
    BY <1>1, <1>2, NoProcShape DEF IInv, Registered, Starting
  <1>5. Covered'
    <2> SUFFICES ASSUME NEW t \in backends' PROVE \E i \in DOMAIN todo' : todo'[i] = t
      BY DEF Covered
    <2>1. PICK i \in DOMAIN todo : todo[i] = t
      BY <1>1 DEF IInv, Covered
    <2>2. i # 1
      BY <1>1, <2>1 DEF IInv, Typed
    <2>3. i \in 2..Len(todo)
      BY <2>1, <2>2 DEF IInv, Typed
    <2>4. i - 1 \in DOMAIN todo' /\ todo'[i - 1] = t
      BY <1>1, <2>1, <2>3, HeadTailProperties DEF IInv, Typed
    <2> QED BY <2>4
  <1> QED BY <1>3, <1>4, <1>5 DEF IInv

LEMMA CloseInv ==
  ASSUME IInv, CloseSend \/ CloseNext \/ CloseDone
  PROVE  IInv'
  <1>1. CASE CloseSend
    <2> DEFINE s == Head(todo)
               b == Sent(srv[s], FreshId(s), cur.n)
    <2>1. pc = "close" /\ todo # <<>> /\ UNCHANGED pc
      BY <1>1 DEF CloseSend
    <2>2. CASE Writable(s)
      <3>1. s \in Servers
        BY <2>1 DEF IInv, Typed
      <3>2. IsBackend(b) /\ b.proc = srv[s].proc
        <4>1. IsBackend(srv[s])
          BY <3>1 DEF IInv, Typed, Shaped, IsBackend
        <4> QED BY <4>1, BackendShape
      <3>3. srv' = [srv EXCEPT ![s] = b] /\ UNCHANGED <<backends, todo>>
        BY <1>1, <2>2 DEF CloseSend
      <3> HIDE DEF b
      <3>4. Shaped(srv') /\ \A t \in Servers : srv'[t] = IF t = s THEN b ELSE srv[t]
        BY <3>1, <3>2, <3>3, OneShaped, InvShaped
      <3> QED BY <2>1, <3>2, <3>3, <3>4, Beside
    <2>3. CASE ~Writable(s)
      BY <1>1, <2>1, <2>3, DismissInv DEF CloseSend
    <2> QED BY <2>2, <2>3
  <1>2. CASE CloseNext
    BY <1>2, DismissInv DEF CloseNext
  <1>3. CASE CloseDone
    <2>1. /\ pc = "close" /\ todo = <<>> /\ pc' \in {"read", "done"}
          /\ UNCHANGED <<srv, backends, todo>>
      BY <1>3 DEF CloseDone
    <2>2. backends = {}
      BY <2>1 DEF IInv, Covered
    <2>3. Registered'
      BY <2>1 DEF IInv, Registered, Starting
    <2> QED BY <2>1, <2>2, <2>3 DEF IInv, Typed, Covered
  <1> QED BY <1>1, <1>2, <1>3

-----------------------------------------------------------------------------
(***************************************************************************)
(* Every other step of the loop.                                           *)
(***************************************************************************)
LEMMA LoopInv == IInv /\ Loop => IInv'
  <1> SUFFICES ASSUME IInv, Loop PROVE IInv'
    OBVIOUS
  <1>1. todo \in Seq(Servers)
    BY DEF IInv, Typed
  <1>2. CASE SkipServer
    <2>1. /\ pc = "start" /\ pc' = "start" /\ todo' = Tail(todo) /\ todo # <<>>
          /\ UNCHANGED <<srv, backends>>
      BY <1>2 DEF SkipServer
    <2> QED BY <1>1, <2>1, Elsewhere
  <1>3. CASE StartFails
    <2>1. /\ pc = "start" /\ pc' \in {"read", "route"} /\ todo' = <<>>
          /\ UNCHANGED <<srv, backends>>
      BY <1>3 DEF StartFails, EnsureFails
    <2> QED BY <2>1, Elsewhere
  <1>4. CASE EnsureDone
    BY <1>1, <1>4, Elsewhere DEF EnsureDone
  <1>5. CASE RouteOpen
    BY <1>1, <1>5, Elsewhere DEF RouteOpen, LoopVars
  <1>6. CASE RouteRequest
    <2>1. pc = "route" /\ pc' \in {"read", "call"} /\ UNCHANGED <<srv, backends, todo>>
      BY <1>6 DEF RouteRequest
    <2> QED BY <1>1, <2>1, Elsewhere
  <1>7. CASE Answer
    <2>1. pc = "call" /\ pc' = "read" /\ UNCHANGED <<srv, backends, todo>>
      BY <1>7 DEF Answer
    <2> QED BY <1>1, <2>1, Elsewhere
  <1> QED BY <1>2, <1>3, <1>4, <1>5, <1>6, <1>7, StartServerInv, InitDoneInv, InitFailsInv,
             RegisterInv, CallInv, CloseInv DEF Loop

-----------------------------------------------------------------------------
(***************************************************************************)
(* Goroutines and servers.                                                 *)
(***************************************************************************)
\* What goes on beside the loop and the notifications.
Aside(s) ==
  \/ ReadLoop(s) \/ Reap(s) \/ ReplyAsk(s)
  \/ SrvAnswer(s) \/ SrvEvent(s) \/ SrvResumes(s)

\* What a server answers is a change of its inbox and its pipe.
LEMMA AnswerSent ==
  ASSUME Shaped(srv), NEW s \in Servers, SrvAnswer(s)
  PROVE  \E r \in srv[s].inbox, k \in Outcomes :
           srv' = [srv EXCEPT ![s] = [srv[s] EXCEPT !.inbox = @ \ {r},
                     !.pipe = Append(@, [type |-> "answer", id |-> r.id, for |-> r.for, kind |-> k])]]
  <1>1. PICK r \in srv[s].inbox, k \in Outcomes :
          srv' = [srv EXCEPT ![s].inbox = @ \ {r},
                    ![s].pipe = Append(@, [type |-> "answer", id |-> r.id, for |-> r.for, kind |-> k])]
    BY Zenon DEF SrvAnswer
  <1> DEFINE m == [type |-> "answer", id |-> r.id, for |-> r.for, kind |-> k]
  <1>2. srv' = [srv EXCEPT ![s].inbox = @ \ {r}, ![s].pipe = Append(@, m)]
    BY <1>1
  <1> HIDE DEF m
  <1>3. s \in DOMAIN srv /\ "inbox" \in DOMAIN srv[s] /\ "pipe" \in DOMAIN srv[s]
    BY DEF Shaped, IsBackend, Fields
  <1>4. srv' = [srv EXCEPT ![s] = [srv[s] EXCEPT !.inbox = @ \ {r}, !.pipe = Append(@, m)]]
    BY <1>2, <1>3
  <1> QED BY <1>4 DEF m

\* A Backend whose process changes, if at all, to one that does not run.
LEMMA OneBeside ==
  ASSUME IInv, NEW s \in Servers, NEW b, IsBackend(b),
         b.proc = srv[s].proc \/ b.proc # "up", srv' = [srv EXCEPT ![s] = b],
         UNCHANGED <<pc, todo, backends>>
  PROVE  IInv'
  <1>1. Shaped(srv') /\ \A t \in Servers : srv'[t] = IF t = s THEN b ELSE srv[t]
    BY OneShaped, InvShaped
  <1> QED BY <1>1, Beside

LEMMA ServerInv ==
  ASSUME IInv, NEW s \in Servers, Aside(s)
  PROVE  IInv'
  <1>1. UNCHANGED <<pc, todo, backends>>
    BY DEF Aside, ReadLoop, Reap, ReplyAsk, SrvAnswer, SrvEvent, SrvResumes, Unaffected, Server
  <1>2. IsBackend(srv[s])
    BY DEF IInv, Typed, Shaped, IsBackend
  <1>3. CASE ReadLoop(s)
    <2> DEFINE m == Head(srv[s].pipe)
               r == [srv[s] EXCEPT !.pipe = Tail(@)]
    <2>1. IsBackend(r) /\ r.proc = srv[s].proc
      BY <1>2 DEF Fields, IsBackend
    <2> DEFINE b == CASE m.type = "answer" /\ m.id = r.pending ->
                           [r EXCEPT !.pending = 0, !.chan = [kind |-> m.kind, for |-> m.for]]
                      [] m.type = "answer" /\ m.id # r.pending -> r
                      [] m.type = "ask" -> [r EXCEPT !.ask = m.kind]
                      [] OTHER -> [FailPending(r) EXCEPT !.reading = FALSE]
    <2>2. srv' = [srv EXCEPT ![s] = b]
      BY <1>3 DEF ReadLoop
    <2> HIDE DEF r, m
    <2>3. /\ IsBackend(FailPending(r))
          /\ FailPending(r).proc = srv[s].proc
      BY <2>1, BackendShape
    <2>4. IsBackend(b) /\ b.proc = srv[s].proc
      <3>1. CASE m.type = "answer" /\ m.id = r.pending
        BY <2>1, <3>1 DEF Fields, IsBackend
      <3>2. CASE m.type = "answer" /\ m.id # r.pending
        BY <2>1, <3>2
      <3>3. CASE m.type = "ask"
        BY <2>1, <3>3 DEF Fields, IsBackend
      <3>4. CASE m.type \notin {"answer", "ask"}
        BY <2>3, <3>4 DEF Fields, IsBackend
      <3> QED BY <3>1, <3>2, <3>3, <3>4
    <2> HIDE DEF b
    <2> QED BY <1>1, <2>2, <2>4, OneBeside
  <1>4. CASE Reap(s)
    <2> DEFINE b == [NoProc EXCEPT !.proc = "gone", !.next = srv[s].next,
                                   !.chan = FailPending(srv[s]).chan]
    <2>1. srv' = [srv EXCEPT ![s] = b]
      BY <1>4 DEF Reap
    <2>2. IsBackend(b) /\ b.proc = "gone"
      BY NoProcShape DEF Fields, IsBackend
    <2> HIDE DEF b
    <2> QED BY <1>1, <2>1, <2>2, OneBeside
  <1>5. CASE ReplyAsk(s)
    <2>1. PICK a : srv' = [srv EXCEPT ![s] = [srv[s] EXCEPT !.ask = a]]
      BY <1>5 DEF ReplyAsk
    <2> DEFINE b == [srv[s] EXCEPT !.ask = a]
    <2>2. IsBackend(b) /\ b.proc = srv[s].proc
      BY <1>2 DEF Fields, IsBackend
    <2> HIDE DEF b
    <2> QED BY <1>1, <2>1, <2>2, OneBeside DEF b
  <1>6. CASE SrvAnswer(s)
    <2>1. PICK i, o : srv' = [srv EXCEPT ![s] = [srv[s] EXCEPT !.inbox = i, !.pipe = o]]
      BY <1>6, AnswerSent, InvShaped
    <2> DEFINE b == [srv[s] EXCEPT !.inbox = i, !.pipe = o]
    <2>2. IsBackend(b) /\ b.proc = srv[s].proc
      BY <1>2 DEF Fields, IsBackend
    <2> QED BY <1>1, <2>1, <2>2, OneBeside
  <1>7. CASE SrvEvent(s) \/ SrvResumes(s)
    <2>1. CASE srv' = [srv EXCEPT ![s].proc = "dead"]
      <3> DEFINE b == [srv[s] EXCEPT !.proc = "dead"]
      <3>1. IsBackend(b) /\ b.proc = "dead"
        BY <1>2 DEF Fields, IsBackend
      <3> QED BY <1>1, <2>1, <3>1, OneBeside
    <2>2. CASE \E f : srv' = [srv EXCEPT ![s].full = f]
      <3>1. PICK f : srv' = [srv EXCEPT ![s] = [srv[s] EXCEPT !.full = f]]
        BY <2>2
      <3> DEFINE b == [srv[s] EXCEPT !.full = f]
      <3>2. IsBackend(b) /\ b.proc = srv[s].proc
        BY <1>2 DEF Fields, IsBackend
      <3> QED BY <1>1, <3>1, <3>2, OneBeside
    <2>3. CASE \E m : Emit(s, m)
      <3>1. PICK o : srv' = [srv EXCEPT ![s] = [srv[s] EXCEPT !.pipe = o]]
        BY <2>3 DEF Emit
      <3> DEFINE b == [srv[s] EXCEPT !.pipe = o]
      <3>2. IsBackend(b) /\ b.proc = srv[s].proc
        BY <1>2 DEF Fields, IsBackend
      <3> QED BY <1>1, <3>1, <3>2, OneBeside
    <2> QED BY <1>7, <2>1, <2>2, <2>3 DEF SrvEvent, SrvResumes
  <1> QED BY <1>3, <1>4, <1>5, <1>6, <1>7 DEF Aside

LEMMA DeliverInv ==
  ASSUME IInv, NEW t \in tasks, Deliver(t)
  PROVE  IInv'
  <1>1. UNCHANGED <<pc, todo, backends>>
    BY DEF Deliver, Unaffected
  <1>2. PICK ready : srv' = [s \in Servers |-> IF s \in ready THEN Notified(srv[s], t.note) ELSE srv[s]]
    BY DEF Deliver
  <1>3. \A s \in Servers : IsBackend(srv'[s]) /\ srv'[s].proc = srv[s].proc
    <2> TAKE s \in Servers
    <2>1. IsBackend(srv[s])
      BY DEF IInv, Typed, Shaped, IsBackend
    <2>2. /\ IsBackend(Notified(srv[s], t.note))
          /\ Notified(srv[s], t.note).proc = srv[s].proc
      BY <2>1, BackendShape
    <2> QED BY <1>2, <2>1, <2>2
  <1>4. Shaped(srv')
    BY <1>2, <1>3 DEF Shaped, IsBackend
  <1> QED BY <1>1, <1>3, <1>4, Beside

LEMMA NextInv == IInv /\ [Next]_vars => IInv'
  <1> SUFFICES ASSUME IInv, [Next]_vars PROVE IInv'
    OBVIOUS
  <1>1. CASE UNCHANGED vars
    BY <1>1 DEF vars, IInv, Typed, Shaped, IsBackend, Registered, Starting, Covered
  <1> QED BY <1>1, EditorInv, LoopInv, ServerInv, DeliverInv DEF Next, Aside

-----------------------------------------------------------------------------
(***************************************************************************)
(* Answers.  The numbers of a Backend's requests are used once: whatever a *)
(* server still has to say carries a number below `next`, and what carries *)
(* the number of the pending request is about the message under way.       *)
(***************************************************************************)
Messages == [type : {"answer", "ask", "garbage"}, id : Nat, for : Nat,
             kind : AllOutcomes \cup AskMethods \cup {"none"}]

Valid(m, b) ==
  m.type = "answer" => /\ m.id \in Nat /\ 0 < m.id /\ m.id < b.next
                       /\ m.kind \in AllOutcomes /\ m.for \in Nat

Numbered(b) ==
  /\ b.next \in Nat /\ b.next > 0 /\ b.pending \in Nat
  /\ \A r \in b.inbox : r.id \in Nat /\ 0 < r.id /\ r.id < b.next /\ r.for \in Nat
  /\ b.pipe \in Seq(Messages) /\ \A i \in DOMAIN b.pipe : Valid(b.pipe[i], b)
  /\ b.chan = Empty \/ b.chan \in [kind : AllOutcomes, for : Nat]

\* All that may still answer the pending request of b is about message n.
About(b, n) ==
  /\ \A r \in b.inbox : r.id = b.pending => r.for = n
  /\ \A i \in DOMAIN b.pipe :
        b.pipe[i].type = "answer" /\ b.pipe[i].id = b.pending => b.pipe[i].for = n
  /\ b.chan.kind \in AllOutcomes \ {"error"} => b.chan.for = n

Numbers == \A s \in Servers : Numbered(srv[s])

CallRecord == [kind : AllOutcomes \cup {"idle", "issue", "wait"}, for : Nat]

Calls ==
  /\ call \in [Servers -> CallRecord]
  /\ pc = "call" => \A s \in Servers :
       /\ call[s].kind \in {"issue", "wait"} => call[s].for = 0
       /\ call[s].kind \in AllOutcomes \ {"error"} => call[s].for = cur.n
       /\ call[s].kind = "wait" => About(srv[s], cur.n)

Handling ==
  /\ cur.n \in Nat
  /\ pc \in {"start", "init", "greet", "replay", "route"} => cur.kind \in {"open", "request"}
  /\ pc = "call" => cur.kind = "request"
  /\ pc = "close" => cur.kind \in {"shutdown", "exit"}
  /\ pc = "failed" => cur.kind = "broken"
  /\ pc = "read" /\ cur.kind \in {"initialize", "request", "shutdown"} => reply.n = cur.n

AnswersInv == Numbers /\ Calls /\ Handling

\* The Backends of another moment are as good, and what is pending as before.
LEMMA KeepNumbers ==
  ASSUME Numbers, NEW s \in Servers, NEW b, Numbered(b),
         \A t \in Servers : srv'[t] = IF t = s THEN b ELSE srv[t]
  PROVE  Numbers'
  BY DEF Numbers, Numbered

\* The pending request is settled, by whatever the channel holds now.
LEMMA Settles ==
  ASSUME NEW b, NEW c, Numbered(b), c.next = b.next, c.inbox = b.inbox, c.pipe = b.pipe,
         c.pending = 0, c.chan = Empty \/ c.chan \in [kind : AllOutcomes, for : Nat]
  PROVE  /\ Numbered(c)
         /\ \A n : (c.chan.kind \in AllOutcomes \ {"error"} => c.chan.for = n) => About(c, n)
  <1>1. \A i \in DOMAIN c.pipe : Valid(c.pipe[i], c)
    BY DEF Numbered, Valid
  <1>2. Numbered(c)
    BY <1>1 DEF Numbered
  <1>3. \A r \in c.inbox : r.id # c.pending
    BY DEF Numbered
  <1>4. \A i \in DOMAIN c.pipe : c.pipe[i].type = "answer" => c.pipe[i].id # c.pending
    BY DEF Numbered, Valid
  <1> QED BY <1>2, <1>3, <1>4 DEF About

LEMMA BackendNumbers ==
  ASSUME NEW b, IsBackend(b), Numbered(b), NEW n \in Nat
  PROVE  /\ Numbered(Sent(b, b.next, n)) /\ About(Sent(b, b.next, n), n)
         /\ Numbered(GiveUp(b))
         /\ Numbered(FailPending(b)) /\ \A m \in Nat : About(b, m) => About(FailPending(b), m)
  <1> USE DEF Empty, AllOutcomes
  <1>0. /\ \A r \in b.inbox : r.id \in Nat /\ 0 < r.id /\ r.id < b.next /\ r.for \in Nat
        /\ \A i \in DOMAIN b.pipe : Valid(b.pipe[i], b)
    BY DEF Numbered
  <1>1. /\ b.next \in Nat /\ b.next > 0 /\ b.pending \in Nat
        /\ b.next + 1 \in Nat /\ b.next + 1 > 0 /\ \A i \in Nat : i < b.next => i < b.next + 1
    BY DEF Numbered
  <1>2. Numbered(Sent(b, b.next, n)) /\ About(Sent(b, b.next, n), n)
    <2> DEFINE c == Sent(b, b.next, n)
    <2>1. /\ c.next = b.next + 1 /\ c.pending = b.next /\ c.chan = Empty /\ c.pipe = b.pipe
          /\ c.inbox = b.inbox \cup {[id |-> b.next, for |-> n]}
      BY DEF Sent, Fields, IsBackend
    <2> HIDE DEF c
    <2>2. \A r \in c.inbox : r \in b.inbox \/ (r.id = b.next /\ r.for = n)
      BY <2>1
    <2>3. \A r \in c.inbox : r.id \in Nat /\ 0 < r.id /\ r.id < c.next /\ r.for \in Nat
      BY <1>0, <1>1, <2>1, <2>2
    <2>4. \A i \in DOMAIN c.pipe : Valid(c.pipe[i], c)
      BY <1>0, <1>1, <2>1 DEF Valid
    <2>5. Numbered(c)
      <3>1. c.chan = Empty
        BY <2>1
      <3>2. c.pipe \in Seq(Messages)
        BY <2>1 DEF Numbered
      <3>3. c.next \in Nat /\ c.next > 0 /\ c.pending \in Nat
        BY <1>1, <2>1
      <3> QED BY <2>3, <2>4, <3>1, <3>2, <3>3 DEF Numbered
    <2>6. \A r \in c.inbox : r.id = c.pending => r.for = n
      BY <1>0, <1>1, <2>1, <2>2
    <2>7. \A i \in DOMAIN c.pipe : c.pipe[i].type = "answer" => c.pipe[i].id # c.pending
      BY <1>0, <1>1, <2>1 DEF Valid
    <2>8. About(c, n)
      BY <2>1, <2>6, <2>7 DEF About
    <2> QED BY <2>5, <2>8 DEF c
  <1>3. Numbered(GiveUp(b))
    <2>1. /\ GiveUp(b).next = b.next /\ GiveUp(b).inbox = b.inbox /\ GiveUp(b).pipe = b.pipe
          /\ GiveUp(b).pending = 0 /\ GiveUp(b).chan = Empty
      BY DEF GiveUp, Fields, IsBackend
    <2> QED BY <2>1, Settles
  <1>4. CASE b.pending = 0
    BY <1>2, <1>3, <1>4 DEF FailPending
  <1>5. CASE b.pending # 0
    <2>1. /\ FailPending(b).next = b.next /\ FailPending(b).inbox = b.inbox
          /\ FailPending(b).pipe = b.pipe /\ FailPending(b).pending = 0
          /\ FailPending(b).chan = [kind |-> "error", for |-> 0]
      BY <1>5 DEF FailPending, Fields, IsBackend
    <2>2. FailPending(b).chan \in [kind : AllOutcomes, for : Nat] /\ FailPending(b).chan.kind = "error"
      BY <2>1
    <2> QED BY <1>2, <1>3, <2>1, <2>2, Settles
  <1> QED BY <1>4, <1>5

\* Only what carries numbers matters.
LEMMA SameTalk ==
  ASSUME NEW b, NEW c, c.next = b.next, c.pending = b.pending, c.inbox = b.inbox,
         c.pipe = b.pipe, c.chan = b.chan
  PROVE  (Numbered(b) => Numbered(c)) /\ \A n : About(b, n) => About(c, n)
  BY DEF Numbered, About, Valid

\* A channel that is emptied.
LEMMA EmptyTalk ==
  ASSUME NEW b, NEW c, c.next = b.next, c.pending = b.pending, c.inbox = b.inbox,
         c.pipe = b.pipe, c.chan = Empty, Numbered(b)
  PROVE  Numbered(c)
  BY DEF Numbered, About, Valid, Empty

LEMMA NoTalk ==
  /\ Numbered(NoProc) /\ Numbered(Closed)
  /\ \A n \in Nat : Numbered(Sent([NoProc EXCEPT !.proc = "up", !.reading = TRUE], NoProc.next, n))
  <1>1. NoProc.pipe = <<>> /\ <<>> \in Seq(Messages) /\ DOMAIN NoProc.pipe = {}
    BY DEF NoProc
  <1>2. Numbered(NoProc)
    BY <1>1 DEF Numbered, NoProc, Empty
  <1>3. Numbered(Closed)
    BY <1>2, SameTalk DEF Closed, NoProc
  <1>4. Numbered([NoProc EXCEPT !.proc = "up", !.reading = TRUE])
    BY <1>2, SameTalk DEF NoProc
  <1> DEFINE b == [NoProc EXCEPT !.proc = "up", !.reading = TRUE]
  <1>5. IsBackend(b) /\ b.next = NoProc.next
    BY DEF NoProc, Fields, IsBackend
  <1> HIDE DEF b
  <1>6. \A n \in Nat : Numbered(Sent(b, b.next, n))
    BY <1>4, <1>5, BackendNumbers DEF b
  <1> QED BY <1>2, <1>3, <1>5, <1>6 DEF b

\* A message more in the pipe.
LEMMA PipeGrows ==
  ASSUME NEW b, NEW c, Numbered(b), NEW m \in Messages, Valid(m, b),
         c.next = b.next, c.pending = b.pending, c.inbox \subseteq b.inbox,
         c.pipe = Append(b.pipe, m), c.chan = b.chan
  PROVE  /\ Numbered(c)
         /\ \A n : (About(b, n) /\ (m.type = "answer" /\ m.id = b.pending => m.for = n)) => About(c, n)
  <1>1. b.pipe \in Seq(Messages)
    BY DEF Numbered
  <1>2. c.pipe \in Seq(Messages)
    BY <1>1
  <1>3. \A i \in DOMAIN c.pipe : c.pipe[i] = m \/ (i \in DOMAIN b.pipe /\ c.pipe[i] = b.pipe[i])
    BY <1>1
  <1>4. Numbered(c)
    <2>1. \A i \in DOMAIN c.pipe : Valid(c.pipe[i], c)
      BY <1>3 DEF Numbered, Valid
    <2> QED BY <1>2, <2>1 DEF Numbered
  <1> QED BY <1>3, <1>4 DEF About

\* The first message is taken from the pipe.
LEMMA PipeShrinks ==
  ASSUME NEW b, NEW c, Numbered(b), b.pipe # <<>>, c.next = b.next, c.pending = b.pending,
         c.inbox = b.inbox, c.pipe = Tail(b.pipe), c.chan = b.chan
  PROVE  /\ Numbered(c) /\ \A n : About(b, n) => About(c, n)
         /\ Head(b.pipe) \in Messages /\ Valid(Head(b.pipe), b)
         /\ \A n : About(b, n) =>
               (Head(b.pipe).type = "answer" /\ Head(b.pipe).id = b.pending => Head(b.pipe).for = n)
  <1>1. b.pipe \in Seq(Messages)
    BY DEF Numbered
  <1>2. c.pipe \in Seq(Messages) /\ Head(b.pipe) = b.pipe[1] /\ 1 \in DOMAIN b.pipe
    BY <1>1
  <1>3. \A i \in DOMAIN c.pipe : i + 1 \in DOMAIN b.pipe /\ c.pipe[i] = b.pipe[i + 1]
    BY <1>1
  <1>4. Numbered(c)
    <2>1. \A i \in DOMAIN c.pipe : Valid(c.pipe[i], c)
      BY <1>3 DEF Numbered, Valid
    <2> QED BY <1>2, <2>1 DEF Numbered
  <1>5. Head(b.pipe) \in Messages /\ Valid(Head(b.pipe), b)
    BY <1>1, <1>2 DEF Numbered
  <1> QED BY <1>2, <1>3, <1>4, <1>5 DEF About

-----------------------------------------------------------------------------
\* A step of goroutine or server that leaves the loop where it is.
LEMMA AsideAnswers ==
  ASSUME Typed, AnswersInv, NEW s \in Servers, NEW b, IsBackend(b),
         srv' = [srv EXCEPT ![s] = b], Numbered(b), About(srv[s], cur.n) => About(b, cur.n),
         UNCHANGED <<pc, cur, call, reply>>
  PROVE  AnswersInv'
  <1>1. \A t \in Servers : srv'[t] = IF t = s THEN b ELSE srv[t]
    BY TypedDomain
  <1>2. Numbers'
    BY <1>1, KeepNumbers DEF AnswersInv
  <1>3. Calls'
    BY <1>1 DEF AnswersInv, Calls
  <1> QED BY <1>2, <1>3 DEF AnswersInv, Handling

LEMMA ServerAnswers ==
  ASSUME Typed, AnswersInv, NEW s \in Servers,
         Aside(s)
  PROVE  AnswersInv'
  <1>1. UNCHANGED <<pc, cur, call, reply>>
    BY DEF Aside, ReadLoop, Reap, ReplyAsk, SrvAnswer, SrvEvent, SrvResumes, Unaffected, Server
  <1>2. IsBackend(srv[s]) /\ Numbered(srv[s]) /\ cur.n \in Nat
    BY DEF Typed, Shaped, IsBackend, AnswersInv, Numbers, Handling
  <1>3. CASE ReadLoop(s)
    <2> DEFINE m == Head(srv[s].pipe)
               r == [srv[s] EXCEPT !.pipe = Tail(@)]
    <2>1. IsBackend(r) /\ srv[s].pipe # <<>>
      BY <1>2, <1>3 DEF Fields, IsBackend, ReadLoop
    <2>2. /\ Numbered(r) /\ \A n : About(srv[s], n) => About(r, n)
          /\ m \in Messages /\ Valid(m, srv[s])
          /\ \A n : About(srv[s], n) => (m.type = "answer" /\ m.id = r.pending => m.for = n)
      <3>1. /\ r.next = srv[s].next /\ r.pending = srv[s].pending /\ r.inbox = srv[s].inbox
            /\ r.pipe = Tail(srv[s].pipe) /\ r.chan = srv[s].chan
        BY <1>2 DEF Fields, IsBackend
      <3> HIDE DEF r
      <3> QED BY <1>2, <2>1, <3>1, PipeShrinks
    <2> DEFINE b == CASE m.type = "answer" /\ m.id = r.pending ->
                           [r EXCEPT !.pending = 0, !.chan = [kind |-> m.kind, for |-> m.for]]
                      [] m.type = "answer" /\ m.id # r.pending -> r
                      [] m.type = "ask" -> [r EXCEPT !.ask = m.kind]
                      [] OTHER -> [FailPending(r) EXCEPT !.reading = FALSE]
    <2>3. srv' = [srv EXCEPT ![s] = b]
      BY <1>3 DEF ReadLoop
    <2> HIDE DEF r, m
    <2>4. IsBackend(b) /\ Numbered(b) /\ (About(srv[s], cur.n) => About(b, cur.n))
      <3>1. CASE m.type = "answer" /\ m.id = r.pending
        <4> DEFINE c == [r EXCEPT !.pending = 0, !.chan = [kind |-> m.kind, for |-> m.for]]
        <4>1. /\ c.next = r.next /\ c.inbox = r.inbox /\ c.pipe = r.pipe /\ c.pending = 0
              /\ c.chan = [kind |-> m.kind, for |-> m.for] /\ IsBackend(c)
          BY <2>1 DEF Fields, IsBackend
        <4>2. m.for \in Nat /\ m.kind \in AllOutcomes
          BY <2>2, <3>1 DEF Valid
        <4> HIDE DEF c
        <4>3. Numbered(c) /\ \A n : m.for = n => About(c, n)
          <5>1. c.chan \in [kind : AllOutcomes, for : Nat] /\ c.chan.for = m.for
            BY <4>1, <4>2
          <5> QED BY <2>2, <4>1, <5>1, Settles
        <4>4. b = c
          BY <3>1 DEF c
        <4>5. About(srv[s], cur.n) => About(c, cur.n)
          BY <2>2, <3>1, <4>3
        <4> QED BY <4>1, <4>3, <4>4, <4>5
      <3>2. CASE m.type = "answer" /\ m.id # r.pending
        BY <2>1, <2>2, <3>2
      <3>3. CASE m.type = "ask"
        <4> DEFINE c == [r EXCEPT !.ask = m.kind]
        <4>1. /\ c.next = r.next /\ c.pending = r.pending /\ c.inbox = r.inbox
              /\ c.pipe = r.pipe /\ c.chan = r.chan /\ IsBackend(c)
          BY <2>1 DEF Fields, IsBackend
        <4> HIDE DEF c
        <4>2. b = c
          BY <3>3 DEF c
        <4>3. Numbered(c) /\ (About(r, cur.n) => About(c, cur.n))
          BY <2>2, <4>1, SameTalk
        <4> QED BY <2>2, <4>1, <4>2, <4>3
      <3>4. CASE m.type \notin {"answer", "ask"}
        <4> DEFINE f == FailPending(r)
                   c == [f EXCEPT !.reading = FALSE]
        <4>1. IsBackend(f)
          BY <2>1, BackendShape
        <4>2. Numbered(f) /\ (About(srv[s], cur.n) => About(f, cur.n))
          BY <1>2, <2>1, <2>2, BackendNumbers
        <4> HIDE DEF f
        <4>3. /\ c.next = f.next /\ c.pending = f.pending /\ c.inbox = f.inbox
              /\ c.pipe = f.pipe /\ c.chan = f.chan /\ IsBackend(c)
          BY <4>1 DEF Fields, IsBackend
        <4> HIDE DEF c
        <4>4. b = c
          BY <3>4 DEF c, f
        <4>5. Numbered(c) /\ (About(f, cur.n) => About(c, cur.n))
          BY <4>2, <4>3, SameTalk
        <4> QED BY <4>2, <4>3, <4>4, <4>5
      <3> QED BY <3>1, <3>2, <3>3, <3>4
    <2> HIDE DEF b
    <2> QED BY <1>1, <2>3, <2>4, AsideAnswers
  <1>4. CASE Reap(s)
    <2> DEFINE f == FailPending(srv[s])
               b == [NoProc EXCEPT !.proc = "gone", !.next = srv[s].next, !.chan = f.chan]
    <2>1. srv' = [srv EXCEPT ![s] = b]
      BY <1>4 DEF Reap
    <2>2. Numbered(f) /\ (About(srv[s], cur.n) => About(f, cur.n))
      BY <1>2, BackendNumbers
    <2> HIDE DEF f
    <2>3. /\ IsBackend(b) /\ b.next = srv[s].next /\ b.chan = f.chan
          /\ b.pending = 0 /\ b.inbox = {} /\ b.pipe = <<>>
      BY NoProcShape DEF NoProc, Fields, IsBackend
    <2> HIDE DEF b
    <2>4. Numbered(b) /\ (About(f, cur.n) => About(b, cur.n))
      <3>1. <<>> \in Seq(Messages) /\ DOMAIN <<>> = {}
        OBVIOUS
      <3>2. f.chan = Empty \/ f.chan \in [kind : AllOutcomes, for : Nat]
        BY <2>2 DEF Numbered
      <3>3. srv[s].next \in Nat /\ srv[s].next > 0
        BY <1>2 DEF Numbered
      <3>4. Numbered(b)
        <4>1. b.pipe \in Seq(Messages) /\ \A i \in DOMAIN b.pipe : Valid(b.pipe[i], b)
          BY <2>3, <3>1
        <4>2. b.next \in Nat /\ b.next > 0 /\ b.pending \in Nat
          BY <2>3, <3>3
        <4>3. b.chan = Empty \/ b.chan \in [kind : AllOutcomes, for : Nat]
          BY <2>3, <3>2
        <4> QED BY <2>3, <4>1, <4>2, <4>3 DEF Numbered
      <3> QED BY <2>3, <3>1, <3>4 DEF About
    <2> QED BY <1>1, <2>1, <2>2, <2>3, <2>4, AsideAnswers
  <1>5. CASE ReplyAsk(s)
    <2>1. PICK a : srv' = [srv EXCEPT ![s] = [srv[s] EXCEPT !.ask = a]]
      BY <1>5 DEF ReplyAsk
    <2> DEFINE b == [srv[s] EXCEPT !.ask = a]
    <2>2. /\ IsBackend(b) /\ b.next = srv[s].next /\ b.pending = srv[s].pending
          /\ b.inbox = srv[s].inbox /\ b.pipe = srv[s].pipe /\ b.chan = srv[s].chan
      BY <1>2 DEF Fields, IsBackend
    <2>3. srv' = [srv EXCEPT ![s] = b]
      BY <2>1
    <2> HIDE DEF b
    <2>4. Numbered(b) /\ (About(srv[s], cur.n) => About(b, cur.n))
      BY <1>2, <2>2, SameTalk
    <2> QED BY <1>1, <2>2, <2>3, <2>4, AsideAnswers
  <1>6. CASE SrvAnswer(s)
    <2>1. PICK r \in srv[s].inbox, k \in Outcomes :
            srv' = [srv EXCEPT ![s] = [srv[s] EXCEPT !.inbox = @ \ {r},
                      !.pipe = Append(@, [type |-> "answer", id |-> r.id, for |-> r.for, kind |-> k])]]
      BY <1>6, AnswerSent, TypedShaped
    <2> DEFINE m == [type |-> "answer", id |-> r.id, for |-> r.for, kind |-> k]
               b == [srv[s] EXCEPT !.inbox = @ \ {r}, !.pipe = Append(@, m)]
    <2>2. r.id \in Nat /\ 0 < r.id /\ r.id < srv[s].next /\ r.for \in Nat /\ k \in AllOutcomes
      BY <1>2, LspAssumption DEF Numbered
    <2>3. m \in Messages /\ Valid(m, srv[s])
      BY <2>2 DEF Messages, Valid, AllOutcomes
    <2>4. About(srv[s], cur.n) => (m.id = srv[s].pending => m.for = cur.n)
      BY DEF About
    <2> HIDE DEF m
    <2>5. /\ IsBackend(b) /\ b.next = srv[s].next /\ b.pending = srv[s].pending
          /\ b.inbox \subseteq srv[s].inbox /\ b.pipe = Append(srv[s].pipe, m) /\ b.chan = srv[s].chan
      BY <1>2 DEF Fields, IsBackend
    <2>6. srv' = [srv EXCEPT ![s] = b]
      BY <2>1 DEF m
    <2> HIDE DEF b
    <2>7. Numbered(b) /\ (About(srv[s], cur.n) => About(b, cur.n))
      BY <1>2, <2>3, <2>4, <2>5, PipeGrows
    <2> QED BY <1>1, <2>5, <2>6, <2>7, AsideAnswers
  <1>7. CASE SrvEvent(s) \/ SrvResumes(s)
    <2>1. CASE \E f : srv' = [srv EXCEPT ![s].full = f]
      <3>0. PICK f : srv' = [srv EXCEPT ![s] = [srv[s] EXCEPT !.full = f]]
        BY <2>1
      <3> DEFINE b == [srv[s] EXCEPT !.full = f]
      <3>1. /\ IsBackend(b) /\ b.next = srv[s].next /\ b.pending = srv[s].pending
            /\ b.inbox = srv[s].inbox /\ b.pipe = srv[s].pipe /\ b.chan = srv[s].chan
        BY <1>2 DEF Fields, IsBackend
      <3>2. srv' = [srv EXCEPT ![s] = b]
        BY <3>0
      <3> HIDE DEF b
      <3>3. Numbered(b) /\ (About(srv[s], cur.n) => About(b, cur.n))
        BY <1>2, <3>1, SameTalk
      <3> QED BY <1>1, <3>1, <3>2, <3>3, AsideAnswers
    <2>2. CASE srv' = [srv EXCEPT ![s].proc = "dead"]
      <3> DEFINE b == [srv[s] EXCEPT !.proc = "dead"]
      <3>1. /\ IsBackend(b) /\ b.next = srv[s].next /\ b.pending = srv[s].pending
            /\ b.inbox = srv[s].inbox /\ b.pipe = srv[s].pipe /\ b.chan = srv[s].chan
        BY <1>2 DEF Fields, IsBackend
      <3>2. srv' = [srv EXCEPT ![s] = b]
        BY <2>2
      <3> HIDE DEF b
      <3>3. Numbered(b) /\ (About(srv[s], cur.n) => About(b, cur.n))
        BY <1>2, <3>1, SameTalk
      <3> QED BY <1>1, <3>1, <3>2, <3>3, AsideAnswers
    <2>3. CASE \E k \in {"none"} \cup AskMethods, y \in {"garbage", "ask"} :
                 Emit(s, [type |-> y, id |-> 0, for |-> 0, kind |-> k])
      <3>1. PICK k \in {"none"} \cup AskMethods, y \in {"garbage", "ask"} :
               Emit(s, [type |-> y, id |-> 0, for |-> 0, kind |-> k])
        BY <2>3
      <3> DEFINE m == [type |-> y, id |-> 0, for |-> 0, kind |-> k]
                 b == [srv[s] EXCEPT !.pipe = Append(@, m)]
      <3>2. m \in Messages /\ m.type # "answer"
        BY DEF Messages
      <3>3. srv' = [srv EXCEPT ![s] = b]
        BY <3>1 DEF Emit
      <3> HIDE DEF m
      <3>4. /\ IsBackend(b) /\ b.next = srv[s].next /\ b.pending = srv[s].pending
            /\ b.inbox = srv[s].inbox /\ b.pipe = Append(srv[s].pipe, m) /\ b.chan = srv[s].chan
        BY <1>2 DEF Fields, IsBackend
      <3> HIDE DEF b
      <3>5. Valid(m, srv[s])
        BY <3>2 DEF Valid
      <3>6. Numbered(b) /\ (About(srv[s], cur.n) => About(b, cur.n))
        BY <1>2, <3>2, <3>4, <3>5, PipeGrows
      <3> QED BY <1>1, <3>3, <3>4, <3>6, AsideAnswers
    <2> QED BY <1>7, <2>1, <2>2, <2>3 DEF SrvEvent, SrvResumes
  <1> QED BY <1>3, <1>4, <1>5, <1>6, <1>7 DEF Aside

LEMMA DeliverAnswers ==
  ASSUME Typed, AnswersInv, NEW t \in tasks, Deliver(t)
  PROVE  AnswersInv'
  <1>1. UNCHANGED <<pc, cur, call, reply>>
    BY DEF Deliver, Unaffected
  <1>2. PICK ready : srv' = [s \in Servers |-> IF s \in ready THEN Notified(srv[s], t.note) ELSE srv[s]]
    BY DEF Deliver
  <1>3. ASSUME NEW s \in Servers
        PROVE  Numbered(srv'[s]) /\ (About(srv[s], cur.n) => About(srv'[s], cur.n))
    <2> DEFINE c == Notified(srv[s], t.note)
    <2>1. IsBackend(srv[s]) /\ Numbered(srv[s])
      BY DEF Typed, Shaped, IsBackend, AnswersInv, Numbers
    <2>2. /\ c.next = srv[s].next /\ c.pending = srv[s].pending /\ c.inbox = srv[s].inbox
          /\ c.pipe = srv[s].pipe /\ c.chan = srv[s].chan
      BY <2>1 DEF Notified, Fields, IsBackend
    <2> HIDE DEF c
    <2>3. Numbered(c) /\ (About(srv[s], cur.n) => About(c, cur.n))
      BY <2>1, <2>2, SameTalk
    <2>4. srv'[s] = c \/ srv'[s] = srv[s]
      BY <1>2 DEF c
    <2> QED BY <2>1, <2>3, <2>4
  <1>4. Numbers'
    BY <1>3 DEF Numbers, Numbered, Valid
  <1>5. Calls'
    BY <1>1, <1>3 DEF AnswersInv, Calls
  <1> QED BY <1>1, <1>4, <1>5 DEF AnswersInv, Handling

-----------------------------------------------------------------------------
\* A step of the loop outside of requests, that changes at most one Backend.
LEMMA LoopElsewhere ==
  ASSUME AnswersInv, UNCHANGED srv, call' \in [Servers -> CallRecord], pc' # "call", Handling'
  PROVE  AnswersInv'
  BY DEF AnswersInv, Numbers, Numbered, Calls, Valid

LEMMA LoopServer ==
  ASSUME Typed, AnswersInv, NEW s \in Servers, NEW b, IsBackend(b), Numbered(b),
         srv' = [srv EXCEPT ![s] = b], call' \in [Servers -> CallRecord], pc' # "call", Handling'
  PROVE  AnswersInv'
  <1>1. \A t \in Servers : srv'[t] = IF t = s THEN b ELSE srv[t]
    BY TypedDomain
  <1>2. Numbers'
    BY <1>1, KeepNumbers DEF AnswersInv
  <1> QED BY <1>2 DEF AnswersInv, Calls

LEMMA EditorAnswers == Typed /\ AnswersInv /\ Editor => AnswersInv'
  <1> SUFFICES ASSUME Typed, AnswersInv, Editor PROVE AnswersInv'
    OBVIOUS
  <1>1. PICK kind, d, c : Read(kind, d, c)
    BY DEF Editor, ReadInitialize, ReadOpen, ReadChange, ReadClose, ReadNotify, ReadRequest,
           ReadShutdown, ReadBroken
  <1>2. UNCHANGED <<srv, call>> /\ call \in [Servers -> CallRecord] /\ cur.n \in Nat /\ pc = "read"
    BY <1>1 DEF Editor, ReadInitialize, ReadOpen, ReadChange, ReadClose, ReadNotify, ReadRequest,
           ReadShutdown, ReadBroken, Read, LoopVars, AnswersInv, Calls, Handling
  <1>3. CASE ReadInitialize
    <2>1. UNCHANGED pc /\ cur'.n = cur.n + 1 /\ reply'.n = cur.n + 1 /\ cur'.n \in Nat
      BY <1>2, <1>3 DEF ReadInitialize, Read
    <2> QED BY <1>2, <2>1, LoopElsewhere DEF Handling
  <1>4. ASSUME NEW e \in Docs, ReadOpen(e) PROVE AnswersInv'
    <2>1. cur'.n \in Nat /\ cur'.kind = "open" /\ pc' \in {"read", "route", "start"}
      BY <1>2, <1>4 DEF ReadOpen, Read, Ensure
    <2> QED BY <1>2, <2>1, LoopElsewhere DEF Handling
  <1>5. ASSUME NEW e, ReadChange(e) \/ ReadClose(e) \/ ReadNotify(e) PROVE AnswersInv'
    <2>1. cur'.n \in Nat /\ cur'.kind \in {"change", "close", "notify"} /\ pc' = "read"
      BY <1>2, <1>5 DEF ReadChange, ReadClose, ReadNotify, Read
    <2> QED BY <1>2, <2>1, LoopElsewhere DEF Handling
  <1>6. ASSUME NEW e, NEW f, ReadRequest(e, f) PROVE AnswersInv'
    <2>1. cur'.n \in Nat /\ cur'.kind = "request" /\ pc' \in {"route", "start"}
      BY <1>2, <1>6 DEF ReadRequest, Read, Ensure
    <2> QED BY <1>2, <2>1, LoopElsewhere DEF Handling
  <1>7. ASSUME NEW k \in {"shutdown", "exit"}, ReadShutdown(k) PROVE AnswersInv'
    <2>1. cur'.n \in Nat /\ cur'.kind = k /\ pc' = "close"
      BY <1>2, <1>7 DEF ReadShutdown, Read
    <2> QED BY <1>2, <2>1, LoopElsewhere DEF Handling
  <1>8. CASE ReadBroken
    <2>1. cur'.n \in Nat /\ cur'.kind = "broken" /\ pc' = "failed"
      BY <1>2, <1>8 DEF ReadBroken, Read
    <2> QED BY <1>2, <2>1, LoopElsewhere DEF Handling
  <1> QED BY <1>3, <1>4, <1>5, <1>6, <1>7, <1>8 DEF Editor

\* Requests: a fresh number for the message under way, and what comes back
\* under it.
LEMMA CallAnswers ==
  ASSUME Typed, AnswersInv, NEW s \in Servers, Issue(s) \/ Receive(s) \/ Timeout(s)
  PROVE  AnswersInv'
  <1>1. /\ pc = "call" /\ UNCHANGED <<pc, cur, reply>> /\ cur.n \in Nat
        /\ call \in [Servers -> CallRecord] /\ call[s] \in CallRecord
    BY DEF Issue, Receive, Timeout, Waiting, AnswersInv, Calls, Handling
  <1>2. IsBackend(srv[s]) /\ Numbered(srv[s])
    BY DEF Typed, Shaped, IsBackend, AnswersInv, Numbers
  <1>3. ASSUME NEW b, IsBackend(b), Numbered(b), srv' = [srv EXCEPT ![s] = b],
               NEW r \in CallRecord, call' = [call EXCEPT ![s] = r],
               r.kind \in {"issue", "wait"} => r.for = 0,
               r.kind \in AllOutcomes \ {"error"} => r.for = cur.n,
               r.kind = "wait" => About(b, cur.n)
        PROVE  AnswersInv'
    <2>1. \A t \in Servers : srv'[t] = IF t = s THEN b ELSE srv[t]
      BY <1>3, TypedDomain
    <2>2. \A t \in Servers : call'[t] = IF t = s THEN r ELSE call[t]
      BY <1>1, <1>3
    <2>3. call' \in [Servers -> CallRecord]
      BY <1>1, <1>3
    <2>4. Numbers'
      BY <1>3, <2>1, KeepNumbers DEF AnswersInv
    <2>5. Calls'
      BY <1>1, <1>3, <2>1, <2>2, <2>3 DEF AnswersInv, Calls
    <2> QED BY <1>1, <2>4, <2>5 DEF AnswersInv, Handling
  <1>4. CASE Issue(s) /\ Writable(s)
    <2> DEFINE b == Sent(srv[s], srv[s].next, cur.n)
               r == [call[s] EXCEPT !.kind = "wait"]
    <2>1. srv' = [srv EXCEPT ![s] = b] /\ call' = [call EXCEPT ![s] = r]
      BY <1>4 DEF Issue, FreshId
    <2>2. r \in CallRecord /\ r.kind = "wait" /\ r.for = 0
      <3>1. call[s].kind = "issue" /\ call[s].for = 0
        BY <1>1, <1>4 DEF Issue, AnswersInv, Calls
      <3> QED BY <1>1, <3>1 DEF CallRecord
    <2>3. IsBackend(b) /\ Numbered(b) /\ About(b, cur.n)
      BY <1>1, <1>2, BackendShape, BackendNumbers
    <2> HIDE DEF b, r
    <2> QED BY <1>3, <2>1, <2>2, <2>3 DEF AllOutcomes
  <1>5. CASE Issue(s) /\ ~Writable(s)
    <2> DEFINE b == [srv[s] EXCEPT !.next = srv[s].next + 1]
               r == Failure(cur.n)
    <2>1. srv' = [srv EXCEPT ![s] = b] /\ call' = [call EXCEPT ![s] = r]
      BY <1>5 DEF Issue, FreshId
    <2>2. r \in CallRecord /\ r.kind = "error"
      BY <1>1 DEF Failure, CallRecord, AllOutcomes
    <2>3. /\ IsBackend(b) /\ b.next = srv[s].next + 1 /\ b.pending = srv[s].pending
          /\ b.inbox = srv[s].inbox /\ b.pipe = srv[s].pipe /\ b.chan = srv[s].chan
      BY <1>2 DEF Fields, IsBackend
    <2> HIDE DEF b, r
    <2>4. Numbered(b)
      <3>1. srv[s].next \in Nat /\ srv[s].next > 0 /\ \A i \in Nat : i < srv[s].next => i < b.next
        BY <1>2, <2>3 DEF Numbered
      <3>2. b.next \in Nat /\ b.next > 0
        BY <2>3, <3>1
      <3>3. \A i \in DOMAIN b.pipe : Valid(b.pipe[i], b)
        BY <1>2, <2>3, <3>1 DEF Numbered, Valid
      <3> QED BY <1>2, <2>3, <3>1, <3>2, <3>3 DEF Numbered
    <2> QED BY <1>3, <2>1, <2>2, <2>3, <2>4 DEF AllOutcomes
  <1>6. CASE Receive(s)
    <2> DEFINE b == [srv[s] EXCEPT !.chan = Empty]
               r == srv[s].chan
    <2>1. /\ srv' = [srv EXCEPT ![s] = b] /\ call' = [call EXCEPT ![s] = r]
          /\ r # Empty /\ call[s].kind = "wait"
      BY <1>6 DEF Receive
    <2>2. r \in [kind : AllOutcomes, for : Nat]
      BY <1>2, <2>1 DEF Numbered
    <2>3. r \in CallRecord /\ r.kind \in AllOutcomes
      BY <2>2 DEF CallRecord
    <2>4. r.kind \in AllOutcomes \ {"error"} => r.for = cur.n
      BY <1>1, <2>1 DEF AnswersInv, Calls, About
    <2>5. /\ IsBackend(b) /\ b.next = srv[s].next /\ b.pending = srv[s].pending
          /\ b.inbox = srv[s].inbox /\ b.pipe = srv[s].pipe /\ b.chan = Empty
      BY <1>2 DEF Fields, IsBackend
    <2> HIDE DEF b, r
    <2>6. Numbered(b)
      BY <1>2, <2>5, EmptyTalk
    <2> QED BY <1>3, <2>1, <2>3, <2>4, <2>5, <2>6 DEF AllOutcomes
  <1>7. CASE Timeout(s)
    <2> DEFINE b == GiveUp(srv[s])
               r == Failure(cur.n)
    <2>1. srv' = [srv EXCEPT ![s] = b] /\ call' = [call EXCEPT ![s] = r]
      BY <1>7 DEF Timeout
    <2>2. r \in CallRecord /\ r.kind = "error"
      BY <1>1 DEF Failure, CallRecord, AllOutcomes
    <2>3. IsBackend(b) /\ Numbered(b)
      BY <1>2, BackendShape, BackendNumbers
    <2> HIDE DEF b, r
    <2> QED BY <1>3, <2>1, <2>2, <2>3 DEF AllOutcomes
  <1> QED BY <1>4, <1>5, <1>6, <1>7

LEMMA CloseAnswers ==
  ASSUME Typed, AnswersInv, CloseSend \/ CloseNext \/ CloseDone
  PROVE  AnswersInv'
  <1>1. pc = "close" /\ UNCHANGED cur /\ call \in [Servers -> CallRecord] /\ cur.n \in Nat
        /\ cur.kind \in {"shutdown", "exit"}
    BY DEF CloseSend, CloseNext, CloseDone, Rest, AnswersInv, Calls, Handling
  <1>2. CASE CloseDone
    <2>1. Handling'
      BY <1>1, <1>2 DEF CloseDone, Handling
    <2> QED BY <1>1, <1>2, <2>1, LoopElsewhere DEF CloseDone
  <1>3. CASE CloseSend \/ CloseNext
    <2> DEFINE s == Head(todo)
    <2>1. s \in Servers /\ todo # <<>>
      BY <1>3 DEF CloseSend, CloseNext, Typed
    <2>2. pc' = "close" /\ UNCHANGED reply /\ Handling'
      BY <1>1, <1>3 DEF CloseSend, CloseNext, Rest, Handling
    <2>3. \A k \in {"idle", "wait"} : [call EXCEPT ![s].kind = k] \in [Servers -> CallRecord]
      BY <1>1 DEF CallRecord
    <2>4. call' \in [Servers -> CallRecord]
      BY <1>1, <1>3, <2>3 DEF CloseSend, CloseNext
    <2>5. PICK b : IsBackend(b) /\ Numbered(b) /\ srv' = [srv EXCEPT ![s] = b]
      <3>1. IsBackend(srv[s]) /\ Numbered(srv[s])
        BY <2>1 DEF Typed, Shaped, IsBackend, AnswersInv, Numbers
      <3>2. CASE CloseSend /\ Writable(s)
        <4>1. srv' = [srv EXCEPT ![s] = Sent(srv[s], srv[s].next, cur.n)]
          BY <3>2 DEF CloseSend, FreshId
        <4>2. /\ IsBackend(Sent(srv[s], srv[s].next, cur.n))
              /\ Numbered(Sent(srv[s], srv[s].next, cur.n))
          <5> DEFINE r == srv[s]
          <5>1. IsBackend(r) /\ Numbered(r)
            BY <3>1
          <5> HIDE DEF r
          <5>2. IsBackend(Sent(r, r.next, cur.n))
            BY <5>1, BackendShape
          <5>3. Numbered(Sent(r, r.next, cur.n))
            BY <1>1, <5>1, BackendNumbers
          <5> QED BY <5>2, <5>3 DEF r
        <4> QED BY <4>1, <4>2
      <3>3. CASE CloseNext \/ ~Writable(s)
        <4>1. srv' = [srv EXCEPT ![s] = Closed]
          BY <1>3, <3>3 DEF CloseSend, CloseNext
        <4> QED BY <4>1, NoProcShape, NoTalk
      <3> QED BY <1>3, <3>2, <3>3
    <2> HIDE DEF s
    <2> QED BY <2>1, <2>2, <2>4, <2>5, LoopServer
  <1> QED BY <1>2, <1>3

LEMMA LoopAnswers == IInv /\ AnswersInv /\ Loop => AnswersInv'
  <1> SUFFICES ASSUME IInv, AnswersInv, Loop PROVE AnswersInv'
    OBVIOUS
  <1>0. Typed
    BY DEF IInv
  <1>1. call \in [Servers -> CallRecord] /\ cur.n \in Nat
    BY DEF AnswersInv, Calls, Handling
  <1>2. CASE SkipServer \/ StartFails \/ EnsureDone \/ RouteOpen
    <2>1. UNCHANGED <<srv, call, cur, reply>> /\ pc \in {"start", "route"}
      BY <1>2 DEF SkipServer, StartFails, EnsureDone, RouteOpen, Rest, LoopVars
    <2>2. \/ pc' = "start" /\ pc = "start"
          \/ pc' = "route" /\ pc = "start"
          \/ pc' = "read" /\ cur.kind = "open"
      BY <1>2 DEF SkipServer, StartFails, EnsureDone, RouteOpen, EnsureFails
    <2>3. Handling'
      BY <2>1, <2>2 DEF AnswersInv, Handling
    <2> QED BY <1>1, <2>1, <2>2, <2>3, LoopElsewhere
  <1>3. CASE StartServer \/ InitDone \/ Greet \/ InitFails \/ Register
    <2> DEFINE s == Head(todo)
    <2>1. UNCHANGED <<call, cur, reply>> /\ pc \in {"start", "init", "greet", "replay"}
      BY <1>3 DEF StartServer, InitDone, Greet, InitFails, InitError, Register, Rest
    <2>2. \/ pc' \in {"init", "greet", "replay", "start", "route"}
          \/ pc' = "read" /\ cur.kind = "open"
      BY <1>3 DEF StartServer, InitDone, Greet, InitFails, Register, EnsureFails
    <2>3. Handling' /\ pc' # "call"
      BY <2>1, <2>2 DEF AnswersInv, Handling
    <2>4. s \in Servers
      <3>1. (pc = "start" /\ todo # <<>>) \/ pc \in {"init", "greet", "replay"}
        BY <1>3 DEF StartServer, InitDone, Greet, InitFails, InitError, Register
      <3>2. todo # <<>>
        BY <3>1 DEF IInv, Covered
      <3> QED BY <3>2 DEF IInv, Typed
    <2>5. IsBackend(srv[s]) /\ Numbered(srv[s])
      BY <2>4 DEF IInv, Typed, Shaped, IsBackend, AnswersInv, Numbers
    <2>6. PICK b : IsBackend(b) /\ Numbered(b) /\ srv' = [srv EXCEPT ![s] = b]
      <3>1. CASE StartServer
        <4>1. srv' = [srv EXCEPT ![s] = Sent([NoProc EXCEPT !.proc = "up", !.reading = TRUE], NoProc.next, cur.n)]
          BY <3>1 DEF StartServer
        <4>2. IsBackend(Sent([NoProc EXCEPT !.proc = "up", !.reading = TRUE], NoProc.next, cur.n))
          BY StartedShape DEF Started
        <4> QED BY <1>1, <4>1, <4>2, NoTalk
      <3>2. CASE InitDone
        <4> DEFINE b == [srv[s] EXCEPT !.chan = Empty]
        <4>1. srv' = [srv EXCEPT ![s] = b]
          BY <3>2 DEF InitDone
        <4>2. /\ IsBackend(b) /\ b.next = srv[s].next /\ b.pending = srv[s].pending
              /\ b.inbox = srv[s].inbox /\ b.pipe = srv[s].pipe /\ b.chan = Empty
          BY <2>5 DEF Fields, IsBackend
        <4> HIDE DEF b
        <4> QED BY <2>5, <4>1, <4>2, EmptyTalk
      <3>5. CASE Greet
        <4> DEFINE b == [srv[s] EXCEPT !.ready = TRUE]
        <4>1. srv' = [srv EXCEPT ![s] = b]
          BY <3>5 DEF Greet
        <4>2. /\ IsBackend(b) /\ b.next = srv[s].next /\ b.pending = srv[s].pending
              /\ b.inbox = srv[s].inbox /\ b.pipe = srv[s].pipe /\ b.chan = srv[s].chan
          BY <2>5 DEF Fields, IsBackend
        <4> HIDE DEF b
        <4> QED BY <2>5, <4>1, <4>2, SameTalk
      <3>3. CASE InitFails
        BY <3>3, NoProcShape, NoTalk DEF InitFails
      <3>4. CASE Register
        <4>1. PICK notes : srv' = [srv EXCEPT ![s].seen = notes]
          BY <3>4, Zenon DEF Register
        <4> DEFINE b == [srv[s] EXCEPT !.seen = notes]
        <4>2. /\ IsBackend(b) /\ b.next = srv[s].next /\ b.pending = srv[s].pending
              /\ b.inbox = srv[s].inbox /\ b.pipe = srv[s].pipe /\ b.chan = srv[s].chan
          BY <2>5 DEF Fields, IsBackend
        <4>3. srv' = [srv EXCEPT ![s] = b]
          BY <4>1
        <4> HIDE DEF b
        <4> QED BY <2>5, <4>2, <4>3, SameTalk
      <3> QED BY <1>3, <3>1, <3>2, <3>3, <3>4, <3>5
    <2> HIDE DEF s
    <2> QED BY <1>0, <1>1, <2>1, <2>3, <2>4, <2>6, LoopServer
  <1>4. CASE RouteRequest
    <2>1. UNCHANGED <<srv, cur>> /\ cur.kind = "request"
      BY <1>4 DEF RouteRequest
    <2>2. CASE pc' = "read" /\ reply'.n = cur.n /\ UNCHANGED call
      BY <1>1, <2>1, <2>2, LoopElsewhere DEF AnswersInv, Handling
    <2>3. CASE pc' = "call" /\ call' \in [Servers -> {[kind |-> "issue", for |-> 0], [kind |-> "idle", for |-> 0]}]
      <3>1. call' \in [Servers -> CallRecord]
        BY <2>3 DEF CallRecord
      <3>2. \A s \in Servers : call'[s].kind \in {"issue", "idle"} /\ call'[s].for = 0
        BY <2>3
      <3>3. Calls'
        BY <3>1, <3>2 DEF Calls, AllOutcomes
      <3>4. Numbers'
        BY <2>1 DEF AnswersInv, Numbers, Numbered, Valid
      <3> QED BY <1>1, <2>1, <2>3, <3>3, <3>4 DEF AnswersInv, Handling
    <2> QED BY <1>4, <2>2, <2>3 DEF RouteRequest
  <1>5. CASE Answer
    <2>1. UNCHANGED <<srv, cur>> /\ pc' = "read" /\ reply'.n = cur.n
          /\ call' = [s \in Servers |-> [kind |-> "idle", for |-> 0]]
      BY <1>5 DEF Answer
    <2>2. call' \in [Servers -> CallRecord] /\ Handling'
      BY <1>1, <2>1 DEF CallRecord, Handling
    <2> QED BY <2>1, <2>2, LoopElsewhere
  <1> QED BY <1>2, <1>3, <1>4, <1>5, <1>0, CallAnswers, CloseAnswers DEF Loop

LEMMA AnswersInductive == Spec => [](IInv /\ AnswersInv)
  <1>1. Init => AnswersInv
    <2> SUFFICES ASSUME Init PROVE AnswersInv
      OBVIOUS
    <2>1. Numbers
      BY NoTalk DEF Init, Numbers
    <2>2. call \in [Servers -> CallRecord]
      BY DEF Init, CallRecord
    <2> QED BY <2>1, <2>2 DEF Init, AnswersInv, Calls, Handling
  <1>2. IInv /\ AnswersInv /\ [Next]_vars => AnswersInv'
    <2> SUFFICES ASSUME IInv, AnswersInv, [Next]_vars PROVE AnswersInv'
      OBVIOUS
    <2>0. Typed
      BY DEF IInv
    <2>1. CASE UNCHANGED vars
      BY <2>1 DEF vars, AnswersInv, Numbers, Numbered, Valid, Calls, About, Handling
    <2> QED BY <2>0, <2>1, EditorAnswers, LoopAnswers, ServerAnswers, DeliverAnswers DEF Next, Aside
  <1> QED BY <1>1, <1>2, InitInv, NextInv, PTL DEF Spec

(***************************************************************************)
(* A server process that runs is one that closeAll would find or the one   *)
(* being initialized, and when exit or the end of the editor's stream has  *)
(* ended the loop, none runs, whatever servers and the editor do           *)
(* (ensureLanguage, closeAll).  Only a read error of another kind ends the *)
(* loop without closeAll, and leaves the registered servers running (Run). *)
(***************************************************************************)
THEOREM NobodyOrphaned == Spec => []NoOrphans
  <1>1. IInv /\ AnswersInv => NoOrphans
    BY DEF IInv, Registered, Starting, Covered, NoOrphans, AnswersInv, Handling, Running
  <1> QED BY <1>1, AnswersInductive, PTL

(***************************************************************************)
(* What goes into the answer of a request was said about that very request *)
(* (Backend.Request matches answers to requests by number), and the loop   *)
(* reads on only when what it handled has its answer (forwardRequest).     *)
(***************************************************************************)
THEOREM AnswersAreOwn == Spec => []OwnAnswers
  <1>1. AnswersInv => OwnAnswers
    BY DEF AnswersInv, Calls, CallRecord, Handling, OwnAnswers, AllOutcomes
  <1> QED BY <1>1, AnswersInductive, PTL

-----------------------------------------------------------------------------
(***************************************************************************)
(* Edits.  What a live server of an open document's language has not been  *)
(* told of the current version is still due: a goroutine carries it, or    *)
(* the loop is opening the document.                                       *)
(***************************************************************************)
EditOps == {"open", "change"}
Notices == [n : Nat, op : EditOps \cup {"close", "save"}, doc : Docs \cup {None}, ver : Nat]

EditsIn(q, d) == {i \in DOMAIN q : q[i].doc = d /\ q[i].op \in EditOps}
Has(q, d, v)  == \E i \in EditsIn(q, d) : q[i].ver = v
Last(q, d, v) == \E i \in EditsIn(q, d) : q[i].ver = v /\ \A j \in EditsIn(q, d) : j <= i

Told(s, d) == Last(srv[s].seen, d, docs[d]) \/ (overlapped /\ Has(srv[s].seen, d, docs[d]))

Preparing == {"start", "init", "greet", "replay"}
Opening(d) == cur.kind = "open" /\ cur.doc = d /\ pc \in Preparing \cup {"route"}

\* A goroutine carries the current text of d to server s: it has yet to look up
\* the servers of the language, or waits for s to read.
Carries(t, s, d) ==
  /\ t.lang = ResolveLanguage(d) \/ (t.lang = None /\ s \in t.to)
  /\ t.note.doc = d /\ t.note.op \in EditOps /\ t.note.ver = docs[d]

Due(s, d) == Opening(d) \/ \E t \in tasks : Carries(t, s, d)

\* The loop is shutting down, or has; nothing is opened or started any more.
Ending == pc \in {"close", "done", "failed"} \/ cur.kind = "shutdown"

\* An edit that is carried is one of a document of the language.
Proper(t) ==
  /\ t.note \in Notices /\ t.lang \in Languages \cup {None}
  /\ t.note.op \in EditOps =>
       /\ t.note.doc \in Docs /\ t.note.ver # 0
       /\ ResolveLanguage(t.note.doc) # None /\ t.lang \in {None, ResolveLanguage(t.note.doc)}

Known ==
  /\ \A s \in Servers : srv[s].seen \in Seq(Notices)
  /\ \A t \in tasks : Proper(t)
  /\ docs \in [Docs -> Nat] /\ IsFiniteSet({d \in Docs : docs[d] # 0})
  /\ langs \in [Languages -> {"unset", "nil", "live"}]
  /\ cur.n \in Nat /\ cur.doc \in Docs \cup {None}
  /\ overlapped \in BOOLEAN
  /\ pc \in Places
  /\ cfg = "none" => \A d \in Docs : docs[d] = 0
  /\ pc \in Preparing \cup {"route"} => cur.kind \in {"open", "request"}
  /\ pc \in Preparing \cup {"route"} /\ cur.kind = "open" =>
       cur.doc \in Docs /\ docs[cur.doc] # 0 /\ ResolveLanguage(cur.doc) # None
  /\ pc = "read" /\ cur.kind = "shutdown" => backends = {}
  /\ pc = "close" => cur.kind \in {"shutdown", "exit"}
  /\ pc = "call" => cur.kind = "request"

\* A language is met before a document of it is open, and once it is live all
\* its servers are registered.
Met ==
  ~Ending =>
    /\ \A d \in Docs : docs[d] # 0 /\ ResolveLanguage(d) # None => langs[ResolveLanguage(d)] # "unset"
    /\ \A l \in Languages : langs[l] = "live" => Bound(l) \subseteq backends

\* Of the language being started no other document is open.
Prepared ==
  LET l == ResolveLanguage(cur.doc)
  IN  /\ pc \in Preparing =>
           /\ l # None /\ langs[l] = "nil"
           /\ \A s \in Bound(l) : s \in backends \/ \E i \in DOMAIN todo : todo[i] = s
           /\ \A d \in Docs : docs[d] # 0 /\ ResolveLanguage(d) = l => Opening(d)
      /\ pc \in {"init", "greet", "replay"} => Head(todo) \notin backends

\* As long as no two overlapped, a goroutine carries the current text.
InTurn ==
  ~overlapped => \A t \in tasks : t.note.op \in EditOps => docs[t.note.doc] = t.note.ver

Must(s, d) ==
  /\ docs[d] # 0 /\ srv[s].proc = "up" /\ ResolveLanguage(d) # None
  /\ langs[ResolveLanguage(d)] = "live" /\ s \in Bound(ResolveLanguage(d))

Heard == ~Ending => \A d \in Docs, s \in backends : Must(s, d) => Told(s, d) \/ Due(s, d)

EditsInv == Known /\ Met /\ Prepared /\ InTurn /\ Heard

\* An edit is of a document of the language, and carries a version.
LEMMA EditFacts ==
  ASSUME Known, NEW t \in tasks, t.note.op \in EditOps
  PROVE  /\ t.note.doc \in Docs /\ t.note.ver # 0
         /\ ResolveLanguage(t.note.doc) # None /\ t.lang \in {None, ResolveLanguage(t.note.doc)}
  <1>1. Proper(t)
    BY DEF Known
  <1> QED BY <1>1 DEF Proper

LEMMA StayProper ==
  ASSUME Known, NEW t \in tasks, UNCHANGED cfg \/ t.note.op \notin EditOps
  PROVE  Proper(t)'
  <1>1. Proper(t)
    BY DEF Known
  <1> QED BY <1>1 DEF Proper, ResolveLanguage

LEMMA AppendEdits ==
  ASSUME NEW q \in Seq(Notices), NEW e \in Notices, NEW d, NEW v
  PROVE  /\ Append(q, e) \in Seq(Notices)
         /\ Last(q, d, v) => Has(q, d, v)
         /\ Has(q, d, v) => Has(Append(q, e), d, v)
         /\ (e.doc = d /\ e.op \in EditOps) => Last(Append(q, e), d, e.ver) /\ Has(Append(q, e), d, e.ver)
         /\ (e.doc # d \/ e.op \notin EditOps) /\ Last(q, d, v) => Last(Append(q, e), d, v)
  <1> DEFINE r == Append(q, e)
  <1>1. /\ r \in Seq(Notices) /\ Len(q) \in Nat /\ DOMAIN q = 1 .. Len(q)
        /\ DOMAIN r = 1 .. Len(q) + 1 /\ r[Len(q) + 1] = e
        /\ \A i \in 1 .. Len(q) : r[i] = q[i]
    OBVIOUS
  <1> HIDE DEF r
  <1>2. \A i \in EditsIn(q, d) : i \in EditsIn(r, d) /\ r[i] = q[i]
    BY <1>1 DEF EditsIn
  <1>3. Last(q, d, v) => Has(q, d, v)
    BY DEF Last, Has
  <1>4. Has(q, d, v) => Has(r, d, v)
    BY <1>2 DEF Has
  <1>5. ASSUME e.doc = d, e.op \in EditOps PROVE Last(r, d, e.ver) /\ Has(r, d, e.ver)
    <2>1. Len(q) + 1 \in EditsIn(r, d)
      BY <1>1, <1>5 DEF EditsIn
    <2>2. \A j \in EditsIn(r, d) : j <= Len(q) + 1
      BY <1>1 DEF EditsIn
    <2> QED BY <1>1, <2>1, <2>2 DEF Last, Has
  <1>6. ASSUME e.doc # d \/ e.op \notin EditOps PROVE EditsIn(r, d) = EditsIn(q, d)
    BY <1>1, <1>6 DEF EditsIn
  <1>7. (e.doc # d \/ e.op \notin EditOps) /\ Last(q, d, v) => Last(r, d, v)
    BY <1>2, <1>6 DEF Last
  <1> QED BY <1>1, <1>3, <1>4, <1>5, <1>7 DEF r

-----------------------------------------------------------------------------
\* Servers stop or go on, none starts, and none that goes on is told anything.
SeenKept ==
  \A s \in Servers : /\ srv'[s].seen \in Seq(Notices)
                     /\ srv'[s].proc = "up" => srv[s].proc = "up" /\ srv'[s].seen = srv[s].seen

LEMMA OneKept ==
  ASSUME Typed, Known, NEW s \in Servers, NEW b, IsBackend(b),
         srv' = [srv EXCEPT ![s] = b], b.seen \in Seq(Notices),
         b.proc = "up" => srv[s].proc = "up" /\ b.seen = srv[s].seen
  PROVE  SeenKept /\ \A t \in Servers : srv'[t] = IF t = s THEN b ELSE srv[t]
  <1>1. \A t \in Servers : srv'[t] = IF t = s THEN b ELSE srv[t]
    BY TypedDomain
  <1> QED BY <1>1 DEF SeenKept, Known

\* What follows from the head of a list is the rest of it.
LEMMA TailKeeps ==
  ASSUME NEW q \in Seq(Servers), q # <<>>, NEW i \in DOMAIN q
  PROVE  q[i] = Head(q) \/ \E j \in DOMAIN Tail(q) : Tail(q)[j] = q[i]
  <1>1. /\ Len(q) \in Nat /\ DOMAIN q = 1 .. Len(q) /\ DOMAIN Tail(q) = 1 .. Len(q) - 1
        /\ \A j \in 1 .. Len(q) - 1 : Tail(q)[j] = q[j + 1]
        /\ Head(q) = q[1]
    OBVIOUS
  <1>2. CASE i # 1
    <2>1. i - 1 \in DOMAIN Tail(q) /\ (i - 1) + 1 = i
      BY <1>1, <1>2
    <2> QED BY <1>1, <2>1
  <1> QED BY <1>1, <1>2

\* What servers are told, and what is due, when their processes do no more
\* than stop.
LEMMA BesideEdits ==
  ASSUME EditsInv, UNCHANGED <<pc, cur, cfg, docs, langs, backends, todo, tasks, overlapped>>,
         backends \subseteq Servers, SeenKept
  PROVE  EditsInv'
  <1> USE DEF EditsInv, SeenKept
  <1>1. \A d : ResolveLanguage(d)' = ResolveLanguage(d) /\ Opening(d)' = Opening(d)
    BY DEF ResolveLanguage, Opening
  <1>2. Known'
    BY <1>1, StayProper DEF Known
  <1>3. Ending' = Ending
    BY DEF Ending
  <1>4. Met' /\ Prepared' /\ InTurn'
    BY <1>1, <1>3 DEF Met, Prepared, InTurn
  <1>5. \A s, d : Due(s, d)' = Due(s, d)
    BY <1>1 DEF Due, Carries
  <1>6. \A d \in Docs, s \in backends : Must(s, d)' => Must(s, d) /\ (Told(s, d) => Told(s, d)')
    BY <1>1 DEF Must, Told
  <1>7. Heard'
    BY <1>3, <1>5, <1>6 DEF Heard
  <1> QED BY <1>2, <1>4, <1>7

\* Steps that end the loop's work.
LEMMA EndingEdits ==
  ASSUME Known', InTurn', Ending', pc' \notin Preparing
  PROVE  EditsInv'
  BY DEF EditsInv, Met, Prepared, Heard, Preparing

\* Steps of the loop that tell nobody anything.
LEMMA NobodyTold ==
  ASSUME EditsInv, UNCHANGED <<srv, cfg, docs, backends>>, overlapped => overlapped',
         NEW d \in Docs, NEW s \in backends, ~Ending, Must(s, d)', Must(s, d), Due(s, d) => Due(s, d)'
  PROVE  Told(s, d)' \/ Due(s, d)'
  BY DEF EditsInv, Heard, Told

-----------------------------------------------------------------------------
\* The editor's messages.
LEMMA ReadFacts ==
  ASSUME NEW kind, NEW d, NEW c, Read(kind, d, c)
  PROVE  /\ pc = "read" /\ cur'.n = cur.n + 1 /\ cur'.kind = kind /\ cur'.doc = d
         /\ kind # "initialize" => cfg # "none"
         /\ kind \notin {"exit", "broken"} => ~Ending
  BY DEF Read, Ending

LEMMA InitializeEdits ==
  ASSUME EditsInv, ReadInitialize
  PROVE  EditsInv'
  <1> USE DEF EditsInv
  <1>1. /\ pc = "read" /\ cur'.n = cur.n + 1 /\ cur'.kind = "initialize" /\ cur'.doc = None
        /\ cfg = "none" /\ ~Ending
        /\ UNCHANGED <<pc, docs, langs, backends, todo, srv, tasks, overlapped>>
    BY ReadFacts DEF ReadInitialize, Read
  <1>2. (\A d \in Docs : docs[d] = 0) /\ \A t \in tasks : t.note.op \notin EditOps
    <2>1. \A d : ResolveLanguage(d) = None
      BY <1>1 DEF ResolveLanguage
    <2> QED BY <1>1, <2>1, EditFacts DEF Known
  <1>3. Known'
    BY <1>1, <1>2, StayProper DEF Known, Preparing
  <1>4. Met'
    BY <1>1, <1>2 DEF Met, Ending
  <1>5. Prepared' /\ InTurn' /\ Heard'
    BY <1>1, <1>2 DEF Prepared, Preparing, InTurn, Heard, Must
  <1> QED BY <1>3, <1>4, <1>5

LEMMA OpenEdits ==
  ASSUME EditsInv, NEW d \in Docs, ReadOpen(d)
  PROVE  EditsInv'
  <1> USE DEF EditsInv
  <1> DEFINE l == ResolveLanguage(d)
  <1>1. /\ pc = "read" /\ cur'.n = cur.n + 1 /\ cur'.kind = "open" /\ cur'.doc = d
        /\ cfg # "none" /\ ~Ending /\ docs[d] = 0 /\ docs' = [docs EXCEPT ![d] = cur.n + 1]
        /\ UNCHANGED <<cfg, backends, srv, tasks, overlapped>>
    BY ReadFacts DEF ReadOpen
  <1>2. /\ cur.n \in Nat /\ docs \in [Docs -> Nat] /\ docs' \in [Docs -> Nat] /\ docs'[d] # 0
        /\ \A x \in Docs : x # d => docs'[x] = docs[x]
    BY <1>1 DEF Known
  <1>3. IsFiniteSet({x \in Docs : docs'[x] # 0})
    <2>1. {x \in Docs : docs'[x] # 0} = {x \in Docs : docs[x] # 0} \cup {d}
      BY <1>2
    <2> QED BY <2>1, FS_AddElement DEF Known
  <1>4. /\ \A x : ResolveLanguage(x)' = ResolveLanguage(x) /\ ~Opening(x)
        /\ l \in Languages \cup {None} /\ ~Ending'
    <2>1. pc' \in {"read", "start", "route"}
      BY <1>1 DEF ReadOpen, Ensure
    <2> QED BY <1>1, <2>1, Resolved DEF ResolveLanguage, Opening, Preparing, Ending
  <1>5. InTurn'
    <2> SUFFICES ASSUME ~overlapped, NEW t \in tasks, t.note.op \in EditOps
                 PROVE  docs'[t.note.doc] = t.note.ver
      BY <1>1 DEF InTurn
    <2>1. docs[t.note.doc] = t.note.ver /\ t.note.doc \in Docs /\ t.note.ver # 0
      BY EditFacts DEF InTurn
    <2> QED BY <1>1, <1>2, <2>1
  <1>6. \A x \in Docs, s \in backends : x # d => (Told(s, x) => Told(s, x)') /\ (Due(s, x) => Due(s, x)')
    BY <1>1, <1>2, <1>4 DEF Told, Due, Carries
  <1>7. CASE l = None
    <2>1. UNCHANGED <<pc, langs, todo>>
      BY <1>1, <1>7 DEF ReadOpen
    <2>2. Known'
      BY <1>1, <1>2, <1>3, <1>4, <2>1, StayProper DEF Known, Preparing
    <2>3. Met' /\ Prepared'
      BY <1>1, <1>2, <1>4, <1>7, <2>1 DEF Met, Prepared, Preparing
    <2>4. Heard'
      <3> SUFFICES ASSUME NEW x \in Docs, NEW s \in backends, Must(s, x)' PROVE Told(s, x)' \/ Due(s, x)'
        BY <1>1 DEF Heard
      <3>1. x # d /\ Must(s, x)
        BY <1>1, <1>2, <1>4, <1>7, <2>1 DEF Must
      <3> QED BY <1>1, <1>6, <3>1 DEF Heard
    <2> QED BY <1>5, <2>2, <2>3, <2>4
  <1>8. CASE l # None
    <2>1. /\ pc' \in {"start", "route"} /\ l \in Languages /\ Ensure(l)
          /\ langs' = langs \/ langs' = [langs EXCEPT ![l] = "nil"]
          /\ langs \in [Languages -> {"unset", "nil", "live"}]
      BY <1>1, <1>4, <1>8 DEF ReadOpen, Ensure, Known
    <2>2. /\ langs' \in [Languages -> {"unset", "nil", "live"}] /\ langs'[l] # "unset"
          /\ \A k \in Languages : k # l => langs'[k] = langs[k]
          /\ \A k \in Languages : langs'[k] = "live" => langs[k] = "live"
      <3>1. langs[l] = "unset" => langs' = [langs EXCEPT ![l] = "nil"]
        BY <1>8, <2>1 DEF Ensure
      <3> QED BY <2>1, <3>1
    <2>3. Opening(d)'
      BY <1>1, <2>1 DEF Opening, Preparing
    <2>4. Known'
      BY <1>1, <1>2, <1>3, <1>4, <1>8, <2>1, <2>2, StayProper DEF Known, Preparing, Places
    <2>5. Met'
      BY <1>1, <1>2, <1>4, <2>1, <2>2, Resolved DEF Met
    <2>6. Prepared'
      <3>1. CASE pc' = "start"
        <4>1. langs[l] = "unset" /\ langs'[l] = "nil" /\ todo' = Bindings[l]
          BY <2>1, <3>1 DEF Ensure
        <4>2. \A x \in Docs : docs'[x] # 0 /\ ResolveLanguage(x) = l => x = d
          BY <1>1, <1>2, <1>8, <4>1 DEF Met
        <4>3. \A s \in Bound(l) : \E i \in DOMAIN todo' : todo'[i] = s
          BY <4>1 DEF Bound
        <4>4. ResolveLanguage(cur.doc)' = l
          BY <1>1, <1>4 DEF ResolveLanguage
        <4> QED BY <1>4, <1>8, <2>3, <3>1, <4>1, <4>2, <4>3, <4>4 DEF Prepared, Bound
      <3>2. CASE pc' = "route"
        BY <3>2 DEF Prepared, Preparing
      <3> QED BY <2>1, <3>1, <3>2
    <2>7. Heard'
      <3> SUFFICES ASSUME NEW x \in Docs, NEW s \in backends, Must(s, x)', x # d
                   PROVE  Told(s, x)' \/ Due(s, x)'
        BY <1>1, <2>3 DEF Heard, Due, Carries
      <3>1. Must(s, x)
        BY <1>1, <1>2, <1>4, <2>2, Resolved DEF Must, Bound
      <3> QED BY <1>1, <1>6, <3>1 DEF Heard
    <2> QED BY <1>5, <2>4, <2>5, <2>6, <2>7
  <1> QED BY <1>7, <1>8

\* A goroutine more, with the current text, with the news that the document is
\* closed or with something that is no edit.
LEMMA SpawnEdits ==
  ASSUME EditsInv, pc = "read", ~Ending, NEW d \in Docs \cup {None}, NEW t, Proper(t)',
         cur'.n \in Nat, cur'.doc \in Docs \cup {None}, cur'.kind \in {"change", "close", "notify"},
         UNCHANGED <<pc, cfg, langs, backends, todo, srv>>, overlapped' \in BOOLEAN,
         cfg # "none" \/ docs' = docs,
         docs' \in [Docs -> Nat], IsFiniteSet({x \in Docs : docs'[x] # 0}),
         tasks' = tasks \cup {t}, overlapped => overlapped',
         \A x \in Docs : docs'[x] = docs[x] \/ (x = d /\ docs[x] # 0 /\ (overlapped' \/ tasks = {})),
         \/ docs' = docs /\ t.note.op \notin EditOps
         \/ t.note.op \notin EditOps /\ docs'[d] = 0
         \/ t.note.op \in EditOps /\ t.lang = ResolveLanguage(d) /\ t.note.doc = d /\ docs'[d] = t.note.ver
  PROVE  EditsInv'
  <1> USE DEF EditsInv
  <1>1. (\A x : ResolveLanguage(x)' = ResolveLanguage(x) /\ ~Opening(x)) /\ ~Ending'
    BY DEF ResolveLanguage, Opening, Preparing, Ending
  <1>2. Known'
    <2>1. \A e \in tasks' : Proper(e)'
      BY StayProper
    <2> QED BY <1>1, <2>1 DEF Known, Preparing
  <1>3. Met'
    BY <1>1 DEF Met, Known
  <1>4. Prepared'
    BY DEF Prepared, Preparing
  <1>5. InTurn'
    <2> SUFFICES ASSUME ~overlapped', NEW e \in tasks', e.note.op \in EditOps
                 PROVE  docs'[e.note.doc] = e.note.ver
      BY DEF InTurn
    <2>1. CASE e = t
      BY <2>1
    <2>2. CASE e \in tasks
      <3>1. e.note.doc \in Docs /\ docs[e.note.doc] = e.note.ver
        BY <2>2, EditFacts DEF InTurn
      <3> QED BY <2>2, <3>1
    <2> QED BY <2>1, <2>2
  <1>6. Heard'
    <2> SUFFICES ASSUME NEW x \in Docs, NEW s \in backends, Must(s, x)' PROVE Told(s, x)' \/ Due(s, x)'
      BY DEF Heard
    <2>1. CASE docs'[x] = docs[x]
      <3>1. Must(s, x)
        BY <1>1, <2>1 DEF Must, Bound
      <3>2. Told(s, x) \/ Due(s, x)
        BY <3>1 DEF Heard
      <3>3. Told(s, x) => Told(s, x)'
        BY <2>1 DEF Told
      <3>4. Due(s, x) => Due(s, x)'
        BY <1>1, <2>1 DEF Due, Carries
      <3> QED BY <3>2, <3>3, <3>4
    <2>2. CASE docs'[x] # docs[x]
      BY <1>1, <2>2 DEF Due, Carries, Must
    <2> QED BY <2>1, <2>2
  <1> QED BY <1>2, <1>3, <1>4, <1>5, <1>6

\* A message about a document without a language changes no more than docs.
LEMMA UnroutedEdits ==
  ASSUME EditsInv, pc = "read", ~Ending, NEW d \in Docs, ResolveLanguage(d) = None, cfg # "none",
         cur'.n \in Nat, cur'.doc \in Docs \cup {None}, cur'.kind \in {"change", "close"},
         UNCHANGED <<pc, cfg, langs, backends, todo, srv, tasks, overlapped>>,
         docs' \in [Docs -> Nat], IsFiniteSet({x \in Docs : docs'[x] # 0}),
         \A x \in Docs : x # d => docs'[x] = docs[x]
  PROVE  EditsInv'
  <1> USE DEF EditsInv
  <1>1. (\A x : ResolveLanguage(x)' = ResolveLanguage(x) /\ ~Opening(x)) /\ ~Ending'
    BY DEF ResolveLanguage, Opening, Preparing, Ending
  <1>2. Known'
    BY <1>1, StayProper DEF Known, Preparing
  <1>3. Met'
    BY <1>1 DEF Met
  <1>4. Prepared'
    BY DEF Prepared, Preparing
  <1>5. InTurn'
    <2> SUFFICES ASSUME ~overlapped, NEW e \in tasks, e.note.op \in EditOps
                 PROVE  docs'[e.note.doc] = e.note.ver
      BY DEF InTurn
    <2>1. e.note.doc \in Docs /\ e.note.doc # d /\ docs[e.note.doc] = e.note.ver
      BY EditFacts DEF InTurn
    <2> QED BY <2>1
  <1>6. Heard'
    <2> SUFFICES ASSUME NEW x \in Docs, NEW s \in backends, Must(s, x)' PROVE Told(s, x)' \/ Due(s, x)'
      BY DEF Heard
    <2>1. x # d /\ docs'[x] = docs[x] /\ Must(s, x)
      BY <1>1 DEF Must, Bound
    <2>2. Told(s, x) => Told(s, x)'
      BY <2>1 DEF Told
    <2>3. Due(s, x) => Due(s, x)'
      BY <1>1, <2>1 DEF Due, Carries
    <2> QED BY <2>1, <2>2, <2>3 DEF Heard
  <1> QED BY <1>2, <1>3, <1>4, <1>5, <1>6

LEMMA ChangeEdits ==
  ASSUME EditsInv, backends \subseteq Servers, NEW d \in Docs, ReadChange(d) \/ ReadClose(d)
  PROVE  EditsInv'
  <1> USE DEF EditsInv
  <1>1. /\ pc = "read" /\ cur'.n = cur.n + 1 /\ cur'.kind \in {"change", "close"} /\ cur'.doc = d
        /\ cfg # "none" /\ ~Ending /\ docs[d] # 0
        /\ UNCHANGED <<pc, cfg, langs, backends, todo, srv>>
    BY ReadFacts DEF ReadChange, ReadClose
  <1>2. /\ cur.n \in Nat /\ cur.n + 1 \in Nat \ {0} /\ overlapped \in BOOLEAN
        /\ docs \in [Docs -> Nat] /\ docs' \in [Docs -> Nat]
        /\ \A x \in Docs : x # d => docs'[x] = docs[x]
    BY DEF Known, ReadChange, ReadClose
  <1>3. IsFiniteSet({x \in Docs : docs'[x] # 0})
    <2>1. {x \in Docs : docs'[x] # 0} \subseteq {x \in Docs : docs[x] # 0}
      BY <1>1, <1>2
    <2> QED BY <2>1, FS_Subset DEF Known
  <1>4. CASE ResolveLanguage(d) = None
    <2>1. UNCHANGED <<tasks, overlapped>>
      BY <1>4 DEF ReadChange, ReadClose
    <2> QED BY <1>1, <1>2, <1>3, <1>4, <2>1, UnroutedEdits
  <1>5. CASE ResolveLanguage(d) # None
    <2>1. PICK note \in Notices :
             /\ Spawn(ResolveLanguage(d), note)
             /\ \/ note.op = "change" /\ note.doc = d /\ note.ver = docs'[d] /\ note.ver # 0
                \/ note.op = "close" /\ docs'[d] = 0
      <3>1. CASE ReadChange(d)
        <4>1. Note(d, "change", cur.n + 1) \in Notices /\ docs'[d] = cur.n + 1
          BY <1>2, <3>1 DEF Note, Notices, EditOps, ReadChange
        <4> QED BY <1>2, <1>5, <3>1, <4>1 DEF ReadChange, Note
      <3>2. CASE ReadClose(d)
        <4>1. Note(d, "close", 0) \in Notices /\ docs'[d] = 0
          BY <1>2, <3>2 DEF Note, Notices, EditOps, ReadClose
        <4> QED BY <1>5, <3>2, <4>1 DEF ReadClose, Note
      <3> QED BY <3>1, <3>2
    <2>2. PICK t : /\ t = [lang |-> ResolveLanguage(d), to |-> {}, note |-> note]
                   /\ tasks' = tasks \cup {t} /\ overlapped' = (overlapped \/ tasks # {})
      BY <2>1 DEF Spawn
    <2>3. t.lang = ResolveLanguage(d) /\ t.note = note
      BY <2>2
    <2>4. Proper(t)'
      <3>1. ResolveLanguage(d)' = ResolveLanguage(d)
        BY <1>1 DEF ResolveLanguage
      <3>2. ResolveLanguage(d) \in Languages /\ None \notin Languages
        BY <1>5, Resolved, LspAssumption
      <3>3. note.op \in EditOps => note.doc = d /\ note.ver # 0
        BY <2>1 DEF EditOps
      <3> QED BY <1>5, <2>1, <2>3, <3>1, <3>2, <3>3 DEF Proper
    <2>5. overlapped' \in BOOLEAN /\ (overlapped => overlapped') /\ (overlapped' \/ tasks = {})
      BY <2>2
    <2>6. \A x \in Docs : docs'[x] = docs[x] \/ (x = d /\ docs[x] # 0 /\ (overlapped' \/ tasks = {}))
      BY <1>1, <1>2, <2>5
    <2>7. \/ t.note.op \notin EditOps /\ docs'[d] = 0
          \/ t.note.op \in EditOps /\ t.lang = ResolveLanguage(d) /\ t.note.doc = d /\ docs'[d] = t.note.ver
      BY <2>1, <2>3 DEF EditOps
    <2>8. cur'.n \in Nat /\ cur'.doc \in Docs \cup {None} /\ cur'.kind \in {"change", "close", "notify"}
      BY <1>1, <1>2
    <2>9. pc = "read" /\ ~Ending /\ cfg # "none" /\ UNCHANGED <<pc, cfg, langs, backends, todo, srv>>
      BY <1>1
    <2> QED BY <1>2, <1>3, <2>2, <2>4, <2>5, <2>6, <2>7, <2>8, <2>9, SpawnEdits
  <1> QED BY <1>4, <1>5

LEMMA NotifyEdits ==
  ASSUME EditsInv, backends \subseteq Servers, NEW d \in Docs \cup {None}, ReadNotify(d)
  PROVE  EditsInv'
  <1> USE DEF EditsInv
  <1>1. /\ pc = "read" /\ cur'.n = cur.n + 1 /\ cur'.kind = "notify" /\ cur'.doc = d
        /\ cfg # "none" /\ ~Ending /\ UNCHANGED <<pc, cfg, langs, backends, todo, srv, docs>>
    BY ReadFacts DEF ReadNotify, LoopVars
  <1>2. cur.n \in Nat /\ cur'.n \in Nat /\ overlapped \in BOOLEAN
    BY <1>1 DEF Known
  <1>3. PICK note \in Notices : note = Note(d, "save", 0)
    <2>1. Note(d, "save", 0) \in Notices
      BY <1>2 DEF Note, Notices
    <2> QED BY <2>1
  <1>4. note.op \notin EditOps
    BY <1>3 DEF Note, EditOps
  <1>5. PICK t : /\ t.lang = ResolveLanguage(d) /\ t.note = note
                 /\ tasks' = tasks \cup {t} /\ (overlapped => overlapped') /\ overlapped' \in BOOLEAN
    <2>1. CASE ResolveLanguage(d) # None
      <3>1. PICK t : /\ t = [lang |-> ResolveLanguage(d), to |-> {}, note |-> note]
                     /\ tasks' = tasks \cup {t} /\ overlapped' = (overlapped \/ tasks # {})
        BY <1>3, <2>1 DEF ReadNotify, Spawn
      <3> QED BY <3>1
    <2>2. CASE ResolveLanguage(d) = None
      <3>1. PICK t : /\ t = [lang |-> None, to |-> backends, note |-> note]
                     /\ tasks' = tasks \cup {t} /\ UNCHANGED overlapped
        BY <1>3, <2>2 DEF ReadNotify
      <3> QED BY <1>2, <2>2, <3>1
    <2> QED BY <2>1, <2>2
  <1>6. Proper(t)'
    <2>1. ResolveLanguage(d) \in Languages \cup {None}
      BY Resolved DEF ResolveLanguage
    <2> QED BY <1>4, <1>5, <2>1 DEF Proper
  <1>7. /\ docs' \in [Docs -> Nat] /\ IsFiniteSet({x \in Docs : docs'[x] # 0})
        /\ \A x \in Docs : docs'[x] = docs[x]
        /\ docs' = docs /\ t.note.op \notin EditOps
    BY <1>1, <1>4, <1>5 DEF Known
  <1> QED BY <1>1, <1>2, <1>5, <1>6, <1>7, SpawnEdits

LEMMA RequestEdits ==
  ASSUME EditsInv, NEW d \in Docs \cup {None}, NEW c, ReadRequest(d, c)
  PROVE  EditsInv'
  <1> USE DEF EditsInv
  <1> DEFINE l == ResolveLanguage(d)
  <1>1. /\ pc = "read" /\ cur'.n = cur.n + 1 /\ cur'.kind = "request" /\ cur'.doc = d
        /\ cfg # "none" /\ ~Ending /\ Ensure(l)
        /\ UNCHANGED <<cfg, docs, backends, srv, tasks, overlapped>>
    BY ReadFacts DEF ReadRequest
  <1>2. /\ pc' \in {"start", "route"}
        /\ UNCHANGED langs \/ (l # None /\ langs[l] = "unset" /\ langs' = [langs EXCEPT ![l] = "nil"])
        /\ pc' = "start" => langs[l] = "unset" /\ l # None /\ langs' = [langs EXCEPT ![l] = "nil"] /\ todo' = Bindings[l]
    BY <1>1 DEF Ensure
  <1>3. /\ \A x : ResolveLanguage(x)' = ResolveLanguage(x) /\ ~Opening(x) /\ ~Opening(x)'
        /\ l # None => l \in Languages
        /\ ~Ending'
    BY <1>1, <1>2, Resolved DEF ResolveLanguage, Opening, Preparing, Ending
  <1>4. /\ langs' \in [Languages -> {"unset", "nil", "live"}]
        /\ \A k \in Languages : langs[k] # "unset" => langs'[k] = langs[k]
        /\ \A k \in Languages : langs'[k] = "live" => langs[k] = "live"
    BY <1>2, <1>3 DEF Known
  <1>5. Known'
    BY <1>1, <1>2, <1>3, <1>4, StayProper DEF Known, Preparing, Places
  <1>6. Met'
    BY <1>1, <1>3, <1>4, Resolved DEF Met
  <1>7. Prepared'
    <2>1. CASE pc' = "start"
      <3>1. l # None /\ l \in Languages /\ langs'[l] = "nil" /\ todo' = Bindings[l]
        BY <1>2, <1>3, <2>1 DEF Known
      <3>2. \A x \in Docs : ~(docs[x] # 0 /\ ResolveLanguage(x) = l)
        BY <1>1, <1>2, <1>3, <2>1 DEF Met
      <3>3. \A s \in Bound(l) : \E i \in DOMAIN todo' : todo'[i] = s
        BY <3>1 DEF Bound
      <3>4. ResolveLanguage(cur.doc)' = l
        BY <1>1 DEF ResolveLanguage
      <3> QED BY <1>1, <1>3, <2>1, <3>1, <3>2, <3>3, <3>4 DEF Prepared, Bound
    <2>2. CASE pc' = "route"
      BY <2>2 DEF Prepared, Preparing
    <2> QED BY <1>2, <2>1, <2>2
  <1>8. InTurn'
    BY <1>1 DEF InTurn
  <1>9. Heard'
    <2> SUFFICES ASSUME NEW x \in Docs, NEW s \in backends, Must(s, x)' PROVE Told(s, x)' \/ Due(s, x)'
      BY <1>1 DEF Heard
    <2>1. Must(s, x)
      BY <1>1, <1>3, <1>4, Resolved DEF Must, Bound
    <2>2. Due(s, x) => Due(s, x)'
      BY <1>1, <1>3 DEF Due, Carries
    <2> QED BY <1>1, <2>1, <2>2, NobodyTold
  <1> QED BY <1>5, <1>6, <1>7, <1>8, <1>9

LEMMA EditorEdits == IInv /\ EditsInv /\ Editor => EditsInv'
  <1> SUFFICES ASSUME IInv, EditsInv, Editor PROVE EditsInv'
    OBVIOUS
  <1> USE DEF EditsInv
  <1>0. backends \subseteq Servers
    BY DEF IInv, Typed
  <1>1. ASSUME NEW kind \in {"shutdown", "exit"}, ReadShutdown(kind) PROVE EditsInv'
    <2>1. /\ cur'.n = cur.n + 1 /\ cur'.kind = kind /\ cur'.doc = None /\ pc' = "close"
          /\ UNCHANGED <<cfg, docs, langs, srv, tasks, overlapped>>
      BY <1>1, ReadFacts DEF ReadShutdown
    <2>2. \A x : ResolveLanguage(x)' = ResolveLanguage(x)
      BY <2>1 DEF ResolveLanguage
    <2>3. Known'
      BY <2>1, <2>2, StayProper DEF Known, Preparing, Places
    <2>4. InTurn' /\ Ending' /\ pc' \notin Preparing
      BY <2>1 DEF InTurn, Ending, Preparing
    <2> QED BY <2>3, <2>4, EndingEdits
  <1>2. CASE ReadBroken
    <2>1. /\ cur'.n = cur.n + 1 /\ cur'.kind = "broken" /\ cur'.doc = None /\ pc' = "failed"
          /\ UNCHANGED <<cfg, docs, langs, srv, tasks, overlapped>>
      BY <1>2, ReadFacts DEF ReadBroken, LoopVars
    <2>2. \A x : ResolveLanguage(x)' = ResolveLanguage(x)
      BY <2>1 DEF ResolveLanguage
    <2>3. Known'
      BY <2>1, <2>2, StayProper DEF Known, Preparing, Places
    <2>4. InTurn' /\ Ending' /\ pc' \notin Preparing
      BY <2>1 DEF InTurn, Ending, Preparing
    <2> QED BY <2>3, <2>4, EndingEdits
  <1> QED BY <1>0, <1>1, <1>2, InitializeEdits, OpenEdits, ChangeEdits, NotifyEdits, RequestEdits DEF Editor

-----------------------------------------------------------------------------
\* The loop starts the servers of a language.
PrepareVars == <<cur, cfg, docs, tasks, overlapped>>

LEMMA SkipEdits ==
  ASSUME IInv, EditsInv, SkipServer
  PROVE  EditsInv'
  <1> USE DEF EditsInv
  <1>1. /\ pc = "start" /\ todo # <<>> /\ Head(todo) \in backends /\ todo' = Tail(todo)
        /\ todo \in Seq(Servers)
        /\ UNCHANGED <<pc, langs, backends, srv, PrepareVars>>
    BY DEF SkipServer, Rest, IInv, Typed, PrepareVars
  <1>2. \A d : ResolveLanguage(d)' = ResolveLanguage(d) /\ Opening(d)' = Opening(d)
    BY <1>1 DEF ResolveLanguage, Opening, PrepareVars
  <1>3. Known'
    BY <1>1, <1>2, StayProper DEF Known, PrepareVars
  <1>4. Met' /\ InTurn'
    BY <1>1, <1>2 DEF Met, InTurn, Ending, PrepareVars
  <1>5. Prepared'
    <2>1. ASSUME NEW s \in Bound(ResolveLanguage(cur.doc))
          PROVE  s \in backends \/ \E i \in DOMAIN todo' : todo'[i] = s
      <3>1. CASE s \notin backends
        <4>1. PICK i \in DOMAIN todo : todo[i] = s
          BY <1>1, <2>1, <3>1 DEF Prepared, Preparing
        <4> QED BY <1>1, <3>1, <4>1, TailKeeps
      <3> QED BY <3>1
    <2>2. ResolveLanguage(cur.doc)' = ResolveLanguage(cur.doc)
      BY <1>1 DEF ResolveLanguage, PrepareVars
    <2> QED BY <1>1, <1>2, <2>1, <2>2 DEF Prepared, Preparing, Bound, PrepareVars
  <1>6. Heard'
    BY <1>1, <1>2 DEF Heard, Ending, Must, Told, Due, Carries, PrepareVars
  <1> QED BY <1>3, <1>4, <1>5, <1>6

\* A language whose servers did not all start stays without.
LEMMA FailsEdits ==
  ASSUME IInv, EditsInv, StartFails \/ InitFails
  PROVE  EditsInv'
  <1> USE DEF EditsInv
  <1>1. /\ pc \in Preparing /\ EnsureFails /\ UNCHANGED <<langs, backends, PrepareVars>>
        /\ todo \in Seq(Servers) /\ todo # <<>> /\ backends \subseteq Servers /\ Typed
    BY DEF StartFails, InitFails, InitError, Rest, IInv, Typed, Covered, PrepareVars, Preparing
  <1>2. /\ pc' = (IF cur.kind = "open" THEN "read" ELSE "route") /\ cur.kind \in {"open", "request"}
        /\ pc \in Places
    BY <1>1 DEF EnsureFails, Known
  <1>3. \A d : ResolveLanguage(d)' = ResolveLanguage(d)
    BY <1>1 DEF ResolveLanguage, PrepareVars
  <1>4. SeenKept
    <2>1. CASE StartFails
      BY <2>1 DEF StartFails, SeenKept, Known
    <2>2. CASE InitFails
      <3>1. srv' = [srv EXCEPT ![Head(todo)] = Closed] /\ Head(todo) \in Servers
        BY <1>1, <2>2 DEF InitFails
      <3>2. Closed.seen \in Seq(Notices)
        BY DEF Closed, NoProc
      <3> QED BY <1>1, <3>1, <3>2, NoProcShape, OneKept
    <2> QED BY <2>1, <2>2
  <1>5. Known'
    BY <1>1, <1>2, <1>3, <1>4, StayProper DEF Known, SeenKept, PrepareVars, Preparing, Places
  <1>6. ~Ending /\ ~Ending'
    BY <1>1, <1>2 DEF Ending, Preparing, PrepareVars
  <1>7. Met' /\ InTurn' /\ Prepared'
    BY <1>1, <1>2, <1>3, <1>6 DEF Met, InTurn, Prepared, Preparing, PrepareVars
  <1>8. Heard'
    <2> SUFFICES ASSUME NEW d \in Docs, NEW s \in backends, Must(s, d)' PROVE Told(s, d)' \/ Due(s, d)'
      BY <1>1 DEF Heard
    <2>1. s \in Servers /\ Must(s, d) /\ (Told(s, d) => Told(s, d)')
      BY <1>1, <1>3, <1>4 DEF Must, Told, SeenKept, PrepareVars
    <2>2. ~Opening(d)
      BY <1>1, <2>1 DEF Opening, Must, Prepared
    <2>3. Due(s, d) => Due(s, d)'
      BY <1>1, <1>3, <2>2 DEF Due, Carries, PrepareVars
    <2> QED BY <1>6, <2>1, <2>3 DEF Heard
  <1> QED BY <1>5, <1>7, <1>8

LEMMA StartEdits ==
  ASSUME IInv, EditsInv, StartServer
  PROVE  EditsInv'
  <1> USE DEF EditsInv
  <1> DEFINE s == Head(todo)
             b == Sent([NoProc EXCEPT !.proc = "up", !.reading = TRUE], NoProc.next, cur.n)
  <1>1. /\ pc = "start" /\ pc' = "init" /\ todo # <<>> /\ s \in Servers \ backends /\ srv' = [srv EXCEPT ![s] = b]
        /\ UNCHANGED <<langs, backends, todo, PrepareVars>>
    BY DEF StartServer, Rest, IInv, Typed, PrepareVars
  <1>2. IsBackend(b) /\ b.seen = <<>>
    BY StartedShape DEF Started
  <1> HIDE DEF s, b
  <1>3. \A t \in Servers : srv'[t] = IF t = s THEN b ELSE srv[t]
    BY <1>1, <1>2, InvDomain
  <1>4. \A d : ResolveLanguage(d)' = ResolveLanguage(d) /\ Opening(d)' = Opening(d)
    BY <1>1 DEF ResolveLanguage, Opening, Preparing, PrepareVars
  <1>5. \A t \in Servers : srv'[t].seen \in Seq(Notices)
    <2>1. <<>> \in Seq(Notices)
      OBVIOUS
    <2> QED BY <1>2, <1>3, <2>1 DEF Known
  <1>6. Known'
    BY <1>1, <1>4, <1>5, StayProper DEF Known, PrepareVars, Preparing, Places
  <1>7. ~Ending /\ ~Ending'
    BY <1>1 DEF Known, Ending, Preparing, PrepareVars
  <1>8. Met' /\ InTurn'
    BY <1>1, <1>4, <1>7 DEF Met, InTurn, PrepareVars
  <1>9. Prepared'
    <2>1. ResolveLanguage(cur.doc)' = ResolveLanguage(cur.doc)
      BY <1>1 DEF ResolveLanguage, PrepareVars
    <2> QED BY <1>1, <1>4, <2>1 DEF Prepared, Preparing, Bound, PrepareVars, s
  <1>10. Heard'
    <2> SUFFICES ASSUME NEW d \in Docs, NEW t \in backends, Must(t, d)' PROVE Told(t, d)' \/ Due(t, d)'
      BY <1>1 DEF Heard
    <2>1. srv'[t] = srv[t]
      BY <1>1, <1>3 DEF IInv, Typed
    <2> QED BY <1>1, <1>4, <1>7, <2>1 DEF Heard, Must, Told, Due, Carries, PrepareVars
  <1> QED BY <1>6, <1>8, <1>9, <1>10

LEMMA InitDoneEdits ==
  ASSUME IInv, EditsInv, InitDone \/ Greet
  PROVE  EditsInv'
  <1> USE DEF EditsInv
  <1> DEFINE s == Head(todo)
  <1>0. /\ pc \in {"init", "greet"} /\ pc' \in {"greet", "replay"} /\ todo # <<>>
        /\ UNCHANGED <<langs, backends, todo, PrepareVars>>
    BY DEF InitDone, Greet, Rest, IInv, Covered, PrepareVars
  <1>1. /\ s \in Servers /\ Typed /\ backends \subseteq Servers /\ IsBackend(srv[s])
    <2>1. s \in Servers /\ Typed /\ backends \subseteq Servers
      BY <1>0 DEF IInv, Typed
    <2> QED BY <2>1, ServerShaped DEF Typed
  <1>2. PICK b : /\ IsBackend(b) /\ b.seen = srv[s].seen /\ b.proc = srv[s].proc
                 /\ srv' = [srv EXCEPT ![s] = b]
    <2>1. CASE InitDone
      <3>1. PICK b : b = [srv[s] EXCEPT !.chan = Empty]
        OBVIOUS
      <3>2. srv' = [srv EXCEPT ![s] = b]
        BY <2>1, <3>1 DEF InitDone
      <3>3. IsBackend(b) /\ b.seen = srv[s].seen /\ b.proc = srv[s].proc
        BY <1>1, <3>1 DEF Fields, IsBackend
      <3> QED BY <3>2, <3>3
    <2>2. CASE Greet
      <3>1. PICK b : b = [srv[s] EXCEPT !.ready = TRUE]
        OBVIOUS
      <3>2. srv' = [srv EXCEPT ![s] = b]
        BY <2>2, <3>1 DEF Greet
      <3>3. IsBackend(b) /\ b.seen = srv[s].seen /\ b.proc = srv[s].proc
        BY <1>1, <3>1 DEF Fields, IsBackend
      <3> QED BY <3>2, <3>3
    <2> QED BY <2>1, <2>2
  <1> HIDE DEF s
  <1>3. SeenKept
    BY <1>1, <1>2, OneKept DEF Known
  <1>4. \A d : ResolveLanguage(d)' = ResolveLanguage(d) /\ Opening(d)' = Opening(d)
    BY <1>0 DEF ResolveLanguage, Opening, Preparing, PrepareVars
  <1>5. Known'
    BY <1>0, <1>1, <1>3, <1>4, StayProper DEF Known, SeenKept, PrepareVars, Preparing, Places
  <1>6. ~Ending /\ ~Ending'
    BY <1>0 DEF Known, Ending, Preparing, PrepareVars
  <1>7. Met' /\ InTurn'
    BY <1>0, <1>4, <1>6 DEF Met, InTurn, PrepareVars
  <1>8. Prepared'
    <2>1. ResolveLanguage(cur.doc)' = ResolveLanguage(cur.doc)
      BY <1>0 DEF ResolveLanguage, PrepareVars
    <2> QED BY <1>0, <1>4, <2>1 DEF Prepared, Preparing, Bound, PrepareVars, s
  <1>9. Heard'
    BY <1>0, <1>1, <1>3, <1>4, <1>6 DEF Heard, Must, Told, Due, Carries, SeenKept, PrepareVars
  <1> QED BY <1>5, <1>7, <1>8, <1>9

LEMMA EnsureDoneEdits ==
  ASSUME IInv, EditsInv, EnsureDone
  PROVE  EditsInv'
  <1> USE DEF EditsInv
  <1> DEFINE l == ResolveLanguage(cur.doc)
  <1>1. /\ pc = "start" /\ pc' = "route" /\ todo = <<>> /\ langs' = [langs EXCEPT ![l] = "live"]
        /\ UNCHANGED <<backends, srv, PrepareVars>>
    BY DEF EnsureDone, Rest, PrepareVars
  <1>2. \A d : ResolveLanguage(d)' = ResolveLanguage(d) /\ Opening(d)' = Opening(d)
    BY <1>1 DEF ResolveLanguage, Opening, Preparing, PrepareVars
  <1>3. /\ l \in Languages /\ langs' \in [Languages -> {"unset", "nil", "live"}]
        /\ \A k \in Languages : langs'[k] = IF k = l THEN "live" ELSE langs[k]
        /\ Bound(l) \subseteq backends
        /\ \A d \in Docs : docs[d] # 0 /\ ResolveLanguage(d) = l => Opening(d)
    <2>1. l \in Languages
      <3>1. l # None /\ cur.doc \in Docs
        BY <1>1 DEF Prepared, Preparing, ResolveLanguage, Known
      <3> QED BY <3>1, Resolved
    <2>2. Bound(l) \subseteq backends
      BY <1>1 DEF Prepared, Preparing
    <2> QED BY <1>1, <2>1, <2>2 DEF Known, Prepared, Preparing
  <1>4. Known'
    BY <1>1, <1>2, <1>3, StayProper DEF Known, PrepareVars, Preparing, Places
  <1>5. ~Ending /\ ~Ending'
    BY <1>1 DEF Known, Ending, Preparing, PrepareVars
  <1> HIDE DEF l
  <1>6. Met'
    BY <1>1, <1>2, <1>3, <1>5 DEF Met, PrepareVars, Bound
  <1>7. InTurn' /\ Prepared'
    BY <1>1 DEF InTurn, Prepared, Preparing, PrepareVars
  <1>8. Heard'
    <2> SUFFICES ASSUME NEW d \in Docs, NEW s \in backends, Must(s, d)', ~Opening(d)
                 PROVE  Told(s, d)' \/ Due(s, d)'
      BY <1>1, <1>2 DEF Heard, Due, Carries
    <2>1. ResolveLanguage(d) \in Languages /\ ResolveLanguage(d) # l
      BY <1>1, <1>2, <1>3, Resolved DEF Must, PrepareVars
    <2>2. Must(s, d)
      BY <1>1, <1>2, <1>3, <2>1 DEF Must, PrepareVars, Bound
    <2>3. Due(s, d) => Due(s, d)'
      BY <1>1, <1>2 DEF Due, Carries, PrepareVars
    <2> QED BY <1>1, <1>5, <2>2, <2>3, NobodyTold DEF PrepareVars
  <1> QED BY <1>4, <1>6, <1>7, <1>8

\* What the replay tells a server of the open documents.
LEMMA ReplayedEdits ==
  ASSUME Known, NEW l, NEW notes \in ReplayOrders(l)
  PROVE  notes \in Seq(Notices)
  <1> DEFINE D == {x \in Docs : docs[x] # 0 /\ ResolveLanguage(x) = l}
             S == {Replayed(d) : d \in D}
  <1>1. IsFiniteSet(D)
    <2>1. D \subseteq {x \in Docs : docs[x] # 0}
      OBVIOUS
    <2> QED BY <2>1, FS_Subset DEF Known
  <1>2. S \subseteq Notices
    BY DEF Replayed, Known, Notices, EditOps
  <1>3. IsFiniteSet(S)
    <2>1. [d \in D |-> Replayed(d)] \in Surjection(D, S)
      BY DEF Surjection
    <2> QED BY <1>1, <2>1, FS_Surjection
  <1>4. notes \in Seq(S)
    BY <1>3, OrdersCover DEF ReplayOrders
  <1> QED BY <1>2, <1>4

LEMMA RegisterEdits ==
  ASSUME IInv, EditsInv, Register
  PROVE  EditsInv'
  <1> USE DEF EditsInv
  <1> DEFINE s == Head(todo)
             l == ResolveLanguage(cur.doc)
  <1>1. /\ pc = "replay" /\ pc' = "start" /\ backends' = backends \cup {s} /\ todo' = Tail(todo) /\ todo # <<>>
        /\ UNCHANGED <<langs, PrepareVars>>
    BY DEF Register, Rest, IInv, Covered, PrepareVars
  <1>2. /\ s \in Servers /\ s \notin backends /\ todo \in Seq(Servers) /\ Typed /\ backends \subseteq Servers
        /\ IsBackend(srv[s]) /\ srv[s].seen \in Seq(Notices)
    <2>1. s \in Servers /\ s \notin backends /\ todo \in Seq(Servers) /\ Typed /\ backends \subseteq Servers
      BY <1>1 DEF IInv, Typed, Prepared
    <2> QED BY <2>1 DEF Typed, Shaped, IsBackend, Known
  <1>3. PICK q \in Seq(Notices) : srv' = [srv EXCEPT ![s] = [srv[s] EXCEPT !.seen = q]]
    <2>1. PICK notes \in ReplayOrders(l) :
            srv' = [srv EXCEPT ![s].seen = IF Writable(s) THEN @ \o notes ELSE @]
      BY Zenon DEF Register
    <2>2. notes \in Seq(Notices)
      BY ReplayedEdits
    <2>3. PICK q : q = IF Writable(s) THEN srv[s].seen \o notes ELSE srv[s].seen
      OBVIOUS
    <2>4. q \in Seq(Notices)
      BY <1>2, <2>2, <2>3
    <2> QED BY <2>1, <2>3, <2>4
  <1> DEFINE b == [srv[s] EXCEPT !.seen = q]
  <1>4. IsBackend(b) /\ b.seen = q /\ b.proc = srv[s].proc
    BY <1>2 DEF Fields, IsBackend
  <1>5. srv' = [srv EXCEPT ![s] = b]
    BY <1>3
  <1> HIDE DEF s, b, EditsInv
  <1>6. \A t \in Servers : srv'[t] = IF t = s THEN b ELSE srv[t]
    BY <1>2, <1>5, InvDomain
  <1> USE DEF EditsInv
  <1>7. \A d : ResolveLanguage(d)' = ResolveLanguage(d) /\ Opening(d)' = Opening(d)
    BY <1>1 DEF ResolveLanguage, Opening, Preparing, PrepareVars
  <1>8. Known'
    <2>1. \A t \in Servers : srv'[t].seen \in Seq(Notices)
      BY <1>4, <1>6 DEF Known
    <2> QED BY <1>1, <1>7, <2>1, StayProper DEF Known, PrepareVars, Preparing, Places
  <1>9. ~Ending /\ ~Ending'
    BY <1>1 DEF Known, Ending, Preparing, PrepareVars
  <1>10. Met' /\ InTurn'
    BY <1>1, <1>7, <1>9 DEF Met, InTurn, Bound, PrepareVars
  <1>11. Prepared'
    <2>1. ASSUME NEW t \in Bound(l), t \notin backends' PROVE \E i \in DOMAIN todo' : todo'[i] = t
      <3>1. PICK i \in DOMAIN todo : todo[i] = t
        BY <1>1, <2>1 DEF Prepared, Preparing
      <3> QED BY <1>1, <1>2, <2>1, <3>1, TailKeeps DEF s
    <2>2. ResolveLanguage(cur.doc)' = l
      BY <1>1 DEF ResolveLanguage, PrepareVars
    <2> QED BY <1>1, <1>7, <2>1, <2>2 DEF Prepared, Preparing, Bound, PrepareVars
  <1>12. Heard'
    <2> SUFFICES ASSUME NEW d \in Docs, NEW t \in backends', Must(t, d)' PROVE Told(t, d)' \/ Due(t, d)'
      BY DEF Heard
    <2>1. t \in backends
      <3>1. langs[ResolveLanguage(d)] = "live" /\ t \in Bound(ResolveLanguage(d)) /\ ResolveLanguage(d) \in Languages
        BY <1>1, <1>7, Resolved DEF Must, PrepareVars, Bound
      <3> QED BY <1>9, <3>1 DEF Met
    <2>2. srv'[t] = srv[t]
      BY <1>2, <1>6, <2>1
    <2> QED BY <1>1, <1>7, <1>9, <2>1, <2>2 DEF Heard, Must, Told, Due, Carries, Bound, PrepareVars
  <1> QED BY <1>8, <1>10, <1>11, <1>12

-----------------------------------------------------------------------------
\* What the handlers do afterwards.
LEMMA RouteOpenEdits ==
  ASSUME EditsInv, RouteOpen
  PROVE  EditsInv'
  <1> USE DEF EditsInv
  <1>1. /\ pc = "route" /\ cur.kind = "open" /\ pc' = "read"
        /\ UNCHANGED <<cur, cfg, docs, langs, backends, todo, srv>>
    BY DEF RouteOpen, LoopVars
  <1>2. PICK d \in Docs : d = cur.doc /\ docs[d] # 0 /\ docs[d] \in Nat /\ ResolveLanguage(d) \in Languages
    <2>1. cur.doc \in Docs /\ docs[cur.doc] # 0 /\ ResolveLanguage(cur.doc) # None
      BY <1>1 DEF Known
    <2> QED BY <2>1, Resolved DEF Known
  <1>3. PICK t : /\ t = [lang |-> ResolveLanguage(d), to |-> {}, note |-> Replayed(d)]
                 /\ tasks' = tasks \cup {t} /\ overlapped' = (overlapped \/ tasks # {})
    BY <1>1, <1>2 DEF RouteOpen, Spawn
  <1>4. /\ t.lang = ResolveLanguage(d) /\ t.note \in Notices /\ t.note.doc = d
        /\ t.note.op = "open" /\ t.note.ver = docs[d]
    BY <1>2, <1>3 DEF Replayed, Notices, EditOps, Known
  <1>5. \A x : ResolveLanguage(x)' = ResolveLanguage(x) /\ ~Opening(x)'
    BY <1>1 DEF ResolveLanguage, Opening, Preparing
  <1>6. Known'
    <2>1. Proper(t)'
      BY <1>2, <1>4, <1>5, LspAssumption DEF Proper
    <2>2. \A e \in tasks' : Proper(e)'
      BY <1>1, <1>3, <2>1, StayProper
    <2>3. overlapped' \in BOOLEAN
      BY <1>3
    <2> QED BY <1>1, <1>5, <2>2, <2>3 DEF Known, Preparing, Places
  <1>7. ~Ending /\ ~Ending'
    BY <1>1 DEF Ending
  <1>8. Met' /\ Prepared'
    BY <1>1, <1>5, <1>7 DEF Met, Prepared, Preparing
  <1>9. InTurn'
    <2> SUFFICES ASSUME tasks = {}, NEW e \in tasks' PROVE docs'[e.note.doc] = e.note.ver
      BY <1>3 DEF InTurn
    <2> QED BY <1>1, <1>3, <1>4
  <1>10. Heard'
    <2> SUFFICES ASSUME NEW x \in Docs, NEW s \in backends, Must(s, x)' PROVE Told(s, x)' \/ Due(s, x)'
      BY <1>1 DEF Heard
    <2>1. CASE x = d
      BY <1>1, <1>3, <1>4, <1>5, <2>1 DEF Due, Carries, EditOps
    <2>2. CASE x # d
      <3>1. Must(s, x) /\ ~Opening(x)
        BY <1>1, <1>2, <1>5, <2>2 DEF Must, Bound, Opening
      <3>2. Due(s, x) => Due(s, x)'
        BY <1>1, <1>3, <1>5, <3>1 DEF Due, Carries
      <3>3. overlapped => overlapped'
        BY <1>3
      <3> QED BY <1>1, <1>7, <3>1, <3>2, <3>3, NobodyTold
    <2> QED BY <2>1, <2>2
  <1> QED BY <1>6, <1>8, <1>9, <1>10

\* A request is chosen servers for, or answered.
LEMMA RequestDoneEdits ==
  ASSUME EditsInv, RouteRequest \/ Answer
  PROVE  EditsInv'
  <1> USE DEF EditsInv
  <1>1. /\ pc \in {"route", "call"} /\ cur.kind = "request" /\ pc' \in {"read", "call"}
        /\ UNCHANGED <<cur, cfg, docs, langs, backends, todo, srv, tasks, overlapped>>
    <2>1. CASE RouteRequest
      BY <2>1 DEF RouteRequest
    <2>2. CASE Answer
      BY <2>2 DEF Answer, Known
    <2> QED BY <2>1, <2>2
  <1>2. \A d : ResolveLanguage(d)' = ResolveLanguage(d) /\ ~Opening(d)' /\ ~Opening(d)
    BY <1>1 DEF ResolveLanguage, Opening
  <1>3. Known'
    BY <1>1, <1>2, StayProper DEF Known, Preparing, Places
  <1>4. ~Ending /\ ~Ending'
    BY <1>1 DEF Ending
  <1>5. Met' /\ InTurn' /\ Prepared'
    BY <1>1, <1>2, <1>4 DEF Met, InTurn, Prepared, Preparing
  <1>6. Heard'
    BY <1>1, <1>2, <1>4 DEF Heard, Must, Told, Due, Carries
  <1> QED BY <1>3, <1>5, <1>6

-----------------------------------------------------------------------------
\* Requests and answers tell a server nothing of documents.
LEMMA BackendSeen ==
  ASSUME NEW b, IsBackend(b), NEW id, NEW n
  PROVE  /\ Sent(b, id, n).seen = b.seen
         /\ GiveUp(b).seen = b.seen
         /\ FailPending(b).seen = b.seen
  BY DEF Sent, GiveUp, FailPending, Fields, IsBackend

LEMMA ClosedSeen == Closed.seen = <<>> /\ <<>> \in Seq(Notices)
  BY DEF Closed, NoProc

LEMMA CallEdits ==
  ASSUME IInv, EditsInv, NEW s \in Servers, Issue(s) \/ Receive(s) \/ Timeout(s)
  PROVE  EditsInv'
  <1>1. /\ UNCHANGED <<pc, cur, cfg, docs, langs, backends, todo, tasks, overlapped>>
        /\ Typed /\ Known /\ backends \subseteq Servers
    BY DEF Issue, Receive, Timeout, Waiting, IInv, Typed, EditsInv
  <1>2. IsBackend(srv[s]) /\ srv[s].seen \in Seq(Notices)
    BY <1>1 DEF Typed, Shaped, IsBackend, Known
  <1>3. PICK b : /\ srv' = [srv EXCEPT ![s] = b] /\ IsBackend(b)
                 /\ b.seen = srv[s].seen /\ b.proc = srv[s].proc
    <2>1. CASE Issue(s) /\ Writable(s)
      <3>1. PICK b : b = Sent(srv[s], FreshId(s), cur.n)
        OBVIOUS
      <3>2. srv' = [srv EXCEPT ![s] = b]
        BY <2>1, <3>1 DEF Issue
      <3>3. IsBackend(b) /\ b.seen = srv[s].seen /\ b.proc = srv[s].proc
        BY <1>2, <3>1, BackendShape, BackendSeen
      <3> QED BY <3>2, <3>3
    <2>2. CASE Issue(s) /\ ~Writable(s)
      <3>1. PICK b : b = [srv[s] EXCEPT !.next = FreshId(s) + 1]
        OBVIOUS
      <3>2. srv' = [srv EXCEPT ![s] = b]
        BY <2>2, <3>1 DEF Issue
      <3>3. IsBackend(b) /\ b.seen = srv[s].seen /\ b.proc = srv[s].proc
        BY <1>2, <3>1 DEF Fields, IsBackend
      <3> QED BY <3>2, <3>3
    <2>3. CASE Receive(s)
      <3>1. PICK b : b = [srv[s] EXCEPT !.chan = Empty]
        OBVIOUS
      <3>2. srv' = [srv EXCEPT ![s] = b]
        BY <2>3, <3>1 DEF Receive
      <3>3. IsBackend(b) /\ b.seen = srv[s].seen /\ b.proc = srv[s].proc
        BY <1>2, <3>1 DEF Fields, IsBackend
      <3> QED BY <3>2, <3>3
    <2>4. CASE Timeout(s)
      <3>1. PICK b : b = GiveUp(srv[s])
        OBVIOUS
      <3>2. srv' = [srv EXCEPT ![s] = b]
        BY <2>4, <3>1 DEF Timeout
      <3>3. IsBackend(b) /\ b.seen = srv[s].seen /\ b.proc = srv[s].proc
        BY <1>2, <3>1, BackendShape, BackendSeen
      <3> QED BY <3>2, <3>3
    <2> QED BY <2>1, <2>2, <2>3, <2>4
  <1>4. SeenKept
    BY <1>1, <1>2, <1>3, OneKept
  <1> QED BY <1>1, <1>4, BesideEdits

\* closeAll tells servers to stop, and stops them.
LEMMA CloseEdits ==
  ASSUME IInv, EditsInv, CloseSend \/ CloseNext \/ CloseDone
  PROVE  EditsInv'
  <1> USE DEF EditsInv
  <1>1. /\ pc = "close" /\ cur.kind \in {"shutdown", "exit"} /\ UNCHANGED PrepareVars /\ Typed
    BY DEF CloseSend, CloseNext, CloseDone, Rest, PrepareVars, IInv, Known
  <1>2. \A d : ResolveLanguage(d)' = ResolveLanguage(d)
    BY <1>1 DEF ResolveLanguage, PrepareVars
  <1>3. InTurn'
    BY <1>1 DEF InTurn, PrepareVars
  <1>4. CASE CloseDone
    <2>1. /\ IF cur.kind = "shutdown" THEN pc' = "read" ELSE pc' = "done"
          /\ UNCHANGED <<backends, srv>> /\ langs' = [l \in Languages |-> "unset"] /\ todo = <<>>
      BY <1>4 DEF CloseDone
    <2>2. backends = {}
      BY <1>1, <2>1 DEF IInv, Covered
    <2>3. Known'
      BY <1>1, <1>2, <2>1, <2>2, StayProper DEF Known, PrepareVars, Preparing, Places
    <2>4. Ending' /\ pc' \notin Preparing
      BY <1>1, <2>1 DEF Ending, Preparing, PrepareVars
    <2> QED BY <1>3, <2>3, <2>4, EndingEdits
  <1>5. CASE CloseSend \/ CloseNext
    <2>1. /\ UNCHANGED <<pc, langs>> /\ todo # <<>> /\ Head(todo) \in Servers
          /\ backends' \subseteq backends
      BY <1>1, <1>5 DEF CloseSend, CloseNext, Dismiss, Typed
    <2>2. PICK s \in Servers : s = Head(todo)
      BY <2>1
    <2>3. IsBackend(srv[s]) /\ srv[s].seen \in Seq(Notices)
      BY <1>1 DEF Typed, Shaped, IsBackend, Known
    <2>4. PICK b : /\ srv' = [srv EXCEPT ![s] = b] /\ IsBackend(b)
                   /\ \/ b.seen = srv[s].seen /\ b.proc = srv[s].proc
                      \/ b.seen = <<>> /\ b.proc = "gone"
      <3>1. CASE srv' = [srv EXCEPT ![s] = Closed]
        BY <3>1, NoProcShape, ClosedSeen
      <3>2. CASE srv' = [srv EXCEPT ![s] = Sent(srv[s], FreshId(s), cur.n)]
        <4>1. PICK b : b = Sent(srv[s], FreshId(s), cur.n)
          OBVIOUS
        <4>2. IsBackend(b) /\ b.seen = srv[s].seen /\ b.proc = srv[s].proc
          BY <2>3, <4>1, BackendShape, BackendSeen
        <4> QED BY <3>2, <4>1, <4>2
      <3> QED BY <1>5, <2>2, <3>1, <3>2 DEF CloseSend, CloseNext
    <2>5. SeenKept
      BY <1>1, <2>3, <2>4, ClosedSeen, OneKept
    <2>6. Known'
      BY <1>1, <1>2, <2>1, <2>5, StayProper DEF Known, SeenKept, PrepareVars, Preparing
    <2>7. Ending' /\ pc' \notin Preparing
      BY <1>1, <2>1 DEF Ending, Preparing
    <2> QED BY <1>3, <2>6, <2>7, EndingEdits
  <1> QED BY <1>4, <1>5

LEMMA LoopEdits == IInv /\ EditsInv /\ Loop => EditsInv'
  BY SkipEdits, FailsEdits, StartEdits, InitDoneEdits, RegisterEdits, EnsureDoneEdits,
     RouteOpenEdits, RequestDoneEdits, CallEdits, CloseEdits DEF Loop

-----------------------------------------------------------------------------
\* Goroutines and servers.
LEMMA AsideEdits ==
  ASSUME IInv, EditsInv, NEW s \in Servers,
         UNCHANGED <<pc, cur, cfg, docs, langs, backends, todo, tasks, overlapped>>,
         NEW b, IsBackend(b), srv' = [srv EXCEPT ![s] = b],
         \/ b.seen = srv[s].seen /\ (b.proc = srv[s].proc \/ b.proc = "dead")
         \/ b.seen = <<>> /\ b.proc = "gone"
  PROVE  EditsInv'
  <1>1. Typed /\ Known /\ backends \subseteq Servers
    BY DEF IInv, Typed, EditsInv
  <1>2. SeenKept
    <2>1. srv[s].seen \in Seq(Notices) /\ b.seen \in Seq(Notices)
      BY <1>1, ClosedSeen DEF Known
    <2> QED BY <1>1, <2>1, OneKept
  <1> QED BY <1>1, <1>2, BesideEdits

LEMMA ServerEdits ==
  ASSUME IInv, EditsInv, NEW s \in Servers, Aside(s)
  PROVE  EditsInv'
  <1>1. UNCHANGED <<pc, cur, cfg, docs, langs, backends, todo, tasks, overlapped>>
    BY DEF Aside, ReadLoop, Reap, ReplyAsk, SrvAnswer, SrvEvent, SrvResumes, Unaffected, Server
  <1>2. IsBackend(srv[s])
    BY DEF IInv, Typed, Shaped, IsBackend
  <1>3. CASE ReadLoop(s)
    <2> DEFINE m == Head(srv[s].pipe)
               r == [srv[s] EXCEPT !.pipe = Tail(@)]
    <2>1. IsBackend(r) /\ r.proc = srv[s].proc /\ r.seen = srv[s].seen
      BY <1>2 DEF Fields, IsBackend
    <2> DEFINE b == CASE m.type = "answer" /\ m.id = r.pending ->
                           [r EXCEPT !.pending = 0, !.chan = [kind |-> m.kind, for |-> m.for]]
                      [] m.type = "answer" /\ m.id # r.pending -> r
                      [] m.type = "ask" -> [r EXCEPT !.ask = m.kind]
                      [] OTHER -> [FailPending(r) EXCEPT !.reading = FALSE]
    <2>2. srv' = [srv EXCEPT ![s] = b]
      BY <1>3 DEF ReadLoop
    <2> HIDE DEF r, m
    <2>3. /\ IsBackend(FailPending(r))
          /\ FailPending(r).proc = srv[s].proc /\ FailPending(r).seen = srv[s].seen
      BY <2>1, BackendShape, BackendSeen
    <2>4. IsBackend(b) /\ b.proc = srv[s].proc /\ b.seen = srv[s].seen
      <3>1. CASE m.type = "answer" /\ m.id = r.pending
        BY <2>1, <3>1 DEF Fields, IsBackend
      <3>2. CASE m.type = "answer" /\ m.id # r.pending
        BY <2>1, <3>2
      <3>3. CASE m.type = "ask"
        BY <2>1, <3>3 DEF Fields, IsBackend
      <3>4. CASE m.type \notin {"answer", "ask"}
        BY <2>3, <3>4 DEF Fields, IsBackend
      <3> QED BY <3>1, <3>2, <3>3, <3>4
    <2> HIDE DEF b
    <2> QED BY <1>1, <2>2, <2>4, AsideEdits
  <1>4. CASE Reap(s)
    <2> DEFINE b == [NoProc EXCEPT !.proc = "gone", !.next = srv[s].next,
                                   !.chan = FailPending(srv[s]).chan]
    <2>1. srv' = [srv EXCEPT ![s] = b]
      BY <1>4 DEF Reap
    <2>2. IsBackend(b) /\ b.proc = "gone" /\ b.seen = <<>>
      BY DEF NoProc, Fields, IsBackend
    <2> HIDE DEF b
    <2> QED BY <1>1, <2>1, <2>2, AsideEdits
  <1>5. CASE ReplyAsk(s)
    <2>1. PICK a : srv' = [srv EXCEPT ![s] = [srv[s] EXCEPT !.ask = a]]
      BY <1>5 DEF ReplyAsk
    <2> DEFINE b == [srv[s] EXCEPT !.ask = a]
    <2>2. IsBackend(b) /\ b.proc = srv[s].proc /\ b.seen = srv[s].seen
      BY <1>2 DEF Fields, IsBackend
    <2> HIDE DEF b
    <2> QED BY <1>1, <2>1, <2>2, AsideEdits DEF b
  <1>6. CASE SrvAnswer(s)
    <2>1. PICK i, o : srv' = [srv EXCEPT ![s] = [srv[s] EXCEPT !.inbox = i, !.pipe = o]]
      BY <1>6, AnswerSent, InvShaped
    <2> DEFINE b == [srv[s] EXCEPT !.inbox = i, !.pipe = o]
    <2>2. IsBackend(b) /\ b.proc = srv[s].proc /\ b.seen = srv[s].seen
      BY <1>2 DEF Fields, IsBackend
    <2> QED BY <1>1, <2>1, <2>2, AsideEdits
  <1>7. CASE SrvEvent(s) \/ SrvResumes(s)
    <2>1. CASE \E f : srv' = [srv EXCEPT ![s].full = f]
      <3>1. PICK f : srv' = [srv EXCEPT ![s] = [srv[s] EXCEPT !.full = f]]
        BY <2>1
      <3> DEFINE b == [srv[s] EXCEPT !.full = f]
      <3>2. IsBackend(b) /\ b.proc = srv[s].proc /\ b.seen = srv[s].seen
        BY <1>2 DEF Fields, IsBackend
      <3> QED BY <1>1, <3>1, <3>2, AsideEdits
    <2>2. CASE srv' = [srv EXCEPT ![s].proc = "dead"]
      <3> DEFINE b == [srv[s] EXCEPT !.proc = "dead"]
      <3>1. IsBackend(b) /\ b.proc = "dead" /\ b.seen = srv[s].seen
        BY <1>2 DEF Fields, IsBackend
      <3> QED BY <1>1, <2>2, <3>1, AsideEdits
    <2>3. CASE \E m : Emit(s, m)
      <3>1. PICK o : srv' = [srv EXCEPT ![s] = [srv[s] EXCEPT !.pipe = o]]
        BY <2>3 DEF Emit
      <3> DEFINE b == [srv[s] EXCEPT !.pipe = o]
      <3>2. IsBackend(b) /\ b.proc = srv[s].proc /\ b.seen = srv[s].seen
        BY <1>2 DEF Fields, IsBackend
      <3> QED BY <1>1, <3>1, <3>2, AsideEdits
    <2> QED BY <1>7, <2>1, <2>2, <2>3 DEF SrvEvent, SrvResumes
  <1> QED BY <1>3, <1>4, <1>5, <1>6, <1>7 DEF Aside

\* A notification reaches the servers it is for.
LEMMA DeliverEdits ==
  ASSUME IInv, EditsInv, NEW t \in tasks, Deliver(t)
  PROVE  EditsInv'
  <1> USE DEF EditsInv
  <1> DEFINE targets == Addressed(t)
             ready   == {s \in targets : ~Blocked(s)}
             Left(r) == [lang |-> None, to |-> r, note |-> t.note]
  <1>0. PICK left : /\ left = Left(targets \ ready)
                    /\ left.lang = None /\ left.to = targets \ ready /\ left.note = t.note
    <2>1. ASSUME NEW r
          PROVE  Left(r).lang = None /\ Left(r).to = r /\ Left(r).note = t.note
      OBVIOUS
    <2> HIDE DEF Left, ready, targets
    <2> QED BY <2>1
  <1>1. /\ UNCHANGED <<pc, cur, cfg, docs, langs, backends, todo, overlapped>>
        /\ tasks' \in {tasks \ {t}, (tasks \ {t}) \cup {left}}
        /\ targets # ready => left \in tasks'
        /\ srv' = [s \in Servers |-> IF s \in ready THEN Notified(srv[s], t.note) ELSE srv[s]]
    <2>1. tasks' = (tasks \ {t}) \cup {Left(rest) : rest \in {targets \ ready} \ {{}}}
      BY DEF Deliver
    <2>2. /\ UNCHANGED <<pc, cur, cfg, docs, langs, backends, todo, overlapped>>
          /\ srv' = [s \in Servers |-> IF s \in ready THEN Notified(srv[s], t.note) ELSE srv[s]]
      BY DEF Deliver, Unaffected
    <2>3. CASE targets = ready
      BY <2>1, <2>2, <2>3
    <2>4. CASE targets # ready
      <3>1. targets \ ready # {}
        BY <2>4
      <3>2. {Left(rest) : rest \in {targets \ ready} \ {{}}} = {left}
        BY <1>0, <3>1
      <3> QED BY <2>1, <2>2, <3>2
    <2> QED BY <2>3, <2>4
  <1>2. /\ \A s \in Servers : IsBackend(srv[s]) /\ srv[s].seen \in Seq(Notices)
        /\ backends \subseteq Servers /\ Proper(t) /\ t.note \in Notices
    <2>1. Typed
      BY DEF IInv
    <2>2. Proper(t)
      BY DEF Known
    <2> QED BY <2>1, <2>2 DEF Typed, Shaped, IsBackend, Known, Proper
  <1>3. \A s \in Servers : /\ srv'[s].proc = srv[s].proc
                           /\ srv'[s].seen = IF s \in ready /\ srv[s].proc = "up"
                                            THEN Append(srv[s].seen, t.note) ELSE srv[s].seen
    <2> HIDE DEF ready
    <2> TAKE s \in Servers
    <2>1. /\ Notified(srv[s], t.note).proc = srv[s].proc
          /\ Notified(srv[s], t.note).seen = IF srv[s].proc = "up" THEN Append(srv[s].seen, t.note) ELSE srv[s].seen
      BY <1>2 DEF Notified, Fields, IsBackend
    <2> QED BY <1>1, <2>1
  <1>4. \A d : ResolveLanguage(d)' = ResolveLanguage(d) /\ Opening(d)' = Opening(d)
    BY <1>1 DEF ResolveLanguage, Opening
  <1>5. Known'
    <2>1. \A s \in Servers : srv'[s].seen \in Seq(Notices)
      <3> HIDE DEF ready
      <3> TAKE s \in Servers
      <3>1. Append(srv[s].seen, t.note) \in Seq(Notices)
        BY <1>2, AppendEdits
      <3> QED BY <1>2, <1>3, <3>1
    <2>2. \A e \in tasks' : Proper(e)'
      <3>1. Proper(left)
        BY <1>0, <1>2 DEF Proper
      <3>2. Proper(left)'
        BY <1>1, <3>1 DEF Proper, ResolveLanguage
      <3> QED BY <1>1, <3>2, StayProper
    <2> QED BY <1>1, <1>4, <2>1, <2>2 DEF Known
  <1>6. Met' /\ Prepared' /\ InTurn'
    BY <1>0, <1>1, <1>4 DEF Met, Prepared, InTurn, Ending
  <1>7. Heard'
    <2> SUFFICES ASSUME ~Ending, NEW d \in Docs, NEW s \in backends, Must(s, d)' PROVE Told(s, d)' \/ Due(s, d)'
      BY <1>1 DEF Heard, Ending
    <2>1. s \in Servers /\ Must(s, d) /\ srv[s].proc = "up" /\ srv[s].seen \in Seq(Notices)
      BY <1>1, <1>2, <1>3, <1>4 DEF Must, Bound
    <2>2. Told(s, d) \/ Due(s, d)
      BY <2>1 DEF Heard
    <2> DEFINE mine == t.note.doc = d /\ t.note.op \in EditOps
    <2>3. srv'[s].seen = srv[s].seen \/ srv'[s].seen = Append(srv[s].seen, t.note)
      BY <1>3, <2>1
    <2>4. CASE s \notin ready
      <3>1. srv'[s].seen = srv[s].seen
        BY <1>3, <2>1, <2>4
      <3>2. Told(s, d) => Told(s, d)'
        BY <1>1, <3>1 DEF Told
      <3>3. ASSUME NEW e \in tasks, Carries(e, s, d) PROVE \E f \in tasks' : Carries(f, s, d)'
        <4>1. CASE e = t
          <5>1. s \in targets
            <6>1. CASE t.lang = None
              <7>1. t.lang # ResolveLanguage(d)
                BY <2>1, <6>1 DEF Must
              <7> QED BY <3>3, <4>1, <6>1, <7>1 DEF Carries, Addressed
            <6>2. CASE t.lang # None
              <7>1. t.lang = ResolveLanguage(d)
                BY <3>3, <4>1, <6>2 DEF Carries
              <7>2. s \in Bound(t.lang) /\ BindingsLive(t.lang) = Bindings[t.lang]
                BY <2>1, <6>2, <7>1 DEF Must, BindingsLive
              <7> QED BY <6>2, <7>2 DEF Bound, Addressed
            <6> QED BY <6>1, <6>2
          <5>2. targets # ready /\ s \in targets \ ready
            BY <2>4, <5>1
          <5> HIDE DEF targets, ready
          <5>3. Carries(left, s, d)'
            BY <1>0, <1>1, <3>3, <4>1, <5>2 DEF Carries
          <5> QED BY <1>1, <5>2, <5>3
        <4>2. CASE e # t
          <5>1. Carries(e, s, d)'
            BY <1>1, <1>4, <3>3 DEF Carries
          <5> QED BY <1>1, <4>2, <5>1
        <4> QED BY <4>1, <4>2
      <3>4. Due(s, d) => Due(s, d)'
        BY <1>4, <3>3 DEF Due
      <3> QED BY <2>2, <3>2, <3>4
    <2>5. CASE s \in ready /\ mine /\ t.note.ver = docs[d]
      <3>1. srv'[s].seen = Append(srv[s].seen, t.note)
        BY <1>3, <2>1, <2>5
      <3>2. Last(srv'[s].seen, d, docs[d])
        BY <1>2, <2>1, <2>5, <3>1, AppendEdits
      <3> QED BY <1>1, <3>2 DEF Told
    <2>6. CASE mine /\ t.note.ver # docs[d]
      <3>1. overlapped
        BY <2>6 DEF InTurn
      <3>2. Due(s, d) => Due(s, d)'
        BY <1>1, <1>4, <2>6 DEF Due, Carries
      <3>3. Told(s, d) => Has(srv[s].seen, d, docs[d])
        BY <1>2, <2>1, AppendEdits DEF Told
      <3>4. Has(srv[s].seen, d, docs[d]) => Has(srv'[s].seen, d, docs[d])
        <4>1. Has(srv[s].seen, d, docs[d]) => Has(Append(srv[s].seen, t.note), d, docs[d])
          BY <1>2, <2>1, AppendEdits
        <4> QED BY <2>3, <4>1
      <3>5. Has(srv'[s].seen, d, docs[d]) => Told(s, d)'
        BY <1>1, <3>1 DEF Told
      <3> QED BY <2>2, <3>2, <3>3, <3>4, <3>5
    <2>7. CASE ~mine
      <3>1. Due(s, d) => Due(s, d)'
        BY <1>1, <1>4, <2>7 DEF Due, Carries
      <3>2. /\ Last(srv[s].seen, d, docs[d]) => Last(srv'[s].seen, d, docs[d])
            /\ Has(srv[s].seen, d, docs[d]) => Has(srv'[s].seen, d, docs[d])
        <4>1. CASE srv'[s].seen = srv[s].seen
          BY <4>1
        <4>2. CASE srv'[s].seen = Append(srv[s].seen, t.note)
          BY <1>2, <2>1, <2>7, <4>2, AppendEdits
        <4> QED BY <2>3, <4>1, <4>2
      <3>3. Told(s, d) => Told(s, d)'
        BY <1>1, <3>2 DEF Told
      <3> QED BY <2>2, <3>1, <3>3
    <2> QED BY <2>4, <2>5, <2>6, <2>7
  <1> QED BY <1>5, <1>6, <1>7

LEMMA EditsInductive == Spec => [](IInv /\ EditsInv)
  <1>1. Init => EditsInv
    <2> SUFFICES ASSUME Init PROVE EditsInv
      OBVIOUS
    <2>1. /\ pc = "read" /\ cur = [n |-> 0, kind |-> "none", doc |-> None, cap |-> None] /\ cfg = "none"
          /\ docs = [d \in Docs |-> 0] /\ langs = [l \in Languages |-> "unset"] /\ backends = {}
          /\ srv = [s \in Servers |-> NoProc] /\ tasks = {} /\ overlapped = FALSE
      BY DEF Init
    <2>2. \A s \in Servers : srv[s].seen \in Seq(Notices)
      <3>1. NoProc.seen = <<>> /\ <<>> \in Seq(Notices)
        BY DEF NoProc
      <3> QED BY <2>1, <3>1
    <2>3. IsFiniteSet({d \in Docs : docs[d] # 0})
      <3>1. {d \in Docs : docs[d] # 0} = {}
        BY <2>1
      <3> QED BY <3>1, FS_EmptySet
    <2>4. Known
      BY <2>1, <2>2, <2>3 DEF Known, Preparing, Places
    <2>5. Met /\ Prepared /\ InTurn /\ Heard
      BY <2>1 DEF Met, Prepared, Preparing, InTurn, Heard
    <2> QED BY <2>4, <2>5 DEF EditsInv
  <1>2. IInv /\ EditsInv /\ [Next]_vars => EditsInv'
    <2> SUFFICES ASSUME IInv, EditsInv, [Next]_vars PROVE EditsInv'
      OBVIOUS
    <2>1. CASE UNCHANGED vars
      <3>1. SeenKept
        BY <2>1 DEF vars, SeenKept, EditsInv, Known
      <3> QED BY <2>1, <3>1, BesideEdits DEF vars, IInv, Typed
    <2> QED BY <2>1, EditorEdits, LoopEdits, ServerEdits, DeliverEdits DEF Next, Aside
  <1> QED BY <1>1, <1>2, InitInv, NextInv, PTL DEF Spec

(***************************************************************************)
(* Once no notification is under way, every live server of an open         *)
(* document's language was told of its current version, and if no two      *)
(* notifications ever overlapped that is the last it was told of           *)
(* (onDidOpen, onDidChange, syncNotify and the replay of ensureLanguage).  *)
(***************************************************************************)
THEOREM EditsAlwaysArrive == Spec => []EditsArrive
  <1>1. IInv /\ EditsInv => EditsArrive
    <2> SUFFICES ASSUME EditsInv, Quiet PROVE EditsArrive
      BY DEF EditsArrive
    <2>1. ASSUME NEW d \in Docs, NEW s \in backends, Must(s, d)
          PROVE  \E i \in Edits(s, d) : /\ srv[s].seen[i].ver = docs[d]
                                        /\ overlapped \/ \A j \in Edits(s, d) : j <= i
      <3>1. ~Ending /\ ~Due(s, d)
        BY DEF Quiet, EditsInv, Known, Ending, Due, Carries, Opening, Preparing
      <3>2. Told(s, d)
        BY <2>1, <3>1 DEF EditsInv, Heard
      <3>3. Edits(s, d) = EditsIn(srv[s].seen, d)
        BY DEF Edits, EditsIn, EditOps
      <3> QED BY <3>2, <3>3 DEF Told, Has, Last
    <2> QED BY <2>1 DEF EditsArrive, Must
  <1> QED BY <1>1, EditsInductive, PTL
=============================================================================
