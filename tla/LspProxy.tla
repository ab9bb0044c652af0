------------------------------ MODULE LspProxy ------------------------------
(***************************************************************************)
(* The language server router behind `modot codebase lsp`.                 *)
(*                                                                         *)
(* One goroutine, the loop, reads the editor's messages and handles them   *)
(* one at a time: it starts the servers of a language when the language is *)
(* first met, asks the servers that claim a capability, merges what comes  *)
(* back in time and answers.  Beside it run, for every server process, a   *)
(* read loop and a goroutine that waits for the process to exit; for every *)
(* document notification a goroutine that fans it out; for every request a *)
(* server sends, a goroutine that answers it.                              *)
(*                                                                         *)
(* The editor is a conforming one: it initializes first, sends nothing but *)
(* exit after shutdown, and reads what it is sent.  Servers answer late,   *)
(* in error, never, crash, emit something that is not a message, or stop   *)
(* reading: a write to a server whose pipe is full waits until the server  *)
(* reads again or is gone, and with it whatever else writes to the server, *)
(* since a connection writes one message at a time.                        *)
(***************************************************************************)
EXTENDS Naturals, Sequences, FiniteSets

CONSTANTS
  Servers,        \* server ids
  Languages,      \* language ids
  Docs,           \* documents the editor opens
  None,           \* no document, no language, no server
  Caps,           \* capabilities requests call for
  Configured,     \* the servers that have an entry in the configuration
  Bindings,       \* language |-> its servers, in order
  Capabilities,   \* language |-> server |-> capabilities, {} meaning all
  LangOf,         \* document |-> the language its extension selects, or None
  Outcomes,       \* what a server's answer may be
  MaxMsgs,        \* bound: messages the editor sends
  AskMethods,     \* the methods of the requests servers send
  MaxEvents       \* bound: crashes, undecodable messages, requests and full pipes of servers

AllOutcomes == {"array", "list", "scalar", "null", "error"}

ASSUME LspAssumption ==
  /\ None \notin Servers \cup Languages \cup Docs
  /\ Configured \subseteq Servers
  /\ Bindings \in [Languages -> Seq(Servers)]
  /\ Capabilities \in [Languages -> [Servers -> SUBSET STRING]]
  /\ LangOf \in [Docs -> Languages \cup {None}]
  /\ Outcomes \subseteq AllOutcomes
  /\ AskMethods \subseteq {"configuration", "other"}
  /\ MaxMsgs \in Nat /\ MaxEvents \in Nat

VARIABLES
  pc,        \* where the loop is
  cur,       \* the message the loop handles: number, kind, document, capability
  cfg,       \* "none" before initialize, then "full", or "empty" if loading failed
  docs,      \* DocStore: document |-> version, 0 when it is not open
  langs,     \* Proxy.langServers: "unset", "nil" (entry without servers) or "live"
  backends,  \* Proxy.backends: the servers registered
  todo,      \* servers ensureLanguage or closeAll has still to visit
  call,      \* server |-> what became of the request the loop sent to it
  order,     \* the servers the current request goes to, in order
  reply,     \* the last answer given to the editor
  srv,       \* server |-> process, pipes and the Backend's pending request
  tasks,     \* goroutines with a notification to deliver
  events,    \* counts what MaxEvents bounds
  overlapped \* two notifications were once under way together

vars == <<pc, cur, cfg, docs, langs, backends, todo, call, order, reply, srv,
          tasks, events, overlapped>>

\* A Backend before its process is started, and the reply channel when empty.
Empty  == [kind |-> "none", for |-> 0]
NoProc == [proc |-> "none", reading |-> FALSE, next |-> 1, pending |-> 0, chan |-> Empty,
           inbox |-> {}, pipe |-> <<>>, full |-> FALSE, ready |-> FALSE, seen |-> <<>>,
           ask |-> "none"]

\* Once Run has returned the command ends, and with it every goroutine.
Running == pc \notin {"done", "failed"}
-----------------------------------------------------------------------------
(***************************************************************************)
(* Configuration: routes and capabilities.                                 *)
(***************************************************************************)
\* ResolveLanguage: nothing resolves under the empty configuration.
ResolveLanguage(d) == IF cfg = "full" /\ d # None THEN LangOf[d] ELSE None

Bound(l) == {Bindings[l][i] : i \in DOMAIN Bindings[l]}

HasCapability(l, s, c) == Capabilities[l][s] = {} \/ c \in Capabilities[l][s]

\* serverHasCapability: any language binding will do, or no language tracked yet.
ServerHasCapability(s, c) ==
  \/ \E l \in Languages : langs[l] = "live" /\ s \in Bound(l) /\ HasCapability(l, s, c)
  \/ \A l \in Languages : langs[l] = "unset"

\* Mistake: only the first server of a language is bound.
FirstBinding(l) == IF l # None /\ langs[l] = "live" THEN SubSeq(Bindings[l], 1, 1) ELSE <<>>

\* bindingsLive: a language that was met but not started has no bindings.
BindingsLive(l) == IF l # None /\ langs[l] = "live" THEN Bindings[l] ELSE <<>>

\* The orders in which the loop may visit a map of servers.
Orders(S) == {o \in [1..Cardinality(S) -> S] : \A i, j \in DOMAIN o : o[i] = o[j] => i = j}

\* The servers a request goes to: the language's, in binding order, or, for a
\* request without a document, every registered one that claims the capability.
Targets(l, c) ==
  IF l # None
  THEN {SelectSeq(BindingsLive(l), LAMBDA s : HasCapability(l, s, c) /\ s \in backends)}
  ELSE Orders({s \in backends : ServerHasCapability(s, c)})

\* mergeResults: arrays are concatenated, completion lists are concatenated,
\* otherwise the first result that is not null wins.  The merged result is
\* the sequence of servers whose results are in it.
Merge(results) ==
  LET some == SelectSeq(results, LAMBDA r : r.kind # "null")
      from == [i \in DOMAIN some |-> some[i].from]
  IN  IF \/ \A i \in DOMAIN some : some[i].kind = "array"
         \/ \A i \in DOMAIN some : some[i].kind = "list"
      THEN from
      ELSE <<Head(from)>>
-----------------------------------------------------------------------------
(***************************************************************************)
(* A Backend: requests are matched to answers by id.                       *)
(***************************************************************************)
\* Mistake: every request of a backend has the same id.
SameId(s) == 1

FreshId(s) == srv[s].next

\* A write fails once the process is gone or its input closed.
Writable(s) == srv[s].proc = "up"

\* A write waits while the process runs, its pipe is full and it does not read.
Blocked(s) == Writable(s) /\ srv[s].full

\* Request up to the wait: a fresh channel under a fresh id, then the write.
Sent(b, id, n) ==
  [b EXCEPT !.next = id + 1, !.pending = id, !.chan = Empty,
            !.inbox = @ \cup {[id |-> id, for |-> n]}]

\* Request's way out by timeout: the pending entry is removed.
GiveUp(b) == [b EXCEPT !.pending = 0, !.chan = Empty]

\* Mistake: nobody wakes the request of a dead process.
ForgetPending(b) == [b EXCEPT !.pending = 0]

\* failPending: a waiting request gets an error.
FailPending(b) ==
  IF b.pending = 0 THEN b
  ELSE [b EXCEPT !.pending = 0, !.chan = [kind |-> "error", for |-> 0]]

\* Notify: the server receives the notification if it can still be written to.
Notified(b, note) == IF b.proc = "up" THEN [b EXCEPT !.seen = Append(@, note)] ELSE b

\* Close: kill the process.  Nothing is pending any more, so what its pipes
\* still hold has no effect.
Closed == [NoProc EXCEPT !.proc = "gone"]

\* readLoop, one message: an answer goes to the channel registered under its
\* id, if any; a request of the server gets a goroutine; what cannot be
\* decoded ends the loop and fails what is pending.
ReadLoop(s) ==
  /\ Running /\ srv[s].reading /\ srv[s].pipe # <<>>
  /\ LET m == Head(srv[s].pipe)
         b == [srv[s] EXCEPT !.pipe = Tail(@)]
     IN  srv' = [srv EXCEPT ![s] =
           CASE m.type = "answer" /\ m.id = b.pending ->
                  [b EXCEPT !.pending = 0, !.chan = [kind |-> m.kind, for |-> m.for]]
             [] m.type = "answer" /\ m.id # b.pending -> b
             [] m.type = "ask" -> [b EXCEPT !.ask = m.kind]
             [] OTHER -> [FailPending(b) EXCEPT !.reading = FALSE]]
  /\ UNCHANGED <<pc, cur, cfg, docs, langs, backends, todo, call, order, reply,
                 tasks, events, overlapped>>

\* The process has exited: Wait closes the pipes, what was not read is lost,
\* and what is pending fails.
Reap(s) ==
  /\ Running /\ srv[s].proc = "dead"
  /\ srv' = [srv EXCEPT ![s] = [NoProc EXCEPT !.proc = "gone", !.next = srv[s].next,
                                              !.chan = FailPending(srv[s]).chan]]
  /\ UNCHANGED <<pc, cur, cfg, docs, langs, backends, todo, call, order, reply,
                 tasks, events, overlapped>>
-----------------------------------------------------------------------------
(***************************************************************************)
(* The loop reads a message.                                               *)
(***************************************************************************)
LoopVars == <<cfg, docs, langs, backends, todo, call, order>>

\* A conforming editor: initialize first, exit last, nothing else after shutdown.
Read(kind, d, c) ==
  /\ pc = "read" /\ cur.n < MaxMsgs
  /\ (cfg = "none") <=> (kind = "initialize")
  /\ cur.kind = "shutdown" => kind \in {"exit", "broken"}
  /\ cur' = [n |-> cur.n + 1, kind |-> kind, doc |-> d, cap |-> c]

\* onInitialize: refused, or accepted with the workspace's routes, or with
\* none when the configuration cannot be loaded.
ReadInitialize ==
  /\ Read("initialize", None, None)
  /\ \E outcome \in {"none", "empty", "full"} :
       /\ cfg' = outcome
       /\ reply' = [n |-> cur.n + 1, code |-> IF outcome = "none" THEN "error" ELSE "result",
                    from |-> <<>>]
  /\ UNCHANGED <<pc, docs, langs, backends, todo, call, order, srv, tasks,
                 events, overlapped>>

\* ensureLanguage, up to its loop: a language that was met is left alone,
\* whether its servers run or failed to start.
Ensure(l) ==
  IF l # None /\ langs[l] = "unset"
  THEN /\ langs' = [langs EXCEPT ![l] = "nil"]
       /\ todo' = Bindings[l]
       /\ pc' = IF Bindings[l] = <<>> THEN "route" ELSE "start"
  ELSE pc' = "route" /\ UNCHANGED <<langs, todo>>

\* onDidOpen: without a language the document is only remembered.
ReadOpen(d) ==
  /\ Read("open", d, None)
  /\ docs[d] = 0
  /\ docs' = [docs EXCEPT ![d] = cur.n + 1]
  /\ IF ResolveLanguage(d) = None
     THEN UNCHANGED <<pc, langs, todo>>
     ELSE Ensure(ResolveLanguage(d))
  /\ UNCHANGED <<cfg, backends, call, order, reply, srv, tasks, events, overlapped>>

\* go p.syncNotify(lang, note).  overlapped: another one is still under way.
Spawn(l, note) ==
  /\ tasks' = tasks \cup {[lang |-> l, to |-> {}, note |-> note]}
  /\ overlapped' = (overlapped \/ tasks # {})

\* Mistake: the number of the next message.
NextNote(d, op, ver) == [n |-> cur.n + 2, op |-> op, doc |-> d, ver |-> ver]

Note(d, op, ver) == [n |-> cur.n + 1, op |-> op, doc |-> d, ver |-> ver]

\* onDidChange: the store keeps the newest text, the goroutine carries it.
ReadChange(d) ==
  /\ Read("change", d, None)
  /\ docs[d] # 0
  /\ docs' = [docs EXCEPT ![d] = cur.n + 1]
  /\ IF ResolveLanguage(d) = None THEN UNCHANGED <<tasks, overlapped>>
     ELSE Spawn(ResolveLanguage(d), Note(d, "change", cur.n + 1))
  /\ UNCHANGED <<pc, cfg, langs, backends, todo, call, order, reply, srv, events>>

\* onDidClose
ReadClose(d) ==
  /\ Read("close", d, None)
  /\ docs[d] # 0
  /\ docs' = [docs EXCEPT ![d] = 0]
  /\ IF ResolveLanguage(d) = None THEN UNCHANGED <<tasks, overlapped>>
     ELSE Spawn(ResolveLanguage(d), Note(d, "close", 0))
  /\ UNCHANGED <<pc, cfg, langs, backends, todo, call, order, reply, srv, events>>

\* fanoutNotify and fanoutNotifyAll: didSave goes to the servers of the
\* document's language; without one, and for any other notification, every
\* registered server gets it.
ReadNotify(d) ==
  /\ Read("notify", d, None)
  /\ d # None => docs[d] # 0
  /\ IF ResolveLanguage(d) # None
     THEN Spawn(ResolveLanguage(d), Note(d, "save", 0))
     ELSE /\ tasks' = tasks \cup {[lang |-> None, to |-> backends, note |-> Note(d, "save", 0)]}
          /\ UNCHANGED overlapped
  /\ UNCHANGED <<pc, LoopVars, reply, srv, events>>

\* forwardRequest, up to the choice of servers.
ReadRequest(d, c) ==
  /\ Read("request", d, c)
  /\ Ensure(ResolveLanguage(d))
  /\ UNCHANGED <<cfg, docs, backends, call, order, reply, srv, tasks,
                 events, overlapped>>

\* shutdown, exit or the end of the editor's stream: closeAll takes the mutex.
ReadShutdown(kind) ==
  /\ Read(kind, None, None)
  /\ pc' = "close"
  /\ todo' \in Orders(backends)
  /\ UNCHANGED <<cfg, docs, langs, backends, call, order, reply, srv, tasks,
                 events, overlapped>>

\* A read error other than the end of the stream ends the loop at once.
ReadBroken ==
  /\ Read("broken", None, None)
  /\ pc' = "failed"
  /\ UNCHANGED <<LoopVars, reply, srv, tasks, events, overlapped>>
-----------------------------------------------------------------------------
(***************************************************************************)
(* ensureLanguage: start, initialize and register the missing servers.     *)
(***************************************************************************)
\* It returns an error: the language keeps its entry without servers.  A
\* didOpen is over, a request goes on with the servers it has.
EnsureFails ==
  /\ pc' = IF cur.kind = "open" THEN "read" ELSE "route"
  /\ todo' = <<>>

Rest == <<cur, cfg, docs, order, reply, tasks, events, overlapped>>

SkipServer ==
  /\ pc = "start" /\ todo # <<>> /\ Head(todo) \in backends
  /\ todo' = Tail(todo)
  /\ UNCHANGED <<pc, langs, backends, call, srv, Rest>>

\* No such server in the configuration, or StartBackend fails.
StartFails ==
  /\ pc = "start" /\ todo # <<>> /\ Head(todo) \notin backends
  /\ EnsureFails
  /\ UNCHANGED <<langs, backends, call, srv, Rest>>

\* StartBackend, then the initialize request of initializeBackend, the first
\* message of a pipe that is still empty.
StartServer ==
  /\ pc = "start" /\ todo # <<>> /\ Head(todo) \in Configured \ backends
  /\ pc' = "init"
  /\ srv' = [srv EXCEPT ![Head(todo)] =
               Sent([NoProc EXCEPT !.proc = "up", !.reading = TRUE], NoProc.next, cur.n)]
  /\ UNCHANGED <<langs, backends, todo, call, Rest>>

\* initialize was answered, in time: what follows has no timeout.
InitDone ==
  /\ pc = "init"
  /\ LET s == Head(todo)
     IN  /\ srv[s].chan.kind \notin {"none", "error"}
         /\ srv' = [srv EXCEPT ![s].chan = Empty]
  /\ pc' = "greet"
  /\ UNCHANGED <<langs, backends, todo, call, Rest>>

\* The `initialized` notification is written.
Greet ==
  /\ pc = "greet"
  /\ Writable(Head(todo)) /\ ~Blocked(Head(todo))
  /\ srv' = [srv EXCEPT ![Head(todo)].ready = TRUE]
  /\ pc' = "replay"
  /\ UNCHANGED <<langs, backends, todo, call, Rest>>

\* initializeBackend returns an error: the answer is one or did not come in
\* time (the timer may win over an answer that is there), or the notification
\* could not be written.
InitError == pc = "init" \/ (pc = "greet" /\ ~Writable(Head(todo)))

\* Mistake: a failed initialization leaves the process running.
InitGivesUp ==
  /\ InitError
  /\ srv' = [srv EXCEPT ![Head(todo)] = GiveUp(@)]
  /\ EnsureFails
  /\ UNCHANGED <<langs, backends, call, Rest>>

\* A server that cannot be initialized is closed.
InitFails ==
  /\ InitError
  /\ srv' = [srv EXCEPT ![Head(todo)] = Closed]
  /\ EnsureFails
  /\ UNCHANGED <<langs, backends, call, Rest>>

\* The open documents of the language, as the replay tells them.
Replayed(d) == [n |-> cur.n, op |-> "open", doc |-> d, ver |-> docs[d]]

ReplayOrders(l) == Orders({Replayed(d) : d \in {x \in Docs : docs[x] # 0 /\ ResolveLanguage(x) = l}})

\* The open documents are replayed and only then is the server registered.
Register ==
  /\ pc = "replay"
  /\ LET s == Head(todo)
     IN  /\ \E notes \in ReplayOrders(ResolveLanguage(cur.doc)) :
              /\ notes # <<>> => ~Blocked(s)
              /\ srv' = [srv EXCEPT ![s].seen = IF Writable(s) THEN @ \o notes ELSE @]
         /\ backends' = backends \cup {s}
  /\ pc' = "start" /\ todo' = Tail(todo)
  /\ UNCHANGED <<langs, call, Rest>>

EnsureDone ==
  /\ pc = "start" /\ todo = <<>>
  /\ langs' = [langs EXCEPT ![ResolveLanguage(cur.doc)] = "live"]
  /\ pc' = "route"
  /\ UNCHANGED <<backends, todo, call, srv, Rest>>
-----------------------------------------------------------------------------
(***************************************************************************)
(* What the handlers do once the language is taken care of.                *)
(***************************************************************************)
\* onDidOpen fans the notification out, to the servers just started as well.
RouteOpen ==
  /\ pc = "route" /\ cur.kind = "open"
  /\ pc' = "read"
  /\ Spawn(ResolveLanguage(cur.doc), Replayed(cur.doc))
  /\ UNCHANGED <<cur, LoopVars, reply, srv, events>>

\* forwardRequest, the choice of servers: without any it is unsupported.
RouteRequest ==
  /\ pc = "route" /\ cur.kind = "request"
  /\ \E targets \in Targets(ResolveLanguage(cur.doc), cur.cap) :
       IF targets = <<>>
       THEN /\ reply' = [n |-> cur.n, code |-> "unsupported", from |-> <<>>]
            /\ pc' = "read" /\ UNCHANGED <<order, call>>
       ELSE /\ order' = targets
            /\ call' = [s \in Servers |-> [kind |-> IF \E i \in DOMAIN targets : targets[i] = s
                                                    THEN "issue" ELSE "idle", for |-> 0]]
            /\ pc' = "call" /\ UNCHANGED reply
  /\ UNCHANGED <<cur, cfg, docs, langs, backends, todo, srv, tasks, events, overlapped>>

Waiting == <<cur, cfg, docs, langs, backends, todo, order, tasks, events, overlapped>>

Failure(n) == [kind |-> "error", for |-> n]

\* Backend.Request by the server's goroutine, up to the wait.  The timeout
\* bounds the wait only, so a full pipe keeps the request, and the loop, here.
Issue(s) ==
  /\ pc = "call" /\ call[s].kind = "issue" /\ ~Blocked(s)
  /\ IF Writable(s)
     THEN /\ srv' = [srv EXCEPT ![s] = Sent(@, FreshId(s), cur.n)]
          /\ call' = [call EXCEPT ![s].kind = "wait"]
     ELSE /\ srv' = [srv EXCEPT ![s].next = FreshId(s) + 1]
          /\ call' = [call EXCEPT ![s] = Failure(cur.n)]
  /\ UNCHANGED <<pc, reply, Waiting>>

Receive(s) ==
  /\ pc = "call" /\ call[s].kind = "wait" /\ srv[s].chan # Empty
  /\ call' = [call EXCEPT ![s] = srv[s].chan]
  /\ srv' = [srv EXCEPT ![s].chan = Empty]
  /\ UNCHANGED <<pc, reply, Waiting>>

\* Mistake: only a dead server times out.
TimeoutWhenDead(s) ==
  /\ pc = "call" /\ call[s].kind = "wait" /\ ~Writable(s)
  /\ srv' = [srv EXCEPT ![s] = GiveUp(@)]
  /\ call' = [call EXCEPT ![s] = Failure(cur.n)]
  /\ UNCHANGED <<pc, reply, Waiting>>

\* The soft timeout, possible with an answer already in the channel.
Timeout(s) ==
  /\ pc = "call" /\ call[s].kind = "wait"
  /\ srv' = [srv EXCEPT ![s] = GiveUp(@)]
  /\ call' = [call EXCEPT ![s] = Failure(cur.n)]
  /\ UNCHANGED <<pc, reply, Waiting>>

\* Every goroutine is back: merge what there is.
Answer ==
  /\ pc = "call" /\ \A s \in Servers : call[s].kind \notin {"issue", "wait"}
  /\ LET all     == [i \in DOMAIN order |-> [from |-> order[i], kind |-> call[order[i]].kind]]
         results == SelectSeq(all, LAMBDA r : r.kind # "error")
         silent  == \A i \in DOMAIN results : results[i].kind = "null"
     IN  reply' = [n |-> cur.n,
                   code |-> IF results = <<>> THEN "failed" ELSE "result",
                   from |-> IF silent THEN <<>> ELSE Merge(results)]
  /\ pc' = "read"
  /\ order' = <<>>
  /\ call' = [s \in Servers |-> [kind |-> "idle", for |-> 0]]
  /\ UNCHANGED <<cur, cfg, docs, langs, backends, todo, srv, tasks, events, overlapped>>
-----------------------------------------------------------------------------
(***************************************************************************)
(* closeAll, under the mutex: no timeout bounds the shutdown request, nor  *)
(* the writing of it and of the exit notification that follows.            *)
(***************************************************************************)
\* The server at the head of todo is killed and forgotten.
Dismiss(s) ==
  /\ backends' = backends \ {s}
  /\ todo' = Tail(todo)

CloseSend ==
  /\ pc = "close" /\ todo # <<>>
  /\ LET s == Head(todo)
     IN  /\ call[s].kind = "idle" /\ ~Blocked(s)
         /\ IF Writable(s)
            THEN /\ srv' = [srv EXCEPT ![s] = Sent(@, FreshId(s), cur.n)]
                 /\ call' = [call EXCEPT ![s].kind = "wait"]
                 /\ UNCHANGED <<backends, todo>>
            ELSE /\ srv' = [srv EXCEPT ![s] = Closed]
                 /\ Dismiss(s) /\ UNCHANGED call
  /\ UNCHANGED <<pc, langs, Rest>>

CloseNext ==
  /\ pc = "close" /\ todo # <<>>
  /\ LET s == Head(todo)
     IN  /\ call[s].kind = "wait" /\ srv[s].chan # Empty /\ ~Blocked(s)
         /\ srv' = [srv EXCEPT ![s] = Closed]
         /\ call' = [call EXCEPT ![s].kind = "idle"]
         /\ Dismiss(s)
  /\ UNCHANGED <<pc, langs, Rest>>

CloseDone ==
  /\ pc = "close" /\ todo = <<>>
  /\ langs' = [l \in Languages |-> "unset"]
  /\ IF cur.kind = "shutdown"
     THEN pc' = "read" /\ reply' = [n |-> cur.n, code |-> "result", from |-> <<>>]
     ELSE pc' = "done" /\ UNCHANGED reply
  /\ UNCHANGED <<cur, cfg, docs, backends, todo, call, order, srv, tasks, events, overlapped>>
-----------------------------------------------------------------------------
(***************************************************************************)
(* The goroutines of notifications and of servers' requests.               *)
(***************************************************************************)
Unaffected == <<pc, cur, cfg, docs, langs, backends, todo, call, order, reply, events, overlapped>>

\* The servers goroutine t is for: syncNotify looks up the language's;
\* fanoutNotifyAll, and a goroutine that waits to write, has its own already.
Addressed(t) ==
  LET bound == BindingsLive(t.lang)
  IN  IF t.lang = None THEN t.to ELSE backends \cap {bound[i] : i \in DOMAIN bound}

\* The lookup needs the mutex closeAll holds.  Every server has a goroutine of
\* its own, so that one whose pipe is full holds up no other: it gets the
\* notification when it reads again.  A server's own notifications come in any
\* order; when the servers that can be written to get one is of no consequence.
Deliver(t) ==
  LET targets == Addressed(t)
      ready   == {s \in targets : ~Blocked(s)}
  IN  /\ Running /\ t \in tasks
      /\ IF t.lang = None THEN ready # {} \/ targets = {} ELSE pc # "close"
      /\ tasks' = (tasks \ {t}) \cup
                  {[lang |-> None, to |-> rest, note |-> t.note] : rest \in {targets \ ready} \ {{}}}
      /\ srv' = [s \in Servers |-> IF s \in ready THEN Notified(srv[s], t.note) ELSE srv[s]]
      /\ UNCHANGED Unaffected

\* onBackendMessage's goroutine for a server's request: three methods are
\* answered, if the server is registered by then; the others are only logged.
ReplyAsk(s) ==
  /\ Running /\ srv[s].ask \in {"configuration", "other"} /\ pc # "close"
  /\ srv[s].ask = "configuration" /\ s \in backends => ~Blocked(s)
  /\ srv' = [srv EXCEPT ![s].ask =
               IF @ = "configuration" /\ s \in backends /\ Writable(s) THEN "answered" ELSE "dropped"]
  /\ UNCHANGED <<Unaffected, tasks>>
-----------------------------------------------------------------------------
(***************************************************************************)
(* The language servers.                                                   *)
(***************************************************************************)
Server == <<pc, cur, cfg, docs, langs, backends, todo, call, order, reply, tasks, overlapped>>

Emit(s, m) == srv' = [srv EXCEPT ![s].pipe = Append(@, m)]

SrvAnswer(s) ==
  /\ Running /\ srv[s].proc = "up"
  /\ \E r \in srv[s].inbox, k \in Outcomes :
       srv' = [srv EXCEPT ![s].inbox = @ \ {r},
                          ![s].pipe = Append(@, [type |-> "answer", id |-> r.id, for |-> r.for, kind |-> k])]
  /\ UNCHANGED <<Server, events>>

\* A crash, a pipe that is full because the server does not read, a message
\* that cannot be decoded, or a request to the client, which a server may send
\* once it was told `initialized`.
SrvEvent(s) ==
  /\ Running /\ srv[s].proc = "up"
  /\ events < MaxEvents /\ events' = events + 1
  /\ \/ srv' = [srv EXCEPT ![s].proc = "dead"]
     \/ ~srv[s].full /\ srv' = [srv EXCEPT ![s].full = TRUE]
     \/ Emit(s, [type |-> "garbage", id |-> 0, for |-> 0, kind |-> "none"])
     \/ /\ srv[s].ready /\ srv[s].ask = "none"
        /\ \E m \in AskMethods : Emit(s, [type |-> "ask", id |-> 0, for |-> 0, kind |-> m])
  /\ UNCHANGED Server

\* A server that did not read goes on to read, or exits.
SrvResumes(s) ==
  /\ Running /\ Blocked(s)
  /\ \/ srv' = [srv EXCEPT ![s].full = FALSE]
     \/ srv' = [srv EXCEPT ![s].proc = "dead"]
  /\ UNCHANGED <<Server, events>>
-----------------------------------------------------------------------------
Init ==
  /\ pc = "read"
  /\ cur = [n |-> 0, kind |-> "none", doc |-> None, cap |-> None]
  /\ cfg = "none"
  /\ docs = [d \in Docs |-> 0]
  /\ langs = [l \in Languages |-> "unset"]
  /\ backends = {}
  /\ todo = <<>>
  /\ call = [s \in Servers |-> [kind |-> "idle", for |-> 0]]
  /\ order = <<>>
  /\ reply = [n |-> 0, code |-> "none", from |-> <<>>]
  /\ srv = [s \in Servers |-> NoProc]
  /\ tasks = {}
  /\ events = 0 /\ overlapped = FALSE

Editor ==
  \/ ReadInitialize
  \/ \E d \in Docs : ReadOpen(d) \/ ReadChange(d) \/ ReadClose(d)
  \/ \E d \in Docs \cup {None} : ReadNotify(d)
  \/ \E d \in Docs \cup {None}, c \in Caps : ReadRequest(d, c)
  \/ \E kind \in {"shutdown", "exit"} : ReadShutdown(kind)
  \/ ReadBroken

Loop ==
  \/ SkipServer \/ StartFails \/ StartServer \/ InitDone \/ Greet \/ InitFails \/ Register \/ EnsureDone
  \/ RouteOpen \/ RouteRequest \/ Answer
  \/ \E s \in Servers : Issue(s) \/ Receive(s) \/ Timeout(s)
  \/ CloseSend \/ CloseNext \/ CloseDone

Next ==
  \/ Editor \/ Loop
  \/ \E s \in Servers : ReadLoop(s) \/ Reap(s) \/ ReplyAsk(s)
  \/ \E s \in Servers : SrvAnswer(s) \/ SrvEvent(s) \/ SrvResumes(s)
  \/ \E t \in tasks : Deliver(t)

\* Goroutines run and processes that were killed or crashed are reaped.
\* Nothing is assumed of the editor, nor of a server that is up, not even that
\* it reads.
Fairness ==
  /\ WF_vars(Loop)
  /\ \A s \in Servers : WF_vars(ReadLoop(s)) /\ WF_vars(Reap(s)) /\ WF_vars(ReplyAsk(s))
  /\ WF_vars(\E t \in tasks : Deliver(t))

Spec == Init /\ [][Next]_vars
FairSpec == Spec /\ Fairness
-----------------------------------------------------------------------------
(***************************************************************************)
(* Properties.                                                             *)
(***************************************************************************)
Places == {"read", "start", "init", "greet", "replay", "route", "call", "close", "done", "failed"}
Kinds  == {"none", "initialize", "open", "change", "close", "notify", "request", "shutdown", "exit", "broken"}
Result == [kind : AllOutcomes \cup {"none", "idle", "issue", "wait"}, for : 0..MaxMsgs]
Notes  == [n : 1..MaxMsgs, op : {"open", "change", "close", "save"}, doc : Docs \cup {None}, ver : 0..MaxMsgs]

\* Every variable holds a value of its type (proxy.go, backend.go, docs.go).
TypeOK ==
  /\ pc \in Places
  /\ cur \in [n : 0..MaxMsgs, kind : Kinds, doc : Docs \cup {None}, cap : Caps \cup {None}]
  /\ cfg \in {"none", "empty", "full"}
  /\ docs \in [Docs -> 0..MaxMsgs]
  /\ langs \in [Languages -> {"unset", "nil", "live"}]
  /\ backends \subseteq Servers
  /\ todo \in Seq(Servers) /\ order \in Seq(Servers)
  /\ call \in [Servers -> Result]
  /\ reply.n \in 0..MaxMsgs /\ reply.from \in Seq(Servers)
  /\ \A s \in Servers : /\ srv[s].proc \in {"none", "up", "dead", "gone"}
                        /\ srv[s].reading \in BOOLEAN /\ srv[s].full \in BOOLEAN
                        /\ srv[s].ready \in BOOLEAN
                        /\ srv[s].next \in Nat /\ srv[s].pending \in Nat
                        /\ srv[s].chan \in Result
                        /\ srv[s].seen \in Seq(Notes)
                        /\ srv[s].ask \in {"none", "configuration", "other", "answered", "dropped"}
  /\ \A t \in tasks : t.lang \in Languages \cup {None} /\ t.to \subseteq Servers /\ t.note \in Notes
  /\ overlapped \in BOOLEAN

\* What goes into the answer of a request was said by a server about that very
\* request, never a late answer to one that timed out, and the loop does not
\* read on before the request it handled has its answer (Backend.Request
\* matching ids, forwardRequest).
OwnAnswers ==
  /\ pc = "call" => \A s \in Servers : call[s].kind \notin {"error", "idle"} => call[s].for \in {0, cur.n}
  /\ pc = "call" => \A s \in Servers : call[s].kind \in AllOutcomes \ {"error"} => call[s].for = cur.n
  /\ pc = "read" /\ cur.kind \in {"initialize", "request", "shutdown"} => reply.n = cur.n

\* No notification is under way.
Quiet == tasks = {} /\ pc \in {"read", "call"}

\* Where, in what server s was told, the edits of document d are.
Edits(s, d) ==
  {i \in DOMAIN srv[s].seen : srv[s].seen[i].doc = d /\ srv[s].seen[i].op \in {"open", "change"}}

\* Once no notification is under way, every live server of an open document's
\* language was told of the document's current version; and if no two
\* notifications ever overlapped, that is the last version it was told of (the
\* goroutines of onDidOpen and onDidChange are not ordered: with an overlap an
\* older text may well arrive last).
EditsArrive ==
  Quiet => \A d \in Docs, s \in backends :
    LET l == ResolveLanguage(d)
    IN  docs[d] # 0 /\ srv[s].proc = "up" /\ l # None /\ langs[l] = "live" /\ s \in Bound(l)
        => \E i \in Edits(s, d) : /\ srv[s].seen[i].ver = docs[d]
                                  /\ overlapped \/ \A j \in Edits(s, d) : j <= i

\* A server process that runs is one closeAll would find, or the one being
\* initialized: a failed initialization leaves no process behind.  And when the
\* loop has ended, by exit or the end of the editor's stream, none runs.  A read
\* error of another kind is the exception: Run returns without closeAll, and the
\* registered servers are left running (ensureLanguage's Close, Run, closeAll).
NoOrphans ==
  /\ \A s \in Servers : srv[s].proc = "up" =>
       s \in backends \/ (pc \in {"init", "greet", "replay"} /\ todo # <<>> /\ s = Head(todo))
  /\ ~Running => cur.kind = "broken" \/ \A s \in Servers : srv[s].proc # "up"

\* The loop is in a write to a server that runs and does not read: the
\* `initialized` notification or the replay, or a request.
Unread == \E s \in Servers :
  /\ Blocked(s)
  /\ \/ pc \in {"greet", "replay"} /\ todo # <<>> /\ s = Head(todo)
     \/ pc = "call" /\ call[s].kind = "issue"

\* Servers may crash, garble, answer late or never: the loop comes back from a
\* document or a request to read the next message, unless it is in a write to a
\* server that does not read.  Only the wait for an answer has a timeout
\* (initializeBackend, forwardRequest, Backend.Request).
LoopReturns == []<>(pc \notin {"start", "init", "greet", "replay", "route", "call"} \/ Unread)

\* A server holds closeAll up only while it runs and has not answered shutdown
\* or does not read, or if its read loop ended on something that was not a
\* message.
Held == \E s \in Servers :
  /\ todo # <<>> /\ s = Head(todo) /\ srv[s].proc = "up"
  /\ ~srv[s].reading \/ srv[s].full \/ \E r \in srv[s].inbox : r.id = srv[s].pending

\* closeAll never stays stuck on a server that exited or answered (failPending
\* wakes the request of a dead process).
ShutdownReturns == []<>(pc # "close" \/ Held)

\* The loop returns from documents and requests, and from shutting down.
Returns == LoopReturns /\ ShutdownReturns
=============================================================================
