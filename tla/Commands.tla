------------------------------ MODULE Commands ------------------------------
(***************************************************************************)
(* Commands on the lock, run by their clients or for them by the daemon:   *)
(* the composition of SumLock and Daemon.  A client is also the process of *)
(* its command.  A command in the daemon is a goroutine that shares        *)
(* nothing with the others but the lock file, and dies with the daemon.    *)
(***************************************************************************)
EXTENDS SumLock, Daemon

ASSUME SameNames == Clients = Procs

CONSTANTS
    Scenarios,  \* locks, configuration, commands and clients to start from
    MaxBreaks   \* bound on interruptions, exits and failures

ASSUME ScenarioAssumption ==
    \A s \in Scenarios :
        /\ s.files \in [Workspaces -> {NoFile} \cup [Rows -> Pins \cup {None}]]
        /\ s.config \in [Aliases -> Wants] /\ s.jobs \in [Procs -> Jobs]
        /\ s.clients \in [Clients -> {"start", "local"}]

VARIABLE breaks   \* interruptions, exits and failures so far

vars == <<lockVars, daemonVars, breaks>>

InDaemon == {c \in Clients : Serving(c)}
Good(c) == pc[c] = "done"

Break == breaks < MaxBreaks /\ breaks' = breaks + 1
Calm == UNCHANGED breaks

\* The request passes both checks and its command begins in the daemon.
StartRemote(c) == Serve(c) /\ Begin(c) /\ Calm

StartLocal(c) ==
    /\ client[c] = "local" /\ Begin(c)
    /\ Calm /\ UNCHANGED daemonVars

Advance(c) == LockStep(c) /\ Calm /\ UNCHANGED daemonVars

Fails(c) == Fail(c) /\ Break /\ UNCHANGED daemonVars

Write(c) == Working(c) /\ Output(c) /\ Calm /\ UNCHANGED lockVars

EndRemote(c) ==
    /\ pc[c] \in {"done", "failed"} /\ Finish(c, Good(c))
    /\ Calm /\ UNCHANGED lockVars

EndLocal(c) ==
    /\ pc[c] \in {"done", "failed"} /\ LocalEnds(c, Good(c))
    /\ Calm /\ UNCHANGED lockVars

\* A command in the client's process dies with it; one in the daemon goes on.
Interrupted(c) ==
    /\ Interrupt(c)
    /\ Killed(IF client[c] = "local" THEN {c} ELSE {})
    /\ Break

Reader(c) ==
    /\ CheckTime(c) \/ CheckHash(c) \/ ReadEnds(c)
    /\ Calm /\ UNCHANGED lockVars

Pumped(c) == Pump(c) /\ Calm /\ UNCHANGED lockVars

Returned(c) == Return(c) /\ Calm /\ UNCHANGED lockVars

Connect(c) ==
    /\ Dial(c) \/ DialFails(c)
    /\ Calm /\ UNCHANGED lockVars

Restarted(c) == Exec(c) /\ Killed(InDaemon) /\ Calm

Stopped == Exit /\ Killed(InDaemon) /\ Break

Environment ==
    \/ StartDaemon /\ Calm /\ UNCHANGED lockVars
    \/ Replace /\ Calm /\ UNCHANGED lockVars
    \/ Publish /\ Calm /\ UNCHANGED daemonVars

Init ==
    /\ \E s \in Scenarios : LockInit(s.files, s.config, s.jobs) /\ DaemonInit(s.clients)
    /\ breaks = 0

Progress(c) ==
    \/ StartRemote(c) \/ StartLocal(c) \/ Advance(c)
    \/ EndRemote(c) \/ EndLocal(c) \/ Reader(c)
    \/ Pumped(c) \/ Returned(c) \/ Restarted(c)

Next ==
    \/ \E c \in Clients :
        \/ Connect(c) \/ Progress(c) \/ Write(c)
        \/ Fails(c) \/ Interrupted(c)
    \/ Stopped
    \/ Environment

\* Every goroutine and every command goes on while it can; nobody has to
\* interrupt, to fail, to publish or to replace anything.
Fairness ==
    \A c \in Clients :
        /\ WF_vars(Connect(c)) /\ WF_vars(StartLocal(c)) /\ WF_vars(EndLocal(c))
        /\ WF_vars(Advance(c))
        /\ WF_vars(StartRemote(c) \/ EndRemote(c) \/ Reader(c))
        /\ WF_vars(Pumped(c))
        /\ WF_vars(Returned(c) \/ Restarted(c))

Spec == Init /\ [][Next]_vars /\ Fairness

----------------------------------------------------------------------------

\* Types; a connection never holds more packets than its channel has room for.
TypeOK == LockTypeOK /\ DaemonTypeOK /\ breaks \in 0 .. MaxBreaks

\* A reason for p to replace row r of the lock of w.
MayReplace(p, w, r) ==
    /\ pc[p] \in {"create", "write"} /\ pc'[p] # pc[p] /\ WS(p) = w
    /\ \/ r \in late[p]
       \/ r \in seen[p] /\ \E i \in Items : RowOf(i) = r /\ pins[p][i] # None
       \/ /\ job[p].kind # "run"
          /\ \E a \in Aliases :
                /\ RepoOf[a] = r
                /\ job[p].kind = "lock" \/ ~Matches(want[a], Contents(lock[w])[r])

PinStays(w, r) ==
    LET old == Contents(lock[w])[r]
    IN  (old # None /\ Contents(lock'[w])[r] # old) => \E p \in Procs : MayReplace(p, w, r)

\* A pin stays. A row of a lock on disk changes or disappears only because a
\* command wrote a copy that others had changed since it loaded it, wrote a
\* pin it had decided on before the row got its present one, or because the
\* command is `mod lock`, or the configuration asks for another ref
\* (updateSumFile, RefreshLazyToolLocks, GenerateLockWithConfig).
PinsStay ==
    [][\A w \in Workspaces, r \in Rows : PinStays(w, r)]_vars

\* What is run is what is pinned: a command about to install a version has it
\* in the lock of the workspace it resolved the tool in, whatever was written
\* while it looked the version up, unless another command has replaced the
\* pin after this one wrote it (resolveLazyToolInWorkspace).
RunsPinned ==
    \A p \in Procs : pc[p] = "install" =>
        \/ Contents(File(p))[job[p].tool] = pins[p][job[p].tool]
        \/ job[p].tool \in seen[p]

\* If refresh p ends well in this step, everything has a row then.
LeavesPins(p) ==
    (job[p].kind = "refresh" /\ pc'[p] = "done" /\ pc[p] # "done") =>
        \A i \in Items :
            LET row == Contents(lock'[WS(p)])[RowOf(i)]
            IN  \/ RowOf(i) \in seen'[p]
                \/ row # None /\ (i \in Aliases =>
                        \E a \in Aliases : RepoOf[a] = RepoOf[i] /\ Matches(want[a], row))

\* A refresh that ends well leaves a row for every tool and every source, the
\* latter as its configuration, or that of another alias of the repository,
\* asks for; except for rows that others wrote meanwhile
\* (RefreshWorkspaceLocks).
RefreshPins == [][\A p \in Procs : LeavesPins(p)]_vars

\* No command is run twice: a client runs its command itself only when the
\* daemon has not begun it (TryRemoteRaw's second result).
NotTwice ==
    [][\A c \in Clients :
        (client[c] # "local" /\ client'[c] = "local") => pc[c] = "idle"]_vars

\* A client that reports success has had its command run to its end, with all
\* its writes on disk, in one process or the other.
OkMeansDone == \A c \in Clients : client[c] = "ok" => pc[c] = "done"

\* A call returns: neither a full channel, nor another client that vanished,
\* nor a restart or an end of the daemon leaves a client waiting.
CallsReturn ==
    \A c \in Clients :
        (client[c] \in {"wait", "local"}) ~> (client[c] \in {"ok", "failed", "gone"})

\* "daemon will exec itself": once a request found the binary changed, the
\* daemon becomes the new binary or ends (daemon.go:337, 367).
Restarts == daemon.restart ~> ~daemon.restart

=============================================================================
