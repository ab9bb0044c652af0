------------------------------ MODULE SumLock ------------------------------
(***************************************************************************)
(* modot.lock.json and the commands that read, change and write it:        *)
(*                                                                         *)
(*   "run"      a lazy tool is resolved, pinned and installed              *)
(*              (internal/tool/lazy.go, ResolveLazyToolAt)                 *)
(*   "refresh"  apply and plan pin what is not pinned yet                  *)
(*              (RefreshWorkspaceLocks)                                    *)
(*   "lock"     `modot mod lock` pins every source anew (GenerateLock)     *)
(*                                                                         *)
(* No lock guards the file.  Every change goes through updateSumFile: load,*)
(* change, write by rename; other commands may write between the load and  *)
(* the write, and between the load a command decides on and either.        *)
(***************************************************************************)
EXTENDS Naturals

CONSTANTS
    Procs,        \* commands, one process (or goroutine of the daemon) each
    Tools,        \* configured lazy tools; each has its own row in the lock
    Repos,        \* rows of sources: the lock identity of a provider
    Aliases,      \* configured sources
    RepoOf,       \* [Aliases -> Repos]: two aliases may share a row
    MaxVersion    \* bound on releases upstream

ASSUME LockAssumption ==
    /\ RepoOf \in [Aliases -> Repos]
    /\ Tools \cap Aliases = {} /\ Tools \cap Repos = {}
    /\ MaxVersion \in Nat \ {0}

Workspaces == {"here", "home"}   \* where the command runs; the dotfiles
Rows == Tools \cup Repos
Items == Tools \cup Aliases
RowOf(i) == IF i \in Tools THEN i ELSE RepoOf[i]

\* A pin: the ref it tracks and the version or commit it names.
Tracked == {"release", "main", "dev"}
Pins == [ref : Tracked, pin : 1 .. MaxVersion]
None == [ref |-> "none", pin |-> 0]
Empty == [r \in Rows |-> None]
NoFile == [r \in Rows |-> [ref |-> "no file", pin |-> 0]]

\* What a source of the configuration asks for; HEAD is the default branch.
Wants == {"HEAD", "main", "dev"}

VARIABLES
    lock,     \* [Workspaces -> the lock file]
    want,     \* [Aliases -> Wants]: the configuration
    latest,   \* the newest version upstream
    job,      \* [Procs -> what the command does]
    pc,       \* [Procs -> where it is]
    todo,     \* [Procs -> items whose version is still to be resolved]
    pins,     \* [Procs -> [Items -> the pin the command will write]]
    buf,      \* [Procs -> the lock as updateSumFile loaded it]
    seen,     \* bookkeeping: rows others wrote since the command decided
    late      \* bookkeeping: rows others wrote since updateSumFile loaded

lockVars == <<lock, want, latest, job, pc, todo, pins, buf, seen, late>>
local == <<job, todo, pins, buf>>

Jobs == [kind : {"run"}, tool : Tools, ws : Workspaces]
        \cup [kind : {"refresh", "lock"}, tool : {"all"}, ws : Workspaces]
Resting == {"idle", "done", "failed", "killed"}
Working(p) == pc[p] \notin Resting
NoPins == [i \in Items |-> None]
WS(p) == job[p].ws
File(p) == lock[WS(p)]
Contents(l) == IF l = NoFile THEN Empty ELSE l

LockTypeOK ==
    /\ lock \in [Workspaces -> {NoFile} \cup [Rows -> Pins \cup {None}]]
    /\ want \in [Aliases -> Wants]
    /\ latest \in 1 .. MaxVersion
    /\ job \in [Procs -> Jobs]
    /\ pc \in [Procs -> Resting \cup {"ensure", "create", "load", "tools",
                                     "resolve", "update", "write", "install"}]
    /\ todo \in [Procs -> SUBSET Items]
    /\ pins \in [Procs -> [Items -> Pins \cup {None}]]
    /\ buf \in [Procs -> [Rows -> Pins \cup {None}]]
    /\ seen \in [Procs -> SUBSET Rows]
    /\ late \in [Procs -> SUBSET Rows]

----------------------------------------------------------------------------
(* What the lock says of an item, and what upstream says. *)

Matches(w, row) == w = "HEAD" \/ w = row.ref

\* findExistingSourceLock, sourceLockReusable, sourceLockMatchesDesired
Reusable(a, l) == l[RepoOf[a]] # None /\ Matches(want[a], l[RepoOf[a]])

\* latestVersion of a tool is asked upstream. LockHash of a source tracks the
\* default branch when the configuration names none, and its commit is the one
\* this machine's source cache holds for the ref, which may be an older one.
Answers(i) ==
    [ref : {IF i \in Tools THEN "release"
            ELSE IF want[i] = "HEAD" THEN "main" ELSE want[i]},
     pin : IF i \in Tools THEN {latest} ELSE 1 .. latest]

\* UpsertTool, UpsertSource: the rows of the given items, the aliases of one
\* row in any order (the entries are a Go map), the last one wins.
Upserts(l, new) ==
    {m \in [Rows -> {new[i] : i \in Items} \cup {l[r] : r \in Rows}] :
        \A r \in Rows :
            LET mine == {i \in Items : RowOf(i) = r /\ new[i] # None}
            IN  IF mine = {} THEN m[r] = l[r] ELSE m[r] \in {new[i] : i \in mine}}

\* writeSumFile in workspace w: temp file and rename. Everybody else's view of
\* the rows that change is out of date.
WriteFile(p, w, new) ==
    LET changed == {r \in Rows : Contents(lock[w])[r] # new[r]}
        stale(q) == IF q # p /\ Working(q) /\ WS(q) = w THEN changed ELSE {}
    IN  /\ lock' = [lock EXCEPT ![w] = new]
        /\ late' = [q \in Procs |-> IF q = p THEN {} ELSE late[q] \cup stale(q)]
        /\ seen' = [q \in Procs |-> IF q = p /\ job[p].kind = "run" THEN {}
                                    ELSE seen[q] \cup stale(q)]

Goto(p, l) == pc' = [pc EXCEPT ![p] = l]
Keep == UNCHANGED <<lock, want, latest>>

----------------------------------------------------------------------------
(* The steps of a command. *)

\* The command starts: it has detected its workspace and loaded the
\* configuration.
Begin(p) ==
    /\ pc[p] = "idle"
    /\ Goto(p, "ensure")
    /\ Keep /\ UNCHANGED <<local, seen, late>>

\* EnsureLockFile: stat, and the load of updateSumFile.
EnsureFiles(p) ==
    /\ pc[p] = "ensure"
    /\ Goto(p, IF File(p) = NoFile THEN "create" ELSE "load")
    /\ late' = [late EXCEPT ![p] = {}]
    /\ Keep /\ UNCHANGED <<local, seen>>

\* The write of an empty lock: what came into being meanwhile is replaced.
Create(p) ==
    /\ pc[p] = "create"
    /\ WriteFile(p, WS(p), Empty)
    /\ Goto(p, "load")
    /\ UNCHANGED <<want, latest, local>>

\* Mistake: the lock is not consulted.
Unknown(p, l) == NoPins

\* LoadSumFile, and what of it the command keeps: the pin of the tool; for a
\* refresh the pins that are good for their sources; `mod lock` keeps none.
Known(p, l) ==
    [i \in Items |->
        CASE job[p].kind = "run" /\ i = job[p].tool -> l[i]
          [] job[p].kind = "refresh" /\ i \in Aliases /\ Reusable(i, l) -> l[RepoOf[i]]
          [] OTHER -> None]

Concerns(p) == IF job[p].kind = "run" THEN {job[p].tool} ELSE Aliases

Load(p) ==
    /\ pc[p] = "load"
    /\ LET known == Known(p, Contents(File(p)))
       IN  /\ pins' = [pins EXCEPT ![p] = known]
           /\ todo' = [todo EXCEPT ![p] = {i \in Concerns(p) : known[i] = None}]
    /\ seen' = [seen EXCEPT ![p] = {}]
    /\ Goto(p, "resolve")
    /\ Keep /\ UNCHANGED <<job, buf, late>>

\* The tools RefreshLazyToolLocks works on.
NeedsWork(l) == {t \in Tools : l[t] = None}

\* RefreshLazyToolLocks loads the lock again, after the sources are written.
LoadTools(p) ==
    /\ pc[p] = "tools"
    /\ LET needs == NeedsWork(Contents(File(p)))
       IN  /\ todo' = [todo EXCEPT ![p] = needs]
           /\ Goto(p, IF needs = {} THEN "done" ELSE "resolve")
    /\ pins' = [pins EXCEPT ![p] = NoPins]
    /\ Keep /\ UNCHANGED <<job, buf, seen, late>>

\* The lookups upstream, in parallel; the results are used together.
Resolve(p) ==
    /\ pc[p] = "resolve" /\ todo[p] # {}
    /\ \E found \in [todo[p] -> UNION {Answers(i) : i \in todo[p]}] :
        /\ \A i \in todo[p] : found[i] \in Answers(i)
        /\ pins' = [pins EXCEPT ![p] =
                      [i \in Items |-> IF i \in todo[p] THEN found[i] ELSE @[i]]]
    /\ todo' = [todo EXCEPT ![p] = {}]
    /\ Keep /\ UNCHANGED <<job, pc, buf, seen, late>>

\* All are known: updateSumFile loads the lock.
UpdateLoad(p) ==
    /\ \/ pc[p] = "resolve" /\ todo[p] = {}
       \/ pc[p] = "update"
    /\ buf' = [buf EXCEPT ![p] = Contents(File(p))]
    /\ late' = [late EXCEPT ![p] = {}]
    /\ Goto(p, "write")
    /\ Keep /\ UNCHANGED <<job, todo, pins, seen>>

\* The pins of this updateSumFile: the tool of a run, all sources, or one of
\* the tools of a refresh.
Batches(p) ==
    LET found == {i \in Items : pins[p][i] # None}
    IN  IF found \cap Tools # {} THEN {{t} : t \in found \cap Tools} ELSE {found}

Only(p, batch) == [i \in Items |-> IF i \in batch THEN pins[p][i] ELSE None]

\* Mistake: a refresh ends when the sources are written.
AfterSources(p, batch) == IF job[p].kind = "run" THEN "install" ELSE "done"

\* After a batch: the tool is installed, the refresh goes on with the tools.
After(p, batch) ==
    CASE job[p].kind = "run" -> "install"
      [] job[p].kind = "refresh" /\ batch \subseteq Aliases -> "tools"
      [] job[p].kind = "refresh" /\ Batches(p) # {batch} -> "update"
      [] OTHER -> "done"

\* Mistake: an existing row keeps its version (applyLiveToolEnrichment alone).
UpdateKeeps(p) ==
    /\ pc[p] = "write"
    /\ \E batch \in Batches(p) :
        /\ \E new \in Upserts(buf[p], [i \in Items |->
                            IF buf[p][RowOf(i)] = None THEN Only(p, batch)[i] ELSE None]) :
                WriteFile(p, WS(p), new)
        /\ Goto(p, After(p, batch))
    /\ UNCHANGED <<want, latest, local>>

\* Some upsert found another pin in the row, perhaps that of another alias.
Reported(p, batch) == \E i \in batch : pins[p][i] \notin {None, buf[p][RowOf(i)]}

\* The change and the write of updateSumFile; nothing is written when no upsert
\* reports a change.
UpdateWrite(p) ==
    /\ pc[p] = "write"
    /\ \E batch \in Batches(p) :
        /\ \E new \in Upserts(buf[p], Only(p, batch)) :
            IF Reported(p, batch)
              THEN WriteFile(p, WS(p), new)
              ELSE /\ seen' = [seen EXCEPT ![p] = IF job[p].kind = "run" THEN late[p] ELSE @]
                   /\ late' = [late EXCEPT ![p] = {}]
                   /\ UNCHANGED lock
        /\ Goto(p, After(p, batch))
        /\ pins' = [pins EXCEPT ![p] =
                      IF job[p].kind = "run" THEN @
                      ELSE [i \in Items |-> IF i \in batch THEN None ELSE @[i]]]
        /\ buf' = [buf EXCEPT ![p] = Empty]
    /\ UNCHANGED <<want, latest, job, todo>>

\* store.Ensure installs the version and the command runs it.
Install(p) ==
    /\ pc[p] = "install"
    /\ Goto(p, "done")
    /\ pins' = [pins EXCEPT ![p] = NoPins]
    /\ seen' = [seen EXCEPT ![p] = {}]
    /\ Keep /\ UNCHANGED <<job, todo, buf, late>>

\* Any step may fail: the lock cannot be read or parsed, upstream does not
\* answer, the disk is full, the archive is broken. A tool is then tried in
\* the dotfiles; everything else ends.
Fail(p) ==
    /\ Working(p)
    /\ IF job[p].kind = "run" /\ WS(p) = "here"
         THEN job' = [job EXCEPT ![p].ws = "home"] /\ Goto(p, "ensure")
         ELSE Goto(p, "failed") /\ UNCHANGED job
    /\ todo' = [todo EXCEPT ![p] = {}]
    /\ pins' = [pins EXCEPT ![p] = NoPins]
    /\ seen' = [seen EXCEPT ![p] = {}]
    /\ late' = [late EXCEPT ![p] = {}]
    /\ buf' = [buf EXCEPT ![p] = Empty]
    /\ Keep

\* The process of p dies; the temp file of a write is never renamed.
Killed(ps) ==
    /\ pc' = [p \in Procs |-> IF p \in ps /\ Working(p) THEN "killed" ELSE pc[p]]
    /\ Keep /\ UNCHANGED <<local, seen, late>>

\* A release upstream.
Publish ==
    /\ latest < MaxVersion
    /\ latest' = latest + 1
    /\ UNCHANGED <<lock, want, pc, local, seen, late>>

LockStep(p) ==
    \/ EnsureFiles(p) \/ Create(p) \/ Load(p) \/ LoadTools(p)
    \/ Resolve(p) \/ UpdateLoad(p) \/ UpdateWrite(p) \/ Install(p)

LockInit(files, config, jobs) ==
    /\ lock = files /\ want = config /\ job = jobs
    /\ latest = 1
    /\ pc = [p \in Procs |-> "idle"]
    /\ todo = [p \in Procs |-> {}]
    /\ pins = [p \in Procs |-> NoPins]
    /\ buf = [p \in Procs |-> Empty]
    /\ seen = [p \in Procs |-> {}]
    /\ late = [p \in Procs |-> {}]

=============================================================================
