------------------------------ MODULE Deployer ------------------------------
(***************************************************************************)
(* home apply / codebase apply: the deployment cycle of dotfiles.Manager,  *)
(* with the planner, the executor and the state store it drives.           *)
(*                                                                         *)
(* An apply process reads the configuration, loads state.json, plans one   *)
(* action per target, runs the file-system work of the actions as parallel *)
(* tasks, runs the After hooks, and only then writes state.json.  Any of   *)
(* its steps can fail, the process can be killed between any two of them,  *)
(* and the operator edits targets and the configuration meanwhile.         *)
(***************************************************************************)
EXTENDS FileTree, Naturals

CONSTANTS
  Proc,            \* apply processes
  Src,             \* SourceInfo strings
  NoSrc,           \* "this path has no key in state.json"
  Bundle,          \* the members of Src that contain "bundle:"
  NoEntry,         \* "this path is not desired"
  Configs,         \* what the configuration can ask for
  Options,         \* the command lines: subset of [dryRun, noCache]
  Marker,          \* the target of the dconf marker, or NoPath
  NoPath,
  NoSettings,      \* dconf before the first load
  Allowed,         \* the kinds of disturbance an instance explores
  UserNode,        \* what an operator may put at a path by hand
  MaxDisturbances  \* bound on edits, configuration changes, failures and crashes

Entry == [val : Data \cup Link, src : Src]
Config == [want : [Path -> Entry \cup {NoEntry}], ignored : SUBSET Path]

Wanted(c) == {q \in Path : c.want[q] # NoEntry}

\* compose rejects a target below another one (pathSet.overlaps).
PrefixFree(c) == \A q \in Wanted(c) : Below[q] \cap Wanted(c) = {}

ASSUME ConfigAssumption ==
  /\ Configs \subseteq Config
  /\ \A c \in Configs : PrefixFree(c)
  /\ NoSrc \notin Src
  /\ NoEntry \notin Entry
  /\ Bundle \subseteq Src
ASSUME EnvironmentAssumption ==
  /\ Options \subseteq [dryRun : BOOLEAN, noCache : BOOLEAN]
  /\ Marker \in Path \cup {NoPath}
  /\ NoPath \notin Path
  /\ NoSettings \notin Data \cup Link
  /\ Allowed \subseteq {"task", "hook", "abort", "crash", "edit", "config", "reconfig"}
  /\ UserNode \subseteq Data \cup {Absent, Dir}
  /\ MaxDisturbances \in Nat

VARIABLES
  fs,            \* the targets on disk
  saved,         \* state.json
  config,        \* the configuration on disk
  dconf,         \* the settings dconf last loaded, named by the marker's content
  pc,            \* where each process is in Manager.Apply
  cfg,           \* the desired state it read
  opt,           \* its options
  st,            \* its state in memory
  dropped,       \* whether DropIgnored removed a key from it
  plan,          \* the planned action of each path
  task,          \* the executor task of each path
  quiet,         \* nobody else touched the targets since the process began
  disturbances   \* disturbances so far

local == <<cfg, opt, st, dropped, plan, task>>
vars == <<fs, saved, config, dconf, pc, local, quiet, disturbances>>

Resting == {"idle", "done", "failed"}
Phase == Resting \cup {"load", "plan", "before", "execute", "after", "save"}
Kind == {"none", "create", "update", "delete", "noop"}
Step == {"idle", "todo", "remove", "clear", "install", "commit", "ok", "err"}
Owned == [Path -> Src \cup {NoSrc}]

TypeOK ==
  /\ fs \in [Path -> Node]
  /\ saved \in Owned
  /\ config \in Configs
  /\ dconf \in Data \cup Link \cup {NoSettings}
  /\ pc \in [Proc -> Phase]
  /\ cfg \in [Proc -> Configs]
  /\ opt \in [Proc -> [dryRun : BOOLEAN, noCache : BOOLEAN]]
  /\ st \in [Proc -> Owned]
  /\ dropped \in [Proc -> BOOLEAN]
  /\ plan \in [Proc -> [Path -> Kind]]
  /\ task \in [Proc -> [Path -> Step]]
  /\ quiet \in [Proc -> BOOLEAN]
  /\ disturbances \in Nat
-----------------------------------------------------------------------------
(***************************************************************************)
(* The planner.                                                            *)
(***************************************************************************)
NothingOwned == [q \in Path |-> NoSrc]

\* Mistake: ignored keys are kept.
KeepIgnored(s, ignored) == s

DropIgnored(s, ignored) == [q \in Path |-> IF q \in ignored THEN NoSrc ELSE s[q]]

\* planOne hashes a directory as a file when the permission bits agree: the
\* read fails and with it the whole plan.
PlanFails(t, c, s, nocache) ==
  /\ ~nocache
  /\ \E q \in Wanted(c) :
       /\ t[q] = Dir
       /\ c.want[q].val \in DirPerm
       /\ ~(s[q] = c.want[q].src /\ s[q] \in Bundle)

\* Mistakes: an unchanged fingerprint is trusted for every file; an ignored
\* target is adopted; a prune does not ask who owns the target.
TrustSource(t, c, s, nocache, q) ==
  LET e == c.want[q] IN
  IF e = NoEntry THEN IF s[q] = NoSrc THEN "none" ELSE "delete"
  ELSE IF t[q] = Absent THEN "create"
  ELSE IF s[q] = e.src THEN "noop" ELSE "update"

AdoptIgnored(t, c, s, nocache, q) ==
  LET e == c.want[q] IN
  IF e = NoEntry THEN IF s[q] = NoSrc THEN "none" ELSE "delete"
  ELSE IF t[q] = Absent THEN "create"
  ELSE IF nocache \/ t[q] # e.val \/ s[q] # e.src THEN "update" ELSE "noop"

PruneUnowned(t, c, s, nocache, q) ==
  LET e == c.want[q] IN
  IF e = NoEntry THEN IF t[q] = Absent THEN "none" ELSE "delete"
  ELSE IF t[q] = Absent THEN "create"
  ELSE IF nocache \/ t[q] # e.val \/ s[q] # e.src THEN "update" ELSE "noop"

PlanOne(t, c, s, nocache, q) ==
  LET e == c.want[q] IN
  IF e = NoEntry THEN IF s[q] = NoSrc THEN "none" ELSE "delete"
  ELSE IF t[q] = Absent THEN "create"
  ELSE IF nocache THEN "update"
  ELSE IF s[q] = e.src /\ s[q] \in Bundle THEN "noop"
  ELSE IF t[q] # e.val THEN "update"
  ELSE IF q \in c.ignored \/ s[q] = e.src THEN "noop"
  ELSE "update"

Plan(t, c, s, nocache) == [q \in Path |-> PlanOne(t, c, s, nocache, q)]

Work == {"create", "update", "delete"}
HasChanges(pl) == \E q \in Path : pl[q] \in Work

\* Mistake: the skip of ignored targets is forgotten.
PatchIgnored(s, c, pl) ==
  [q \in Path |->
     IF pl[q] = "delete" THEN NoSrc
     ELSE IF pl[q] \in {"create", "update"} THEN c.want[q].src
     ELSE s[q]]

(***************************************************************************)
(* The state patches of a plan whose tasks all succeeded.  An ignored      *)
(* target is written and never owned.                                      *)
(***************************************************************************)
Patched(s, c, pl) ==
  [q \in Path |->
     IF pl[q] = "delete" THEN NoSrc
     ELSE IF pl[q] \notin {"create", "update"} THEN s[q]
     ELSE IF q \in c.ignored THEN NoSrc
     ELSE c.want[q].src]

\* What state.json should say once configuration c is applied.
OwnedBy(c) ==
  [q \in Path |-> IF c.want[q] = NoEntry \/ q \in c.ignored THEN NoSrc
                  ELSE c.want[q].src]
-----------------------------------------------------------------------------
Init ==
  /\ fs = [q \in Path |-> Absent]
  /\ saved = NothingOwned
  /\ config \in Configs
  /\ dconf = NoSettings
  /\ pc = [p \in Proc |-> "idle"]
  /\ cfg = [p \in Proc |-> config]
  /\ opt = [p \in Proc |-> [dryRun |-> FALSE, noCache |-> FALSE]]
  /\ st = [p \in Proc |-> NothingOwned]
  /\ dropped = [p \in Proc |-> FALSE]
  /\ plan = [p \in Proc |-> [q \in Path |-> "none"]]
  /\ task = [p \in Proc |-> [q \in Path |-> "idle"]]
  /\ quiet = [p \in Proc |-> TRUE]
  /\ disturbances = 0

Goto(p, from, to) == pc[p] = from /\ pc' = [pc EXCEPT ![p] = to]
Disturb(kind) ==
  /\ kind \in Allowed
  /\ disturbances < MaxDisturbances
  /\ disturbances' = disturbances + 1

(***************************************************************************)
(* One run of Manager.Apply.                                               *)
(***************************************************************************)
\* The command starts: the tree of desired files is built from the configuration.
Begin(p, o) ==
  /\ pc[p] \in Resting
  /\ pc' = [pc EXCEPT ![p] = "load"]
  /\ cfg' = [cfg EXCEPT ![p] = config]
  /\ opt' = [opt EXCEPT ![p] = o]
  /\ quiet' = [r \in Proc |-> r = p /\ \A x \in Proc \ {p} : pc[x] \in Resting]
  /\ UNCHANGED <<fs, saved, config, dconf, st, dropped, plan, task, disturbances>>

Load(p) ==
  /\ Goto(p, "load", "plan")
  /\ st' = [st EXCEPT ![p] = DropIgnored(saved, cfg[p].ignored)]
  /\ dropped' = [dropped EXCEPT ![p] = \E q \in cfg[p].ignored : saved[q] # NoSrc]
  /\ UNCHANGED <<fs, saved, config, dconf, cfg, opt, plan, task, quiet, disturbances>>

\* Mistake: the dry run is tested after the changes.
DryRunLast(p, pl) ==
  IF HasChanges(pl) THEN "before"
  ELSE IF dropped[p] /\ ~opt[p].dryRun THEN "save" ELSE "done"

\* A dry run ends here; so does a run without changes, which saves only dropped keys.
AfterPlan(p, pl) ==
  IF opt[p].dryRun THEN "done"
  ELSE IF HasChanges(pl) THEN "before"
  ELSE IF dropped[p] THEN "save" ELSE "done"

MakePlan(p) ==
  LET pl == Plan(fs, cfg[p], st[p], opt[p].noCache) IN
  /\ ~PlanFails(fs, cfg[p], st[p], opt[p].noCache)
  /\ Goto(p, "plan", AfterPlan(p, pl))
  /\ plan' = [plan EXCEPT ![p] = pl]
  /\ task' = [task EXCEPT ![p] = [q \in Path |-> "idle"]]
  /\ UNCHANGED <<fs, saved, config, dconf, cfg, opt, st, dropped, quiet, disturbances>>

RejectPlan(p) ==
  /\ PlanFails(fs, cfg[p], st[p], opt[p].noCache)
  /\ Goto(p, "plan", "failed")
  /\ UNCHANGED <<fs, saved, config, dconf, local, quiet, disturbances>>

\* Before hooks succeed; the executor queues one task per action that is not a noop.
StartExecute(p) ==
  /\ Goto(p, "before", "execute")
  /\ task' = [task EXCEPT ![p] =
       [q \in Path |-> IF plan[p][q] \in Work THEN "todo" ELSE "idle"]]
  /\ UNCHANGED <<fs, saved, config, dconf, cfg, opt, st, dropped, plan, quiet, disturbances>>

(***************************************************************************)
(* The tasks.  A prune is Lstat then Remove; a write is MkdirAll of the    *)
(* parent, RemoveAll of what a rename cannot replace, and then Symlink, or *)
(* an atomicfile write.  Tasks of different paths interleave freely.       *)
(***************************************************************************)
At(p, q, step) == pc[p] = "execute" /\ task[p][q] = step

MoveTo(p, q, step) ==
  /\ task' = [task EXCEPT ![p][q] = step]
  /\ UNCHANGED <<saved, config, dconf, pc, cfg, opt, st, dropped, plan, disturbances>>

\* A process that changes the tree disturbs the others.
WriteTree(p, t) ==
  /\ fs' = t
  /\ quiet' = [r \in Proc |-> quiet[r] /\ (r = p \/ t = fs)]

FailCall(p, q) == MoveTo(p, q, "err") /\ UNCHANGED <<fs, quiet>>

\* Mistake: pruning a target that is already gone is an error.
StatStrict(p, q) ==
  /\ At(p, q, "todo")
  /\ plan[p][q] = "delete"
  /\ MoveTo(p, q, IF fs[q] = Absent THEN "err" ELSE "remove")
  /\ UNCHANGED <<fs, quiet>>

StatOrphan(p, q) ==
  /\ At(p, q, "todo")
  /\ plan[p][q] = "delete"
  /\ MoveTo(p, q, IF fs[q] = Absent THEN "ok" ELSE "remove")
  /\ UNCHANGED <<fs, quiet>>

RemoveOrphan(p, q) ==
  /\ At(p, q, "remove")
  /\ IF CanRemove(fs, q)
     THEN MoveTo(p, q, "ok") /\ WriteTree(p, Put(fs, q, Absent))
     ELSE FailCall(p, q)

MkdirParent(p, q) ==
  /\ At(p, q, "todo")
  /\ plan[p][q] \in {"create", "update"}
  /\ IF CanMkdir(fs, q)
     THEN MoveTo(p, q, "clear") /\ WriteTree(p, MkdirAbove(fs, q))
     ELSE FailCall(p, q)

\* Mistake: whatever is there is removed before the write.
ClearAlways(t, v, q) == t[q] # Absent

\* A regular file stays in place for a regular file; anything else is removed first.
MustClear(t, v, q) == t[q] # Absent /\ (v \in Link \/ t[q] \notin Data)

ClearTarget(p, q) ==
  /\ At(p, q, "clear")
  /\ MoveTo(p, q, "install")
  /\ WriteTree(p, IF MustClear(fs, cfg[p].want[q].val, q) THEN Wiped(fs, q) ELSE fs)

PlaceLink(p, q) ==
  /\ At(p, q, "install")
  /\ cfg[p].want[q].val \in Link
  /\ IF CanInstallLink(fs, q)
     THEN MoveTo(p, q, "ok") /\ WriteTree(p, Put(fs, q, cfg[p].want[q].val))
     ELSE FailCall(p, q)

\* atomicfile.Create makes the parent again, in case a prune took it away.
OpenTemp(p, q) ==
  /\ At(p, q, "install")
  /\ cfg[p].want[q].val \in Data
  /\ IF CanMkdir(fs, q)
     THEN MoveTo(p, q, "commit") /\ WriteTree(p, MkdirAbove(fs, q))
     ELSE FailCall(p, q)

\* The temp is complete: the rename installs it.
CommitTemp(p, q) ==
  /\ At(p, q, "commit")
  /\ IF CanInstallFile(fs, q)
     THEN MoveTo(p, q, "ok") /\ WriteTree(p, Put(fs, q, cfg[p].want[q].val))
     ELSE FailCall(p, q)

\* The file system, a reader or a cancelled context fails a task.
FailTask(p, q) ==
  /\ Disturb("task")
  /\ pc[p] = "execute"
  /\ task[p][q] \in {"todo", "remove", "clear", "install", "commit"}
  /\ task' = [task EXCEPT ![p][q] = "err"]
  /\ UNCHANGED <<fs, saved, config, dconf, pc, cfg, opt, st, dropped, plan, quiet>>

\* Mistake: the error of the map is dropped.
NeverFailed(p) == FALSE

Failed(p) == \E q \in Path : task[p][q] = "err"

\* taskgroup.Map returns: every task ended, or one failed and the queued ones
\* are cancelled.  State patches are applied only when none failed.
FinishExecute(p) ==
  /\ Goto(p, "execute", "after")
  /\ \A q \in Path : task[p][q] \in {"idle", "ok", "err"} \/ (Failed(p) /\ task[p][q] = "todo")
  /\ st' = [st EXCEPT ![p] = IF Failed(p) THEN @ ELSE Patched(@, cfg[p], plan[p])]
  /\ UNCHANGED <<fs, saved, config, dconf, cfg, opt, dropped, plan, task, quiet, disturbances>>

(***************************************************************************)
(* The After hooks, whose errors are only logged, then the verdict of the  *)
(* executor.  The dconf hook runs when the marker was written by a         *)
(* successful execution, and loads the settings of the configuration as it *)
(* is on disk at that moment.                                              *)
(***************************************************************************)
WantsDconf(p) ==
  /\ ~Failed(p)
  /\ Marker \in Path
  /\ plan[p][Marker] \in {"create", "update"}

Settings(c) == IF c.want[Marker] = NoEntry THEN dconf ELSE c.want[Marker].val

AfterHooks(p) ==
  /\ Goto(p, "after", IF Failed(p) THEN "failed" ELSE "save")
  /\ \/ /\ dconf' = IF WantsDconf(p) THEN Settings(config) ELSE dconf
        /\ UNCHANGED disturbances
     \/ /\ WantsDconf(p)
        /\ Disturb("hook")
        /\ UNCHANGED dconf
  /\ UNCHANGED <<fs, saved, config, local, quiet>>

Save(p) ==
  /\ Goto(p, "save", "done")
  /\ saved' = st[p]
  /\ UNCHANGED <<fs, config, dconf, local, quiet, disturbances>>

(***************************************************************************)
(* What else happens.                                                      *)
(***************************************************************************)
\* Load, a source reader, a Before hook or Save returns an error.
Abort(p) ==
  /\ Disturb("abort")
  /\ pc[p] \in {"load", "plan", "before", "save"}
  /\ pc' = [pc EXCEPT ![p] = "failed"]
  /\ UNCHANGED <<fs, saved, config, dconf, local, quiet>>

\* The process is killed; what its tasks did stays done.
Crash(p) ==
  /\ Disturb("crash")
  /\ pc[p] \notin Resting
  /\ pc' = [pc EXCEPT ![p] = "idle"]
  /\ UNCHANGED <<fs, saved, config, dconf, local, quiet>>

\* The operator edits, creates or removes a target.
UserEdit(q, v) ==
  /\ Disturb("edit")
  /\ v # fs[q]
  /\ ParentsPresent(fs, q)
  /\ NothingBelow(fs, q)
  /\ fs' = Put(fs, q, v)
  /\ quiet' = [r \in Proc |-> FALSE]
  /\ UNCHANGED <<saved, config, dconf, pc, local>>

\* The operator edits the configuration or .gitignore, between runs or during one.
Reconfigure(c) ==
  /\ Disturb(IF \A p \in Proc : pc[p] \in Resting THEN "config" ELSE "reconfig")
  /\ c # config
  /\ config' = c
  /\ UNCHANGED <<fs, saved, dconf, pc, local, quiet>>

RunTask(p, q) ==
  \/ StatOrphan(p, q)
  \/ RemoveOrphan(p, q)
  \/ MkdirParent(p, q)
  \/ ClearTarget(p, q)
  \/ PlaceLink(p, q)
  \/ OpenTemp(p, q)
  \/ CommitTemp(p, q)

Run(p) ==
  \/ Load(p)
  \/ MakePlan(p)
  \/ RejectPlan(p)
  \/ StartExecute(p)
  \/ FinishExecute(p)
  \/ AfterHooks(p)
  \/ Save(p)

Next ==
  \/ \E p \in Proc :
       \/ \E o \in Options : Begin(p, o)
       \/ Run(p)
       \/ \E q \in Path : RunTask(p, q)
       \/ \E q \in Path : FailTask(p, q)
       \/ Abort(p)
       \/ Crash(p)
  \/ \E q \in Path, v \in UserNode : UserEdit(q, v)
  \/ \E c \in Configs : Reconfigure(c)

Spec == Init /\ [][Next]_vars
-----------------------------------------------------------------------------
(***************************************************************************)
(* Properties.                                                             *)
(***************************************************************************)
Entries(c) == {q \in Wanted(c) : c.want[q].src \notin Bundle}
Realised(t, c) == \A q \in Entries(c) : t[q] = c.want[q].val

\* A step of a process, as opposed to one of the environment.
Undisturbed == disturbances' = disturbances

CommitOfWholeApply ==
  saved' # saved =>
    \E p \in Proc : /\ pc[p] = "save"
                    /\ \A q \in Path : task[p][q] \in {"idle", "ok"}
                    /\ saved' = OwnedBy(cfg[p])

(***************************************************************************)
(* state.json is rewritten only by a run none of whose tasks failed, and   *)
(* then says exactly what the run's configuration owns, whatever it said   *)
(* before (Manager.Apply steps 6-8, Executor.Execute).                     *)
(***************************************************************************)
CommitsWholeApply == [][CommitOfWholeApply]_vars

(***************************************************************************)
(* A run that reports success while nothing else touched the targets has   *)
(* converged: state.json is the ownership of its configuration, every      *)
(* desired target outside bundles holds the desired node, and no pruned    *)
(* target is a file any more, although the tasks ran in any order.         *)
(***************************************************************************)
Converged ==
  \A p \in Proc :
    pc[p] = "done" /\ quiet[p] /\ ~opt[p].dryRun =>
      /\ saved = OwnedBy(cfg[p])
      /\ Realised(fs, cfg[p])
      /\ \A q \in Path : plan[p][q] = "delete" => fs[q] \in {Absent, Dir}

Pruned(p, q) ==
  /\ fs'[q] = Absent
  /\ q \notin Wanted(cfg[p]) \cup cfg[p].ignored
  /\ st[p][q] # NoSrc

Replaced(p, q) == \E w \in Wanted(cfg[p]) : q = w \/ q \in Below[w]
MadeParent(p, q) ==
  fs[q] = Absent /\ fs'[q] = Dir /\ \E w \in Wanted(cfg[p]) : q \in Above(w)

WriteToItsOwn ==
  \A q \in Path :
    fs'[q] # fs[q] /\ Undisturbed =>
      \E p \in Proc : /\ pc[p] = "execute" /\ ~opt[p].dryRun
                      /\ Pruned(p, q) \/ Replaced(p, q) \/ MadeParent(p, q)

(***************************************************************************)
(* What an apply may change on disk: a path that it loaded as owned and    *)
(* that is neither desired nor ignored may be removed ("gitignored dests   *)
(* are never pruned"); a desired path and what lies below it may be        *)
(* replaced; a missing directory above a desired path may be created.      *)
(* Nothing else (Executor.Execute).                                        *)
(***************************************************************************)
TouchesOnlyItsOwn == [][WriteToItsOwn]_vars

FileStays ==
  \A q \in Path :
    fs[q] \in Data /\ fs'[q] \notin Data /\ Undisturbed =>
      \E p \in Proc : /\ pc[p] = "execute"
                      /\ \/ cfg[p].want[q] = NoEntry
                         \/ cfg[p].want[q].val \in Link

(***************************************************************************)
(* A regular file that is desired as a regular file never disappears while *)
(* it is updated, whatever fails and wherever the process dies (executor:  *)
(* "preserving the prior content on failure").                             *)
(***************************************************************************)
UpdatesInPlace == [][FileStays]_vars

WorkHasReason ==
  \A p \in Proc :
    pc[p] = "plan" /\ pc'[p] = "before" =>
      \/ opt[p].noCache
      \/ st[p] # OwnedBy(cfg[p])
      \/ \E q \in Wanted(cfg[p]) : fs[q] # cfg[p].want[q].val

(***************************************************************************)
(* A second apply of a converged tree plans no work: no update repeats     *)
(* for ever (planOne).                                                     *)
(***************************************************************************)
Idempotent == [][WorkHasReason]_vars

(***************************************************************************)
(* The ledger is a transaction log of runs: see module Ledger.             *)
(***************************************************************************)
Abstract == INSTANCE Ledger WITH
  Nothing <- NothingOwned,
  ledger <- saved,
  running <- {p \in Proc : pc[p] \notin Resting},
  snapshot <- cfg

ImplementsLedger == Abstract!Spec

(***************************************************************************)
(* A plan of home or codebase ("Plan reports this without writing") never  *)
(* reaches the executor, the hooks or the state store.                     *)
(***************************************************************************)
PlanOnlyReports ==
  \A p \in Proc : opt[p].dryRun => pc[p] \notin {"before", "execute", "after", "save"}

(***************************************************************************)
(* After a successful apply with the current configuration, the settings   *)
(* that the marker names are the ones dconf loaded ("a content-hash marker *)
(* so dconf changes participate in deploy planning").                      *)
(***************************************************************************)
DconfLoaded ==
  Marker \in Path =>
    \A p \in Proc :
      /\ pc[p] = "done" /\ quiet[p] /\ ~opt[p].dryRun
      /\ cfg[p] = config
      /\ config.want[Marker] # NoEntry
      => dconf = config.want[Marker].val

(***************************************************************************)
(* No key of state.json blocks pruning: an owned path that is no longer    *)
(* desired is not a directory that holds desired targets, which            *)
(* os.Remove refuses on every later apply.                                 *)
(***************************************************************************)
PruneNeverBlocked ==
  \A q \in Path :
    /\ \A p \in Proc : pc[p] \in Resting
    /\ saved[q] # NoSrc /\ config.want[q] = NoEntry /\ q \notin config.ignored
    => ~(fs[q] = Dir /\ \E w \in Wanted(config) \cap Below[q] : fs[w] = config.want[w].val)

(***************************************************************************)
(* A directory in the way of a desired file is replaced like any other     *)
(* node ("Replace non-regular targets (dirs/symlinks) so rename can        *)
(* install a file"): no plan is rejected because of it.                    *)
(***************************************************************************)
DirectoryReplaced ==
  \A p \in Proc :
    pc[p] = "plan" => ~PlanFails(fs, cfg[p], st[p], opt[p].noCache)

(***************************************************************************)
(* If the operator keeps applying, the targets and state.json settle on    *)
(* the configuration and stay there: fairness is only that a started run   *)
(* is scheduled and that a plain apply is started again and again.         *)
(***************************************************************************)
PlainApply == [dryRun |-> FALSE, noCache |-> FALSE]

Fairness ==
  \A p \in Proc :
    /\ WF_vars(Begin(p, PlainApply))
    /\ WF_vars(Run(p))
    /\ \A q \in Path : WF_vars(RunTask(p, q))

FairSpec == Spec /\ Fairness

Settles == <>[](saved = OwnedBy(config) /\ Realised(fs, config))
=============================================================================
