--------------------------- MODULE DeployerProofs ---------------------------
(***************************************************************************)
(* Proofs about Deployer, for any number of processes, paths, sources and  *)
(* configurations.                                                         *)
(***************************************************************************)
EXTENDS Deployer, TLAPS

Writes == {"create", "update"}

-----------------------------------------------------------------------------
(***************************************************************************)
(* The planner.                                                            *)
(***************************************************************************)

\* A plan gives every path an action, and only desired paths are written.
LEMMA PlanType ==
  ASSUME NEW t, NEW c \in Configs, NEW s, NEW n
  PROVE  /\ Plan(t, c, s, n) \in [Path -> Kind]
         /\ \A q \in Path :
              /\ Plan(t, c, s, n)[q] \in Writes <=>
                   q \in Wanted(c) /\ Plan(t, c, s, n)[q] # "noop"
              /\ Plan(t, c, s, n)[q] = "delete" <=>
                   c.want[q] = NoEntry /\ s[q] # NoSrc
              /\ q \in Wanted(c) => Plan(t, c, s, n)[q] \in Writes \cup {"noop"}
  BY DEF Plan, PlanOne, Kind, Writes, Wanted

LEMMA PlanAt ==
  ASSUME NEW t, NEW c \in Configs, NEW s, NEW n, NEW pl, pl = Plan(t, c, s, n), NEW q \in Path
  PROVE  /\ pl[q] \in Writes <=> q \in Wanted(c) /\ pl[q] # "noop"
         /\ pl[q] = "delete" <=> c.want[q] = NoEntry /\ s[q] # NoSrc
  BY PlanType

\* A noop on an owned or ignored path leaves a key that is already right.
LEMMA NoopOwned ==
  ASSUME NEW t, NEW c \in Configs, NEW s \in Owned, NEW n,
         \A q \in c.ignored : s[q] = NoSrc,
         NEW q \in Path, Plan(t, c, s, n)[q] \notin Work
  PROVE  s[q] = OwnedBy(c)[q]
  <1>1. PlanOne(t, c, s, n, q) \notin Work
    BY DEF Plan
  <1>2. CASE c.want[q] = NoEntry
    <2>1. s[q] = NoSrc
      BY <1>1, <1>2 DEF PlanOne, Work
    <2> QED BY <1>2, <2>1 DEF OwnedBy
  <1>3. CASE c.want[q] # NoEntry
    <2>1. c.want[q] \in Entry
      BY <1>3, ConfigAssumption DEF Config
    <2>2. c.want[q].src \in Src
      BY <2>1 DEF Entry
    <2>3. q \in c.ignored \/ s[q] = c.want[q].src
      BY <1>1, <1>3 DEF PlanOne, Work
    <2>4. CASE q \in c.ignored
      BY <2>4 DEF OwnedBy
    <2>5. CASE q \notin c.ignored
      BY <1>3, <2>3, <2>5 DEF OwnedBy
    <2> QED BY <2>4, <2>5
  <1> QED BY <1>2, <1>3

\* Applying all patches of a plan turns the loaded ledger into the right one.
LEMMA PlanPatches ==
  ASSUME NEW t, NEW c \in Configs, NEW s \in Owned, NEW n,
         \A q \in c.ignored : s[q] = NoSrc
  PROVE  Patched(s, c, Plan(t, c, s, n)) = OwnedBy(c)
  <1> DEFINE pl == Plan(t, c, s, n)
  <1>1. ASSUME NEW q \in Path
        PROVE  Patched(s, c, pl)[q] = OwnedBy(c)[q]
    <2>1. CASE pl[q] \notin Work
      <3>1. Patched(s, c, pl)[q] = s[q]
        BY <2>1 DEF Patched, Work
      <3> QED BY <2>1, <3>1, NoopOwned
    <2>2. CASE pl[q] = "delete"
      <3>1. c.want[q] = NoEntry
        BY <2>2, PlanType
      <3>2. Patched(s, c, pl)[q] = NoSrc
        BY <2>2 DEF Patched
      <3> QED BY <3>1, <3>2 DEF OwnedBy
    <2>3. CASE pl[q] \in Writes
      <3>1. c.want[q] # NoEntry
        BY <2>3, PlanType DEF Wanted
      <3>2. Patched(s, c, pl)[q] = IF q \in c.ignored THEN NoSrc ELSE c.want[q].src
        BY <2>3 DEF Patched, Writes
      <3> QED BY <3>1, <3>2 DEF OwnedBy
    <2> QED BY <2>1, <2>2, <2>3 DEF Work, Writes
  <1> HIDE DEF pl
  <1>2. Patched(s, c, pl) = [q \in Path |-> Patched(s, c, pl)[q]]
    BY DEF Patched
  <1>3. OwnedBy(c) = [q \in Path |-> OwnedBy(c)[q]]
    BY DEF OwnedBy
  <1> QED BY <1>1, <1>2, <1>3 DEF pl

\* Without work the loaded ledger is already right.
LEMMA NoWorkOwned ==
  ASSUME NEW t, NEW c \in Configs, NEW s \in Owned, NEW n,
         \A q \in c.ignored : s[q] = NoSrc,
         ~HasChanges(Plan(t, c, s, n))
  PROVE  s = OwnedBy(c)
  <1>1. \A q \in Path : s[q] = OwnedBy(c)[q]
    BY NoopOwned DEF HasChanges
  <1>2. OwnedBy(c) = [q \in Path |-> OwnedBy(c)[q]]
    BY DEF OwnedBy
  <1>3. s = [q \in Path |-> s[q]]
    BY DEF Owned
  <1> QED BY <1>1, <1>2, <1>3

\* What a configuration owns is a ledger.
LEMMA OwnedByType ==
  ASSUME NEW c \in Configs
  PROVE  OwnedBy(c) \in Owned
  <1>1. ASSUME NEW q \in Path, c.want[q] # NoEntry
        PROVE  c.want[q].src \in Src
    BY <1>1, ConfigAssumption DEF Config, Entry
  <1> QED BY <1>1 DEF OwnedBy, Owned

\* The value desired at a path is a regular file or a link.
LEMMA WantedVal ==
  ASSUME NEW c \in Configs, NEW q \in Wanted(c)
  PROVE  c.want[q] \in Entry /\ c.want[q].val \in Data \cup Link
  BY ConfigAssumption DEF Config, Entry, Wanted

-----------------------------------------------------------------------------
(***************************************************************************)
(* The inductive invariant.  Types alone are not inductive: a task writes  *)
(* the value its plan asks for, so a plan may only write what is desired,  *)
(* and the ledger stays typed and right because a plan and the ledger it   *)
(* was made from belong together until they are patched.                   *)
(***************************************************************************)
Loaded(p) == pc[p] = "plan" => \A q \in cfg[p].ignored : st[p][q] = NoSrc

Planned(p) ==
  pc[p] \in {"before", "execute"} =>
    /\ \A q \in Path : plan[p][q] \in Writes => q \in Wanted(cfg[p])
    /\ \A q \in Path : plan[p][q] = "delete" =>
         /\ q \notin Wanted(cfg[p]) \cup cfg[p].ignored
         /\ st[p][q] # NoSrc
    /\ Patched(st[p], cfg[p], plan[p]) = OwnedBy(cfg[p])

Working(p) ==
  pc[p] = "execute" =>
    \A q \in Path :
      /\ task[p][q] \in {"clear", "install", "commit"} => plan[p][q] \in Writes
      /\ task[p][q] = "remove" => plan[p][q] = "delete"

Executed(p) ==
  pc[p] \in {"after", "save"} /\ ~Failed(p) =>
    /\ \A q \in Path : task[p][q] \in {"idle", "ok"}
    /\ st[p] = OwnedBy(cfg[p])

Saving(p) == pc[p] = "save" => ~Failed(p)

Sound(p) == Loaded(p) /\ Planned(p) /\ Working(p) /\ Executed(p) /\ Saving(p)

IInv == TypeOK /\ PlanOnlyReports /\ \A p \in Proc : Sound(p)

\* The calls of the file system keep the tree of the right type.
LEMMA TreeType ==
  ASSUME NEW t \in [Path -> Node], NEW q \in Path, NEW v \in Node
  PROVE  /\ MkdirAbove(t, q) \in [Path -> Node]
         /\ Wiped(t, q) \in [Path -> Node]
         /\ Put(t, q, v) \in [Path -> Node]
  BY DEF MkdirAbove, Wiped, Put, Node

\* What a step of a task leaves alone, and where the task can be after it.
TaskMoves(p, q) ==
  /\ pc[p] = "execute"
  /\ UNCHANGED <<saved, config, dconf, pc, cfg, opt, st, dropped, plan>>
  /\ \E s \in Step :
       /\ task' = [task EXCEPT ![p][q] = s]
       /\ s \in {"clear", "install", "commit"} => plan[p][q] \in Writes
       /\ s = "remove" => plan[p][q] = "delete"

\* A step of a task moves that task alone, and only along a plan that has its action.
LEMMA TaskStep ==
  ASSUME IInv, NEW p \in Proc, NEW q \in Path, RunTask(p, q) \/ FailTask(p, q)
  PROVE  TaskMoves(p, q)
  <1> USE DEF Step, TaskMoves, MoveTo, FailCall, At, Writes
  <1>1. Working(p)
    BY DEF IInv, Sound
  <1>2. CASE StatOrphan(p, q)
    BY <1>2 DEF StatOrphan
  <1>3. CASE RemoveOrphan(p, q)
    BY <1>3 DEF RemoveOrphan
  <1>4. CASE MkdirParent(p, q)
    BY <1>4 DEF MkdirParent
  <1>5. CASE ClearTarget(p, q)
    BY <1>1, <1>5 DEF ClearTarget, Working
  <1>6. CASE PlaceLink(p, q)
    BY <1>6 DEF PlaceLink
  <1>7. CASE OpenTemp(p, q)
    BY <1>1, <1>7 DEF OpenTemp, Working
  <1>8. CASE CommitTemp(p, q)
    BY <1>8 DEF CommitTemp
  <1>9. CASE FailTask(p, q)
    BY <1>9 DEF FailTask
  <1> QED BY <1>2, <1>3, <1>4, <1>5, <1>6, <1>7, <1>8, <1>9 DEF RunTask

\* A step of a task leaves a tree, whose nodes are typed.
LEMMA TaskTree ==
  ASSUME IInv, NEW p \in Proc, NEW q \in Path, RunTask(p, q) \/ FailTask(p, q)
  PROVE  /\ fs' \in [Path -> Node]
         /\ quiet' \in [Proc -> BOOLEAN]
         /\ disturbances' \in Nat
  <1> USE DEF MoveTo, FailCall, WriteTree
  <1>1. /\ fs \in [Path -> Node]
        /\ quiet \in [Proc -> BOOLEAN]
        /\ disturbances \in Nat
        /\ cfg[p] \in Configs
    BY DEF IInv, TypeOK
  <1>2. /\ MkdirAbove(fs, q) \in [Path -> Node]
        /\ Wiped(fs, q) \in [Path -> Node]
        /\ Absent \in Node /\ Put(fs, q, Absent) \in [Path -> Node]
    BY <1>1, TreeType DEF Node
  <1>3. ASSUME At(p, q, "install") \/ At(p, q, "commit")
        PROVE  Put(fs, q, cfg[p].want[q].val) \in [Path -> Node]
    <2>1. q \in Wanted(cfg[p])
      BY <1>3 DEF IInv, Sound, Planned, Working, At
    <2>2. cfg[p].want[q].val \in Node
      BY <1>1, <2>1, WantedVal DEF Node
    <2> QED BY <1>1, <2>2, TreeType
  <1>4. CASE StatOrphan(p, q)
    BY <1>1, <1>4 DEF StatOrphan
  <1>5. CASE RemoveOrphan(p, q)
    BY <1>1, <1>2, <1>5 DEF RemoveOrphan
  <1>6. CASE MkdirParent(p, q)
    BY <1>1, <1>2, <1>6 DEF MkdirParent
  <1>7. CASE ClearTarget(p, q)
    BY <1>1, <1>2, <1>7 DEF ClearTarget
  <1>8. CASE PlaceLink(p, q)
    BY <1>1, <1>3, <1>8 DEF PlaceLink
  <1>9. CASE OpenTemp(p, q)
    BY <1>1, <1>2, <1>9 DEF OpenTemp
  <1>10. CASE CommitTemp(p, q)
    BY <1>1, <1>3, <1>10 DEF CommitTemp
  <1>11. CASE FailTask(p, q)
    BY <1>1, <1>11 DEF FailTask, Disturb
  <1> QED BY <1>4, <1>5, <1>6, <1>7, <1>8, <1>9, <1>10, <1>11 DEF RunTask

\* The invariant holds before the first command.
LEMMA InitIInv == Init => IInv
  <1> SUFFICES ASSUME Init PROVE IInv
    OBVIOUS
  <1>1. TypeOK
    BY DEF Init, TypeOK, Node, NothingOwned, Owned, Phase, Resting, Kind, Step
  <1>2. PlanOnlyReports
    BY DEF Init, PlanOnlyReports
  <1>3. ASSUME NEW p \in Proc PROVE Sound(p)
    BY DEF Init, Sound, Loaded, Planned, Working, Executed, Saving
  <1> QED BY <1>1, <1>2, <1>3 DEF IInv

\* Every step keeps the types.
LEMMA TypeStep == IInv /\ [Next]_vars => TypeOK'
  <1> SUFFICES ASSUME IInv, [Next]_vars PROVE TypeOK'
    OBVIOUS
  <1> USE DEF TypeOK, Goto
  <1>0. TypeOK
    BY DEF IInv
  <1>1. ASSUME NEW p \in Proc, NEW o \in Options, Begin(p, o)
        PROVE  TypeOK'
    BY <1>0, <1>1, EnvironmentAssumption DEF Begin, Phase, Resting
  <1>2. ASSUME NEW p \in Proc, Load(p)
        PROVE  TypeOK'
    <2>1. DropIgnored(saved, cfg[p].ignored) \in Owned
      BY <1>0 DEF DropIgnored, Owned
    <2> QED BY <1>0, <1>2, <2>1 DEF Load, Phase
  <1>3. ASSUME NEW p \in Proc, MakePlan(p)
        PROVE  TypeOK'
    <2>1. Plan(fs, cfg[p], st[p], opt[p].noCache) \in [Path -> Kind]
      BY <1>0, PlanType
    <2>2. AfterPlan(p, Plan(fs, cfg[p], st[p], opt[p].noCache)) \in Phase
      BY DEF AfterPlan, Phase, Resting
    <2> QED BY <1>0, <1>3, <2>1, <2>2 DEF MakePlan, Step
  <1>4. ASSUME NEW p \in Proc, RejectPlan(p)
        PROVE  TypeOK'
    BY <1>0, <1>4 DEF RejectPlan, local, Phase, Resting
  <1>5. ASSUME NEW p \in Proc, StartExecute(p)
        PROVE  TypeOK'
    BY <1>0, <1>5 DEF StartExecute, Phase, Step
  <1>6. ASSUME NEW p \in Proc, FinishExecute(p)
        PROVE  TypeOK'
    <2>1. Patched(st[p], cfg[p], plan[p]) \in Owned
      BY <1>6, OwnedByType, <1>0 DEF FinishExecute, IInv, Sound, Planned
    <2> QED BY <1>0, <1>6, <2>1 DEF FinishExecute, Phase
  <1>7. ASSUME NEW p \in Proc, AfterHooks(p)
        PROVE  TypeOK'
    <2>1. Marker \in Path => Settings(config) \in Data \cup Link \cup {NoSettings}
      BY <1>0, WantedVal DEF Settings, Wanted
    <2>2. dconf' \in Data \cup Link \cup {NoSettings}
      BY <1>0, <1>7, <2>1 DEF AfterHooks, WantsDconf
    <2>3. disturbances' \in Nat
      BY <1>0, <1>7 DEF AfterHooks, Disturb
    <2> QED BY <1>0, <1>7, <2>2, <2>3 DEF AfterHooks, local, Phase, Resting
  <1>8. ASSUME NEW p \in Proc, Save(p)
        PROVE  TypeOK'
    BY <1>0, <1>8 DEF Save, local, Phase, Resting
  <1>9. ASSUME NEW p \in Proc, NEW q \in Path, RunTask(p, q) \/ FailTask(p, q)
        PROVE  TypeOK'
    <2>1. TaskMoves(p, q)
      BY <1>9, TaskStep
    <2>2. task' \in [Proc -> [Path -> Step]]
      BY <1>0, <2>1 DEF TaskMoves
    <2> QED BY <1>0, <1>9, <2>1, <2>2, TaskTree DEF TaskMoves
  <1>10. ASSUME NEW p \in Proc, Abort(p) \/ Crash(p)
         PROVE  TypeOK'
    <2>1. pc' = [pc EXCEPT ![p] = "failed"] \/ pc' = [pc EXCEPT ![p] = "idle"]
      BY <1>10 DEF Abort, Crash
    <2>2. pc' \in [Proc -> Phase]
      BY <1>0, <2>1 DEF Phase, Resting
    <2>3. disturbances' \in Nat
      BY <1>0, <1>10 DEF Abort, Crash, Disturb
    <2>4. UNCHANGED <<fs, saved, config, dconf, local, quiet>>
      BY <1>10 DEF Abort, Crash
    <2> QED BY <1>0, <2>2, <2>3, <2>4 DEF local
  <1>11. ASSUME NEW q \in Path, NEW v \in UserNode, UserEdit(q, v)
         PROVE  TypeOK'
    <2>1. Put(fs, q, v) \in [Path -> Node]
      BY <1>0, TreeType, EnvironmentAssumption DEF Node
    <2> QED BY <1>0, <1>11, <2>1 DEF UserEdit, Disturb, local
  <1>12. ASSUME NEW c \in Configs, Reconfigure(c)
         PROVE  TypeOK'
    BY <1>0, <1>12 DEF Reconfigure, Disturb, local
  <1>13. CASE UNCHANGED vars
    BY <1>0, <1>13 DEF vars, local
  <1> QED
    BY <1>1, <1>2, <1>3, <1>4, <1>5, <1>6, <1>7, <1>8, <1>9, <1>10, <1>11, <1>12, <1>13
    DEF Next, Run

\* Every step keeps a dry run out of the executor.
LEMMA PlanOnlyStep == IInv /\ [Next]_vars => PlanOnlyReports'
  <1> SUFFICES ASSUME IInv, [Next]_vars PROVE PlanOnlyReports'
    OBVIOUS
  <1> USE DEF PlanOnlyReports, Goto
  <1>0. TypeOK /\ PlanOnlyReports
    BY DEF IInv
  <1>1. ASSUME NEW p \in Proc, NEW o \in Options, Begin(p, o)
        PROVE  PlanOnlyReports'
    BY <1>0, <1>1 DEF Begin, TypeOK
  <1>2. ASSUME NEW p \in Proc, MakePlan(p)
        PROVE  PlanOnlyReports'
    BY <1>0, <1>2 DEF MakePlan, AfterPlan, TypeOK
  <1>3. ASSUME NEW p \in Proc,
               \/ Load(p) \/ RejectPlan(p) \/ StartExecute(p) \/ FinishExecute(p)
               \/ AfterHooks(p) \/ Save(p) \/ Abort(p) \/ Crash(p)
        PROVE  PlanOnlyReports'
    BY <1>0, <1>3
    DEF Load, RejectPlan, StartExecute, FinishExecute, AfterHooks, Save, Abort, Crash,
        local, TypeOK, Resting
  <1>4. ASSUME NEW p \in Proc, NEW q \in Path, RunTask(p, q) \/ FailTask(p, q)
        PROVE  PlanOnlyReports'
    BY <1>0, <1>4, TaskStep DEF TaskMoves
  <1>5. ASSUME NEW q \in Path, NEW v \in UserNode, UserEdit(q, v)
        PROVE  PlanOnlyReports'
    BY <1>0, <1>5 DEF UserEdit, local
  <1>6. ASSUME NEW c \in Configs, Reconfigure(c)
        PROVE  PlanOnlyReports'
    BY <1>0, <1>6 DEF Reconfigure, local
  <1>7. CASE UNCHANGED vars
    BY <1>0, <1>7 DEF vars, local
  <1> QED BY <1>1, <1>2, <1>3, <1>4, <1>5, <1>6, <1>7 DEF Next, Run

\* A process keeps its invariant in a step that leaves its memory alone.
Untouched(r) ==
  /\ pc'[r] = pc[r]
  /\ cfg'[r] = cfg[r]
  /\ st'[r] = st[r]
  /\ plan'[r] = plan[r]
  /\ task'[r] = task[r]

\* A process that does not move keeps what it relies on.
LEMMA UntouchedSound ==
  ASSUME NEW r \in Proc, Sound(r), Untouched(r)
  PROVE  Sound(r)'
  BY DEF Untouched, Sound, Loaded, Planned, Working, Executed, Saving, Failed

\* It has nothing to keep in a phase that none of the conjuncts speaks of.
LEMMA RestingSound ==
  ASSUME NEW r \in Proc, pc'[r] \in Resting \cup {"load"}
  PROVE  Sound(r)'
  BY DEF Resting, Sound, Loaded, Planned, Working, Executed, Saving

\* Every step keeps what the processes rely on.
LEMMA SoundStep ==
  ASSUME IInv, [Next]_vars, NEW r \in Proc
  PROVE  Sound(r)'
  <1> USE DEF Goto
  <1>0. TypeOK /\ Sound(r)
    BY DEF IInv
  <1>1. ASSUME NEW p \in Proc, NEW o \in Options, Begin(p, o)
        PROVE  Sound(r)'
    <2>1. CASE r = p
      BY <1>0, <1>1, <2>1, RestingSound DEF Begin, TypeOK
    <2>2. CASE r # p
      BY <1>0, <1>1, <2>2, UntouchedSound DEF Begin, Untouched, TypeOK
    <2> QED BY <2>1, <2>2
  <1>2. ASSUME NEW p \in Proc, Load(p)
        PROVE  Sound(r)'
    <2>1. CASE r = p
      <3>1. pc'[p] = "plan" /\ cfg'[p] = cfg[p] /\ cfg[p] \in Configs
        BY <1>0, <1>2 DEF Load, TypeOK
      <3>2. st'[p] = DropIgnored(saved, cfg[p].ignored)
        BY <1>0, <1>2 DEF Load, TypeOK
      <3>3. \A q \in cfg[p].ignored : q \in Path
        BY <3>1, ConfigAssumption DEF Config
      <3>4. \A q \in cfg[p].ignored : st'[p][q] = NoSrc
        BY <3>2, <3>3 DEF DropIgnored
      <3> QED BY <2>1, <3>1, <3>4 DEF Sound, Loaded, Planned, Working, Executed, Saving
    <2>2. CASE r # p
      BY <1>0, <1>2, <2>2, UntouchedSound DEF Load, Untouched, TypeOK
    <2> QED BY <2>1, <2>2
  <1>3. ASSUME NEW p \in Proc, MakePlan(p)
        PROVE  Sound(r)'
    <2>1. CASE r = p
      <3> DEFINE pl == Plan(fs, cfg[p], st[p], opt[p].noCache)
      <3>1. /\ pc[p] = "plan" /\ pc'[p] = AfterPlan(p, pl)
            /\ cfg'[p] = cfg[p] /\ cfg[p] \in Configs
            /\ st'[p] = st[p] /\ st[p] \in Owned
            /\ plan'[p] = pl
            /\ task'[p] = [q \in Path |-> "idle"]
        BY <1>0, <1>3 DEF MakePlan, TypeOK
      <3>2. \A q \in cfg[p].ignored : st[p][q] = NoSrc
        BY <1>0, <2>1, <3>1 DEF Sound, Loaded
      <3>3. Patched(st[p], cfg[p], pl) = OwnedBy(cfg[p])
        BY <3>1, <3>2, PlanPatches
      <3>4. ~HasChanges(pl) => st[p] = OwnedBy(cfg[p])
        BY <3>1, <3>2, NoWorkOwned
      <3>5. /\ \A q \in Path : pl[q] \in Writes => q \in Wanted(cfg[p])
            /\ \A q \in Path : pl[q] = "delete" =>
                 q \notin Wanted(cfg[p]) \cup cfg[p].ignored /\ st[p][q] # NoSrc
        <4>1. ASSUME NEW q \in Path
              PROVE  /\ pl[q] \in Writes => q \in Wanted(cfg[p])
                     /\ pl[q] = "delete" => cfg[p].want[q] = NoEntry /\ st[p][q] # NoSrc
          <5>1. cfg[p] \in Configs
            BY <3>1
          <5>2. /\ pl[q] \in Writes <=> q \in Wanted(cfg[p]) /\ pl[q] # "noop"
                /\ pl[q] = "delete" <=> cfg[p].want[q] = NoEntry /\ st[p][q] # NoSrc
            <6>1. pl = Plan(fs, cfg[p], st[p], opt[p].noCache)
              OBVIOUS
            <6> HIDE DEF pl
            <6> QED BY <5>1, <6>1, PlanAt
          <5> QED BY <5>2
        <4> HIDE DEF pl
        <4> QED BY <3>2, <4>1 DEF Wanted
      <3> HIDE DEF pl
      <3>6. Loaded(p)' /\ Working(p)'
        BY <3>1 DEF Loaded, Working, AfterPlan
      <3>7. Planned(p)'
        BY <3>1, <3>3, <3>5 DEF Planned
      <3>8. pc'[p] = "save" => ~HasChanges(pl)
        BY <3>1 DEF AfterPlan
      <3>9. pc'[p] # "after"
        BY <3>1 DEF AfterPlan
      <3>10. Executed(p)'
        BY <3>1, <3>4, <3>8, <3>9 DEF Executed
      <3>11. Saving(p)'
        BY <3>1 DEF Saving, Failed
      <3> QED BY <2>1, <3>6, <3>7, <3>10, <3>11 DEF Sound
    <2>2. CASE r # p
      BY <1>0, <1>3, <2>2, UntouchedSound DEF MakePlan, Untouched, TypeOK
    <2> QED BY <2>1, <2>2
  <1>4. ASSUME NEW p \in Proc, StartExecute(p)
        PROVE  Sound(r)'
    <2>1. CASE r = p
      <3>1. /\ pc[p] = "before" /\ pc'[p] = "execute"
            /\ cfg'[p] = cfg[p] /\ st'[p] = st[p] /\ plan'[p] = plan[p]
            /\ \A q \in Path : task'[p][q] \in {"todo", "idle"}
        BY <1>0, <1>4 DEF StartExecute, TypeOK
      <3>2. Planned(p)'
        BY <1>0, <2>1, <3>1 DEF Sound, Planned
      <3> QED BY <2>1, <3>1, <3>2 DEF Sound, Loaded, Working, Executed, Saving
    <2>2. CASE r # p
      BY <1>0, <1>4, <2>2, UntouchedSound DEF StartExecute, Untouched, TypeOK
    <2> QED BY <2>1, <2>2
  <1>5. ASSUME NEW p \in Proc, FinishExecute(p)
        PROVE  Sound(r)'
    <2>1. CASE r = p
      <3>1. /\ pc[p] = "execute" /\ pc'[p] = "after"
            /\ cfg'[p] = cfg[p]
            /\ task'[p] = task[p]
            /\ ~Failed(p) => \A q \in Path : task[p][q] \in {"idle", "ok"}
        BY <1>0, <1>5 DEF FinishExecute, Failed, TypeOK
      <3>2. ~Failed(p) => st'[p] = Patched(st[p], cfg[p], plan[p])
        BY <1>0, <1>5 DEF FinishExecute, TypeOK
      <3>3. Failed(p)' <=> Failed(p)
        BY <3>1 DEF Failed
      <3>4. Patched(st[p], cfg[p], plan[p]) = OwnedBy(cfg[p])
        BY <1>0, <2>1, <3>1 DEF Sound, Planned
      <3>5. OwnedBy(cfg[p])' = OwnedBy(cfg[p])
        BY <3>1 DEF OwnedBy
      <3>6. Executed(p)'
        BY <3>1, <3>2, <3>3, <3>4, <3>5 DEF Executed
      <3> QED BY <2>1, <3>1, <3>6 DEF Sound, Loaded, Planned, Working, Saving
    <2>2. CASE r # p
      BY <1>0, <1>5, <2>2, UntouchedSound DEF FinishExecute, Untouched, TypeOK
    <2> QED BY <2>1, <2>2
  <1>6. ASSUME NEW p \in Proc, AfterHooks(p)
        PROVE  Sound(r)'
    <2>1. CASE r = p
      <3>1. /\ pc[p] = "after" /\ pc'[p] = IF Failed(p) THEN "failed" ELSE "save"
            /\ UNCHANGED <<cfg, st, plan, task>>
        BY <1>0, <1>6 DEF AfterHooks, local, TypeOK
      <3>2. Failed(p)' <=> Failed(p)
        BY <3>1 DEF Failed
      <3>3. OwnedBy(cfg[p])' = OwnedBy(cfg[p])
        BY <3>1 DEF OwnedBy
      <3>4. Executed(p)
        BY <1>0, <2>1 DEF Sound
      <3>5. Executed(p)'
        BY <3>1, <3>2, <3>3, <3>4 DEF Executed
      <3> QED BY <2>1, <3>1, <3>2, <3>5 DEF Sound, Loaded, Planned, Working, Saving
    <2>2. CASE r # p
      BY <1>0, <1>6, <2>2, UntouchedSound DEF AfterHooks, local, Untouched, TypeOK
    <2> QED BY <2>1, <2>2
  <1>7. ASSUME NEW p \in Proc, RejectPlan(p) \/ Save(p) \/ Abort(p) \/ Crash(p)
        PROVE  Sound(r)'
    <2>1. /\ UNCHANGED local
          /\ \E to \in Resting : pc' = [pc EXCEPT ![p] = to]
      BY <1>7 DEF RejectPlan, Save, Abort, Crash, Resting
    <2>2. CASE r = p
      BY <1>0, <2>1, <2>2, RestingSound DEF TypeOK
    <2>3. CASE r # p
      BY <1>0, <2>1, <2>3, UntouchedSound DEF Untouched, local, TypeOK
    <2> QED BY <2>2, <2>3
  <1>8. ASSUME NEW p \in Proc, NEW q \in Path, RunTask(p, q) \/ FailTask(p, q)
        PROVE  Sound(r)'
    <2>1. TaskMoves(p, q)
      BY <1>8, TaskStep
    <2>2. CASE r = p
      <3>1. /\ pc[p] = "execute"
            /\ pc' = pc /\ cfg' = cfg /\ st' = st /\ plan' = plan
        BY <2>1 DEF TaskMoves
      <3>2. Working(p)'
        BY <1>0, <2>1, <2>2, <3>1 DEF TaskMoves, Sound, Working, TypeOK
      <3>3. Planned(p)'
        BY <1>0, <2>2, <3>1 DEF Sound, Planned
      <3> QED BY <2>2, <3>1, <3>2, <3>3 DEF Sound, Loaded, Executed, Saving
    <2>3. CASE r # p
      BY <1>0, <2>1, <2>3, UntouchedSound DEF TaskMoves, Untouched, TypeOK
    <2> QED BY <2>2, <2>3
  <1>9. CASE \/ \E q \in Path, v \in UserNode : UserEdit(q, v)
             \/ \E c \in Configs : Reconfigure(c)
             \/ UNCHANGED vars
    <2>1. UNCHANGED <<pc, local>>
      BY <1>9 DEF UserEdit, Reconfigure, vars
    <2> QED BY <1>0, <2>1, UntouchedSound DEF Untouched, local
  <1> QED
    BY <1>1, <1>2, <1>3, <1>4, <1>5, <1>6, <1>7, <1>8, <1>9 DEF Next, Run

(***************************************************************************)
(* The inductive invariant holds in every reachable state: a process       *)
(* between two phases of Manager.Apply still holds what the earlier phases *)
(* established (the loaded keys are not ignored, the plan is of its own    *)
(* configuration, the patches are those of the whole plan).                *)
(***************************************************************************)
THEOREM Inductive == Spec => []IInv
  <1>1. Init => IInv
    BY InitIInv
  <1>2. IInv /\ [Next]_vars => IInv'
    BY TypeStep, PlanOnlyStep, SoundStep DEF IInv
  <1> QED BY <1>1, <1>2, PTL DEF Spec

-----------------------------------------------------------------------------
(***************************************************************************)
(* Every reachable state is well typed: no write ever takes the value of a *)
(* path that is not desired, and state.json only ever holds SourceInfo.    *)
(***************************************************************************)
THEOREM TypeCorrect == Spec => []TypeOK
  <1>1. IInv => TypeOK
    BY DEF IInv
  <1> QED BY <1>1, Inductive, PTL

(***************************************************************************)
(* home plan, codebase plan and --dry-run never reach the executor, the    *)
(* hooks or the state store.                                               *)
(***************************************************************************)
THEOREM PlanOnly == Spec => []PlanOnlyReports
  <1>1. IInv => PlanOnlyReports
    BY DEF IInv
  <1> QED BY <1>1, Inductive, PTL
-----------------------------------------------------------------------------
(***************************************************************************)
(* state.json changes only by the save of a run all of whose tasks         *)
(* succeeded, and to exactly what the configuration of the run owns.       *)
(***************************************************************************)
THEOREM WholeApplyCommits == Spec => CommitsWholeApply
  <1>1. ASSUME IInv, [Next]_vars
        PROVE  [CommitOfWholeApply]_vars
    <2> SUFFICES ASSUME saved' # saved
                 PROVE  CommitOfWholeApply
      BY DEF CommitOfWholeApply
    <2>1. PICK p \in Proc : Save(p)
      <3>1. ~UNCHANGED vars
        BY DEF vars
      <3>2. ASSUME NEW p \in Proc, NEW q \in Path, RunTask(p, q) \/ FailTask(p, q)
            PROVE  FALSE
        BY <3>2, <1>1, TaskStep DEF TaskMoves
      <3> QED
        BY <1>1, <3>1, <3>2
        DEF Next, Run, Begin, Load, MakePlan, RejectPlan, StartExecute, FinishExecute,
            AfterHooks, Abort, Crash, UserEdit, Reconfigure
    <2>2. pc[p] = "save" /\ saved' = st[p]
      BY <2>1 DEF Save, Goto
    <2>3. Executed(p) /\ Saving(p)
      BY <1>1 DEF IInv, Sound
    <2> QED BY <2>2, <2>3 DEF CommitOfWholeApply, Executed, Saving
  <1> QED BY <1>1, Inductive, PTL DEF Spec, CommitsWholeApply

\* Only the tasks and the operator change the tree.
LEMMA WhoWrites ==
  ASSUME IInv, [Next]_vars, fs' # fs, Undisturbed
  PROVE  \E p \in Proc, q \in Path : RunTask(p, q)
  <1>1. ~UNCHANGED vars
    BY DEF vars
  <1>2. ~\E q \in Path, v \in UserNode : UserEdit(q, v)
    BY DEF UserEdit, Disturb, Undisturbed, IInv, TypeOK
  <1> QED
    BY <1>1, <1>2
    DEF Next, Run, Begin, Load, MakePlan, RejectPlan, StartExecute, FinishExecute,
        AfterHooks, Save, FailTask, Abort, Crash, Reconfigure

\* A task changes the tree by one of the calls of the executor.
LEMMA HowItWrites ==
  ASSUME IInv, NEW p \in Proc, NEW q \in Path, RunTask(p, q), fs' # fs
  PROVE  /\ pc[p] = "execute"
         /\ fs \in [Path -> Node]
         /\ \/ /\ plan[p][q] = "delete"
               /\ fs' = Put(fs, q, Absent)
            \/ /\ q \in Wanted(cfg[p])
               /\ \/ CanMkdir(fs, q) /\ fs' = MkdirAbove(fs, q)
                  \/ MustClear(fs, cfg[p].want[q].val, q) /\ fs' = Wiped(fs, q)
                  \/ fs' = Put(fs, q, cfg[p].want[q].val)
  <1> USE DEF WriteTree, FailCall, At
  <1>1. pc[p] = "execute"
    BY TaskStep DEF TaskMoves
  <1>2. fs \in [Path -> Node]
    BY DEF IInv, TypeOK
  <1>3. Planned(p) /\ Working(p)
    BY DEF IInv, Sound
  <1>4. task[p][q] \in {"clear", "install", "commit"} => q \in Wanted(cfg[p])
    BY <1>1, <1>3 DEF Planned, Working
  <1>5. ~StatOrphan(p, q)
    BY DEF StatOrphan
  <1>6. CASE RemoveOrphan(p, q)
    BY <1>1, <1>2, <1>3, <1>6 DEF RemoveOrphan, Working
  <1>7. CASE MkdirParent(p, q)
    <2>1. q \in Wanted(cfg[p])
      BY <1>1, <1>3, <1>7 DEF MkdirParent, Planned, Writes
    <2> QED BY <1>1, <1>2, <1>7, <2>1 DEF MkdirParent
  <1>8. CASE ClearTarget(p, q)
    BY <1>1, <1>2, <1>4, <1>8 DEF ClearTarget
  <1>9. CASE PlaceLink(p, q)
    BY <1>1, <1>2, <1>4, <1>9 DEF PlaceLink
  <1>10. CASE OpenTemp(p, q)
    BY <1>1, <1>2, <1>4, <1>10 DEF OpenTemp
  <1>11. CASE CommitTemp(p, q)
    BY <1>1, <1>2, <1>4, <1>11 DEF CommitTemp
  <1> QED BY <1>5, <1>6, <1>7, <1>8, <1>9, <1>10, <1>11 DEF RunTask

(***************************************************************************)
(* An apply prunes only what it owned, no longer wants and does not        *)
(* ignore, replaces only desired paths and what is below them, and makes   *)
(* only missing parents.                                                   *)
(***************************************************************************)
THEOREM OnlyItsOwn == Spec => TouchesOnlyItsOwn
  <1>1. ASSUME IInv, [Next]_vars
        PROVE  WriteToItsOwn
    <2> SUFFICES ASSUME NEW x \in Path, fs'[x] # fs[x], Undisturbed
                 PROVE  \E p \in Proc : /\ pc[p] = "execute" /\ ~opt[p].dryRun
                                        /\ Pruned(p, x) \/ Replaced(p, x) \/ MadeParent(p, x)
      BY DEF WriteToItsOwn
    <2>1. fs' # fs
      OBVIOUS
    <2>2. PICK p \in Proc, q \in Path : RunTask(p, q)
      BY <1>1, <2>1, WhoWrites
    <2>3. pc[p] = "execute" /\ ~opt[p].dryRun /\ Planned(p)
      BY <1>1, <2>1, <2>2, HowItWrites DEF IInv, PlanOnlyReports, Sound
    <2>4. CASE plan[p][q] = "delete" /\ fs' = Put(fs, q, Absent)
      <3>1. x = q /\ fs'[x] = Absent
        BY <1>1, <2>4 DEF Put, IInv, TypeOK
      <3> QED BY <2>3, <2>4, <3>1 DEF Planned, Pruned
    <2>5. CASE q \in Wanted(cfg[p]) /\ CanMkdir(fs, q) /\ fs' = MkdirAbove(fs, q)
      <3>1. x \in Above(q) /\ fs[x] = Absent /\ fs'[x] = Dir
        BY <2>5 DEF CanMkdir, MkdirAbove
      <3> QED BY <2>3, <2>5, <3>1 DEF MadeParent
    <2>6. CASE q \in Wanted(cfg[p]) /\ fs' = Wiped(fs, q)
      <3>1. x = q \/ x \in Below[q]
        BY <2>6 DEF Wiped
      <3> QED BY <2>3, <2>6, <3>1 DEF Replaced
    <2>7. CASE q \in Wanted(cfg[p]) /\ fs' = Put(fs, q, cfg[p].want[q].val)
      <3>1. x = q
        BY <1>1, <2>7 DEF Put, IInv, TypeOK
      <3> QED BY <2>3, <2>7, <3>1 DEF Replaced
    <2> QED BY <1>1, <2>1, <2>2, <2>4, <2>5, <2>6, <2>7, HowItWrites
  <1> QED BY <1>1, Inductive, PTL DEF Spec, TouchesOnlyItsOwn

(***************************************************************************)
(* No step of an apply takes away a regular file that is desired as one.   *)
(***************************************************************************)
THEOREM FilesUpdatedInPlace == Spec => UpdatesInPlace
  <1>1. ASSUME IInv, [Next]_vars
        PROVE  FileStays
    <2> SUFFICES ASSUME NEW x \in Path, fs[x] \in Data, fs'[x] \notin Data, Undisturbed
                 PROVE  \E p \in Proc : /\ pc[p] = "execute"
                                        /\ \/ cfg[p].want[x] = NoEntry
                                           \/ cfg[p].want[x].val \in Link
      BY DEF FileStays
    <2>1. fs' # fs
      OBVIOUS
    <2>2. PICK p \in Proc, q \in Path : RunTask(p, q)
      BY <1>1, <2>1, WhoWrites
    <2>3. pc[p] = "execute" /\ cfg[p] \in Configs /\ Planned(p)
      BY <1>1, <2>1, <2>2, HowItWrites DEF IInv, TypeOK, Sound
    <2>4. CASE plan[p][q] = "delete" /\ fs' = Put(fs, q, Absent)
      <3>1. x = q
        BY <1>1, <2>4 DEF Put, IInv, TypeOK
      <3> QED BY <2>3, <2>4, <3>1 DEF Planned, Wanted
    <2>5. CASE CanMkdir(fs, q) /\ fs' = MkdirAbove(fs, q)
      BY <2>5, NodeAssumption DEF CanMkdir, MkdirAbove
    <2>6. CASE /\ q \in Wanted(cfg[p])
               /\ MustClear(fs, cfg[p].want[q].val, q)
               /\ fs' = Wiped(fs, q)
      <3>1. CASE x = q
        BY <2>3, <2>6, <3>1 DEF MustClear
      <3>2. CASE x \in Below[q]
        <4>1. x \notin Wanted(cfg[p])
          BY <2>3, <2>6, <3>2, ConfigAssumption DEF PrefixFree
        <4> QED BY <2>3, <4>1 DEF Wanted
      <3> QED BY <2>6, <3>1, <3>2 DEF Wiped
    <2>7. CASE q \in Wanted(cfg[p]) /\ fs' = Put(fs, q, cfg[p].want[q].val)
      <3>1. x = q /\ fs'[x] = cfg[p].want[x].val
        BY <1>1, <2>7 DEF Put, IInv, TypeOK
      <3> QED BY <2>3, <2>7, <3>1, WantedVal
    <2> QED BY <1>1, <2>1, <2>2, <2>4, <2>5, <2>6, <2>7, HowItWrites
  <1> QED BY <1>1, Inductive, PTL DEF Spec, UpdatesInPlace

(***************************************************************************)
(* A converged tree gives a plan without work, so an update that the       *)
(* planner asks for always has a reason.                                   *)
(***************************************************************************)
THEOREM AppliesAreIdempotent == Spec => Idempotent
  <1>1. ASSUME IInv, [Next]_vars
        PROVE  [WorkHasReason]_vars
    <2> SUFFICES ASSUME NEW p \in Proc, pc[p] = "plan", pc'[p] = "before",
                        ~opt[p].noCache,
                        st[p] = OwnedBy(cfg[p]),
                        \A q \in Wanted(cfg[p]) : fs[q] = cfg[p].want[q].val
                 PROVE  FALSE
      BY DEF WorkHasReason
    <2>0. TypeOK /\ cfg[p] \in Configs
      BY <1>1 DEF IInv, TypeOK
    <2>1. MakePlan(p)
      <3>1. ~UNCHANGED vars
        BY DEF vars
      <3>2. \A r \in Proc, q \in Path : ~RunTask(r, q) /\ ~FailTask(r, q)
        BY <1>1, TaskStep DEF TaskMoves
      <3> QED
        BY <1>1, <2>0, <3>1, <3>2
        DEF Next, Run, Goto, Begin, Load, MakePlan, RejectPlan, StartExecute, FinishExecute,
            AfterHooks, Save, Abort, Crash, UserEdit, Reconfigure, TypeOK, local
    <2> DEFINE pl == Plan(fs, cfg[p], st[p], opt[p].noCache)
    <2>2. HasChanges(pl)
      BY <2>0, <2>1 DEF MakePlan, Goto, AfterPlan, TypeOK
    <2>3. PICK q \in Path : pl[q] \in Work
      BY <2>2 DEF HasChanges
    <2>4. PlanOne(fs, cfg[p], st[p], opt[p].noCache, q) \in Work
      BY <2>3 DEF Plan
    <2>5. CASE cfg[p].want[q] = NoEntry
      <3>1. st[p][q] = NoSrc
        BY <2>5 DEF OwnedBy
      <3> QED BY <2>4, <2>5, <3>1 DEF PlanOne, Work
    <2>6. CASE cfg[p].want[q] # NoEntry
      <3>1. fs[q] = cfg[p].want[q].val
        BY <2>6 DEF Wanted
      <3>2. fs[q] # Absent
        BY <2>0, <2>6, <3>1, WantedVal, NodeAssumption DEF Wanted
      <3>3. q \in cfg[p].ignored \/ st[p][q] = cfg[p].want[q].src
        BY <2>6 DEF OwnedBy
      <3> QED BY <2>4, <2>6, <3>1, <3>2, <3>3 DEF PlanOne, Work
    <2> QED BY <2>5, <2>6
  <1> QED BY <1>1, Inductive, PTL DEF Spec, Idempotent

-----------------------------------------------------------------------------
(***************************************************************************)
(* The apply implements the ledger of transactions.                        *)
(***************************************************************************)
Running == {p \in Proc : pc[p] \notin Resting}

\* Before the first command the ledger is empty and nothing runs.
LEMMA RefinesInit == Init => Abstract!Init
  BY DEF Init, Abstract!Init, Resting

\* What happens to the set of running processes when one of them moves.
LEMMA RunningMoves ==
  ASSUME TypeOK, NEW p \in Proc, NEW to, pc' = [pc EXCEPT ![p] = to]
  PROVE  Running' = IF to \in Resting THEN Running \ {p} ELSE Running \cup {p}
  BY DEF Running, TypeOK

\* Every step of an apply is a step of the ledger, or leaves it alone.
LEMMA RefinesStep ==
  ASSUME IInv, [Next]_vars
  PROVE  [Abstract!Next]_(Abstract!ledgerVars)
  <1> USE DEF Goto, Abstract!ledgerVars
  <1>0. TypeOK
    BY DEF IInv
  <1>a. {p \in Proc : pc[p] \notin Resting} = Running
    BY DEF Running
  <1>1. ASSUME NEW p \in Proc, NEW o \in Options, Begin(p, o)
        PROVE  Abstract!Begin(p)
    <2>0. "load" \notin Resting
      BY DEF Resting
    <2>1. p \notin Running /\ Running' = Running \cup {p}
      <3>1. pc[p] \in Resting /\ pc' = [pc EXCEPT ![p] = "load"]
        BY <1>1 DEF Begin
      <3>2. Running' = Running \cup {p}
        BY <1>0, <2>0, <3>1, RunningMoves
      <3> QED BY <3>1, <3>2 DEF Running
    <2> QED BY <1>1, <2>1 DEF Begin, Running, Abstract!Begin
  <1>2. ASSUME NEW p \in Proc, Save(p)
        PROVE  Abstract!Commit(p)
    <2>1. p \in Running /\ Running' = Running \ {p}
      BY <1>0, <1>2, RunningMoves DEF Save, Running, Resting
    <2>2. st[p] = OwnedBy(cfg[p])
      BY <1>2 DEF IInv, Sound, Executed, Saving, Save
    <2> QED BY <1>2, <2>1, <2>2 DEF Save, Running, local, Abstract!Commit
  <1>3. ASSUME NEW p \in Proc,
               \/ Load(p) \/ MakePlan(p) \/ RejectPlan(p) \/ StartExecute(p)
               \/ FinishExecute(p) \/ AfterHooks(p) \/ Abort(p) \/ Crash(p)
        PROVE  Abstract!Leave(p) \/ UNCHANGED Abstract!ledgerVars
    <2>1. UNCHANGED <<saved, config, cfg>>
      BY <1>3 DEF Load, MakePlan, RejectPlan, StartExecute, FinishExecute, AfterHooks,
                  Abort, Crash, local
    <2>2. p \in Running /\ \E to \in Phase : pc' = [pc EXCEPT ![p] = to]
      BY <1>0, <1>3
      DEF Load, MakePlan, AfterPlan, RejectPlan, StartExecute, FinishExecute, AfterHooks,
          Abort, Crash, Running, Resting, Phase
    <2>3. Running' = Running \ {p} \/ Running' = Running
      <3>1. PICK to \in Phase : pc' = [pc EXCEPT ![p] = to]
        BY <2>2
      <3>2. Running' = IF to \in Resting THEN Running \ {p} ELSE Running \cup {p}
        BY <1>0, <3>1, RunningMoves
      <3> QED BY <2>2, <3>2
    <2> QED BY <2>1, <2>2, <2>3 DEF Running, Abstract!Leave
  <1>4. ASSUME NEW p \in Proc, NEW q \in Path, RunTask(p, q) \/ FailTask(p, q)
        PROVE  UNCHANGED Abstract!ledgerVars
    BY <1>4, TaskStep DEF TaskMoves
  <1>5. ASSUME NEW q \in Path, NEW v \in UserNode, UserEdit(q, v)
        PROVE  UNCHANGED Abstract!ledgerVars
    BY <1>5 DEF UserEdit, local
  <1>6. ASSUME NEW c \in Configs, Reconfigure(c)
        PROVE  Abstract!Reconfigure(c)
    BY <1>6 DEF Reconfigure, local, Abstract!Reconfigure
  <1>7. CASE UNCHANGED vars
    BY <1>7 DEF vars, local
  <1> QED
    BY <1>1, <1>2, <1>3, <1>4, <1>5, <1>6, <1>7 DEF Next, Run, Abstract!Next

(***************************************************************************)
(* Whatever fails and however runs interleave, state.json evolves by whole *)
(* commits of configurations that were on disk when a run began.           *)
(***************************************************************************)
THEOREM RefinesLedger == Spec => ImplementsLedger
  <1>1. IInv /\ [Next]_vars => [Abstract!Next]_(Abstract!ledgerVars)
    BY RefinesStep
  <1> QED BY RefinesInit, <1>1, Inductive, PTL DEF Spec, ImplementsLedger, Abstract!Spec

-----------------------------------------------------------------------------
(***************************************************************************)
(* Convergence.  While a process is quiet it is alone, and its finished    *)
(* tasks stay finished whatever its other tasks do: no call made for one   *)
(* path of a prefix-free plan undoes what another path needs.              *)
(***************************************************************************)
Alone(p) == \A x \in Proc \ {p} : pc[x] \in Resting

Gone(p) == \A q \in Path : plan[p][q] = "delete" => fs[q] \in {Absent, Dir}
Reached(p) == Realised(fs, cfg[p]) /\ Gone(p)

Done(p, q) ==
  /\ plan[p][q] \in Writes => fs[q] = cfg[p].want[q].val
  /\ plan[p][q] = "delete" => fs[q] \in {Absent, Dir}

\* What planning found in place, and which paths it covers.
Found(p) ==
  /\ \A q \in Wanted(cfg[p]) : plan[p][q] \in Writes \cup {"noop"}
  /\ \A q \in Entries(cfg[p]) : plan[p][q] = "noop" => fs[q] = cfg[p].want[q].val

Progress(p) ==
  \A q \in Path :
    /\ task[p][q] = "ok" => Done(p, q)
    /\ task[p][q] = "idle" <=> plan[p][q] \notin Work

Calm(p) ==
  quiet[p] =>
    /\ Alone(p)
    /\ pc[p] = "plan" /\ ~dropped[p] => st[p] = saved
    /\ pc[p] \in {"before", "execute"} => Found(p)
    /\ pc[p] = "execute" => Progress(p)
    /\ pc[p] \in {"after", "save"} /\ ~Failed(p) => Reached(p)
    /\ pc[p] = "done" /\ ~opt[p].dryRun => Reached(p) /\ saved = OwnedBy(cfg[p])

CInv == IInv /\ \A p \in Proc : Calm(p)

\* A noop outside bundles was compared with the node on disk.
LEMMA NoopFound ==
  ASSUME NEW t, NEW c \in Configs, NEW s, NEW n, NEW q \in Entries(c),
         Plan(t, c, s, n)[q] \notin Work
  PROVE  t[q] = c.want[q].val
  <1>1. q \in Path /\ PlanOne(t, c, s, n, q) \notin Work
    BY DEF Plan, Entries, Wanted
  <1> QED BY <1>1 DEF PlanOne, Work, Entries, Wanted

\* A call made for q spares what the other paths need.
LEMMA SparesOthers ==
  ASSUME IInv, NEW p \in Proc, NEW q \in Path, RunTask(p, q),
         NEW x \in Path, x # q
  PROVE  /\ x \in Wanted(cfg[p]) /\ fs[x] = cfg[p].want[x].val => fs'[x] = fs[x]
         /\ fs[x] \in {Absent, Dir} => fs'[x] \in {Absent, Dir}
  <1>1. CASE fs' = fs
    BY <1>1
  <1>2. CASE fs' # fs
    <2>1. fs \in [Path -> Node] /\ cfg[p] \in Configs
      BY DEF IInv, TypeOK
    <2>2. CASE \E v : fs' = Put(fs, q, v)
      BY <2>1, <2>2 DEF Put
    <2>3. CASE CanMkdir(fs, q) /\ fs' = MkdirAbove(fs, q)
      <3>1. fs'[x] = fs[x] \/ (fs[x] \in {Absent, Dir} /\ fs'[x] = Dir)
        BY <2>3 DEF CanMkdir, MkdirAbove
      <3>2. x \in Wanted(cfg[p]) => cfg[p].want[x].val \notin {Absent, Dir}
        BY <2>1, WantedVal, NodeAssumption
      <3> QED BY <3>1, <3>2
    <2>4. CASE q \in Wanted(cfg[p]) /\ fs' = Wiped(fs, q)
      <3>1. x \in Below[q] => x \notin Wanted(cfg[p])
        BY <2>1, <2>4, ConfigAssumption DEF PrefixFree
      <3> QED BY <2>4, <3>1 DEF Wiped
    <2> QED BY <1>2, <2>2, <2>3, <2>4, HowItWrites
  <1> QED BY <1>1, <1>2

\* A task that ends well has done its work.
LEMMA OkMeansDone ==
  ASSUME IInv, NEW p \in Proc, NEW q \in Path, RunTask(p, q), task'[p][q] = "ok"
  PROVE  Done(p, q)'
  <1> USE DEF At, MoveTo, FailCall, WriteTree, Done, Writes
  <1>0. /\ TypeOK /\ Working(p) /\ Planned(p)
        /\ task \in [Proc -> [Path -> Step]] /\ fs \in [Path -> Node]
    BY DEF IInv, Sound, TypeOK
  <1>1. ASSUME NEW s, task' = [task EXCEPT ![p][q] = s]
        PROVE  s = "ok"
    BY <1>0, <1>1
  <1>2. CASE StatOrphan(p, q)
    BY <1>0, <1>2 DEF StatOrphan
  <1>3. CASE RemoveOrphan(p, q)
    <2>1. fs' = Put(fs, q, Absent) /\ plan' = plan /\ plan[p][q] = "delete"
      BY <1>0, <1>1, <1>3 DEF RemoveOrphan, Working
    <2> QED BY <1>0, <2>1 DEF Put
  <1>4. CASE MkdirParent(p, q)
    BY <1>1, <1>4 DEF MkdirParent
  <1>5. CASE ClearTarget(p, q)
    BY <1>1, <1>5 DEF ClearTarget
  <1>6. CASE PlaceLink(p, q)
    <2>1. /\ fs' = Put(fs, q, cfg[p].want[q].val)
          /\ plan' = plan /\ cfg' = cfg /\ plan[p][q] \in Writes
      BY <1>0, <1>1, <1>6 DEF PlaceLink, Working
    <2> QED BY <1>0, <2>1 DEF Put
  <1>7. CASE OpenTemp(p, q)
    BY <1>1, <1>7 DEF OpenTemp
  <1>8. CASE CommitTemp(p, q)
    <2>1. /\ fs' = Put(fs, q, cfg[p].want[q].val)
          /\ plan' = plan /\ cfg' = cfg /\ plan[p][q] \in Writes
      BY <1>0, <1>1, <1>8 DEF CommitTemp, Working
    <2> QED BY <1>0, <2>1 DEF Put
  <1> QED BY <1>2, <1>3, <1>4, <1>5, <1>6, <1>7, <1>8 DEF RunTask

\* A task of p, done or failed, never undoes the progress of p.
LEMMA CalmTask ==
  ASSUME IInv, NEW p \in Proc, Calm(p), quiet[p],
         NEW q \in Path, RunTask(p, q) \/ FailTask(p, q)
  PROVE  Calm(p)'
  <1>1. /\ TaskMoves(p, q) /\ pc[p] = "execute"
        /\ pc' = pc /\ cfg' = cfg /\ plan' = plan /\ opt' = opt
    BY TaskStep DEF TaskMoves
  <1>2. PICK s \in Step : /\ task' = [task EXCEPT ![p][q] = s]
                          /\ s \in {"clear", "install", "commit"} => plan[p][q] \in Writes
                          /\ s = "remove" => plan[p][q] = "delete"
    BY <1>1 DEF TaskMoves
  <1>3. Alone(p) /\ Found(p) /\ Progress(p) /\ Planned(p)
    BY <1>1 DEF Calm, IInv, Sound
  <1>4. cfg[p] \in Configs /\ task \in [Proc -> [Path -> Step]] /\ fs \in [Path -> Node]
    BY DEF IInv, TypeOK
  <1>5. s # "idle" /\ plan[p][q] \in Work
    <2>1. FailTask(p, q) => task'[p][q] = "err" /\ task[p][q] # "idle"
      BY <1>4 DEF FailTask
    <2>2. RunTask(p, q) => task'[p][q] # "idle" /\ task[p][q] # "idle"
      BY <1>4
      DEF RunTask, StatOrphan, RemoveOrphan, MkdirParent, ClearTarget, PlaceLink, OpenTemp,
          CommitTemp, MoveTo, FailCall, At
    <2>3. task'[p][q] = s
      BY <1>2, <1>4
    <2> QED BY <1>1, <1>3, <2>1, <2>2, <2>3 DEF Progress
  <1>6. \A x \in Path \ {q} :
          /\ x \in Wanted(cfg[p]) /\ fs[x] = cfg[p].want[x].val => fs'[x] = fs[x]
          /\ fs[x] \in {Absent, Dir} => fs'[x] \in {Absent, Dir}
    BY SparesOthers DEF FailTask
  <1>7. Found(p)'
    <2>1. \A x \in Entries(cfg[p]) : plan[p][x] = "noop" => x # q /\ x \in Wanted(cfg[p]) /\ x \in Path
      BY <1>5 DEF Entries, Wanted, Work
    <2> QED BY <1>1, <1>3, <1>6, <2>1 DEF Found
  <1>8. Progress(p)'
    <2> SUFFICES ASSUME NEW x \in Path
                 PROVE  /\ task'[p][x] = "ok" => Done(p, x)'
                        /\ task'[p][x] = "idle" <=> plan[p][x] \notin Work
      BY <1>1 DEF Progress
    <2>1. CASE x = q
      <3>1. task'[p][q] = s
        BY <1>2, <1>4
      <3>2. FailTask(p, q) => s = "err"
        BY <3>1, <1>4 DEF FailTask
      <3> QED BY <1>5, <2>1, <3>1, <3>2, OkMeansDone
    <2>2. CASE x # q
      <3>1. task'[p][x] = task[p][x]
        BY <1>2, <1>4, <2>2
      <3>2. plan[p][x] \in Writes => x \in Wanted(cfg[p])
        BY <1>1, <1>3 DEF Planned
      <3> QED BY <1>1, <1>3, <1>6, <2>2, <3>1, <3>2 DEF Progress, Done
    <2> QED BY <2>1, <2>2
  <1> QED BY <1>1, <1>3, <1>7, <1>8 DEF Calm, Alone

\* The phases of a quiet process, one step of its own at a time.
LEMMA CalmLoad ==
  ASSUME IInv, NEW p \in Proc, Calm(p), quiet[p], Load(p)
  PROVE  Calm(p)'
  <1>1. /\ TypeOK /\ pc[p] = "load" /\ pc'[p] = "plan"
        /\ \A x \in Proc \ {p} : pc'[x] = pc[x]
        /\ saved' = saved
    BY DEF IInv, TypeOK, Load, Goto
  <1>2. dropped'[p] = \E q \in cfg[p].ignored : saved[q] # NoSrc
    BY <1>1 DEF TypeOK, Load
  <1>3. st'[p] = DropIgnored(saved, cfg[p].ignored)
    BY <1>1 DEF TypeOK, Load
  <1>4. ~dropped'[p] => st'[p] = saved
    <2> SUFFICES ASSUME \A q \in cfg[p].ignored : saved[q] = NoSrc
                 PROVE  DropIgnored(saved, cfg[p].ignored) = saved
      BY <1>2, <1>3
    <2>1. saved = [q \in Path |-> saved[q]]
      BY <1>1 DEF TypeOK, Owned
    <2> QED BY <2>1 DEF DropIgnored
  <1> QED BY <1>1, <1>4 DEF Calm, Alone

\* A plan made in quiet is a plan of the tree that is still there.
LEMMA CalmPlan ==
  ASSUME IInv, NEW p \in Proc, Calm(p), quiet[p], MakePlan(p)
  PROVE  Calm(p)'
  <1> DEFINE pl == Plan(fs, cfg[p], st[p], opt[p].noCache)
  <1>1. /\ TypeOK /\ pc[p] = "plan" /\ pc'[p] = AfterPlan(p, pl)
        /\ \A x \in Proc \ {p} : pc'[x] = pc[x]
        /\ plan'[p] = pl
        /\ \A q \in Path : task'[p][q] = "idle"
        /\ UNCHANGED <<fs, saved, cfg, opt, st, dropped>>
        /\ cfg[p] \in Configs /\ st[p] \in Owned
    BY DEF IInv, TypeOK, MakePlan, Goto
  <1>2. Alone(p) /\ (~dropped[p] => st[p] = saved)
    BY <1>1 DEF Calm
  <1>3. \A q \in Wanted(cfg[p]) : pl[q] \in Writes \cup {"noop"}
    BY <1>1, PlanType DEF Wanted
  <1>4. ASSUME NEW q \in Entries(cfg[p]), pl[q] \notin Work
        PROVE  fs[q] = cfg[p].want[q].val
    BY <1>1, <1>4, NoopFound
  <1>5. \A q \in cfg[p].ignored : st[p][q] = NoSrc
    BY <1>1 DEF IInv, Sound, Loaded
  <1>6. ~HasChanges(pl) => st[p] = OwnedBy(cfg[p])
    BY <1>1, <1>5, NoWorkOwned
  <1> HIDE DEF pl
  <1>7. Found(p)'
    BY <1>1, <1>3, <1>4 DEF Found, Work
  <1>8. ~HasChanges(pl) => Reached(p)'
    <2> SUFFICES ASSUME ~HasChanges(pl) PROVE Reached(p)'
      OBVIOUS
    <2>1. \A q \in Path : pl[q] \notin Work
      BY DEF HasChanges
    <2>2. \A q \in Entries(cfg[p]) : fs[q] = cfg[p].want[q].val
      BY <1>4, <2>1 DEF Entries, Wanted
    <2>3. \A q \in Path : pl[q] # "delete"
      BY <2>1 DEF Work
    <2> QED BY <1>1, <2>2, <2>3 DEF Reached, Realised, Gone
  <1>9. pc'[p] \in {"before", "save", "done"}
        /\ (pc'[p] = "save" => ~HasChanges(pl))
        /\ (pc'[p] = "done" /\ ~opt[p].dryRun => ~HasChanges(pl) /\ ~dropped[p])
    BY <1>1 DEF AfterPlan
  <1>10. Alone(p)'
    BY <1>1, <1>2 DEF Alone
  <1>11. OwnedBy(cfg[p])' = OwnedBy(cfg[p])
    BY <1>1 DEF OwnedBy
  <1> QED BY <1>1, <1>2, <1>6, <1>7, <1>8, <1>9, <1>10, <1>11 DEF Calm

\* Tasks of a quiet process make progress and lose none.
LEMMA CalmExecute ==
  ASSUME IInv, NEW p \in Proc, Calm(p), quiet[p], StartExecute(p) \/ FinishExecute(p)
  PROVE  Calm(p)'
  <1>0. TypeOK
    BY DEF IInv
  <1>1. CASE StartExecute(p)
    <2>1. /\ pc[p] = "before" /\ pc'[p] = "execute"
          /\ \A x \in Proc \ {p} : pc'[x] = pc[x]
          /\ UNCHANGED <<fs, cfg, plan>>
          /\ \A q \in Path : task'[p][q] = IF plan[p][q] \in Work THEN "todo" ELSE "idle"
      BY <1>0, <1>1 DEF StartExecute, Goto, TypeOK
    <2>2. Alone(p) /\ Found(p)
      BY <2>1 DEF Calm
    <2>3. Progress(p)'
      BY <2>1 DEF Progress
    <2>4. Found(p)'
      BY <2>1, <2>2 DEF Found
    <2> QED BY <2>1, <2>2, <2>3, <2>4 DEF Calm, Alone
  <1>2. CASE FinishExecute(p)
    <2>1. /\ pc[p] = "execute" /\ pc'[p] = "after"
          /\ \A x \in Proc \ {p} : pc'[x] = pc[x]
          /\ UNCHANGED <<fs, cfg, plan, task>>
          /\ ~Failed(p) => \A q \in Path : task[p][q] \in {"idle", "ok"}
      BY <1>0, <1>2 DEF FinishExecute, Goto, Failed, TypeOK
    <2>2. Alone(p) /\ Found(p) /\ Progress(p)
      BY <2>1 DEF Calm
    <2>3. ASSUME ~Failed(p)
          PROVE  Reached(p)
      <3>1. ASSUME NEW q \in Entries(cfg[p])
            PROVE  fs[q] = cfg[p].want[q].val
        <4>1. q \in Path /\ plan[p][q] \in Writes \cup {"noop"}
          BY <2>2 DEF Found, Entries, Wanted
        <4>2. CASE plan[p][q] = "noop"
          BY <2>2, <4>2 DEF Found
        <4>3. CASE plan[p][q] \in Writes
          BY <2>1, <2>2, <2>3, <4>1, <4>3 DEF Progress, Done, Work, Writes
        <4> QED BY <4>1, <4>2, <4>3
      <3>2. Gone(p)
        BY <2>1, <2>2, <2>3 DEF Gone, Progress, Done, Work
      <3> QED BY <3>1, <3>2 DEF Reached, Realised
    <2>4. Failed(p)' <=> Failed(p)
      BY <2>1 DEF Failed
    <2>5. Reached(p)' <=> Reached(p)
      BY <2>1 DEF Reached, Realised, Gone
    <2> QED BY <2>1, <2>2, <2>3, <2>4, <2>5 DEF Calm, Alone
  <1> QED BY <1>1, <1>2

\* At the end of a quiet execution without failures the tree is the desired one.
LEMMA CalmFinish ==
  ASSUME IInv, NEW p \in Proc, Calm(p), quiet[p],
         AfterHooks(p) \/ Save(p) \/ RejectPlan(p) \/ Abort(p) \/ Crash(p)
  PROVE  Calm(p)'
  <1>1. /\ TypeOK
        /\ UNCHANGED <<fs, cfg, opt, st, dropped, plan, task>>
        /\ \A x \in Proc \ {p} : pc'[x] = pc[x]
    BY DEF IInv, TypeOK, AfterHooks, Save, RejectPlan, Abort, Crash, Goto, local
  <1>2. Alone(p)' /\ (Failed(p)' <=> Failed(p)) /\ (Reached(p)' <=> Reached(p))
    BY <1>1 DEF Calm, Alone, Failed, Reached, Realised, Gone
  <1>3. CASE AfterHooks(p)
    <2>1. pc[p] = "after" /\ pc'[p] \in {"failed", "save"} /\ (pc'[p] = "save" => ~Failed(p))
      BY <1>1, <1>3 DEF AfterHooks, Goto, TypeOK
    <2> QED BY <1>2, <2>1 DEF Calm
  <1>4. CASE Save(p)
    <2>1. pc[p] = "save" /\ pc'[p] = "done" /\ saved' = st[p]
      BY <1>1, <1>4 DEF Save, Goto, TypeOK
    <2>2. ~Failed(p) /\ st[p] = OwnedBy(cfg[p])
      BY <2>1 DEF IInv, Sound, Executed, Saving
    <2>3. OwnedBy(cfg[p])' = OwnedBy(cfg[p])
      BY <1>1 DEF OwnedBy
    <2> QED BY <1>2, <2>1, <2>2, <2>3 DEF Calm
  <1>5. CASE RejectPlan(p) \/ Abort(p) \/ Crash(p)
    <2>1. pc'[p] \in {"failed", "idle"}
      BY <1>1, <1>5 DEF RejectPlan, Abort, Crash, Goto, TypeOK
    <2> QED BY <1>2, <2>1 DEF Calm
  <1> QED BY <1>3, <1>4, <1>5

\* Every step keeps the progress of the processes nobody disturbed.
LEMMA CalmStep ==
  ASSUME IInv, [Next]_vars, NEW r \in Proc, Calm(r)
  PROVE  Calm(r)'
  <1>0. TypeOK
    BY DEF IInv
  <1>1. ASSUME NEW p \in Proc, NEW o \in Options, Begin(p, o)
        PROVE  Calm(r)'
    <2>1. pc' = [pc EXCEPT ![p] = "load"]
          /\ quiet'[r] = (r = p /\ \A x \in Proc \ {p} : pc[x] \in Resting)
      BY <1>1 DEF Begin, Goto
    <2>2. CASE r = p
      BY <1>0, <2>1, <2>2 DEF Calm, Alone, TypeOK
    <2>3. CASE r # p
      BY <2>1, <2>3 DEF Calm
    <2> QED BY <2>2, <2>3
  <1>2. ASSUME NEW p \in Proc, Run(p) \/ Abort(p) \/ Crash(p)
        PROVE  Calm(r)'
    <2>1. pc[p] \notin Resting /\ quiet' = quiet
      BY <1>2
      DEF Run, Load, MakePlan, RejectPlan, StartExecute, FinishExecute, AfterHooks, Save,
          Abort, Crash, Goto, Resting
    <2>2. CASE ~quiet[r]
      BY <2>1, <2>2 DEF Calm
    <2>3. CASE quiet[r]
      <3>1. p = r
        BY <2>1, <2>3 DEF Calm, Alone
      <3> QED
        BY <1>2, <2>3, <3>1, CalmLoad, CalmPlan, CalmExecute, CalmFinish DEF Run
    <2> QED BY <2>2, <2>3
  <1>3. ASSUME NEW p \in Proc, NEW q \in Path, RunTask(p, q) \/ FailTask(p, q)
        PROVE  Calm(r)'
    <2>1. pc[p] = "execute"
      BY <1>3, TaskStep DEF TaskMoves
    <2>2. quiet'[r] => quiet[r]
      BY <1>0, <1>3
      DEF RunTask, StatOrphan, RemoveOrphan, MkdirParent, ClearTarget, PlaceLink, OpenTemp,
          CommitTemp, FailTask, FailCall, WriteTree, TypeOK
    <2>3. CASE ~quiet[r]
      BY <2>2, <2>3 DEF Calm
    <2>4. CASE quiet[r]
      <3>1. p = r
        BY <2>1, <2>4 DEF Calm, Alone, Resting
      <3> QED BY <1>3, <2>4, <3>1, CalmTask
    <2> QED BY <2>3, <2>4
  <1>4. ASSUME NEW q \in Path, NEW v \in UserNode, UserEdit(q, v)
        PROVE  Calm(r)'
    BY <1>4 DEF UserEdit, Calm
  <1>5. CASE UNCHANGED vars \/ \E c \in Configs : Reconfigure(c)
    <2>1. UNCHANGED <<fs, saved, pc, cfg, opt, st, dropped, plan, task, quiet>>
      BY <1>5 DEF vars, local, Reconfigure
    <2> QED
      BY <2>1
      DEF Calm, Alone, Found, Progress, Done, Reached, Realised, Gone, Failed, OwnedBy
  <1> QED BY <1>1, <1>2, <1>3, <1>4, <1>5 DEF Next

(***************************************************************************)
(* The progress of a process that runs alone is never lost: what it found  *)
(* in place stays, and what its finished tasks wrote stays.                *)
(***************************************************************************)
THEOREM CalmInductive == Spec => []CInv
  <1>1. Init => CInv
    BY InitIInv DEF CInv, Init, Calm, Alone, Resting
  <1>2. CInv /\ [Next]_vars => CInv'
    BY TypeStep, PlanOnlyStep, SoundStep, CalmStep DEF CInv, IInv
  <1> QED BY <1>1, <1>2, PTL DEF Spec

(***************************************************************************)
(* A run that succeeds while nothing else touches the targets has brought  *)
(* the disk and state.json to its configuration, in whatever order its     *)
(* tasks ran and whatever was there before.                                *)
(***************************************************************************)
THEOREM ApplyConverges == Spec => []Converged
  <1>1. CInv => Converged
    BY DEF CInv, Calm, Converged, Reached, Gone
  <1> QED BY <1>1, CalmInductive, PTL
=============================================================================
