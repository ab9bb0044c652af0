----------------------------- MODULE SourceCache -----------------------------
(***************************************************************************)
(* sourcecache.EnsureCachedDir for one cache key, on top of                *)
(* atomicfile.ReplaceDir.                                                  *)
(*                                                                         *)
(* The calls of a process share a mutex; processes share only the three    *)
(* directories dest, dest.tmp and dest.old.  A miss fetches into dest.tmp  *)
(* and swaps it in: dest is set aside as dest.old, dest.tmp becomes dest,  *)
(* and dest.old is removed.  Any call to the file system can fail, and a   *)
(* process can die between any two of them.                                *)
(***************************************************************************)

CONSTANTS
  Process,   \* modot processes
  Call,      \* calls of EnsureCachedDir
  Of,        \* Of[t]: the process that makes call t
  Nobody,    \* the holder of a free mutex
  Faults     \* what can go wrong in an instance

ASSUME CallAssumption == Of \in [Call -> Process] /\ Nobody \notin Call

ASSUME FaultAssumption ==
  Faults \subseteq {"fetch", "remove", "aside", "install", "restore", "crash"}

VARIABLES
  dir,      \* the three directories: missing, incomplete or complete
  maker,    \* the call that made the present dest.tmp
  pc,       \* where each call is
  lock,     \* the mutex of the key in each process
  flags,    \* --dry-run and --no-cache of each process
  had,      \* whether dest was complete when the call took the mutex
  spoilt    \* a rename of dest or of dest.old has failed

vars == <<dir, maker, pc, lock, flags, had, spoilt>>

Slot == {"dest", "tmp", "old"}
Dir == {"none", "part", "whole"}
Resting == {"idle", "served", "failed"}
Swapping == {"purge", "probe", "aside", "wipe", "install", "restore", "tidy"}
Critical == {"check", "clear", "make", "fetch", "discard"} \cup Swapping
Flag == [dryRun : BOOLEAN, noCache : BOOLEAN]

TypeOK ==
  /\ dir \in [Slot -> Dir]
  /\ maker \in Call \cup {Nobody}
  /\ pc \in [Call -> Resting \cup {"wait"} \cup Critical]
  /\ lock \in [Process -> Call \cup {Nobody}]
  /\ flags \in [Process -> Flag]
  /\ had \in [Call -> BOOLEAN]
  /\ spoilt \in BOOLEAN

Init ==
  /\ dir = [s \in Slot |-> "none"]
  /\ maker = Nobody
  /\ pc = [t \in Call |-> "idle"]
  /\ lock = [p \in Process |-> Nobody]
  /\ flags \in [Process -> Flag]
  /\ had = [t \in Call |-> FALSE]
  /\ spoilt = FALSE

NoCache(t) == flags[Of[t]].noCache
DryRun(t) == flags[Of[t]].dryRun
Cached == dir["dest"] # "none"

Goto(t, from, to) == pc[t] = from /\ pc' = [pc EXCEPT ![t] = to]
Set(s, d) == dir' = [dir EXCEPT ![s] = d]
Move(s, d) == dir' = [dir EXCEPT ![d] = dir[s], ![s] = "none"]

\* A return from the locked part: the deferred Unlock runs.
Return(t, from, to) == Goto(t, from, to) /\ lock' = [lock EXCEPT ![Of[t]] = Nobody]
-----------------------------------------------------------------------------
(***************************************************************************)
(* EnsureCachedDir.                                                        *)
(***************************************************************************)
\* The first look, outside the mutex.
Ask(t) ==
  /\ pc[t] \in Resting
  /\ pc' = [pc EXCEPT ![t] = IF Cached /\ ~NoCache(t) THEN "served" ELSE "wait"]
  /\ UNCHANGED <<dir, maker, lock, flags, had, spoilt>>

Acquire(t) ==
  /\ lock[Of[t]] = Nobody
  /\ Goto(t, "wait", "check")
  /\ lock' = [lock EXCEPT ![Of[t]] = t]
  /\ had' = [had EXCEPT ![t] = dir["dest"] = "whole"]
  /\ UNCHANGED <<dir, maker, flags, spoilt>>

\* Mistake: the call that waited does not look again.
HitNever(t) == Cached /\ NoCache(t) /\ DryRun(t)

\* The second look: a hit after the wait, or a plan, which never fetches again.
Hit(t) == Cached /\ (~NoCache(t) \/ DryRun(t))

Recheck(t) ==
  /\ \/ Hit(t) /\ Return(t, "check", "served")
     \/ ~Hit(t) /\ Goto(t, "check", "clear") /\ UNCHANGED lock
  /\ UNCHANGED <<dir, maker, flags, had, spoilt>>

ClearTemp(t) ==
  /\ Goto(t, "clear", "make")
  /\ Set("tmp", "none")
  /\ UNCHANGED <<maker, lock, flags, had, spoilt>>

\* MkdirAll leaves a directory that another process has just made.
MakeTemp(t) ==
  /\ Goto(t, "make", "fetch")
  /\ IF dir["tmp"] = "none"
     THEN Set("tmp", "part") /\ maker' = t
     ELSE UNCHANGED <<dir, maker>>
  /\ UNCHANGED <<lock, flags, had, spoilt>>

\* A fetch completes the directory it was given, unless somebody replaced it meanwhile.
Fetched(t) ==
  /\ dir["tmp"] # "none"
  /\ Goto(t, "fetch", "purge")
  /\ IF maker = t THEN Set("tmp", "whole") ELSE UNCHANGED dir
  /\ UNCHANGED <<maker, lock, flags, had, spoilt>>

\* Mistake: what a failed fetch left is swapped in.
FetchErrorLost(t) ==
  /\ "fetch" \in Faults \/ maker # t
  /\ Goto(t, "fetch", "purge")
  /\ UNCHANGED <<dir, maker, lock, flags, had, spoilt>>

FetchFails(t) ==
  /\ "fetch" \in Faults \/ maker # t
  /\ Goto(t, "fetch", "discard")
  /\ UNCHANGED <<dir, maker, lock, flags, had, spoilt>>

\* Mistake: an error return keeps the mutex.
DiscardLocked(t) ==
  /\ Goto(t, "discard", "failed")
  /\ Set("tmp", "none")
  /\ UNCHANGED <<maker, lock, flags, had, spoilt>>

Discard(t) ==
  /\ Return(t, "discard", "failed")
  /\ Set("tmp", "none")
  /\ UNCHANGED <<maker, flags, had, spoilt>>

(***************************************************************************)
(* ReplaceDir(dest, dest.tmp).                                             *)
(***************************************************************************)
PurgeOld(t) ==
  /\ Goto(t, "purge", "probe")
  /\ Set("old", "none")
  /\ UNCHANGED <<maker, lock, flags, had, spoilt>>

Probe(t) ==
  /\ Goto(t, "probe", IF Cached THEN "aside" ELSE "install")
  /\ UNCHANGED <<dir, maker, lock, flags, had, spoilt>>

SetAside(t) ==
  /\ Cached /\ dir["old"] = "none"
  /\ Goto(t, "aside", "install")
  /\ Move("dest", "old")
  /\ UNCHANGED <<maker, lock, flags, had, spoilt>>

AsideFails(t) ==
  /\ "aside" \in Faults \/ ~Cached \/ dir["old"] # "none"
  /\ Goto(t, "aside", "wipe")
  /\ spoilt' = TRUE
  /\ UNCHANGED <<dir, maker, lock, flags, had>>

\* RemoveAll of dest, file by file.
Wipe(t) ==
  /\ IF dir["dest"] = "whole"
     THEN Set("dest", "part") /\ Goto(t, "wipe", "wipe")
     ELSE Set("dest", "none") /\ Goto(t, "wipe", "install")
  /\ UNCHANGED <<maker, lock, flags, had, spoilt>>

InstallNew(t) ==
  /\ dir["tmp"] # "none" /\ ~Cached
  /\ Goto(t, "install", "tidy")
  /\ Move("tmp", "dest")
  /\ UNCHANGED <<maker, lock, flags, had, spoilt>>

InstallFails(t) ==
  /\ "install" \in Faults \/ dir["tmp"] = "none" \/ Cached
  /\ Goto(t, "install", "restore")
  /\ UNCHANGED <<dir, maker, lock, flags, had, spoilt>>

\* Mistake: a failed rename is returned at once.
LeaveOld(t) ==
  /\ Goto(t, "restore", "discard")
  /\ UNCHANGED <<dir, maker, lock, flags, had, spoilt>>

Restore(t) ==
  /\ Goto(t, "restore", "discard")
  /\ IF dir["old"] # "none" /\ ~Cached THEN Move("old", "dest") ELSE UNCHANGED dir
  /\ UNCHANGED <<maker, lock, flags, had, spoilt>>

RestoreFails(t) ==
  /\ "restore" \in Faults
  /\ Goto(t, "restore", "discard")
  /\ spoilt' = TRUE
  /\ UNCHANGED <<dir, maker, lock, flags, had>>

Tidy(t) ==
  /\ Return(t, "tidy", "served")
  /\ Set("old", "none")
  /\ UNCHANGED <<maker, flags, had, spoilt>>

\* A RemoveAll, MkdirAll or Stat fails: EnsureCachedDir returns the error, and
\* removes dest.tmp first when it comes from ReplaceDir.
RemoveFails(t) ==
  /\ "remove" \in Faults
  /\ \/ \E from \in {"clear", "make", "discard"} : Return(t, from, "failed")
     \/ /\ \E from \in {"purge", "probe", "wipe", "tidy"} : Goto(t, from, "discard")
        /\ UNCHANGED lock
  /\ UNCHANGED <<dir, maker, flags, had, spoilt>>
-----------------------------------------------------------------------------
(***************************************************************************)
(* The processes.                                                          *)
(***************************************************************************)
Quit(p, f) ==
  /\ pc' = [t \in Call |-> IF Of[t] = p THEN "idle" ELSE pc[t]]
  /\ lock' = [lock EXCEPT ![p] = Nobody]
  /\ flags' = [flags EXCEPT ![p] = f]
  /\ UNCHANGED <<dir, maker, had, spoilt>>

\* The command ends and another one starts, or the process is killed.
Exit(p, f) == (\A t \in Call : Of[t] = p => pc[t] \in Resting) /\ Quit(p, f)
Crash(p, f) ==
  /\ "crash" \in Faults
  /\ \E t \in Call : Of[t] = p /\ pc[t] \notin Resting
  /\ Quit(p, f)

Step(t) ==
  \/ Recheck(t) \/ ClearTemp(t) \/ MakeTemp(t)
  \/ Fetched(t) \/ FetchFails(t) \/ Discard(t)
  \/ PurgeOld(t) \/ Probe(t) \/ SetAside(t) \/ AsideFails(t) \/ Wipe(t)
  \/ InstallNew(t) \/ InstallFails(t) \/ Restore(t) \/ RestoreFails(t)
  \/ Tidy(t) \/ RemoveFails(t)

Next ==
  \/ \E t \in Call : Ask(t) \/ Acquire(t) \/ Step(t)
  \/ \E p \in Process, f \in Flag : Exit(p, f) \/ Crash(p, f)

Spec == Init /\ [][Next]_vars

\* Goroutines are scheduled, and a sync.Mutex starves no waiter.
Fairness == \A t \in Call : WF_vars(Step(t)) /\ SF_vars(Acquire(t))
FairSpec == Spec /\ Fairness
-----------------------------------------------------------------------------
(***************************************************************************)
(* Properties.                                                             *)
(***************************************************************************)
(***************************************************************************)
(* With one process, dest is never a truncated copy that a later call      *)
(* would take for a hit, whatever fails and wherever the process dies,     *)
(* unless a rename inside ReplaceDir failed and RemoveAll took over.       *)
(***************************************************************************)
Whole == dir["dest"] = "part" => spoilt

LeavesWithWhole ==
  \A t \in Call :
    pc[t] # "failed" /\ pc'[t] = "failed" /\ had[t] /\ ~spoilt' => dir'["dest"] = "whole"

(***************************************************************************)
(* A call that returns an error has not cost the cached directory: it is   *)
(* still there, or was restored from dest.old ("a previous dest is         *)
(* restored from dest+.old when possible").                                *)
(***************************************************************************)
FailureKeepsCache == [][LeavesWithWhole]_vars

TakenByRefetch ==
  dir["dest"] = "whole" /\ dir'["dest"] # "whole" =>
    \E t \in Call : pc[t] \in Swapping /\ NoCache(t) /\ ~DryRun(t)

(***************************************************************************)
(* A complete directory, which calls have returned to their callers, goes  *)
(* away only when an apply with --no-cache replaces it: no call that       *)
(* waited for the mutex and no plan ever does.                             *)
(***************************************************************************)
HitsStay == [][TakenByRefetch]_vars

(***************************************************************************)
(* Every call of EnsureCachedDir returns, or its process dies: no path     *)
(* through the errors keeps the mutex.                                     *)
(***************************************************************************)
CallsReturn == \A t \in Call : pc[t] \notin Resting ~> pc[t] \in Resting

(***************************************************************************)
(* "A failed or interrupted write cannot leave a truncated final path that *)
(* later readers treat as complete", said of every process.                *)
(***************************************************************************)
NeverTruncated == dir["dest"] # "part"
=============================================================================
