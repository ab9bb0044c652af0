-------------------------- MODULE SourceCacheProofs --------------------------
(***************************************************************************)
(* Proofs about SourceCache: with the calls of one process, and any number *)
(* of them, the cached directory is never truncated, never lost by a call  *)
(* that fails, and never taken away from its readers except by a refetch.  *)
(***************************************************************************)
EXTENDS SourceCache, TLAPS

\* The mutex of the key is shared by the calls of one process only.
OneProcess == \A p, q \in Process : p = q

(***************************************************************************)
(* The inductive invariant: what the holder of the mutex knows about the   *)
(* three directories at each point of EnsureCachedDir and ReplaceDir.      *)
(***************************************************************************)
Mutex == \A t \in Call : pc[t] \in Critical <=> lock[Of[t]] = t

\* dest.tmp is the holder's own, and complete once fetched.
OwnTemp(t) ==
  /\ pc[t] = "make" => dir["tmp"] = "none"
  /\ pc[t] = "fetch" => maker = t /\ dir["tmp"] = "part"
  /\ pc[t] \in {"purge", "probe", "aside", "wipe", "install"} => dir["tmp"] = "whole"

\* A holder that goes on to replace a directory was asked to.
Missed(t) ==
  /\ pc[t] \in {"clear", "make", "fetch", "purge", "probe"} /\ Cached => NoCache(t) /\ ~DryRun(t)
  /\ pc[t] \in {"aside", "wipe"} => NoCache(t) /\ ~DryRun(t)
  /\ pc[t] = "wipe" => spoilt

\* What the holder found is in dest or in dest.old.
Kept(t) ==
  /\ pc[t] \in {"check", "clear", "make", "fetch", "purge", "probe", "aside"} /\ had[t] =>
       dir["dest"] = "whole"
  /\ pc[t] \in {"probe", "aside"} => dir["old"] = "none"
  /\ pc[t] = "aside" => Cached
  /\ pc[t] \in {"install", "restore"} =>
       /\ dir["dest"] = "none"
       /\ had[t] /\ ~spoilt => dir["old"] = "whole"
  /\ pc[t] = "tidy" => dir["dest"] = "whole"
  /\ pc[t] = "discard" /\ had[t] /\ ~spoilt => dir["dest"] = "whole"

NoTruncation == ~spoilt => dir["dest"] # "part" /\ dir["old"] # "part"

Sound(t) == OwnTemp(t) /\ Missed(t) /\ Kept(t)

IInv == TypeOK /\ Mutex /\ NoTruncation /\ \A t \in Call : Sound(t)

\* The invariant holds before the first call.
LEMMA InitIInv == Init => IInv
  <1> SUFFICES ASSUME Init PROVE IInv
    OBVIOUS
  <1>1. TypeOK
    BY CallAssumption DEF Init, TypeOK, Slot, Dir, Resting, Critical, Swapping, Flag
  <1>2. Mutex
    BY CallAssumption DEF Init, Mutex, Critical, Swapping
  <1>3. NoTruncation
    BY DEF Init, NoTruncation, Slot
  <1>4. ASSUME NEW t \in Call PROVE Sound(t)
    <2>1. pc[t] = "idle"
      BY DEF Init
    <2> QED BY <2>1 DEF Sound, OwnTemp, Missed, Kept
  <1> QED BY <1>1, <1>2, <1>3, <1>4 DEF IInv

\* One process has one holder.
LEMMA OneHolder ==
  ASSUME OneProcess, IInv, NEW t \in Call, NEW u \in Call, pc[t] \in Critical, u # t
  PROVE  pc[u] \notin Critical
  BY CallAssumption DEF OneProcess, IInv, Mutex

\* A call outside the mutex has nothing to keep.
LEMMA OutsideSound ==
  ASSUME NEW u \in Call, pc'[u] \notin Critical
  PROVE  Sound(u)'
  BY DEF Sound, OwnTemp, Missed, Kept, Critical, Swapping

\* What a call may change while it holds the mutex: its place, the mutex when it
\* returns, and the directories.
Moves(t, from, to) ==
  /\ pc[t] = from
  /\ pc' = [pc EXCEPT ![t] = to]
  /\ lock' = IF to \in Critical THEN lock ELSE [lock EXCEPT ![Of[t]] = Nobody]

\* A call that moves inside the mutex, or leaves it, keeps it the only holder.
LEMMA MutexMoves ==
  ASSUME OneProcess, IInv, NEW t \in Call, NEW from \in Critical,
         NEW to \in Critical \cup {"served", "failed"}, Moves(t, from, to)
  PROVE  /\ pc' \in [Call -> Resting \cup {"wait"} \cup Critical]
         /\ lock' \in [Process -> Call \cup {Nobody}]
         /\ Mutex'
         /\ pc'[t] = to
         /\ \A u \in Call \ {t} : pc'[u] \notin Critical
  <1>1. /\ pc \in [Call -> Resting \cup {"wait"} \cup Critical]
        /\ lock \in [Process -> Call \cup {Nobody}]
        /\ Of \in [Call -> Process] /\ Nobody \notin Call
    BY CallAssumption DEF IInv, TypeOK
  <1>2. pc' \in [Call -> Resting \cup {"wait"} \cup Critical] /\ pc'[t] = to
    BY <1>1 DEF Moves, Resting
  <1>3. \A u \in Call \ {t} : pc'[u] = pc[u] /\ pc[u] \notin Critical
    BY <1>1, OneHolder DEF Moves
  <1>4. lock[Of[t]] = t /\ \A u \in Call : Of[u] = Of[t]
    BY <1>1 DEF Moves, IInv, Mutex, OneProcess
  <1>5. lock' \in [Process -> Call \cup {Nobody}]
    BY <1>1 DEF Moves
  <1>6. Mutex'
    <2>1. CASE to \in Critical
      BY <1>1, <1>2, <1>3, <1>4, <2>1 DEF Moves, Mutex
    <2>2. CASE to \notin Critical
      BY <1>1, <1>2, <1>3, <1>4, <2>2 DEF Moves, Mutex
    <2> QED BY <2>1, <2>2
  <1> QED BY <1>2, <1>3, <1>5, <1>6

\* The steps under the mutex, whatever else they do, are moves.
LEMMA StepMoves ==
  ASSUME OneProcess, IInv, NEW t \in Call, Step(t)
  PROVE  /\ \E from \in Critical, to \in Critical \cup {"served", "failed"} : Moves(t, from, to)
         /\ UNCHANGED <<flags, had>>
  <1>1. CASE Recheck(t)
    BY <1>1 DEF Recheck, Goto, Return, Moves, Critical, Swapping
  <1>2. CASE ClearTemp(t) \/ MakeTemp(t) \/ Fetched(t) \/ FetchFails(t) \/ Discard(t)
    BY <1>2 DEF ClearTemp, MakeTemp, Fetched, FetchFails, Discard, Goto, Return, Moves, Critical,
                Swapping
  <1>3. CASE PurgeOld(t) \/ Probe(t) \/ SetAside(t) \/ AsideFails(t) \/ Wipe(t)
    BY <1>3 DEF PurgeOld, Probe, SetAside, AsideFails, Wipe, Goto, Moves, Critical, Swapping
  <1>4. CASE InstallNew(t) \/ InstallFails(t) \/ Restore(t) \/ RestoreFails(t) \/ Tidy(t)
    BY <1>4 DEF InstallNew, InstallFails, Restore, RestoreFails, Tidy, Goto, Return, Moves,
                Critical, Swapping
  <1>5. CASE RemoveFails(t)
    BY <1>5 DEF RemoveFails, Goto, Return, Moves, Critical, Swapping
  <1> QED BY <1>1, <1>2, <1>3, <1>4, <1>5 DEF Step

\* Every step of a holder keeps what it knows of the directories.
LEMMA HolderSound ==
  ASSUME OneProcess, IInv, NEW t \in Call, Step(t)
  PROVE  /\ dir' \in [Slot -> Dir] /\ maker' \in Call \cup {Nobody} /\ spoilt' \in BOOLEAN
         /\ NoTruncation' /\ Sound(t)'
  <1> USE DEF IInv, TypeOK, Sound, OwnTemp, Missed, Kept, NoTruncation, Goto, Return, Set, Move,
              Cached, NoCache, DryRun, Slot, Dir, Resting
  <1>0. /\ dir \in [Slot -> Dir] /\ pc \in [Call -> Resting \cup {"wait"} \cup Critical]
        /\ maker \in Call \cup {Nobody} /\ spoilt \in BOOLEAN /\ had \in [Call -> BOOLEAN]
        /\ NoTruncation /\ Sound(t)
    OBVIOUS
  <1>1. CASE Recheck(t)
    BY <1>0, <1>1 DEF Recheck, Hit
  <1>2. CASE ClearTemp(t)
    BY <1>0, <1>2 DEF ClearTemp
  <1>3. CASE MakeTemp(t)
    BY <1>0, <1>3 DEF MakeTemp
  <1>4. CASE Fetched(t)
    BY <1>0, <1>4 DEF Fetched
  <1>5. CASE FetchFails(t)
    BY <1>0, <1>5 DEF FetchFails
  <1>6. CASE Discard(t)
    BY <1>0, <1>6 DEF Discard
  <1>7. CASE PurgeOld(t)
    BY <1>0, <1>7 DEF PurgeOld
  <1>8. CASE Probe(t)
    BY <1>0, <1>8 DEF Probe
  <1>9. CASE SetAside(t)
    BY <1>0, <1>9 DEF SetAside
  <1>10. CASE AsideFails(t)
    BY <1>0, <1>10 DEF AsideFails
  <1>11. CASE Wipe(t)
    BY <1>0, <1>11 DEF Wipe
  <1>12. CASE InstallNew(t)
    BY <1>0, <1>12 DEF InstallNew
  <1>13. CASE InstallFails(t)
    BY <1>0, <1>13 DEF InstallFails
  <1>14. CASE Restore(t)
    BY <1>0, <1>14 DEF Restore
  <1>15. CASE RestoreFails(t)
    BY <1>0, <1>15 DEF RestoreFails
  <1>16. CASE Tidy(t)
    BY <1>0, <1>16 DEF Tidy
  <1>17. CASE RemoveFails(t)
    BY <1>0, <1>17 DEF RemoveFails
  <1> QED
    BY <1>1, <1>2, <1>3, <1>4, <1>5, <1>6, <1>7, <1>8, <1>9, <1>10, <1>11, <1>12, <1>13, <1>14,
       <1>15, <1>16, <1>17 DEF Step

\* The invariant survives every step of a holder.
LEMMA StepIInv ==
  ASSUME OneProcess, IInv, NEW t \in Call, Step(t)
  PROVE  IInv'
  <1>1. PICK from \in Critical, to \in Critical \cup {"served", "failed"} : Moves(t, from, to)
    BY StepMoves
  <1>2. /\ pc' \in [Call -> Resting \cup {"wait"} \cup Critical]
        /\ lock' \in [Process -> Call \cup {Nobody}]
        /\ Mutex'
        /\ \A u \in Call \ {t} : pc'[u] \notin Critical
    BY <1>1, MutexMoves
  <1>3. flags' \in [Process -> Flag] /\ had' \in [Call -> BOOLEAN]
    BY StepMoves DEF IInv, TypeOK
  <1>4. TypeOK'
    BY <1>2, <1>3, HolderSound DEF TypeOK
  <1>5. \A u \in Call : Sound(u)'
    BY <1>2, HolderSound, OutsideSound
  <1> QED BY <1>2, <1>4, <1>5, HolderSound DEF IInv

\* A call that arrives waits or is served, and disturbs nobody.
LEMMA AskIInv ==
  ASSUME IInv, NEW t \in Call, Ask(t)
  PROVE  IInv'
  <1>1. /\ TypeOK' /\ NoTruncation'
        /\ pc[t] \notin Critical /\ pc'[t] \notin Critical
        /\ \A u \in Call \ {t} : pc'[u] = pc[u]
        /\ UNCHANGED <<dir, maker, lock, flags, had, spoilt>>
    BY DEF IInv, TypeOK, NoTruncation, Ask, Resting, Critical, Swapping
  <1>2. Mutex'
    BY <1>1 DEF IInv, Mutex
  <1>3. ASSUME NEW u \in Call PROVE Sound(u)'
    <2>1. CASE u = t
      BY <1>1, <2>1, OutsideSound
    <2>2. CASE u # t
      BY <1>1, <2>2 DEF IInv, Sound, OwnTemp, Missed, Kept, Cached, NoCache, DryRun
    <2> QED BY <2>1, <2>2
  <1> QED BY <1>1, <1>2, <1>3 DEF IInv

\* The mutex goes to a call when no other one of the process holds it.
LEMMA AcquireIInv ==
  ASSUME OneProcess, IInv, NEW t \in Call, Acquire(t)
  PROVE  IInv'
  <1>1. /\ TypeOK' /\ NoTruncation'
        /\ pc'[t] = "check" /\ had'[t] = (dir["dest"] = "whole")
        /\ pc[t] = "wait" /\ lock[Of[t]] = Nobody
        /\ lock' = [lock EXCEPT ![Of[t]] = t]
        /\ \A u \in Call \ {t} : pc'[u] = pc[u]
        /\ UNCHANGED <<dir, maker, flags, spoilt>>
    BY CallAssumption
    DEF IInv, TypeOK, NoTruncation, Acquire, Goto, Resting, Critical, Swapping
  <1>2. \A u \in Call : Of[u] = Of[t] /\ lock'[Of[u]] = t
    BY <1>1, CallAssumption DEF OneProcess, IInv, TypeOK
  <1>3. \A u \in Call : pc[u] \notin Critical
    BY <1>1, <1>2, CallAssumption DEF IInv, Mutex
  <1>4. Mutex'
    BY <1>1, <1>2, <1>3 DEF Mutex, Critical
  <1>5. ASSUME NEW u \in Call PROVE Sound(u)'
    <2>1. CASE u = t
      BY <1>1, <2>1 DEF Sound, OwnTemp, Missed, Kept
    <2>2. CASE u # t
      BY <1>1, <1>3, <2>2, OutsideSound
    <2> QED BY <2>1, <2>2
  <1> QED BY <1>1, <1>4, <1>5 DEF IInv

\* A process that ends or dies leaves the directories as they are and no holder.
LEMMA QuitIInv ==
  ASSUME OneProcess, IInv, NEW p \in Process, NEW f \in Flag, Quit(p, f)
  PROVE  IInv'
  <1>1. TypeOK' /\ NoTruncation' /\ lock'[p] = Nobody
    BY DEF IInv, TypeOK, NoTruncation, Quit, Resting
  <1>2. \A u \in Call : Of[u] = p /\ pc'[u] = "idle"
    BY CallAssumption DEF OneProcess, Quit
  <1>3. \A u \in Call : pc'[u] \notin Critical
    BY <1>2 DEF Critical, Swapping
  <1>4. Mutex'
    BY <1>1, <1>2, <1>3, CallAssumption DEF Mutex
  <1> QED BY <1>1, <1>3, <1>4, OutsideSound DEF IInv

\* A step that changes nothing keeps the invariant.
LEMMA StutterIInv == IInv /\ UNCHANGED vars => IInv'
  BY DEF IInv, vars, TypeOK, Mutex, NoTruncation, Sound, OwnTemp, Missed, Kept, Cached, NoCache, DryRun

\* Every step keeps the invariant.
LEMMA NextIInv == ASSUME OneProcess PROVE IInv /\ [Next]_vars => IInv'
  BY StepIInv, AskIInv, AcquireIInv, QuitIInv, StutterIInv DEF Next, Exit, Crash
-----------------------------------------------------------------------------
(***************************************************************************)
(* In a single process the holder of the mutex always finds the            *)
(* directories as it left them, and every state is well typed.             *)
(***************************************************************************)
THEOREM CacheInductive == ASSUME OneProcess PROVE Spec => []IInv
  BY InitIInv, NextIInv, PTL DEF Spec

(***************************************************************************)
(* The cached directory is missing or complete in every reachable state,   *)
(* crashes and failed fetches included, until a rename of it fails.        *)
(***************************************************************************)
THEOREM CacheWhole == ASSUME OneProcess PROVE Spec => []Whole
  <1>1. IInv => Whole
    BY DEF IInv, NoTruncation, TypeOK, Whole
  <1> QED BY <1>1, CacheInductive, PTL

(***************************************************************************)
(* A call of EnsureCachedDir that returns an error leaves the directory it *)
(* found.                                                                  *)
(***************************************************************************)
THEOREM ErrorsKeepCache == ASSUME OneProcess PROVE Spec => FailureKeepsCache
  <1>1. IInv /\ [Next]_vars => LeavesWithWhole
    <2> SUFFICES ASSUME IInv, [Next]_vars, NEW t \in Call, pc[t] # "failed", pc'[t] = "failed",
                        had[t], ~spoilt'
                 PROVE  dir'["dest"] = "whole"
      BY DEF LeavesWithWhole
    <2>1. TypeOK /\ Sound(t)
      BY DEF IInv
    <2>2. Step(t)
      <3>1. ASSUME NEW u \in Call, Ask(u) \/ Acquire(u) PROVE FALSE
        BY <2>1, <3>1 DEF TypeOK, Ask, Acquire, Goto
      <3>2. ASSUME NEW p \in Process, NEW f \in Flag, Quit(p, f) PROVE FALSE
        BY <2>1, <3>2 DEF TypeOK, Quit
      <3>3. ASSUME NEW u \in Call, Step(u), u # t PROVE FALSE
        <4>1. PICK from \in Critical, to \in Critical \cup {"served", "failed"} : Moves(u, from, to)
          BY <3>3, StepMoves
        <4> QED BY <2>1, <3>3, <4>1 DEF Moves, TypeOK
      <3> QED BY <3>1, <3>2, <3>3 DEF Next, Exit, Crash, vars
    <2>3. Discard(t) \/ RemoveFails(t)
      BY <2>1, <2>2
      DEF TypeOK, Step, Recheck, ClearTemp, MakeTemp, Fetched, FetchFails, PurgeOld, Probe,
          SetAside, AsideFails, Wipe, InstallNew, InstallFails, Restore, RestoreFails, Tidy,
          Goto, Return
    <2> QED BY <2>1, <2>3 DEF TypeOK, Slot, Sound, Kept, Discard, RemoveFails, Goto, Return, Set
  <1> QED BY <1>1, CacheInductive, PTL DEF Spec, FailureKeepsCache

(***************************************************************************)
(* A directory that was handed out is replaced only by an apply with       *)
(* --no-cache, never by a waiting call or by a plan.                       *)
(***************************************************************************)
THEOREM HandedOutStays == ASSUME OneProcess PROVE Spec => HitsStay
  <1>1. IInv /\ [Next]_vars => TakenByRefetch
    <2> SUFFICES ASSUME IInv, [Next]_vars, dir["dest"] = "whole", dir'["dest"] # "whole"
                 PROVE  \E t \in Call : pc[t] \in Swapping /\ NoCache(t) /\ ~DryRun(t)
      BY DEF TakenByRefetch
    <2>1. PICK t \in Call : Step(t)
      BY DEF Next, Exit, Crash, Quit, Ask, Acquire, vars
    <2>2. TypeOK /\ Sound(t)
      BY DEF IInv
    <2>3. SetAside(t) \/ Wipe(t)
      BY <2>1, <2>2
      DEF TypeOK, Slot, Cached, Step, Recheck, ClearTemp, MakeTemp, Fetched, FetchFails, Discard,
          PurgeOld, Probe, AsideFails, InstallNew, InstallFails, Restore, RestoreFails, Tidy,
          RemoveFails, Set, Move
    <2>4. pc[t] \in {"aside", "wipe"}
      BY <2>3 DEF SetAside, Wipe, Goto
    <2> QED BY <2>2, <2>4 DEF Sound, Missed, Swapping
  <1> QED BY <1>1, CacheInductive, PTL DEF Spec, HitsStay
=============================================================================
