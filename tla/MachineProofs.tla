---------------------------- MODULE MachineProofs ----------------------------
(***************************************************************************)
(* What holds on machines, for any values of the constants: for each part  *)
(* an inductive invariant, that it holds at first, that every step keeps   *)
(* it, and that it implies what the part promises.  PartsProofs states the *)
(* theorems.                                                               *)
(***************************************************************************)
EXTENDS Machines, WellFoundedInduction, FiniteSetTheorems, TLAPS

(* The queue of commands that wait for an operator. *)

(***************************************************************************)
(* Waits alone is not inductive: Remove takes away whatever has the slug.  *)
(* What an approval hands from step to step is what may have the slug: the *)
(* command it read, if it has not run yet, one that ran, or one that came  *)
(* while it was at work.                                                   *)
(***************************************************************************)
QueueTyped ==
  /\ qLast \in Nat
  /\ qQueue \in [QSlugs -> Nat]
  /\ qPc \in [QOperators -> {"idle", "run", "remove"}]
  /\ qSlug \in [QOperators -> QSlugs]
  /\ qCmd \in [QOperators -> Nat]

QueueAtWork ==
  \A o \in QOperators :
    LET c == qQueue[qSlug[o]] IN
    /\ qPc[o] = "run" => c \in {0, qCmd[o]} \cup qHidden
    /\ qPc[o] = "remove" => c \in {0} \cup qTried \cup qHidden

QueueInv == QueueTyped /\ QueueAtWork /\ Asking!Waits

\* Nothing was enqueued yet.
LEMMA QueueInit == QSlugs # {} /\ Asking!Init => QueueInv
  <1> SUFFICES ASSUME QSlugs # {}, Asking!Init PROVE QueueInv
    OBVIOUS
  <1>1. QueueTyped
    BY DEF Asking!Init, QueueTyped
  <1>2. QueueAtWork /\ Asking!Waits
    BY <1>1 DEF Asking!Init, QueueTyped, QueueAtWork, Asking!Waits
  <1> QED BY <1>1, <1>2 DEF QueueInv

\* A command in the queue is there still, or in one of the books.
LEMMA QueueNext == QueueInv /\ [Asking!Next]_sudoVars => QueueInv'
  <1> SUFFICES ASSUME QueueInv, [Asking!Next]_sudoVars PROVE QueueInv'
    OBVIOUS
  <1> USE DEF QueueInv, QueueTyped
  <1>1. ASSUME NEW s \in QSlugs, Asking!Enqueue(s) PROVE QueueInv'
    <2>1. QueueTyped'
      BY <1>1 DEF Asking!Enqueue
    <2>2. QueueAtWork'
      BY <1>1 DEF Asking!Enqueue, QueueAtWork
    <2>3. Asking!Waits'
      <3> SUFFICES ASSUME NEW c \in 1..qLast'
                   PROVE  c \in {qQueue'[t] : t \in QSlugs} \cup qTried' \cup qRejected'
                                \cup qReplaced' \cup qHidden'
        BY DEF Asking!Waits
      <3>1. CASE c = qLast + 1
        BY <1>1, <3>1 DEF Asking!Enqueue
      <3>2. CASE c \in 1..qLast
        <4>1. ASSUME NEW t \in QSlugs, c = qQueue[t]
              PROVE  c = qQueue'[t] \/ c \in qReplaced'
          BY <1>1, <3>2, <4>1 DEF Asking!Enqueue
        <4> QED BY <1>1, <3>2, <4>1 DEF Asking!Waits, Asking!Enqueue
      <3> QED BY <1>1, <3>1, <3>2 DEF Asking!Enqueue
    <2> QED BY <2>1, <2>2, <2>3
  <1>2. ASSUME NEW s \in QSlugs, Asking!Reject(s) PROVE QueueInv'
    <2>1. QueueTyped'
      BY <1>2 DEF Asking!Reject
    <2>2. QueueAtWork'
      BY <1>2 DEF Asking!Reject, QueueAtWork
    <2>3. Asking!Waits'
      <3>1. ASSUME NEW c \in 1..qLast, NEW t \in QSlugs, c = qQueue[t]
            PROVE  c = qQueue'[t] \/ c \in qRejected'
        BY <1>2, <3>1 DEF Asking!Reject
      <3> QED BY <1>2, <3>1 DEF Asking!Waits, Asking!Reject
    <2> QED BY <2>1, <2>2, <2>3
  <1>3. ASSUME NEW s \in QSlugs, NEW o \in QOperators, Asking!Approve(o, s) PROVE QueueInv'
    <2>1. QueueTyped'
      BY <1>3 DEF Asking!Approve, Asking!AtApproval
    <2>2. QueueAtWork'
      BY <1>3 DEF Asking!Approve, Asking!AtApproval, QueueAtWork
    <2>3. Asking!Waits'
      BY <1>3 DEF Asking!Approve, Asking!AtApproval, Asking!Waits
    <2> QED BY <2>1, <2>2, <2>3
  <1>4. ASSUME NEW o \in QOperators, Asking!RunCommand(o) PROVE QueueInv'
    <2>1. QueueTyped'
      BY <1>4 DEF Asking!RunCommand
    <2>2. QueueAtWork'
      BY <1>4 DEF Asking!RunCommand, QueueAtWork
    <2>3. Asking!Waits'
      BY <1>4 DEF Asking!RunCommand, Asking!Waits
    <2> QED BY <2>1, <2>2, <2>3
  <1>5. ASSUME NEW o \in QOperators, Asking!Remove(o) PROVE QueueInv'
    <2>1. QueueTyped'
      BY <1>5 DEF Asking!Remove
    <2>2. QueueAtWork'
      BY <1>5 DEF Asking!Remove, QueueAtWork
    <2>3. Asking!Waits'
      <3>1. ASSUME NEW c \in 1..qLast, NEW t \in QSlugs, c = qQueue[t]
            PROVE  c = qQueue'[t] \/ c \in qTried' \cup qHidden'
        BY <1>5, <3>1 DEF Asking!Remove, QueueAtWork
      <3> QED BY <1>5, <3>1 DEF Asking!Waits, Asking!Remove
    <2> QED BY <2>1, <2>2, <2>3
  <1>6. ASSUME NEW o \in QOperators, Asking!Kill(o) PROVE QueueInv'
    <2>1. QueueTyped'
      BY <1>6 DEF Asking!Kill
    <2>2. QueueAtWork' /\ Asking!Waits'
      BY <1>6 DEF Asking!Kill, QueueAtWork, Asking!Waits
    <2> QED BY <2>1, <2>2
  <1>7. CASE UNCHANGED sudoVars
    BY <1>7 DEF sudoVars, QueueAtWork, Asking!Waits
  <1> QED BY <1>1, <1>2, <1>3, <1>4, <1>5, <1>6, <1>7 DEF Asking!Next

LEMMA QueueWaits == QueueInv => Asking!Waits
  BY DEF QueueInv

--------------------------------------------------------------------------------
(* Deploys. *)

(***************************************************************************)
(* Deployed speaks of tasks that ended; what leads there is that the node  *)
(* of a task nobody disturbed is the one it looked at, until the switch,   *)
(* and that a task asked for nothing switches only to the same nixpkgs.    *)
(***************************************************************************)
Machine == [run : Nat, boot : Nat]
DeployTyped ==
  /\ pRev \in Nat
  /\ pNodes \in [Deploying!Nodes -> Machine]
  /\ pTop \in [PTasks -> Nat]
  /\ pFound \in [PTasks -> Machine]
  /\ DOMAIN pPc = PTasks /\ DOMAIN pAction = PTasks
  /\ pQuiet \subseteq PTasks

Undisturbed(t) ==
  /\ pPc[t] \in {"look", "switch", "done", "failed"}
  /\ pPc[t] \in {"look", "switch"} => pNodes[PNodeOf[t]] = pFound[t]
Taken(t) ==
  /\ pAsked[t] # "auto" => pAction[t] = pAsked[t]
  /\ pAsked[t] = "auto" =>
       \/ pAction[t] = "boot"
       \/ pAction[t] = "switch" /\ PNixpkgsOf[pTop[t]] = PNixpkgsOf[pFound[t].run]
Given(t) == pPc[t] \in {"build", "copy", "choose"} => pAction[t] = pAsked[t]

Ends(t) ==
  pPc[t] = "done" =>
    LET node == pNodes[PNodeOf[t]] IN
    /\ pAsked[t] \in {"switch", "test"} => node.run = pTop[t]
    /\ pAsked[t] = "boot" => node.run = pFound[t].run
    /\ pAsked[t] = "auto" => PNixpkgsOf[node.run] = PNixpkgsOf[pFound[t].run]
    /\ pAsked[t] = "test" => node.boot = pFound[t].boot
    /\ pAsked[t] # "test" =>
         node.boot = pTop[t] \/ (pFound[t].run = pTop[t] /\ node.boot = pFound[t].boot)
InHand(t) == Given(t) /\ (t \in pQuiet => Undisturbed(t) /\ Taken(t) /\ Ends(t))
DeployInv == DeployTyped /\ \A t \in PTasks : InHand(t)

LEMMA DeployInit == Deploying!Init => DeployInv
  <1> SUFFICES ASSUME Deploying!Init PROVE DeployInv
    OBVIOUS
  <1>2. pRev \in Nat /\ 1..pRev \subseteq Nat
    BY DEF Deploying!Init
  <1>3. pNodes \in [Deploying!Nodes -> Machine]
    BY <1>2 DEF Deploying!Init, Machine
  <1>4. pFound \in [PTasks -> Machine]
    BY <1>3 DEF Deploying!Init, Deploying!Nodes
  <1>5. DeployTyped
    BY <1>2, <1>3, <1>4 DEF Deploying!Init, DeployTyped
  <1>6. \A t \in PTasks : Given(t) /\ t \notin pQuiet
    BY DEF Deploying!Init, Given
  <1> QED BY <1>5, <1>6 DEF DeployInv, InHand

\* A task that a step leaves alone keeps its promise if its node is as it was, or it is disturbed.
LEMMA DeployKept ==
  ASSUME NEW t \in PTasks, InHand(t), pAsked' = pAsked,
         pPc'[t] = pPc[t], pTop'[t] = pTop[t], pAction'[t] = pAction[t], pFound'[t] = pFound[t],
         t \in pQuiet' => t \in pQuiet /\ pNodes'[PNodeOf[t]] = pNodes[PNodeOf[t]]
  PROVE  InHand(t)'
  BY DEF InHand, Given, Undisturbed, Taken, Ends

\* The steps of a task change nothing of another, and at most one node.
LEMMA DeployStepOf ==
  ASSUME DeployInv, NEW t \in PTasks,
         \/ Deploying!GetFlakeOutput(t) \/ Deploying!CopyClosure(t) \/ Deploying!Choose(t)
         \/ Deploying!Look(t) \/ Deploying!Switch(t) \/ Deploying!Fail(t)
  PROVE  /\ DeployTyped'
         /\ \A u \in PTasks \ {t} : InHand(u)'
  <1> USE DEF DeployInv, DeployTyped, Deploying!Goto
  <1>n. PNodeOf[t] \in Deploying!Nodes /\ pNodes[PNodeOf[t]] \in Machine
    BY DEF Deploying!Nodes
  <1>1. DeployTyped'
    <2>1. CASE Deploying!GetFlakeOutput(t)
      BY <2>1 DEF Deploying!GetFlakeOutput
    <2>2. CASE Deploying!CopyClosure(t)
      BY <2>2 DEF Deploying!CopyClosure
    <2>3. CASE Deploying!Choose(t)
      BY <1>n, <2>3 DEF Deploying!Choose
    <2>4. CASE Deploying!Look(t)
      BY <2>4 DEF Deploying!Look
    <2>5. CASE Deploying!Switch(t)
      <3>1. Deploying!After(pNodes[PNodeOf[t]], pTop[t], pAction[t]) \in Machine
        BY <1>n DEF Deploying!After, Machine
      <3> QED BY <1>n, <2>5, <3>1 DEF Deploying!Switch
    <2>6. CASE Deploying!Fail(t)
      BY <2>6 DEF Deploying!Fail
    <2> QED BY <2>1, <2>2, <2>3, <2>4, <2>5, <2>6
  <1>2. ASSUME NEW u \in PTasks \ {t} PROVE InHand(u)'
    <2>1. /\ pAsked' = pAsked /\ pPc'[u] = pPc[u] /\ pTop'[u] = pTop[u]
          /\ pAction'[u] = pAction[u] /\ pFound'[u] = pFound[u]
      BY DEF Deploying!GetFlakeOutput, Deploying!CopyClosure, Deploying!Choose, Deploying!Look,
             Deploying!Switch, Deploying!Fail
    <2>2. u \in pQuiet' => u \in pQuiet /\ pNodes'[PNodeOf[u]] = pNodes[PNodeOf[u]]
      <3>1. CASE Deploying!Switch(t)
        BY <1>n, <3>1 DEF Deploying!Switch, Deploying!Nodes
      <3> QED BY <3>1 DEF Deploying!GetFlakeOutput, Deploying!CopyClosure, Deploying!Choose,
                          Deploying!Look, Deploying!Fail
    <2> QED BY <2>1, <2>2, DeployKept
  <1> QED BY <1>1, <1>2

LEMMA DeployNext == DeployInv /\ [Deploying!Next]_deployVars => DeployInv'
  <1> SUFFICES ASSUME DeployInv, [Deploying!Next]_deployVars PROVE DeployInv'
    OBVIOUS
  <1>0. Deploying!Next \/ UNCHANGED deployVars
    OBVIOUS
  <1>s. ASSUME NEW t \in PTasks,
               \/ Deploying!GetFlakeOutput(t) \/ Deploying!CopyClosure(t) \/ Deploying!Choose(t)
               \/ Deploying!Look(t) \/ Deploying!Switch(t) \/ Deploying!Fail(t)
        PROVE  DeployInv'
    <2>1. DeployTyped' /\ \A u \in PTasks \ {t} : InHand(u)'
      BY <1>s, DeployStepOf
    <2>2. InHand(t)'
      <3> USE DEF DeployInv, DeployTyped, InHand, Deploying!Goto
      <3>1. CASE Deploying!GetFlakeOutput(t)
        BY <3>1 DEF Deploying!GetFlakeOutput, Given, Undisturbed
      <3>2. CASE Deploying!CopyClosure(t)
        BY <3>2 DEF Deploying!CopyClosure, Given, Undisturbed
      <3>3. CASE Deploying!Choose(t)
        BY <3>3 DEF Deploying!Choose, Deploying!SameNixpkgs, Given, Undisturbed, Taken, Ends
      <3>4. CASE Deploying!Look(t)
        BY <3>4 DEF Deploying!Look, Deploying!RunsIt, Given, Undisturbed, Taken, Ends
      <3>5. CASE Deploying!Switch(t)
        <4>1. PNodeOf[t] \in Deploying!Nodes /\ pNodes[PNodeOf[t]] \in Machine
          BY DEF Deploying!Nodes
        <4>2. pNodes'[PNodeOf[t]] = Deploying!After(pNodes[PNodeOf[t]], pTop[t], pAction[t])
          BY <3>5, <4>1 DEF Deploying!Switch
        <4>3. /\ pNodes'[PNodeOf[t]].run = IF pAction[t] = "boot" THEN pNodes[PNodeOf[t]].run ELSE pTop[t]
              /\ pNodes'[PNodeOf[t]].boot = IF pAction[t] = "test" THEN pNodes[PNodeOf[t]].boot ELSE pTop[t]
          BY <4>1, <4>2 DEF Deploying!After, Machine
        <4> QED BY <3>5, <4>3 DEF Deploying!Switch, Given, Undisturbed, Taken, Ends
      <3>6. CASE Deploying!Fail(t)
        BY <3>6 DEF Deploying!Fail, Given, Undisturbed, Taken, Ends
      <3> QED BY <1>s, <3>1, <3>2, <3>3, <3>4, <3>5, <3>6
    <2> QED BY <2>1, <2>2 DEF DeployInv
  <1>c. CASE Deploying!Commit
    <2>1. DeployTyped'
      BY <1>c DEF Deploying!Commit, DeployInv, DeployTyped
    <2>2. \A t \in PTasks : InHand(t)'
      BY <1>c, DeployKept DEF Deploying!Commit, DeployInv
    <2> QED BY <2>1, <2>2 DEF DeployInv
  <1>r. ASSUME NEW n \in Deploying!Nodes, Deploying!Restart(n) PROVE DeployInv'
    <2>1. DeployTyped'
      BY <1>r DEF Deploying!Restart, DeployInv, DeployTyped, Machine
    <2>2. \A t \in PTasks : InHand(t)'
      BY <1>r, DeployKept DEF Deploying!Restart, DeployInv, DeployTyped, Deploying!Nodes
    <2> QED BY <2>1, <2>2 DEF DeployInv
  <1>u. CASE UNCHANGED deployVars
    <2>1. DeployTyped'
      BY <1>u DEF deployVars, DeployInv, DeployTyped
    <2>2. \A t \in PTasks : InHand(t)'
      BY <1>u, DeployKept DEF deployVars, DeployInv
    <2> QED BY <2>1, <2>2 DEF DeployInv
  <1> QED BY <1>0, <1>s, <1>c, <1>r, <1>u DEF Deploying!Next

LEMMA DeploysWell == DeployInv => Deploying!Deployed
  BY DEF DeployInv, InHand, Ends, Deploying!Deployed

--------------------------------------------------------------------------------
(* The repositories of a backup. *)

\* A set of numbers has a smallest one: induction over the length of a line of commits.
LEMMA LeastOf ==
  ASSUME NEW T \in SUBSET Nat, T # {}
  PROVE  \E n \in T : \A m \in T : n <= m
  <1> DEFINE R == {p \in Nat \X Nat : p[1] < p[2]}
  <1>1. IsWellFoundedOn(R, Nat)
    BY NatLessThanWellFounded DEF OpToRel
  <1>2. PICK n \in T : \A m \in T : ~(<<m, n>> \in R)
    <2> HIDE DEF R
    <2> QED BY <1>1, WFMin
  <1>3. ASSUME NEW m \in T PROVE n <= m
    <2>1. <<m, n>> \in Nat \X Nat
      OBVIOUS
    <2>2. ~(m < n)
      BY <1>2, <2>1
    <2> QED BY <2>2
  <1> QED BY <1>3

\* A line of commits is a sequence; its commits are its range.
IsLine(cs) == cs \in Seq(Syncing!Range(cs))

LEMMA LineOf ==
  ASSUME NEW S, NEW cs \in Seq(S)
  PROVE  IsLine(cs) /\ Syncing!Range(cs) \subseteq S
  BY DEF IsLine, Syncing!Range

LEMMA AppendLine ==
  ASSUME NEW cs, IsLine(cs), NEW c
  PROVE  IsLine(Append(cs, c)) /\ Syncing!Range(Append(cs, c)) = Syncing!Range(cs) \cup {c}
  <1> DEFINE S == Syncing!Range(cs) \cup {c}
  <1>1. cs \in Seq(S)
    BY DEF IsLine
  <1>2. Append(cs, c) \in Seq(S)
    BY <1>1
  <1>3. Len(cs) \in Nat /\ DOMAIN cs = 1..Len(cs) /\ DOMAIN Append(cs, c) = 1..Len(cs) + 1
    BY <1>1
  <1>4. /\ \A n \in 1..Len(cs) : Append(cs, c)[n] = cs[n]
        /\ Append(cs, c)[Len(cs) + 1] = c
    BY <1>1
  <1>5. S \subseteq Syncing!Range(Append(cs, c))
    BY <1>3, <1>4 DEF Syncing!Range
  <1> HIDE DEF S
  <1>6. IsLine(Append(cs, c)) /\ Syncing!Range(Append(cs, c)) \subseteq S
    BY <1>2, LineOf
  <1> QED BY <1>5, <1>6 DEF S

LEMMA PrefixLine ==
  ASSUME NEW r, IsLine(r), NEW cs, IsLine(cs), Syncing!IsPrefix(r, cs)
  PROVE  Syncing!Range(r) \subseteq Syncing!Range(cs)
  <1>1. r \in Seq(Syncing!Range(r)) /\ cs \in Seq(Syncing!Range(cs))
    BY DEF IsLine
  <1>2. /\ Len(r) \in Nat /\ Len(cs) \in Nat /\ Len(r) <= Len(cs)
        /\ DOMAIN r = 1..Len(r) /\ DOMAIN cs = 1..Len(cs)
        /\ SubSeq(r, 1, Len(r)) = SubSeq(cs, 1, Len(r))
    BY <1>1 DEF Syncing!IsPrefix
  <1>3. ASSUME NEW n \in 1..Len(r) PROVE r[n] = cs[n]
    <2>1. SubSeq(r, 1, Len(r))[n] = r[n]
      BY <1>1, <1>2
    <2>2. SubSeq(cs, 1, Len(r))[n] = cs[n]
      BY <1>1, <1>2
    <2> QED BY <1>2, <2>1, <2>2
  <1> QED BY <1>2, <1>3 DEF Syncing!Range

(***************************************************************************)
(* What is replayed on the commits of the remote: they and those that are  *)
(* new.  The function that replays one commit after the other exists, for  *)
(* the smallest length without one would have one; and what it returns     *)
(* holds for every length, as it holds at the smallest where it fails.     *)
(***************************************************************************)
LEMMA ReplayedLine ==
  ASSUME IsLine(gRemote), NEW cs, IsLine(cs)
  PROVE  /\ IsLine(Syncing!OnTop(cs))
         /\ Syncing!Range(Syncing!OnTop(cs)) = Syncing!Range(gRemote) \cup Syncing!Range(cs)
  <1> DEFINE Next(f, n) == IF n = 0 THEN gRemote
                           ELSE IF cs[n] \in Syncing!Range(gRemote) THEN f[n - 1]
                           ELSE Append(f[n - 1], cs[n])
             Replays(f, n) == f = [i \in 0..n |-> Next(f, i)]
             Missing == {n \in 0..Len(cs) : ~ \E f : Replays(f, n)}
  <1>l. Len(cs) \in Nat /\ DOMAIN cs = 1..Len(cs)
    BY DEF IsLine
  <1>1. Missing = {}
    <2> SUFFICES ASSUME Missing # {} PROVE FALSE
      OBVIOUS
    <2>1. Missing \in SUBSET Nat
      BY <1>l
    <2>2. PICK n \in Missing : \A m \in Missing : n <= m
      <3> HIDE DEF Missing
      <3> QED BY <2>1, LeastOf
    <2>3. n \in 0..Len(cs) /\ n \in Nat /\ ~ \E f : Replays(f, n)
      BY <2>1
    <2>4. CASE n = 0
      <3>1. Replays([i \in 0..0 |-> gRemote], 0)
        OBVIOUS
      <3> QED BY <2>3, <2>4, <3>1
    <2>5. CASE n # 0
      <3>0. n - 1 \in 0..Len(cs) /\ ~(n <= n - 1)
        BY <1>l, <2>3, <2>5
      <3>1. n - 1 \notin Missing
        <4> HIDE DEF Missing
        <4> QED BY <2>2, <3>0
      <3>2. PICK f : Replays(f, n - 1)
        <4> HIDE DEF Replays
        <4> QED BY <3>0, <3>1
      <3> DEFINE g == [i \in 0..n |-> IF i = n THEN Next(f, n) ELSE f[i]]
      <3>3. ASSUME NEW i \in 0..n PROVE g[i] = Next(g, i)
        <4>1. CASE i = n
          BY <2>3, <2>5, <4>1
        <4>2. CASE i # n
          <5>0. i \in 0..n - 1
            BY <2>3, <4>2
          <5>1. f[i] = Next(f, i)
            <6> HIDE DEF Next
            <6> QED BY <3>2, <5>0
          <5>2. i # 0 => i - 1 \in 0..n /\ i - 1 # n
            BY <2>3, <5>0
          <5> QED BY <4>2, <5>1, <5>2
        <4> QED BY <4>1, <4>2
      <3>4. Replays(g, n)
        <4>1. g = [i \in 0..n |-> g[i]]
          OBVIOUS
        <4> HIDE DEF g
        <4> QED BY <3>3, <4>1
      <3> QED BY <2>3, <3>4
    <2> QED BY <2>4, <2>5
  <1>2. \E f : Replays(f, Len(cs))
    <2> HIDE DEF Replays
    <2>1. Len(cs) \in 0..Len(cs)
      BY <1>l
    <2> QED BY <1>1, <2>1
  <1> DEFINE r == CHOOSE f : Replays(f, Len(cs))
  <1>3. r = [i \in 0..Len(cs) |-> Next(r, i)]
    <2>1. Replays(r, Len(cs))
      <3> HIDE DEF Replays
      <3> QED BY <1>2
    <2> HIDE DEF r, Next
    <2> QED BY <2>1
  <1>4. Syncing!OnTop(cs) = r[Len(cs)]
    BY DEF Syncing!OnTop
  <1> HIDE DEF r
  <1> DEFINE Right(n) == /\ IsLine(r[n])
                         /\ Syncing!Range(r[n]) = Syncing!Range(gRemote) \cup {cs[m] : m \in 1..n}
             Wrong == {n \in 0..Len(cs) : ~Right(n)}
  <1>5. Wrong = {}
    <2> SUFFICES ASSUME Wrong # {} PROVE FALSE
      OBVIOUS
    <2>1. Wrong \in SUBSET Nat
      BY <1>l
    <2>2. PICK n \in Wrong : \A m \in Wrong : n <= m
      <3> HIDE DEF Wrong
      <3> QED BY <2>1, LeastOf
    <2>3. n \in 0..Len(cs) /\ n \in Nat /\ ~Right(n)
      BY <2>1
    <2>4. CASE n = 0
      BY <1>3, <2>3, <2>4
    <2>5. CASE n # 0
      <3>1. n - 1 \in 0..Len(cs) /\ Right(n - 1)
        BY <1>l, <2>1, <2>2, <2>3, <2>5
      <3>2. r[n] = IF cs[n] \in Syncing!Range(gRemote) THEN r[n - 1] ELSE Append(r[n - 1], cs[n])
        BY <1>3, <2>3, <2>5
      <3>3. {cs[m] : m \in 1..n} = {cs[m] : m \in 1..n - 1} \cup {cs[n]}
        BY <2>3, <2>5
      <3>4. Right(n)
        BY <3>1, <3>2, <3>3, AppendLine
      <3> QED BY <2>3, <3>4
    <2> QED BY <2>4, <2>5
  <1>6. Right(Len(cs))
    BY <1>l, <1>5
  <1>7. Syncing!Range(cs) = {cs[m] : m \in 1..Len(cs)}
    BY <1>l DEF Syncing!Range
  <1> QED BY <1>4, <1>6, <1>7

SyncTyped ==
  /\ IsLine(gRemote)
  /\ DOMAIN gRepo = GHosts /\ DOMAIN gPc = GHosts /\ DOMAIN gSnap = GHosts
  /\ DOMAIN gMade = GHosts /\ DOMAIN gLate = GHosts
  /\ \A h \in GHosts : DOMAIN gRepo[h] = {"at", "commits", "tree"} /\ IsLine(gRepo[h].commits)

(***************************************************************************)
(* Of each host: what is no repository has nothing to lose, and a tree     *)
(* about to be wiped has only files that came after it was found empty;    *)
(* the files a sync saw are in the commits it will push, then in the       *)
(* remote; no commit takes away, and no branch lacks, a file that nobody   *)
(* deleted or an interrupted clone did not leave out.                      *)
(***************************************************************************)
Gone == gDeleted \cup gMissing
Harmless(cs) == \A c \in Syncing!Range(cs) : c.dels \subseteq Gone
WorkThere(h) ==
  LET r == gRepo[h] IN
  /\ r.at \in {"absent", "dir", "file"} => r.commits = <<>>
  /\ r.at = "absent" => r.tree = {}
  /\ gPc[h] = "wipe" => r.tree \subseteq gLate[h]
  /\ gMade[h] \subseteq r.tree \cup Syncing!Added(r.commits) \cup gDeleted \cup gWiped
WorkPushed(h) ==
  LET r == gRepo[h] IN
  /\ gPc[h] = "pull" => r.at = "branch"
  /\ gPc[h] \in {"ask", "pull", "push"} /\ r.at = "branch" => gSnap[h] \subseteq Syncing!Added(r.commits)
  /\ gPc[h] = "done" => gSnap[h] \subseteq Syncing!Added(gRemote)
FilesThere(h) ==
  LET r == gRepo[h] IN
  /\ Harmless(r.commits)
  /\ r.at = "branch" => Syncing!Tree(r.commits) \subseteq r.tree \cup Gone

Synced(h) == WorkThere(h) /\ WorkPushed(h) /\ FilesThere(h)
SyncInv == SyncTyped /\ Harmless(gRemote) /\ \A h \in GHosts : Synced(h)

LEMMA OnlyAddsLine ==
  ASSUME NEW cs, OnlyAdds(cs)
  PROVE  IsLine(cs) /\ Harmless(cs) /\ Syncing!Tree(cs) \subseteq Syncing!Added(cs)
  BY DEF OnlyAdds, IsSequence, IsLine, Harmless, Syncing!Range, Syncing!Tree, Syncing!Added

LEMMA SyncInit == Syncing!Init => SyncInv
  <1> SUFFICES ASSUME Syncing!Init PROVE SyncInv
    OBVIOUS
  <1>2. PICK i \in GRepositories : gRepo = i.repo /\ gRemote = i.remote
    BY DEF Syncing!Init
  <1>3. /\ OnlyAdds(gRemote) /\ DOMAIN gRepo = GHosts
        /\ \A h \in GHosts :
             /\ DOMAIN gRepo[h] = {"at", "commits", "tree"} /\ OnlyAdds(gRepo[h].commits)
             /\ gRepo[h].at \in {"absent", "dir", "file"} => gRepo[h].commits = <<>>
             /\ gRepo[h].at = "absent" => gRepo[h].tree = {}
             /\ gRepo[h].at = "branch" =>
                  \A n \in DOMAIN gRepo[h].commits : gRepo[h].commits[n].adds \subseteq gRepo[h].tree
    BY <1>2, RepositoriesAssumption
  <1>4. SyncTyped
    BY <1>3, OnlyAddsLine DEF Syncing!Init, SyncTyped
  <1>5. Harmless(gRemote)
    BY <1>3, OnlyAddsLine
  <1>6. ASSUME NEW h \in GHosts PROVE Synced(h)
    <2>1. /\ gPc[h] = "idle"
          /\ gMade[h] = gRepo[h].tree \cup Syncing!Added(gRepo[h].commits)
      BY DEF Syncing!Init
    <2>2. WorkThere(h)
      BY <1>3, <2>1 DEF WorkThere
    <2>3. WorkPushed(h)
      BY <2>1 DEF WorkPushed
    <2>4. gRepo[h].at = "branch" => Syncing!Added(gRepo[h].commits) \subseteq gRepo[h].tree
      BY <1>3 DEF Syncing!Added, Syncing!Range
    <2>5. FilesThere(h)
      BY <1>3, <2>4, OnlyAddsLine DEF FilesThere
    <2> QED BY <2>2, <2>3, <2>5 DEF Synced
  <1> QED BY <1>4, <1>5, <1>6 DEF SyncInv

\* What a step leaves alone on a host stays true of it, for the remote and the books only grow.
LEMMA SyncKept ==
  ASSUME NEW h \in GHosts, Synced(h), gRepo'[h] = gRepo[h], gPc'[h] = gPc[h],
         gSnap'[h] = gSnap[h], gMade'[h] = gMade[h], gLate'[h] = gLate[h],
         gDeleted \subseteq gDeleted', gWiped \subseteq gWiped', gMissing \subseteq gMissing',
         Syncing!Added(gRemote) \subseteq Syncing!Added(gRemote')
  PROVE  Synced(h)'
  <1>1. WorkThere(h)'
    BY DEF Synced, WorkThere
  <1>2. WorkPushed(h)'
    BY DEF Synced, WorkPushed
  <1>3. FilesThere(h)'
    BY DEF Synced, FilesThere, Harmless, Gone
  <1> QED BY <1>1, <1>2, <1>3 DEF Synced

\* A step of one host: the others stay, the books and the remote grow.
StepOf(h) ==
  /\ DOMAIN gRepo' = GHosts /\ DOMAIN gPc' = GHosts /\ DOMAIN gSnap' = GHosts
  /\ DOMAIN gMade' = GHosts /\ DOMAIN gLate' = GHosts
  /\ \A g \in GHosts \ {h} :
       /\ gRepo'[g] = gRepo[g] /\ gPc'[g] = gPc[g] /\ gSnap'[g] = gSnap[g]
       /\ gMade'[g] = gMade[g] /\ gLate'[g] = gLate[g]
  /\ gDeleted \subseteq gDeleted' /\ gWiped \subseteq gWiped' /\ gMissing \subseteq gMissing'

LEMMA SyncLocal ==
  ASSUME SyncInv, NEW h \in GHosts, StepOf(h), gRemote' = gRemote,
         DOMAIN gRepo'[h] = {"at", "commits", "tree"}, IsLine(gRepo'[h].commits), Synced(h)'
  PROVE  SyncInv'
  <1>1. SyncTyped'
    BY DEF StepOf, SyncInv, SyncTyped
  <1>2. Harmless(gRemote)'
    BY DEF StepOf, SyncInv, Harmless, Gone
  <1>3. ASSUME NEW g \in GHosts \ {h} PROVE Synced(g)'
    BY SyncKept DEF StepOf, SyncInv
  <1> QED BY <1>1, <1>2, <1>3 DEF SyncInv

\* Steps of a sync that only move on.
LEMMA SyncPlain ==
  ASSUME SyncInv, NEW h \in GHosts,
         \/ Syncing!Start(h) \/ Syncing!Fail(h) \/ Syncing!RemoteHasBranch(h)
  PROVE  SyncInv'
  <1> USE DEF Syncing!Quiet, Syncing!Keep, Syncing!Step
  <1>1. StepOf(h) /\ gRemote' = gRemote /\ gRepo' = gRepo /\ gSnap' = gSnap /\ gMade' = gMade
        /\ gDeleted' = gDeleted /\ gWiped' = gWiped /\ gMissing' = gMissing
    BY DEF SyncInv, SyncTyped, StepOf, Syncing!Start, Syncing!Fail, Syncing!RemoteHasBranch
  <1>2. /\ gPc'[h] \notin {"wipe", "done"}
        /\ gPc'[h] \in {"pull", "push"} => gPc[h] = "ask"
        /\ gPc'[h] = "pull" => gRepo[h].at = "branch"
        /\ gPc'[h] # "ask"
    BY DEF SyncInv, SyncTyped, Syncing!Start, Syncing!Fail, Syncing!RemoteHasBranch
  <1>3. DOMAIN gRepo'[h] = {"at", "commits", "tree"} /\ IsLine(gRepo'[h].commits)
    BY <1>1 DEF SyncInv, SyncTyped
  <1>4. Synced(h)'
    <2>1. Synced(h)
      BY DEF SyncInv
    <2>2. WorkThere(h)'
      BY <1>1, <1>2, <2>1 DEF Synced, WorkThere
    <2>3. WorkPushed(h)'
      BY <1>1, <1>2, <2>1 DEF Synced, WorkPushed
    <2>4. FilesThere(h)'
      BY <1>1, <2>1 DEF Synced, FilesThere, Harmless, Gone
    <2> QED BY <2>2, <2>3, <2>4 DEF Synced
  <1> QED BY <1>1, <1>3, <1>4, SyncLocal

\* Without a repository there is nothing, also after a wipe.
LEMMA NoLine == /\ IsLine(<<>>) /\ Syncing!Range(<<>>) = {} /\ Syncing!Added(<<>>) = {}
                /\ Syncing!Tree(<<>>) = {}
  <1>1. Syncing!Range(<<>>) = {}
    BY DEF Syncing!Range
  <1>2. <<>> \in Seq({})
    OBVIOUS
  <1> QED BY <1>1, <1>2 DEF IsLine, Syncing!Added, Syncing!Tree

LEMMA SyncLook ==
  ASSUME SyncInv, NEW h \in GHosts, Syncing!Look(h)
  PROVE  SyncInv'
  <1> USE DEF Syncing!Quiet, Syncing!Keep, Syncing!Step, Syncing!Put
  <1>0. Synced(h)
    BY DEF SyncInv
  <1>1. StepOf(h) /\ gRemote' = gRemote /\ gSnap' = gSnap /\ gMade' = gMade /\ gLate' = gLate
        /\ gDeleted' = gDeleted /\ gWiped' = gWiped /\ gMissing' = gMissing
    BY DEF SyncInv, SyncTyped, StepOf, Syncing!Look
  <1>2. CASE gRepo' = gRepo
    <2>1. /\ gPc'[h] \in {"wipe", "head", "failed", "clone"}
          /\ gPc'[h] = "wipe" => gRepo[h].tree = {}
      BY <1>2 DEF SyncInv, SyncTyped, Syncing!Look, Syncing!MustWipe, Syncing!OnlyDotGit
    <2>2. DOMAIN gRepo'[h] = {"at", "commits", "tree"} /\ IsLine(gRepo'[h].commits)
      BY <1>2 DEF SyncInv, SyncTyped
    <2>3. WorkThere(h)'
      BY <1>0, <1>1, <1>2, <2>1 DEF Synced, WorkThere
    <2>4. WorkPushed(h)'
      BY <2>1 DEF WorkPushed
    <2>5. FilesThere(h)'
      BY <1>0, <1>1, <1>2 DEF Synced, FilesThere, Harmless, Gone
    <2> QED BY <1>1, <2>2, <2>3, <2>4, <2>5, SyncLocal DEF Synced
  <1>3. CASE /\ Syncing!MustClone(gRepo[h]) /\ gPc'[h] = "clone"
             /\ gRepo'[h] = Syncing!Absent
    <2> USE DEF Syncing!Absent
    <2>1. gRepo[h].tree = {} /\ gRepo[h].commits = <<>>
      BY <1>0, <1>3 DEF Synced, WorkThere, Syncing!MustClone
    <2>2. DOMAIN gRepo'[h] = {"at", "commits", "tree"} /\ IsLine(gRepo'[h].commits)
      BY <1>3, NoLine
    <2>3. WorkThere(h)'
      BY <1>0, <1>1, <1>3, <2>1 DEF Synced, WorkThere
    <2>4. WorkPushed(h)'
      BY <1>3 DEF WorkPushed
    <2>5. FilesThere(h)'
      BY <1>3, NoLine DEF FilesThere, Harmless
    <2> QED BY <1>1, <2>2, <2>3, <2>4, <2>5, SyncLocal DEF Synced
  <1>4. gRepo' = gRepo \/ (/\ Syncing!MustClone(gRepo[h]) /\ gPc'[h] = "clone"
                           /\ gRepo'[h] = Syncing!Absent)
    BY DEF SyncInv, SyncTyped, Syncing!Look
  <1> QED BY <1>2, <1>3, <1>4

LEMMA SyncWipe ==
  ASSUME SyncInv, NEW h \in GHosts, Syncing!Wipe(h)
  PROVE  SyncInv'
  <1> USE DEF Syncing!Keep, Syncing!Step, Syncing!Put, Syncing!Absent
  <1>0. Synced(h)
    BY DEF SyncInv
  <1>1. StepOf(h) /\ gRemote' = gRemote /\ gSnap' = gSnap /\ gMade' = gMade /\ gDeleted' = gDeleted
    BY DEF SyncInv, SyncTyped, StepOf, Syncing!Wipe
  <1>2. /\ gPc[h] = "wipe" /\ gPc'[h] = "clone"
        /\ gRepo'[h] = [at |-> "absent", commits |-> <<>>, tree |-> {}]
        /\ gWiped' = gWiped \cup gLate[h] \cup Syncing!Added(gRepo[h].commits)
    BY DEF SyncInv, SyncTyped, Syncing!Wipe
  <1>3. DOMAIN gRepo'[h] = {"at", "commits", "tree"} /\ IsLine(gRepo'[h].commits)
    BY <1>2, NoLine
  <1>4. WorkThere(h)'
    BY <1>0, <1>1, <1>2 DEF Synced, WorkThere
  <1>5. WorkPushed(h)'
    BY <1>2 DEF WorkPushed
  <1>6. FilesThere(h)'
    BY <1>2, NoLine DEF FilesThere, Harmless
  <1> QED BY <1>1, <1>3, <1>4, <1>5, <1>6, SyncLocal DEF Synced

\* A clone has the commits of the remote and all of their files, or none of them and no branch.
LEMMA SyncClone ==
  ASSUME SyncInv, NEW h \in GHosts, Syncing!Clone(h)
  PROVE  SyncInv'
  <1> USE DEF Syncing!Quiet, Syncing!Keep, Syncing!Step, Syncing!Put
  <1>0. Synced(h)
    BY DEF SyncInv
  <1>1. StepOf(h) /\ gRemote' = gRemote /\ gSnap' = gSnap /\ gMade' = gMade
        /\ gDeleted' = gDeleted /\ gWiped' = gWiped /\ gMissing' = gMissing
    BY DEF SyncInv, SyncTyped, StepOf, Syncing!Clone
  <1>2. gRepo[h].at = "absent" /\ gPc'[h] = "head" /\ gRepo'[h] = Syncing!Cloned
    BY DEF SyncInv, SyncTyped, Syncing!Clone
  <1>3. /\ DOMAIN gRepo'[h] = {"at", "commits", "tree"} /\ gRepo'[h].commits = gRemote
        /\ gRepo'[h].at \in {"branch", "unborn"}
        /\ gRepo'[h].at = "branch" => gRepo'[h].tree = Syncing!Tree(gRemote)
    BY <1>2 DEF Syncing!Cloned
  <1>4. WorkThere(h)'
    <2>1. gMade[h] \subseteq gDeleted \cup gWiped
      BY <1>0, <1>2, NoLine DEF Synced, WorkThere
    <2> QED BY <1>1, <1>2, <1>3, <2>1 DEF WorkThere
  <1>5. WorkPushed(h)'
    BY <1>2 DEF WorkPushed
  <1>6. FilesThere(h)'
    <2>1. Harmless(gRemote)
      BY DEF SyncInv
    <2> QED BY <1>1, <1>3, <2>1 DEF FilesThere, Harmless, Gone
  <1> QED BY <1>1, <1>3, <1>4, <1>5, <1>6, SyncLocal DEF Synced, SyncInv, SyncTyped

LEMMA SyncHead ==
  ASSUME SyncInv, NEW h \in GHosts, Syncing!EnsureHead(h)
  PROVE  SyncInv'
  <1> USE DEF Syncing!Quiet, Syncing!Keep, Syncing!Step, Syncing!Put
  <1>0. Synced(h) /\ DOMAIN gRepo[h] = {"at", "commits", "tree"} /\ IsLine(gRepo[h].commits)
    BY DEF SyncInv, SyncTyped
  <1>1. StepOf(h) /\ gRemote' = gRemote /\ gSnap' = gSnap /\ gMade' = gMade
        /\ gDeleted' = gDeleted /\ gWiped' = gWiped /\ gMissing' = gMissing
    BY DEF SyncInv, SyncTyped, StepOf, Syncing!EnsureHead
  <1>2. /\ gPc'[h] \in {"commit", "failed"}
        /\ \/ gRepo'[h] = gRepo[h]
           \/ gRepo'[h] = Syncing!CheckedOut(gRepo[h])
    BY DEF SyncInv, SyncTyped, Syncing!EnsureHead
  <1>3. /\ DOMAIN gRepo'[h] = {"at", "commits", "tree"} /\ gRepo'[h].commits = gRepo[h].commits
        /\ gRepo[h].tree \subseteq gRepo'[h].tree
        /\ \/ gRepo'[h] = gRepo[h]
           \/ gRepo'[h].at = "branch" /\ Syncing!Tree(gRepo[h].commits) \subseteq gRepo'[h].tree
    BY <1>0, <1>2 DEF Syncing!CheckedOut
  <1>4. WorkThere(h)'
    BY <1>0, <1>1, <1>2, <1>3 DEF Synced, WorkThere
  <1>5. WorkPushed(h)'
    BY <1>2 DEF WorkPushed
  <1>6. FilesThere(h)'
    BY <1>0, <1>1, <1>3 DEF Synced, FilesThere, Harmless, Gone
  <1> QED BY <1>0, <1>1, <1>3, <1>4, <1>5, <1>6, SyncLocal DEF Synced

\* A commit adds what is new in the tree and takes away what is gone from it.
LEMMA CommittedLine ==
  ASSUME NEW r, DOMAIN r = {"at", "commits", "tree"}, IsLine(r.commits)
  PROVE  LET n == Syncing!Committed(r) IN
         /\ DOMAIN n = {"at", "commits", "tree"} /\ n.at = r.at /\ n.tree = r.tree /\ IsLine(n.commits)
         /\ Syncing!Added(r.commits) \subseteq Syncing!Added(n.commits)
         /\ r.at = "branch" => /\ r.tree \subseteq Syncing!Added(n.commits)
                               /\ Syncing!Tree(n.commits) \subseteq r.tree
         /\ \A c \in Syncing!Range(n.commits) :
              c \in Syncing!Range(r.commits) \/ (r.at = "branch" /\ c.dels = Syncing!Tree(r.commits) \ r.tree)
  <1>1. CASE r.at # "branch" \/ r.tree = Syncing!Tree(r.commits)
    BY <1>1 DEF Syncing!Committed, Syncing!Tree
  <1>2. CASE ~(r.at # "branch" \/ r.tree = Syncing!Tree(r.commits))
    <2>1. PICK c : c = [adds |-> r.tree \ Syncing!Added(r.commits),
                        dels |-> Syncing!Tree(r.commits) \ r.tree]
      OBVIOUS
    <2>2. PICK n : n = Syncing!Committed(r)
      OBVIOUS
    <2>3. /\ DOMAIN n = {"at", "commits", "tree"} /\ n.at = r.at /\ n.tree = r.tree
          /\ n.commits = Append(r.commits, c)
      BY <1>2, <2>1, <2>2 DEF Syncing!Committed
    <2>4. IsLine(n.commits) /\ Syncing!Range(n.commits) = Syncing!Range(r.commits) \cup {c}
      BY <2>3, AppendLine
    <2>5. Syncing!Added(n.commits) = Syncing!Added(r.commits) \cup c.adds
      BY <2>4 DEF Syncing!Added
    <2>6. r.tree \subseteq Syncing!Added(n.commits)
      BY <2>1, <2>5
    <2>7. Syncing!Tree(n.commits) \subseteq r.tree
      <3>1. Syncing!Tree(n.commits) = (Syncing!Tree(r.commits) \cup (c.adds \ UNION {d.dels : d \in Syncing!Range(r.commits)})) \ c.dels
        BY <2>1, <2>4, <2>5 DEF Syncing!Tree
      <3> QED BY <2>1, <3>1
    <2>8. \A d \in Syncing!Range(n.commits) :
            d \in Syncing!Range(r.commits) \/ (r.at = "branch" /\ d.dels = Syncing!Tree(r.commits) \ r.tree)
      BY <1>2, <2>1, <2>4
    <2>9. Syncing!Added(r.commits) \subseteq Syncing!Added(n.commits)
      BY <2>5
    <2> QED BY <2>2, <2>3, <2>4, <2>6, <2>7, <2>8, <2>9
  <1> QED BY <1>1, <1>2

LEMMA SyncCommit ==
  ASSUME SyncInv, NEW h \in GHosts, Syncing!CommitIfDirty(h)
  PROVE  SyncInv'
  <1> USE DEF Syncing!Quiet, Syncing!Keep, Syncing!Step, Syncing!Put
  <1>0. Synced(h) /\ DOMAIN gRepo[h] = {"at", "commits", "tree"} /\ IsLine(gRepo[h].commits)
    BY DEF SyncInv, SyncTyped
  <1>1. StepOf(h) /\ gRemote' = gRemote /\ gMade' = gMade
        /\ gDeleted' = gDeleted /\ gWiped' = gWiped /\ gMissing' = gMissing
    BY DEF SyncInv, SyncTyped, StepOf, Syncing!CommitIfDirty
  <1>2. gPc'[h] = "ask" /\ gRepo'[h] = Syncing!Committed(gRepo[h]) /\ gSnap'[h] = gRepo[h].tree
    BY DEF SyncInv, SyncTyped, Syncing!CommitIfDirty
  <1>3. /\ DOMAIN gRepo'[h] = {"at", "commits", "tree"} /\ gRepo'[h].at = gRepo[h].at
        /\ gRepo'[h].tree = gRepo[h].tree /\ IsLine(gRepo'[h].commits)
        /\ Syncing!Added(gRepo[h].commits) \subseteq Syncing!Added(gRepo'[h].commits)
        /\ gRepo[h].at = "branch" => /\ gRepo[h].tree \subseteq Syncing!Added(gRepo'[h].commits)
                                     /\ Syncing!Tree(gRepo'[h].commits) \subseteq gRepo[h].tree
        /\ \A c \in Syncing!Range(gRepo'[h].commits) :
             \/ c \in Syncing!Range(gRepo[h].commits)
             \/ gRepo[h].at = "branch" /\ c.dels = Syncing!Tree(gRepo[h].commits) \ gRepo[h].tree
    BY <1>0, <1>2, CommittedLine
  <1>n. gRepo[h].at # "branch" => gRepo'[h].commits = gRepo[h].commits
    BY <1>2 DEF Syncing!Committed
  <1>4. WorkThere(h)'
    BY <1>0, <1>1, <1>2, <1>3, <1>n DEF Synced, WorkThere
  <1>5. WorkPushed(h)'
    BY <1>2, <1>3 DEF WorkPushed
  <1>6. FilesThere(h)'
    BY <1>0, <1>1, <1>3 DEF Synced, FilesThere, Harmless, Gone
  <1> QED BY <1>1, <1>3, <1>4, <1>5, <1>6, SyncLocal DEF Synced

\* A rebase loses no commit, and a file that is not in the tree any more is not brought back.
LEMMA RebasedLine ==
  ASSUME IsLine(gRemote), NEW r, DOMAIN r = {"at", "commits", "tree"}, IsLine(r.commits)
  PROVE  LET n == Syncing!Rebased(r) IN
         /\ DOMAIN n = {"at", "commits", "tree"} /\ n.at = r.at /\ IsLine(n.commits)
         /\ Syncing!Range(n.commits) = Syncing!Range(gRemote) \cup Syncing!Range(r.commits)
         /\ Syncing!Added(r.commits) \subseteq Syncing!Added(n.commits)
         /\ r.tree \subseteq n.tree \cup Syncing!Added(n.commits)
         /\ Syncing!Tree(n.commits) \ n.tree \subseteq Syncing!Tree(r.commits) \ r.tree
  <1>1. PICK cs : cs = Syncing!OnTop(r.commits)
    OBVIOUS
  <1>2. PICK n : n = Syncing!Rebased(r)
    OBVIOUS
  <1>3. /\ DOMAIN n = {"at", "commits", "tree"} /\ n.at = r.at /\ n.commits = cs
        /\ n.tree = (r.tree \ Syncing!Tree(r.commits))
                      \cup (Syncing!Tree(cs) \ (Syncing!Tree(r.commits) \ r.tree))
    BY <1>1, <1>2 DEF Syncing!Rebased
  <1>4. IsLine(cs) /\ Syncing!Range(cs) = Syncing!Range(gRemote) \cup Syncing!Range(r.commits)
    BY <1>1, ReplayedLine
  <1>5. Syncing!Added(r.commits) \subseteq Syncing!Added(cs)
    BY <1>4 DEF Syncing!Added
  <1>6. Syncing!Tree(r.commits) \subseteq Syncing!Added(r.commits)
    BY DEF Syncing!Tree
  <1>7. r.tree \subseteq n.tree \cup Syncing!Added(cs)
    BY <1>3, <1>5, <1>6
  <1>8. Syncing!Tree(cs) \ n.tree \subseteq Syncing!Tree(r.commits) \ r.tree
    BY <1>3
  <1> QED BY <1>2, <1>3, <1>4, <1>5, <1>7, <1>8

LEMMA SyncPull ==
  ASSUME SyncInv, NEW h \in GHosts, Syncing!PullRebase(h)
  PROVE  SyncInv'
  <1> USE DEF Syncing!Quiet, Syncing!Keep, Syncing!Step, Syncing!Put
  <1>0. /\ Synced(h) /\ DOMAIN gRepo[h] = {"at", "commits", "tree"} /\ IsLine(gRepo[h].commits)
        /\ IsLine(gRemote) /\ Harmless(gRemote)
    BY DEF SyncInv, SyncTyped
  <1>1. StepOf(h) /\ gRemote' = gRemote /\ gMade' = gMade /\ gSnap' = gSnap
        /\ gDeleted' = gDeleted /\ gWiped' = gWiped /\ gMissing' = gMissing
    BY DEF SyncInv, SyncTyped, StepOf, Syncing!PullRebase
  <1>2. gPc[h] = "pull" /\ gPc'[h] = "push" /\ gRepo'[h] = Syncing!Rebased(gRepo[h])
    BY DEF SyncInv, SyncTyped, Syncing!PullRebase
  <1>3. LET r == gRepo[h] n == gRepo'[h] IN
        /\ DOMAIN n = {"at", "commits", "tree"} /\ n.at = r.at /\ IsLine(n.commits)
        /\ Syncing!Range(n.commits) = Syncing!Range(gRemote) \cup Syncing!Range(r.commits)
        /\ Syncing!Added(r.commits) \subseteq Syncing!Added(n.commits)
        /\ r.tree \subseteq n.tree \cup Syncing!Added(n.commits)
        /\ Syncing!Tree(n.commits) \ n.tree \subseteq Syncing!Tree(r.commits) \ r.tree
    BY <1>0, <1>2, RebasedLine
  <1>4. Synced(h)'
    <2>0. gRepo[h].at = "branch"
      BY <1>0, <1>2 DEF Synced, WorkPushed
    <2>1. WorkThere(h)'
      BY <1>0, <1>1, <1>2, <1>3, <2>0 DEF Synced, WorkThere
    <2>2. WorkPushed(h)'
      BY <1>0, <1>1, <1>2, <1>3, <2>0 DEF Synced, WorkPushed
    <2>3. FilesThere(h)'
      BY <1>0, <1>1, <1>3, <2>0 DEF Synced, FilesThere, Harmless, Gone
    <2> QED BY <2>1, <2>2, <2>3 DEF Synced
  <1> QED BY <1>1, <1>3, <1>4, SyncLocal

\* The remote takes a line of commits that begins with its own, and so it only grows.
LEMMA SyncPush ==
  ASSUME SyncInv, NEW h \in GHosts, Syncing!Push(h)
  PROVE  SyncInv'
  <1> USE DEF Syncing!Quiet, Syncing!Keep, Syncing!Step
  <1>0. /\ Synced(h) /\ DOMAIN gRepo[h] = {"at", "commits", "tree"} /\ IsLine(gRepo[h].commits)
        /\ IsLine(gRemote) /\ Harmless(gRemote)
    BY DEF SyncInv, SyncTyped
  <1>1. StepOf(h) /\ gRepo' = gRepo /\ gMade' = gMade /\ gSnap' = gSnap /\ gLate' = gLate
        /\ gDeleted' = gDeleted /\ gWiped' = gWiped /\ gMissing' = gMissing
    BY DEF SyncInv, SyncTyped, StepOf, Syncing!Push
  <1>2. /\ gPc[h] = "push" /\ gPc'[h] \in {"done", "failed"}
        /\ \/ gRemote' = gRemote /\ gPc'[h] = "failed"
           \/ /\ gRepo[h].at = "branch" /\ Syncing!IsPrefix(gRemote, gRepo[h].commits)
              /\ gRemote' = gRepo[h].commits
    BY DEF SyncInv, SyncTyped, Syncing!Push, Syncing!Continues
  <1>3. /\ Syncing!Range(gRemote) \subseteq Syncing!Range(gRemote')
        /\ IsLine(gRemote') /\ Harmless(gRemote')
    BY <1>0, <1>2, PrefixLine DEF Synced, FilesThere
  <1>4. Syncing!Added(gRemote) \subseteq Syncing!Added(gRemote')
    BY <1>3 DEF Syncing!Added
  <1>5. SyncTyped'
    BY <1>1, <1>3 DEF StepOf, SyncInv, SyncTyped
  <1>6. Harmless(gRemote)'
    BY <1>1, <1>3 DEF Harmless, Gone
  <1>7. Synced(h)'
    <2>1. WorkThere(h)'
      BY <1>0, <1>1, <1>2 DEF Synced, WorkThere
    <2>2. WorkPushed(h)'
      BY <1>0, <1>1, <1>2 DEF Synced, WorkPushed
    <2>3. FilesThere(h)'
      BY <1>0, <1>1 DEF Synced, FilesThere, Harmless, Gone
    <2> QED BY <2>1, <2>2, <2>3 DEF Synced
  <1>8. ASSUME NEW g \in GHosts \ {h} PROVE Synced(g)'
    BY <1>1, <1>4, SyncKept DEF StepOf, SyncInv
  <1> QED BY <1>5, <1>6, <1>7, <1>8 DEF SyncInv

LEMMA SyncInterrupt ==
  ASSUME SyncInv, NEW h \in GHosts, Syncing!Interrupt(h)
  PROVE  SyncInv'
  <1> USE DEF Syncing!Put
  <1>0. /\ Synced(h) /\ DOMAIN gRepo[h] = {"at", "commits", "tree"} /\ IsLine(gRepo[h].commits)
        /\ IsLine(gRemote) /\ Harmless(gRemote)
    BY DEF SyncInv, SyncTyped
  <1>1. StepOf(h) /\ gRemote' = gRemote /\ gMade' = gMade /\ gSnap' = gSnap /\ gLate' = gLate
        /\ gDeleted' = gDeleted /\ gWiped' = gWiped /\ gMissing \subseteq gMissing'
        /\ gPc'[h] = "failed"
    BY DEF SyncInv, SyncTyped, StepOf, Syncing!Interrupt
  <1>2. WorkPushed(h)'
    BY <1>1 DEF WorkPushed
  <1>3. CASE gRepo' = gRepo
    <2>1. WorkThere(h)'
      BY <1>0, <1>1, <1>3 DEF Synced, WorkThere
    <2>2. FilesThere(h)'
      BY <1>0, <1>1, <1>3 DEF Synced, FilesThere, Harmless, Gone
    <2> QED BY <1>0, <1>1, <1>2, <1>3, <2>1, <2>2, SyncLocal DEF Synced
  <1>4. CASE /\ gRepo[h].at = "absent" /\ Syncing!Cloned.at = "branch"
             /\ \E kept \in SUBSET Syncing!Tree(gRemote) :
                  /\ gRepo'[h] = [Syncing!Cloned EXCEPT !.tree = kept]
                  /\ gMissing' = gMissing \cup (Syncing!Tree(gRemote) \ kept)
    <2>1. PICK kept \in SUBSET Syncing!Tree(gRemote) :
                  /\ gRepo'[h] = [Syncing!Cloned EXCEPT !.tree = kept]
                  /\ gMissing' = gMissing \cup (Syncing!Tree(gRemote) \ kept)
      BY <1>4
    <2>2. /\ DOMAIN gRepo'[h] = {"at", "commits", "tree"} /\ gRepo'[h].commits = gRemote
          /\ gRepo'[h].at = "branch" /\ gRepo'[h].tree = kept
      BY <1>4, <2>1 DEF Syncing!Cloned
    <2>3. WorkThere(h)'
      <3>1. gMade[h] \subseteq gDeleted \cup gWiped
        BY <1>0, <1>4, NoLine DEF Synced, WorkThere
      <3> QED BY <1>1, <2>2, <3>1 DEF WorkThere
    <2>4. FilesThere(h)'
      BY <1>0, <1>1, <2>1, <2>2 DEF FilesThere, Harmless, Gone
    <2> QED BY <1>0, <1>1, <1>2, <2>2, <2>3, <2>4, SyncLocal DEF Synced
  <1>5. CASE gPc[h] = "pull" /\ gRepo'[h] = [gRepo[h] EXCEPT !.at = "detached"]
    <2>1. /\ DOMAIN gRepo'[h] = {"at", "commits", "tree"} /\ gRepo'[h].commits = gRepo[h].commits
          /\ gRepo'[h].at = "detached" /\ gRepo'[h].tree = gRepo[h].tree
      BY <1>0, <1>5
    <2>2. WorkThere(h)'
      BY <1>0, <1>1, <2>1 DEF Synced, WorkThere
    <2>3. FilesThere(h)'
      BY <1>0, <1>1, <2>1 DEF Synced, FilesThere, Harmless, Gone
    <2> QED BY <1>0, <1>1, <1>2, <2>1, <2>2, <2>3, SyncLocal DEF Synced
  <1>6. \/ gRepo' = gRepo
        \/ /\ gRepo[h].at = "absent" /\ Syncing!Cloned.at = "branch"
           /\ \E kept \in SUBSET Syncing!Tree(gRemote) :
                /\ gRepo'[h] = [Syncing!Cloned EXCEPT !.tree = kept]
                /\ gMissing' = gMissing \cup (Syncing!Tree(gRemote) \ kept)
        \/ gPc[h] = "pull" /\ gRepo'[h] = [gRepo[h] EXCEPT !.at = "detached"]
    BY DEF SyncInv, SyncTyped, Syncing!Interrupt
  <1> QED BY <1>3, <1>4, <1>5, <1>6

LEMMA SyncUser ==
  ASSUME SyncInv, NEW h \in GHosts, Syncing!Write(h) \/ Syncing!Delete(h)
  PROVE  SyncInv'
  <1> USE DEF Syncing!Put
  <1>0. Synced(h) /\ DOMAIN gRepo[h] = {"at", "commits", "tree"} /\ IsLine(gRepo[h].commits)
    BY DEF SyncInv, SyncTyped
  <1>1. StepOf(h) /\ gRemote' = gRemote /\ gSnap' = gSnap /\ gPc' = gPc
        /\ gWiped' = gWiped /\ gMissing' = gMissing
    BY DEF SyncInv, SyncTyped, StepOf, Syncing!Write, Syncing!Delete
  <1>2. CASE Syncing!Write(h)
    <2>1. PICK t : t = <<h, Syncing!Cardinality(gMade[h])>>
      OBVIOUS
    <2>2. /\ gMade'[h] = gMade[h] \cup {t} /\ gDeleted' = gDeleted
          /\ gRepo'[h] = [gRepo[h] EXCEPT !.at = IF @ = "absent" THEN "dir" ELSE @,
                                          !.tree = @ \cup {t}]
          /\ gLate'[h] = IF gPc[h] = "wipe" THEN gLate[h] \cup {t} ELSE gLate[h]
      BY <1>2, <2>1 DEF SyncInv, SyncTyped, Syncing!Write
    <2>3. /\ DOMAIN gRepo'[h] = {"at", "commits", "tree"} /\ gRepo'[h].commits = gRepo[h].commits
          /\ gRepo'[h].at = IF gRepo[h].at = "absent" THEN "dir" ELSE gRepo[h].at
          /\ gRepo'[h].tree = gRepo[h].tree \cup {t}
      BY <1>0, <2>2
    <2>4. WorkThere(h)'
      BY <1>0, <1>1, <2>2, <2>3 DEF Synced, WorkThere
    <2>5. WorkPushed(h)'
      BY <1>0, <1>1, <2>3 DEF Synced, WorkPushed
    <2>6. FilesThere(h)'
      BY <1>0, <1>1, <2>2, <2>3 DEF Synced, FilesThere, Harmless, Gone
    <2> QED BY <1>0, <1>1, <2>3, <2>4, <2>5, <2>6, SyncLocal DEF Synced
  <1>3. CASE Syncing!Delete(h)
    <2>1. PICK t \in gRepo[h].tree :
            gDeleted' = gDeleted \cup {t} /\ gRepo'[h] = [gRepo[h] EXCEPT !.tree = @ \ {t}]
      BY <1>3 DEF SyncInv, SyncTyped, Syncing!Delete
    <2>2. /\ DOMAIN gRepo'[h] = {"at", "commits", "tree"} /\ gRepo'[h].commits = gRepo[h].commits
          /\ gRepo'[h].at = gRepo[h].at /\ gRepo'[h].tree = gRepo[h].tree \ {t}
          /\ gMade' = gMade /\ gLate' = gLate
      BY <1>0, <1>3, <2>1 DEF Syncing!Delete
    <2>3. WorkThere(h)'
      BY <1>0, <1>1, <2>1, <2>2 DEF Synced, WorkThere
    <2>4. WorkPushed(h)'
      BY <1>0, <1>1, <2>2 DEF Synced, WorkPushed
    <2>5. FilesThere(h)'
      BY <1>0, <1>1, <2>1, <2>2 DEF Synced, FilesThere, Harmless, Gone
    <2> QED BY <1>0, <1>1, <2>2, <2>3, <2>4, <2>5, SyncLocal DEF Synced
  <1> QED BY <1>2, <1>3

LEMMA SyncNext == SyncInv /\ [Syncing!Next]_syncVars => SyncInv'
  <1> SUFFICES ASSUME SyncInv, [Syncing!Next]_syncVars PROVE SyncInv'
    OBVIOUS
  <1>0. Syncing!Next \/ UNCHANGED syncVars
    OBVIOUS
  <1>1. CASE UNCHANGED syncVars
    BY <1>1 DEF syncVars, SyncInv, SyncTyped, Harmless, Gone, Synced, WorkThere, WorkPushed,
                FilesThere
  <1>2. CASE Syncing!Next
    BY <1>2, SyncPlain, SyncLook, SyncWipe, SyncClone, SyncHead, SyncCommit, SyncPull, SyncPush,
       SyncInterrupt, SyncUser DEF Syncing!Next, Syncing!Sync
  <1> QED BY <1>0, <1>1, <1>2

LEMMA SyncKeeps == SyncInv => Syncing!NothingLost
  BY DEF SyncInv, Synced, WorkThere, Syncing!NothingLost

LEMMA SyncSaves == SyncInv => Syncing!Saved
  BY DEF SyncInv, Synced, WorkPushed, Syncing!Saved

LEMMA SyncDeletes == SyncInv => Syncing!OnlyUsersDelete
  BY DEF SyncInv, Harmless, Gone, Syncing!OnlyUsersDelete

--------------------------------------------------------------------------------
(* The history of commands. *)

From(s, origins) == \A n \in DOMAIN s : s[n].from \in origins

(***************************************************************************)
(* An import that read an empty table holds the beginning of the old one,  *)
(* which only grows; nothing that is ingested comes from there.            *)
(***************************************************************************)
Begins(s, t) == Len(s) <= Len(t) /\ \A n \in 1..Len(s) : s[n] = t[n]
Importing(p) ==
  dPc[p] = "copy" =>
    /\ dSeen[p].rows = <<>> /\ IsSequence(dSeen[p].old) /\ From(dSeen[p].old, {"old"})
    /\ Begins(dSeen[p].old, dOld)
HistoryInv ==
  /\ IsSequence(dRows) /\ IsSequence(dOld) /\ IsSequence(dLoaded) /\ dBash \in DBashFiles
  /\ DOMAIN dPc = DImporters /\ DOMAIN dSeen = DImporters
  /\ From(dOld, {"old"}) /\ From(dLoaded, {"bash"})
  /\ dCopied \in Nat /\ dCopied <= Len(dOld) /\ dCopied <= Len(dRows)
  /\ \A n \in DOMAIN dRows : IF n <= dCopied THEN dRows[n] = dOld[n] ELSE dRows[n].from # "old"
  /\ \A p \in DImporters : Importing(p)

\* The times of rows, in every table and on the way there.
Timed(s) == \A n \in DOMAIN s : s[n].at \in Int
HistoryTimed ==
  /\ dNow \in Nat /\ Timed(dRows) /\ Timed(dOld) /\ Timed(dLoaded)
  /\ \A p \in DImporters : dPc[p] = "copy" => Timed(dSeen[p].old)

LEMMA ListOf ==
  ASSUME NEW S, NEW s \in Seq(S)
  PROVE  IsSequence(s)
  BY DEF IsSequence

LEMMA ListAppend ==
  ASSUME NEW s, IsSequence(s), NEW e
  PROVE  /\ IsSequence(Append(s, e)) /\ Len(s) \in Nat /\ DOMAIN s = 1..Len(s)
         /\ Len(Append(s, e)) = Len(s) + 1 /\ DOMAIN Append(s, e) = 1..Len(s) + 1
         /\ \A n \in 1..Len(s) : Append(s, e)[n] = s[n]
         /\ Append(s, e)[Len(s) + 1] = e
  <1> DEFINE S == {s[n] : n \in DOMAIN s} \cup {e}
  <1>1. s \in Seq(S)
    BY DEF IsSequence
  <1>2. e \in S
    OBVIOUS
  <1> HIDE DEF S
  <1>3. Append(s, e) \in Seq(S)
    BY <1>1, <1>2
  <1>4. IsSequence(Append(s, e))
    BY <1>3, ListOf
  <1>5. Len(s) \in Nat /\ DOMAIN s = 1..Len(s)
    BY <1>1
  <1>6. Len(Append(s, e)) = Len(s) + 1 /\ DOMAIN Append(s, e) = 1..Len(s) + 1
    BY <1>1, <1>2, <1>3
  <1>7. /\ \A n \in 1..Len(s) : Append(s, e)[n] = s[n]
        /\ Append(s, e)[Len(s) + 1] = e
    BY <1>1, <1>2
  <1> QED BY <1>4, <1>5, <1>6, <1>7

LEMMA ListConcat ==
  ASSUME NEW s, IsSequence(s), NEW t, IsSequence(t)
  PROVE  /\ IsSequence(s \o t) /\ Len(s) \in Nat /\ DOMAIN s = 1..Len(s)
         /\ Len(t) \in Nat /\ DOMAIN t = 1..Len(t)
         /\ Len(s \o t) = Len(s) + Len(t) /\ DOMAIN (s \o t) = 1..Len(s) + Len(t)
         /\ \A n \in 1..Len(s) + Len(t) :
              (s \o t)[n] = IF n <= Len(s) THEN s[n] ELSE t[n - Len(s)]
  <1> DEFINE S == {s[n] : n \in DOMAIN s} \cup {t[n] : n \in DOMAIN t}
  <1>1. s \in Seq(S) /\ t \in Seq(S)
    BY DEF IsSequence
  <1> HIDE DEF S
  <1>2. s \o t \in Seq(S)
    BY <1>1
  <1>3. IsSequence(s \o t)
    BY <1>2, ListOf
  <1>4. Len(s) \in Nat /\ DOMAIN s = 1..Len(s) /\ Len(t) \in Nat /\ DOMAIN t = 1..Len(t)
    BY <1>1
  <1>5. Len(s \o t) = Len(s) + Len(t) /\ DOMAIN (s \o t) = 1..Len(s) + Len(t)
    BY <1>1, <1>2
  <1>6. \A n \in 1..Len(s) + Len(t) : (s \o t)[n] = IF n <= Len(s) THEN s[n] ELSE t[n - Len(s)]
    BY <1>1
  <1> QED BY <1>3, <1>4, <1>5, <1>6

LEMMA HistoryInit == Recording!Init => HistoryInv
  <1> SUFFICES ASSUME Recording!Init PROVE HistoryInv
    OBVIOUS
  <1>2. IsSequence(<<>>)
    BY DEF IsSequence
  <1>3. ASSUME NEW e PROVE IsSequence(<<e>>) /\ Len(<<e>>) = 1 /\ DOMAIN <<e>> = 1..1 /\ <<e>>[1] = e
    <2>1. <<e>> \in Seq({e})
      OBVIOUS
    <2>2. IsSequence(<<e>>)
      BY <2>1, ListOf
    <2> QED BY <2>2
  <1>4. IsSequence(dRows) /\ IsSequence(dOld)
    BY <1>2, <1>3 DEF Recording!Init
  <1>5. From(dOld, {"old"})
    BY <1>3 DEF Recording!Init, Recording!Event, From
  <1>6. \A n \in DOMAIN dRows : n \in Nat /\ ~(n <= 0) /\ dRows[n].from # "old"
    BY <1>3 DEF Recording!Init, Recording!Event
  <1>7. Len(dRows) \in Nat /\ Len(dOld) \in Nat
    BY <1>4 DEF IsSequence
  <1> QED BY <1>2, <1>4, <1>5, <1>6, <1>7 DEF Recording!Init, HistoryInv, From, Importing

\* What is read from the file of bash are rows of its own, by induction as in ReplayedLine.
LEMMA Ingested ==
  ASSUME dBash \in DBashFiles
  PROVE  /\ IsSequence(Recording!IngestBash) /\ From(Recording!IngestBash, {"bash"})
         /\ Timed(Recording!IngestBash)
  <1> DEFINE Start == [at |-> 0, events |-> <<>>]
             Next(f, n) == IF n = 0 THEN Start ELSE Recording!ParseLine(f[n - 1], dBash[n])
             Parses(f, n) == f = [i \in 0..n |-> Next(f, i)]
             Missing == {n \in 0..Len(dBash) : ~ \E f : Parses(f, n)}
  <1>l. /\ Len(dBash) \in Nat /\ DOMAIN dBash = 1..Len(dBash)
        /\ \A n \in DOMAIN dBash : dBash[n].kind \in {"time", "empty", "command"}
        /\ \A n \in DOMAIN dBash : dBash[n].kind = "time" => dBash[n].at \in Int
    <2>1. dBash \in Seq({dBash[n] : n \in DOMAIN dBash})
      BY HistoryAssumption DEF IsSequence
    <2> QED BY <2>1, HistoryAssumption
  <1>1. Missing = {}
    <2> SUFFICES ASSUME Missing # {} PROVE FALSE
      OBVIOUS
    <2>1. Missing \in SUBSET Nat
      BY <1>l
    <2>2. PICK n \in Missing : \A m \in Missing : n <= m
      <3> HIDE DEF Missing
      <3> QED BY <2>1, LeastOf
    <2>3. n \in 0..Len(dBash) /\ n \in Nat /\ ~ \E f : Parses(f, n)
      BY <2>1
    <2>4. CASE n = 0
      <3>1. Parses([i \in 0..0 |-> Start], 0)
        OBVIOUS
      <3> QED BY <2>3, <2>4, <3>1
    <2>5. CASE n # 0
      <3>0. n - 1 \in 0..Len(dBash) /\ ~(n <= n - 1)
        BY <1>l, <2>3, <2>5
      <3>1. n - 1 \notin Missing
        <4> HIDE DEF Missing
        <4> QED BY <2>2, <3>0
      <3>2. PICK f : Parses(f, n - 1)
        <4> HIDE DEF Parses
        <4> QED BY <3>0, <3>1
      <3> DEFINE g == [i \in 0..n |-> IF i = n THEN Next(f, n) ELSE f[i]]
      <3>3. ASSUME NEW i \in 0..n PROVE g[i] = Next(g, i)
        <4>1. CASE i = n
          BY <2>3, <2>5, <4>1
        <4>2. CASE i # n
          <5>0. i \in 0..n - 1
            BY <2>3, <4>2
          <5>1. f[i] = Next(f, i)
            <6> HIDE DEF Next
            <6> QED BY <3>2, <5>0
          <5>2. i # 0 => i - 1 \in 0..n /\ i - 1 # n
            BY <2>3, <5>0
          <5> QED BY <4>2, <5>1, <5>2
        <4> QED BY <4>1, <4>2
      <3>4. Parses(g, n)
        <4>1. g = [i \in 0..n |-> g[i]]
          OBVIOUS
        <4> HIDE DEF g
        <4> QED BY <3>3, <4>1
      <3> QED BY <2>3, <3>4
    <2> QED BY <2>4, <2>5
  <1>2. \E f : Parses(f, Len(dBash))
    <2>1. Len(dBash) \in 0..Len(dBash)
      BY <1>l
    <2> HIDE DEF Parses
    <2> QED BY <1>1, <2>1
  <1> DEFINE r == CHOOSE f : Parses(f, Len(dBash))
  <1>3. r = [i \in 0..Len(dBash) |-> Next(r, i)]
    BY <1>2
  <1>4. Recording!IngestBash = r[Len(dBash)].events
    BY DEF Recording!IngestBash
  <1> HIDE DEF r
  <1> DEFINE Right(n) == /\ r[n] = [at |-> r[n].at, events |-> r[n].events]
                         /\ IsSequence(r[n].events) /\ From(r[n].events, {"bash"})
                         /\ r[n].at \in Int /\ Timed(r[n].events)
             Wrong == {n \in 0..Len(dBash) : ~Right(n)}
  <1>5. Wrong = {}
    <2> SUFFICES ASSUME Wrong # {} PROVE FALSE
      OBVIOUS
    <2>1. Wrong \in SUBSET Nat
      BY <1>l
    <2>2. PICK n \in Wrong : \A m \in Wrong : n <= m
      <3> HIDE DEF Wrong
      <3> QED BY <2>1, LeastOf
    <2>3. n \in 0..Len(dBash) /\ n \in Nat /\ ~Right(n)
      BY <2>1
    <2>4. CASE n = 0
      <3>1. r[0] = Start
        <4>1. 0 \in 0..Len(dBash)
          BY <1>l
        <4> QED BY <1>3, <4>1
      <3>2. IsSequence(<<>>) /\ From(<<>>, {"bash"}) /\ Timed(<<>>)
        BY DEF IsSequence, From, Timed
      <3>3. Right(0)
        BY <3>1, <3>2
      <3> QED BY <2>3, <2>4, <3>3
    <2>5. CASE n # 0
      <3>0. n - 1 \in 0..Len(dBash) /\ ~(n <= n - 1)
        BY <1>l, <2>3, <2>5
      <3>z. n - 1 \notin Wrong
        <4> HIDE DEF Wrong
        <4> QED BY <2>2, <3>0
      <3>1. n - 1 \in 0..Len(dBash) /\ Right(n - 1)
        <4> HIDE DEF Right
        <4> QED BY <3>0, <3>z
      <3>2. r[n] = Recording!ParseLine(r[n - 1], dBash[n])
        BY <1>3, <2>3, <2>5
      <3>3. /\ dBash[n].kind \in {"time", "empty", "command"}
            /\ dBash[n].kind = "time" => dBash[n].at \in Int
        BY <1>l, <2>3, <2>5
      <3> HIDE DEF Right
      <3>4. CASE dBash[n].kind = "time"
        <4>1. r[n] = [r[n - 1] EXCEPT !.at = dBash[n].at]
          BY <3>2, <3>4 DEF Recording!ParseLine
        <4>2. Right(n)
          BY <3>1, <3>3, <3>4, <4>1 DEF Right
        <4> QED BY <2>3, <4>2
      <3>5. CASE dBash[n].kind = "empty"
        <4>1. r[n] = r[n - 1]
          BY <3>2, <3>5 DEF Recording!ParseLine
        <4>2. Right(n)
          BY <3>1, <4>1 DEF Right
        <4> QED BY <2>3, <4>2
      <3>6. CASE dBash[n].kind = "command"
        <4> DEFINE s == r[n - 1].events
                   e == Recording!Event(dBash[n].cmd, Recording!NoFile, r[n - 1].at, "bash")
        <4>1. r[n] = [r[n - 1] EXCEPT !.events = Append(@, e)]
          BY <3>2, <3>6 DEF Recording!ParseLine
        <4>2. e.from = "bash" /\ e.at \in Int
          BY <3>1 DEF Recording!Event, Right
        <4> HIDE DEF e
        <4>3. /\ r[n] = [at |-> r[n].at, events |-> r[n].events]
              /\ r[n].events = Append(s, e) /\ IsSequence(s) /\ From(s, {"bash"})
              /\ r[n].at \in Int /\ Timed(s)
          BY <3>1, <4>1 DEF Right
        <4> HIDE DEF s
        <4>4. IsSequence(Append(s, e))
          BY <4>3, ListAppend
        <4>5. From(Append(s, e), {"bash"}) /\ Timed(Append(s, e))
          <5> SUFFICES ASSUME NEW m \in DOMAIN Append(s, e)
                       PROVE  Append(s, e)[m].from = "bash" /\ Append(s, e)[m].at \in Int
            BY DEF From, Timed
          <5>1. /\ m \in 1..Len(s) + 1 /\ Len(s) \in Nat /\ DOMAIN s = 1..Len(s)
                /\ \A i \in 1..Len(s) : Append(s, e)[i] = s[i]
                /\ Append(s, e)[Len(s) + 1] = e
            BY <4>3, ListAppend
          <5>2. m \in 1..Len(s) \/ m = Len(s) + 1
            BY <5>1
          <5> QED BY <4>2, <4>3, <5>1, <5>2 DEF From, Timed
        <4>6. Right(n)
          BY <4>3, <4>4, <4>5 DEF Right
        <4> QED BY <2>3, <4>6
      <3> QED BY <3>3, <3>4, <3>5, <3>6
    <2> QED BY <2>4, <2>5
  <1>6. Right(Len(dBash))
    <2>1. Len(dBash) \in 0..Len(dBash)
      BY <1>l
    <2> HIDE DEF Right
    <2> QED BY <1>5, <2>1
  <1> QED BY <1>4, <1>6

LEMMA HistoryRecord == HistoryInv /\ Recording!Record => HistoryInv'
  <1> SUFFICES ASSUME HistoryInv, Recording!Record PROVE HistoryInv'
    OBVIOUS
  <1>1. PICK e : dRows' = Append(dRows, e) /\ e.from = "record"
    BY DEF Recording!Record, Recording!Event
  <1>2. UNCHANGED <<dOld, dBash, dPc, dSeen, dLoaded, dCopied>>
    BY DEF Recording!Record
  <1>3. /\ IsSequence(dRows') /\ Len(dRows) \in Nat /\ DOMAIN dRows = 1..Len(dRows)
        /\ Len(dRows') = Len(dRows) + 1 /\ DOMAIN dRows' = 1..Len(dRows) + 1
        /\ \A n \in 1..Len(dRows) : dRows'[n] = dRows[n]
        /\ dRows'[Len(dRows) + 1] = e
    BY <1>1, ListAppend DEF HistoryInv
  <1>4. dCopied \in Nat /\ dCopied <= Len(dRows')
    BY <1>3 DEF HistoryInv
  <1>5. ASSUME NEW n \in DOMAIN dRows'
        PROVE  IF n <= dCopied THEN dRows'[n] = dOld[n] ELSE dRows'[n].from # "old"
    <2>1. n \in 1..Len(dRows) \/ (n = Len(dRows) + 1 /\ ~(n <= dCopied))
      BY <1>3 DEF HistoryInv
    <2>2. CASE n \in 1..Len(dRows)
      BY <1>3, <2>2 DEF HistoryInv
    <2>3. CASE n = Len(dRows) + 1 /\ ~(n <= dCopied)
      BY <1>1, <1>3, <2>3
    <2> QED BY <2>1, <2>2, <2>3
  <1> QED BY <1>2, <1>3, <1>4, <1>5 DEF HistoryInv, Importing, From

LEMMA HistoryIngest ==
  HistoryInv /\ (Recording!LoadEvents \/ Recording!BatchRecord) => HistoryInv'
  <1> SUFFICES ASSUME HistoryInv, Recording!LoadEvents \/ Recording!BatchRecord PROVE HistoryInv'
    OBVIOUS
  <1>1. CASE Recording!LoadEvents
    <2>1. IsSequence(dLoaded') /\ From(dLoaded', {"bash"})
      BY <1>1, Ingested DEF HistoryInv, Recording!LoadEvents
    <2>2. UNCHANGED <<dRows, dOld, dBash, dPc, dSeen, dCopied>>
      BY <1>1 DEF Recording!LoadEvents
    <2> QED BY <2>1, <2>2 DEF HistoryInv, Importing, From
  <1>2. CASE Recording!BatchRecord
    <2>1. UNCHANGED <<dOld, dBash, dPc, dSeen, dCopied>> /\ dLoaded' = <<>>
      BY <1>2 DEF Recording!BatchRecord
    <2>2. IsSequence(dLoaded') /\ From(dLoaded', {"bash"})
      BY <2>1 DEF IsSequence, From
    <2>3. CASE dRows' = dRows
      BY <2>1, <2>2, <2>3 DEF HistoryInv, Importing, From
    <2>4. CASE dRows' = dRows \o dLoaded
      <3>1. /\ IsSequence(dRows') /\ Len(dRows) \in Nat /\ DOMAIN dRows = 1..Len(dRows)
            /\ Len(dLoaded) \in Nat /\ DOMAIN dLoaded = 1..Len(dLoaded)
            /\ Len(dRows') = Len(dRows) + Len(dLoaded)
            /\ DOMAIN dRows' = 1..Len(dRows) + Len(dLoaded)
            /\ \A n \in 1..Len(dRows) + Len(dLoaded) :
                 dRows'[n] = IF n <= Len(dRows) THEN dRows[n] ELSE dLoaded[n - Len(dRows)]
        BY <2>4, ListConcat DEF HistoryInv
      <3>2. dCopied \in Nat /\ dCopied <= Len(dRows')
        BY <3>1 DEF HistoryInv
      <3>3. ASSUME NEW n \in DOMAIN dRows'
            PROVE  IF n <= dCopied THEN dRows'[n] = dOld[n] ELSE dRows'[n].from # "old"
        <4>1. CASE n <= Len(dRows)
          <5>1. n \in DOMAIN dRows /\ dRows'[n] = dRows[n]
            BY <3>1, <4>1
          <5> QED BY <5>1 DEF HistoryInv
        <4>2. CASE ~(n <= Len(dRows))
          <5>1. n - Len(dRows) \in DOMAIN dLoaded /\ ~(n <= dCopied)
            BY <3>1, <4>2 DEF HistoryInv
          <5>2. dRows'[n] = dLoaded[n - Len(dRows)]
            BY <3>1, <4>2
          <5> QED BY <5>1, <5>2 DEF HistoryInv, From
        <4> QED BY <4>1, <4>2
      <3> QED BY <2>1, <2>2, <3>1, <3>2, <3>3 DEF HistoryInv, Importing, From
    <2> QED BY <1>2, <2>3, <2>4 DEF Recording!BatchRecord
  <1> QED BY <1>1, <1>2

LEMMA HistoryImport ==
  ASSUME HistoryInv, NEW p \in DImporters,
         Recording!BeginImport(p) \/ Recording!Commit(p) \/ Recording!Rollback(p)
  PROVE  HistoryInv'
  <1>1. CASE Recording!BeginImport(p)
    <2>1. UNCHANGED <<dRows, dOld, dBash, dLoaded, dCopied>>
      BY <1>1 DEF Recording!BeginImport
    <2>2. /\ dPc' = [dPc EXCEPT ![p] = "copy"]
          /\ dSeen' = [dSeen EXCEPT ![p] = [rows |-> dRows, old |-> dOld]] /\ dRows = <<>>
      BY <1>1 DEF Recording!BeginImport, Recording!Wanted
    <2>3. Begins(dOld, dOld)
      <3>1. Len(dOld) \in Nat
        BY DEF HistoryInv, IsSequence
      <3> QED BY <3>1 DEF Begins
    <2>4. ASSUME NEW q \in DImporters PROVE Importing(q)'
      <3>1. CASE q = p
        BY <2>1, <2>2, <2>3, <3>1 DEF HistoryInv, Importing, From
      <3>2. CASE q # p
        BY <2>1, <2>2, <3>2 DEF HistoryInv, Importing, From
      <3> QED BY <3>1, <3>2
    <2> QED BY <2>1, <2>2, <2>4 DEF HistoryInv, From
  <1>2. CASE Recording!Commit(p)
    <2> DEFINE s == dSeen[p].old
    <2>1. UNCHANGED <<dOld, dBash, dSeen, dLoaded>>
      BY <1>2 DEF Recording!Commit
    <2>2. /\ dPc[p] = "copy" /\ dRows = dSeen[p].rows /\ dRows' = dRows \o s
          /\ dCopied' = Len(s) /\ dPc' = [dPc EXCEPT ![p] = "idle"]
      BY <1>2 DEF Recording!Commit, Recording!Isolated
    <2>3. dRows = <<>> /\ IsSequence(s) /\ Begins(s, dOld)
      BY <2>2 DEF HistoryInv, Importing
    <2> HIDE DEF s
    <2>4. s \in Seq({s[n] : n \in DOMAIN s})
      BY <2>3 DEF IsSequence
    <2>5. dRows' = s
      BY <2>2, <2>3, <2>4
    <2>6. Len(s) \in Nat /\ DOMAIN s = 1..Len(s)
      BY <2>4
    <2>7. \A n \in DOMAIN dRows' : n <= dCopied' /\ dRows'[n] = dOld[n]
      BY <2>2, <2>3, <2>5, <2>6 DEF Begins
    <2>8. dCopied' \in Nat /\ dCopied' <= Len(dOld) /\ dCopied' <= Len(dRows')
      BY <2>2, <2>3, <2>5, <2>6 DEF Begins
    <2>9. ASSUME NEW q \in DImporters PROVE Importing(q)'
      BY <2>1, <2>2 DEF HistoryInv, Importing, From
    <2> QED BY <2>1, <2>2, <2>3, <2>5, <2>7, <2>8, <2>9 DEF HistoryInv, From
  <1>3. CASE Recording!Rollback(p)
    <2>1. UNCHANGED <<dRows, dOld, dBash, dSeen, dLoaded, dCopied>>
      BY <1>3 DEF Recording!Rollback
    <2>2. dPc' = [dPc EXCEPT ![p] = "idle"]
      BY <1>3 DEF Recording!Rollback
    <2> QED BY <2>1, <2>2 DEF HistoryInv, Importing, From
  <1> QED BY <1>1, <1>2, <1>3

LEMMA HistoryOldRecord == HistoryInv /\ Recording!OldRecord => HistoryInv'
  <1> SUFFICES ASSUME HistoryInv, Recording!OldRecord PROVE HistoryInv'
    OBVIOUS
  <1>1. PICK e : dOld' = Append(dOld, e) /\ e.from = "old"
    BY DEF Recording!OldRecord, Recording!Event
  <1>2. UNCHANGED <<dRows, dBash, dPc, dSeen, dLoaded, dCopied>>
    BY DEF Recording!OldRecord
  <1>3. /\ IsSequence(dOld') /\ Len(dOld) \in Nat /\ DOMAIN dOld = 1..Len(dOld)
        /\ Len(dOld') = Len(dOld) + 1 /\ DOMAIN dOld' = 1..Len(dOld) + 1
        /\ \A n \in 1..Len(dOld) : dOld'[n] = dOld[n]
        /\ dOld'[Len(dOld) + 1] = e
    BY <1>1, ListAppend DEF HistoryInv
  <1>4. From(dOld', {"old"})
    <2>1. \A n \in DOMAIN dOld' : n \in 1..Len(dOld) \/ n = Len(dOld) + 1
      BY <1>3
    <2> QED BY <1>1, <1>3, <2>1 DEF HistoryInv, From
  <1>5. dCopied <= Len(dOld')
    BY <1>3 DEF HistoryInv
  <1>6. ASSUME NEW n \in DOMAIN dRows
        PROVE  IF n <= dCopied THEN dRows[n] = dOld'[n] ELSE dRows[n].from # "old"
    <2>1. n \in Nat /\ n >= 1
      <3>1. DOMAIN dRows = 1..Len(dRows) /\ Len(dRows) \in Nat
        BY DEF HistoryInv, IsSequence
      <3> QED BY <3>1
    <2>2. n <= dCopied => n \in 1..Len(dOld)
      BY <1>3, <2>1 DEF HistoryInv
    <2> QED BY <1>3, <2>2 DEF HistoryInv
  <1>7. ASSUME NEW p \in DImporters PROVE Importing(p)'
    <2>1. ASSUME dPc[p] = "copy" PROVE Begins(dSeen[p].old, dOld')
      <3> DEFINE s == dSeen[p].old
      <3>1. IsSequence(s) /\ Begins(s, dOld)
        BY <2>1 DEF HistoryInv, Importing
      <3> HIDE DEF s
      <3>2. Len(s) \in Nat
        BY <3>1 DEF IsSequence
      <3>3. Len(s) <= Len(dOld') /\ \A n \in 1..Len(s) : n \in 1..Len(dOld)
        BY <1>3, <3>1, <3>2 DEF Begins
      <3>4. Begins(s, dOld')
        BY <1>3, <3>1, <3>3 DEF Begins
      <3> QED BY <3>4 DEF s
    <2> QED BY <1>2, <2>1 DEF HistoryInv, Importing, From
  <1> QED BY <1>2, <1>3, <1>4, <1>5, <1>6, <1>7 DEF HistoryInv, From

LEMMA HistoryNext == HistoryInv /\ [Recording!Next]_historyVars => HistoryInv'
  <1> SUFFICES ASSUME HistoryInv, [Recording!Next]_historyVars PROVE HistoryInv'
    OBVIOUS
  <1>0. Recording!Next \/ UNCHANGED historyVars
    OBVIOUS
  <1>1. ASSUME UNCHANGED <<dRows, dOld, dBash, dPc, dSeen, dLoaded, dCopied>> PROVE HistoryInv'
    BY <1>1 DEF HistoryInv, From, Importing
  <1>2. Recording!Tick \/ UNCHANGED historyVars
          => UNCHANGED <<dRows, dOld, dBash, dPc, dSeen, dLoaded, dCopied>>
    BY DEF Recording!Tick, historyVars
  <1> QED BY <1>0, <1>1, <1>2, HistoryRecord, HistoryIngest, HistoryImport, HistoryOldRecord
          DEF Recording!Next

LEMMA HistoryImported == HistoryInv => Recording!ImportedOnce
  BY DEF HistoryInv, Recording!ImportedOnce

LEMMA TimedInit == Recording!Init => HistoryTimed
  <1> SUFFICES ASSUME Recording!Init PROVE HistoryTimed
    OBVIOUS
  <1>1. Timed(<<>>)
    BY DEF Timed
  <1>2. ASSUME NEW e, e.at \in Int PROVE Timed(<<e>>)
    BY <1>2 DEF Timed
  <1>3. Timed(dRows) /\ Timed(dOld)
    BY <1>1, <1>2 DEF Recording!Init, Recording!Event
  <1> QED BY <1>1, <1>3 DEF Recording!Init, HistoryTimed

LEMMA TimedAppend ==
  ASSUME NEW s, IsSequence(s), Timed(s), NEW e, e.at \in Int
  PROVE  Timed(Append(s, e))
  <1>1. /\ Len(s) \in Nat /\ DOMAIN s = 1..Len(s) /\ DOMAIN Append(s, e) = 1..Len(s) + 1
        /\ \A n \in 1..Len(s) : Append(s, e)[n] = s[n]
        /\ Append(s, e)[Len(s) + 1] = e
    BY ListAppend
  <1>2. \A n \in 1..Len(s) + 1 : n \in 1..Len(s) \/ n = Len(s) + 1
    BY <1>1
  <1> QED BY <1>1, <1>2 DEF Timed

LEMMA TimedNext ==
  HistoryInv /\ HistoryTimed /\ [Recording!Next]_historyVars => HistoryTimed'
  <1> SUFFICES ASSUME HistoryInv, HistoryTimed, [Recording!Next]_historyVars PROVE HistoryTimed'
    OBVIOUS
  <1>1. CASE Recording!Record
    <2>1. PICK e : dRows' = Append(dRows, e) /\ e.at = dNow
      BY <1>1 DEF Recording!Record, Recording!Event
    <2>2. UNCHANGED <<dOld, dNow, dPc, dSeen, dLoaded>>
      BY <1>1 DEF Recording!Record
    <2>3. Timed(dRows')
      BY <2>1, TimedAppend DEF HistoryInv, HistoryTimed
    <2> QED BY <2>2, <2>3 DEF HistoryTimed
  <1>2. CASE Recording!LoadEvents
    <2>1. Timed(dLoaded')
      BY <1>2, Ingested DEF HistoryInv, Recording!LoadEvents
    <2>2. UNCHANGED <<dRows, dOld, dNow, dPc, dSeen>>
      BY <1>2 DEF Recording!LoadEvents
    <2> QED BY <2>1, <2>2 DEF HistoryTimed
  <1>3. CASE Recording!BatchRecord
    <2>1. dRows' \in {dRows \o dLoaded, dRows} /\ dLoaded' = <<>>
      BY <1>3 DEF Recording!BatchRecord
    <2>2. UNCHANGED <<dOld, dNow, dPc, dSeen>>
      BY <1>3 DEF Recording!BatchRecord
    <2>3. Timed(dRows \o dLoaded)
      <3> DEFINE N == Len(dRows)
                 M == Len(dLoaded)
      <3>1. /\ N \in Nat /\ DOMAIN dRows = 1..N /\ M \in Nat /\ DOMAIN dLoaded = 1..M
            /\ DOMAIN (dRows \o dLoaded) = 1..N + M
            /\ \A n \in 1..N + M :
                 (dRows \o dLoaded)[n] = IF n <= N THEN dRows[n] ELSE dLoaded[n - N]
        BY ListConcat DEF HistoryInv
      <3> HIDE DEF N, M
      <3>2. \A n \in 1..N + M : IF n <= N THEN n \in 1..N ELSE n - N \in 1..M
        BY <3>1
      <3> QED BY <3>1, <3>2 DEF HistoryTimed, Timed
    <2>4. Timed(dRows') /\ Timed(dLoaded')
      <3>1. Timed(<<>>)
        BY DEF Timed
      <3> QED BY <2>1, <2>3, <3>1 DEF HistoryTimed
    <2> QED BY <2>2, <2>4 DEF HistoryTimed
  <1>4. ASSUME NEW p \in DImporters, Recording!BeginImport(p) PROVE HistoryTimed'
    <2>1. UNCHANGED <<dRows, dOld, dNow, dLoaded>>
      BY <1>4 DEF Recording!BeginImport
    <2>2. /\ dPc' = [dPc EXCEPT ![p] = "copy"]
          /\ dSeen' = [dSeen EXCEPT ![p] = [rows |-> dRows, old |-> dOld]]
      BY <1>4 DEF Recording!BeginImport
    <2>3. ASSUME NEW q \in DImporters, dPc'[q] = "copy" PROVE Timed(dSeen'[q].old)
      <3>1. CASE q = p
        BY <2>2, <3>1 DEF HistoryInv, HistoryTimed
      <3>2. CASE q # p
        BY <2>2, <2>3, <3>2 DEF HistoryInv, HistoryTimed
      <3> QED BY <3>1, <3>2
    <2> QED BY <2>1, <2>3 DEF HistoryTimed
  <1>5. ASSUME NEW p \in DImporters, Recording!Commit(p) PROVE HistoryTimed'
    <2> DEFINE s == dSeen[p].old
    <2>1. UNCHANGED <<dOld, dNow, dSeen, dLoaded>>
      BY <1>5 DEF Recording!Commit
    <2>2. /\ dPc[p] = "copy" /\ dRows = dSeen[p].rows /\ dRows' = dRows \o s
          /\ dPc' = [dPc EXCEPT ![p] = "idle"]
      BY <1>5 DEF Recording!Commit, Recording!Isolated
    <2>3. dRows = <<>> /\ IsSequence(s) /\ Timed(s)
      BY <2>2 DEF HistoryInv, Importing, HistoryTimed
    <2> HIDE DEF s
    <2>4. s \in Seq({s[n] : n \in DOMAIN s})
      BY <2>3 DEF IsSequence
    <2>5. dRows' = s
      BY <2>2, <2>3, <2>4
    <2>6. \A q \in DImporters : dPc'[q] = "copy" => dPc[q] = "copy"
      BY <2>2 DEF HistoryInv
    <2> QED BY <2>1, <2>3, <2>5, <2>6 DEF HistoryTimed
  <1>6. ASSUME NEW p \in DImporters, Recording!Rollback(p) PROVE HistoryTimed'
    <2>1. dPc' = [dPc EXCEPT ![p] = "idle"]
      BY <1>6 DEF Recording!Rollback
    <2>2. UNCHANGED <<dRows, dOld, dNow, dSeen, dLoaded>>
      BY <1>6 DEF Recording!Rollback
    <2>3. \A q \in DImporters : dPc'[q] = "copy" => dPc[q] = "copy"
      BY <2>1 DEF HistoryInv
    <2> QED BY <2>2, <2>3 DEF HistoryTimed
  <1>7. CASE Recording!OldRecord
    <2>1. PICK e : dOld' = Append(dOld, e) /\ e.at = dNow
      BY <1>7 DEF Recording!OldRecord, Recording!Event
    <2>2. UNCHANGED <<dRows, dNow, dPc, dSeen, dLoaded>>
      BY <1>7 DEF Recording!OldRecord
    <2>3. Timed(dOld')
      BY <2>1, TimedAppend DEF HistoryInv, HistoryTimed
    <2> QED BY <2>2, <2>3 DEF HistoryTimed
  <1>8. CASE Recording!Tick
    <2>1. UNCHANGED <<dRows, dOld, dPc, dSeen, dLoaded>> /\ dNow' = dNow + 1
      BY <1>8 DEF Recording!Tick
    <2> QED BY <2>1 DEF HistoryTimed
  <1>9. CASE UNCHANGED historyVars
    <2>1. UNCHANGED <<dRows, dOld, dNow, dPc, dSeen, dLoaded>>
      BY <1>9 DEF historyVars
    <2> QED BY <2>1 DEF HistoryTimed
  <1>10. Recording!Next \/ UNCHANGED historyVars
    OBVIOUS
  <1> QED BY <1>1, <1>2, <1>3, <1>4, <1>5, <1>6, <1>7, <1>8, <1>9, <1>10 DEF Recording!Next

--------------------------------------------------------------------------------
(* What a list shows of the rows, from recursive functions on 0..L. *)

LEMMA Upwards ==
  ASSUME NEW L \in Nat, NEW T, 0 \in T, \A n \in 1..L : n - 1 \in T => n \in T
  PROVE  0..L \subseteq T
  <1> DEFINE Missing == (0..L) \ T
  <1> SUFFICES ASSUME Missing # {} PROVE FALSE
    OBVIOUS
  <1>1. PICK n \in Missing : \A m \in Missing : n <= m
    <2>1. Missing \in SUBSET Nat
      OBVIOUS
    <2> HIDE DEF Missing
    <2> QED BY <2>1, LeastOf
  <1>2. n \in 1..L /\ n - 1 \in 0..L /\ ~(n <= n - 1)
    BY <1>1
  <1>3. n - 1 \in T
    BY <1>1, <1>2
  <1> QED BY <1>1, <1>2, <1>3

Computed(f, L, S, start, step) ==
  f \in [0..L -> S] /\ f[0] = start /\ \A n \in 1..L : f[n] = step[<<n, f[n - 1]>>]

LEMMA Recursion ==
  ASSUME NEW L \in Nat, NEW S, NEW start \in S, NEW step \in [(1..L) \X S -> S]
  PROVE  \E f : Computed(f, L, S, start, step)
  <1> DEFINE Follows(f, n) == f[0] = start /\ \A i \in 1..n : f[i] = step[<<i, f[i - 1]>>]
             T == {n \in 0..L : \E f \in [0..n -> S] : Follows(f, n)}
  <1>1. 0 \in T
    <2> DEFINE f == [i \in 0..0 |-> start]
    <2>1. f \in [0..0 -> S] /\ f[0] = start
      OBVIOUS
    <2> HIDE DEF f
    <2>2. Follows(f, 0)
      BY <2>1
    <2> QED BY <2>1, <2>2
  <1>2. ASSUME NEW n \in 1..L, n - 1 \in T PROVE n \in T
    <2>0. n \in 0..L /\ n - 1 \in 0..L
      OBVIOUS
    <2>1. PICK f \in [0..n - 1 -> S] : Follows(f, n - 1)
      BY <1>2
    <2> DEFINE g == [i \in 0..n |-> IF i = n THEN step[<<n, f[n - 1]>>] ELSE f[i]]
    <2>2. g \in [0..n -> S]
      <3>1. step[<<n, f[n - 1]>>] \in S
        <4>1. f[n - 1] \in S
          BY <2>0
        <4> QED BY <4>1
      <3>2. \A i \in 0..n : i # n => i \in 0..n - 1
        OBVIOUS
      <3> QED BY <3>1, <3>2
    <2>3. \A i \in 1..n : g[i] = step[<<i, g[i - 1]>>]
      <3> SUFFICES ASSUME NEW i \in 1..n PROVE g[i] = step[<<i, g[i - 1]>>]
        OBVIOUS
      <3>1. i - 1 \in 0..n /\ i - 1 # n /\ i \in 0..n
        OBVIOUS
      <3>2. g[i - 1] = f[i - 1]
        BY <3>1
      <3>3. CASE i = n
        BY <3>1, <3>2, <3>3
      <3>4. CASE i # n
        <4>1. i \in 1..n - 1
          BY <3>4
        <4> QED BY <2>1, <3>1, <3>2, <3>4, <4>1
      <3> QED BY <3>3, <3>4
    <2>4. g[0] = start
      BY <2>0, <2>1
    <2> HIDE DEF g
    <2> QED BY <2>0, <2>2, <2>3, <2>4
  <1>3. 0..L \subseteq T
    <2> HIDE DEF T
    <2> QED BY <1>1, <1>2, Upwards
  <1>4. L \in T
    <2>1. L \in 0..L
      OBVIOUS
    <2> HIDE DEF T
    <2> QED BY <1>3, <2>1
  <1> QED BY <1>4 DEF Computed

(***************************************************************************)
(* What is listed is computed from the rows in an order.  An order of the  *)
(* numbers up to n is some sequence, in which every number comes after     *)
(* exactly those that are before it.                                       *)
(***************************************************************************)
Orders(R, n) ==
  /\ \A i \in 1..n : <<i, i>> \notin R
  /\ \A i, j \in 1..n : i # j => <<i, j>> \in R \/ <<j, i>> \in R
  /\ \A i, j, k \in 1..n : <<i, j>> \in R /\ <<j, k>> \in R => <<i, k>> \in R
Before(R, n, i) == {j \in 1..n : <<j, i>> \in R}
InOrder(s, R, n) ==
  s \in [1..n -> 1..n] /\ \A k, m \in 1..n : k < m => <<s[k], s[m]>> \in R

LEMMA UpTo ==
  ASSUME NEW n \in Nat
  PROVE  IsFiniteSet(1..n) /\ Cardinality(1..n) = n
  <1>1. 1 \in Int /\ n \in Int
    OBVIOUS
  <1>2. IsFiniteSet(1..n) /\ Cardinality(1..n) = IF 1 > n THEN 0 ELSE n - 1 + 1
    BY <1>1, FS_Interval
  <1> QED BY <1>2

LEMMA OneToOne ==
  ASSUME NEW n \in Nat, NEW s \in [1..n -> 1..n], \A k, m \in 1..n : s[k] = s[m] => k = m
  PROVE  \A i \in 1..n : \E k \in 1..n : s[k] = i
  <1>1. s \in Injection(1..n, 1..n)
    BY DEF Injection, IsInjective
  <1>2. s \in Surjection(1..n, 1..n)
    BY <1>1, UpTo, FS_Injection
  <1> QED BY <1>2 DEF Surjection

LEMMA Ranks ==
  ASSUME NEW n \in Nat, NEW R, Orders(R, n)
  PROVE  /\ \A i \in 1..n : Cardinality(Before(R, n, i)) + 1 \in 1..n
         /\ \A i, j \in 1..n :
              <<i, j>> \in R => Cardinality(Before(R, n, i)) < Cardinality(Before(R, n, j))
  <1>1. ASSUME NEW i \in 1..n
        PROVE  /\ IsFiniteSet(Before(R, n, i)) /\ Cardinality(Before(R, n, i)) \in Nat
               /\ Cardinality(Before(R, n, i)) <= n /\ Cardinality(Before(R, n, i)) # n
    <2>1. Before(R, n, i) \in SUBSET (1..n) /\ i \notin Before(R, n, i)
      BY DEF Before, Orders
    <2>2. /\ IsFiniteSet(Before(R, n, i)) /\ Cardinality(Before(R, n, i)) <= n
          /\ n = Cardinality(Before(R, n, i)) => 1..n = Before(R, n, i)
      BY <2>1, UpTo, FS_Subset
    <2>3. Cardinality(Before(R, n, i)) \in Nat
      BY <2>2, FS_CardinalityType
    <2>4. n # Cardinality(Before(R, n, i))
      BY <2>1, <2>2
    <2> QED BY <2>2, <2>3, <2>4
  <1>2. ASSUME NEW i \in 1..n, NEW j \in 1..n, <<i, j>> \in R
        PROVE  Cardinality(Before(R, n, i)) < Cardinality(Before(R, n, j))
    <2>1. Before(R, n, i) \in SUBSET Before(R, n, j)
      BY <1>2 DEF Before, Orders
    <2>2. i \in Before(R, n, j) /\ i \notin Before(R, n, i)
      BY <1>2 DEF Before, Orders
    <2>3. /\ Cardinality(Before(R, n, i)) <= Cardinality(Before(R, n, j))
          /\ Cardinality(Before(R, n, j)) = Cardinality(Before(R, n, i))
               => Before(R, n, j) = Before(R, n, i)
      BY <1>1, <2>1, FS_Subset
    <2>4. Cardinality(Before(R, n, j)) # Cardinality(Before(R, n, i))
      BY <2>2, <2>3
    <2> QED BY <1>1, <2>3, <2>4
  <1>3. ASSUME NEW i \in 1..n PROVE Cardinality(Before(R, n, i)) + 1 \in 1..n
    <2> DEFINE c == Cardinality(Before(R, n, i))
    <2>1. c \in Nat /\ c <= n /\ c # n
      BY <1>1
    <2> HIDE DEF c
    <2>2. c + 1 \in 1..n
      BY <2>1
    <2> QED BY <2>2 DEF c
  <1> QED BY <1>2, <1>3

LEMMA OrderExists ==
  ASSUME NEW n \in Nat, NEW R, Orders(R, n)
  PROVE  \E s : InOrder(s, R, n)
  <1> DEFINE r == [i \in 1..n |-> Cardinality(Before(R, n, i)) + 1]
  <1>1. r \in [1..n -> 1..n] /\ \A i, j \in 1..n : <<i, j>> \in R => r[i] < r[j]
    <2>1. ASSUME NEW i \in 1..n, NEW j \in 1..n, <<i, j>> \in R PROVE r[i] < r[j]
      <3> DEFINE a == Cardinality(Before(R, n, i))
                 b == Cardinality(Before(R, n, j))
      <3>1. a + 1 \in 1..n /\ b + 1 \in 1..n /\ a < b
        BY <2>1, Ranks
      <3>2. a \in Nat /\ b \in Nat
        <4>1. IsFiniteSet(Before(R, n, i)) /\ IsFiniteSet(Before(R, n, j))
          <5>1. Before(R, n, i) \in SUBSET (1..n) /\ Before(R, n, j) \in SUBSET (1..n)
            BY DEF Before
          <5> QED BY <5>1, UpTo, FS_Subset
        <4> QED BY <4>1, FS_CardinalityType
      <3> HIDE DEF a, b
      <3>3. a + 1 < b + 1
        BY <3>1, <3>2
      <3> QED BY <3>3 DEF a, b
    <2>2. r \in [1..n -> 1..n]
      BY Ranks
    <2> QED BY <2>1, <2>2
  <1> HIDE DEF r
  <1>2. \A i, j \in 1..n : r[i] = r[j] => i = j
    <2> SUFFICES ASSUME NEW i \in 1..n, NEW j \in 1..n, r[i] = r[j], i # j PROVE FALSE
      OBVIOUS
    <2>1. <<i, j>> \in R \/ <<j, i>> \in R
      BY DEF Orders
    <2>2. r[i] \in Int /\ r[j] \in Int
      BY <1>1
    <2> QED BY <1>1, <2>1, <2>2
  <1>3. \A k \in 1..n : \E i \in 1..n : r[i] = k
    BY <1>1, <1>2, OneToOne
  <1> DEFINE s == [k \in 1..n |-> CHOOSE i \in 1..n : r[i] = k]
  <1>4. s \in [1..n -> 1..n] /\ \A k \in 1..n : r[s[k]] = k
    BY <1>3
  <1> HIDE DEF s
  <1>5. ASSUME NEW k \in 1..n, NEW m \in 1..n, k < m PROVE <<s[k], s[m]>> \in R
    <2>1. s[k] \in 1..n /\ s[m] \in 1..n /\ r[s[k]] = k /\ r[s[m]] = m
      BY <1>4
    <2>2. s[k] # s[m] /\ ~(r[s[m]] < r[s[k]])
      BY <1>5, <2>1
    <2> QED BY <1>1, <2>1, <2>2 DEF Orders
  <1>6. InOrder(s, R, n)
    BY <1>4, <1>5 DEF InOrder
  <1> QED BY <1>6

Enumerates(s, R, n) ==
  /\ s \in [1..n -> 1..n] /\ \A k, m \in 1..n : k < m => <<s[k], s[m]>> \in R
  /\ \A i \in 1..n : \E k \in 1..n : s[k] = i
  /\ \A k, m \in 1..n : s[k] = s[m] => k = m
  /\ \A k \in 1..n : Cardinality(Before(R, n, s[k])) = k - 1

LEMMA OrderIs ==
  ASSUME NEW n \in Nat, NEW R, Orders(R, n), NEW s, InOrder(s, R, n)
  PROVE  Enumerates(s, R, n)
  <1>0. s \in [1..n -> 1..n] /\ \A k, m \in 1..n : k < m => <<s[k], s[m]>> \in R
    BY DEF InOrder
  <1>1. \A k, m \in 1..n : s[k] = s[m] => k = m
    <2> SUFFICES ASSUME NEW k \in 1..n, NEW m \in 1..n, s[k] = s[m], k # m PROVE FALSE
      OBVIOUS
    <2>1. k < m \/ m < k
      OBVIOUS
    <2> QED BY <1>0, <2>1 DEF Orders
  <1>2. \A i \in 1..n : \E k \in 1..n : s[k] = i
    BY <1>0, <1>1, OneToOne
  <1>3. ASSUME NEW k \in 1..n PROVE Cardinality(Before(R, n, s[k])) = k - 1
    <2> DEFINE B == Before(R, n, s[k])
               f == [m \in 1..k - 1 |-> s[m]]
    <2>0. k - 1 \in Nat /\ 1..k - 1 \subseteq 1..n /\ \A m \in 1..k - 1 : m < k
      OBVIOUS
    <2>1. \A m \in 1..k - 1 : f[m] \in B
      BY <1>0, <2>0 DEF Before
    <2>2. \A i \in B : \E m \in 1..k - 1 : f[m] = i
      <3> SUFFICES ASSUME NEW i \in B PROVE \E m \in 1..k - 1 : f[m] = i
        OBVIOUS
      <3>1. i \in 1..n /\ <<i, s[k]>> \in R
        BY DEF Before
      <3>2. PICK m \in 1..n : s[m] = i
        BY <1>2, <3>1
      <3>3. ~(k < m) /\ k # m
        <4>1. s[k] \in 1..n
          BY <1>0
        <4> QED BY <1>0, <3>1, <3>2, <4>1 DEF Orders
      <3>4. m \in 1..k - 1
        BY <3>3
      <3> QED BY <3>2, <3>4
    <2>3. f \in Bijection(1..k - 1, B)
      BY <1>1, <2>0, <2>1, <2>2 DEF Bijection, Injection, IsInjective, Surjection
    <2> HIDE DEF f, B
    <2>4. ExistsBijection(1..k - 1, B)
      BY <2>3 DEF ExistsBijection
    <2>5. Cardinality(B) = Cardinality(1..k - 1) /\ Cardinality(1..k - 1) = k - 1
      BY <2>0, <2>4, UpTo, FS_Bijection
    <2> QED BY <2>5 DEF B
  <1> QED BY <1>0, <1>1, <1>2, <1>3 DEF Enumerates

LEMMA RowsOrdered ==
  ASSUME IsSequence(dRows), Timed(dRows)
  PROVE  /\ Len(dRows) \in Nat /\ DOMAIN dRows = 1..Len(dRows)
         /\ Orders(Recording!ByTime, Len(dRows))
         /\ \A d : Orders(Recording!ByDirectory(d), Len(dRows))
  <1>1. Len(dRows) \in Nat /\ DOMAIN dRows = 1..Len(dRows)
    BY DEF IsSequence
  <1> DEFINE D == 1..Len(dRows)
             L(i, j) == Recording!Later(i, j)
  <1>2. \A i \in D : i \in Int /\ dRows[i].at \in Int
    BY <1>1 DEF Timed
  <1>3. /\ \A i \in D : ~L(i, i)
        /\ \A i, j \in D : i # j => L(i, j) \/ L(j, i)
        /\ \A i, j, k \in D : L(i, j) /\ L(j, k) => L(i, k)
    <2>1. ASSUME NEW i \in D, NEW j \in D PROVE ~L(i, i) /\ (i # j => L(i, j) \/ L(j, i))
      <3>1. i \in Int /\ j \in Int /\ dRows[i].at \in Int /\ dRows[j].at \in Int
        BY <1>2
      <3> QED BY <3>1 DEF Recording!Later
    <2>2. ASSUME NEW i \in D, NEW j \in D, NEW k \in D, L(i, j), L(j, k) PROVE L(i, k)
      <3>1. /\ i \in Int /\ j \in Int /\ k \in Int
            /\ dRows[i].at \in Int /\ dRows[j].at \in Int /\ dRows[k].at \in Int
        BY <1>2
      <3> QED BY <2>2, <3>1 DEF Recording!Later
    <2> QED BY <2>1, <2>2
  <1>4. \A i, j \in D : <<i, j>> \in Recording!ByTime <=> L(i, j)
    BY <1>1 DEF Recording!ByTime
  <1>5. ASSUME NEW d
        PROVE  \A i, j \in D :
                 <<i, j>> \in Recording!ByDirectory(d)
                   <=> \/ dRows[i].cwd = d /\ dRows[j].cwd # d
                       \/ (dRows[i].cwd = d <=> dRows[j].cwd = d) /\ L(i, j)
    BY <1>1 DEF Recording!ByDirectory
  <1> HIDE DEF L, D
  <1>6. Orders(Recording!ByTime, Len(dRows))
    BY <1>3, <1>4 DEF Orders, D
  <1>7. ASSUME NEW d PROVE Orders(Recording!ByDirectory(d), Len(dRows))
    <2> DEFINE R == Recording!ByDirectory(d)
               H(i) == dRows[i].cwd = d
    <2>1. \A i, j \in D : <<i, j>> \in R <=> (H(i) /\ ~H(j)) \/ ((H(i) <=> H(j)) /\ L(i, j))
      BY <1>5
    <2> HIDE DEF R, H
    <2>2. \A i \in D : <<i, i>> \notin R
      BY <1>3, <2>1
    <2>3. \A i, j \in D : i # j => <<i, j>> \in R \/ <<j, i>> \in R
      BY <1>3, <2>1
    <2>4. \A i, j, k \in D : <<i, j>> \in R /\ <<j, k>> \in R => <<i, k>> \in R
      BY <1>3, <2>1
    <2> QED BY <2>2, <2>3, <2>4 DEF Orders, D, R
  <1> QED BY <1>1, <1>6, <1>7

LEMMA SortedIs ==
  ASSUME IsSequence(dRows), NEW R, Orders(R, Len(dRows))
  PROVE  InOrder(Recording!Sorted(R), R, Len(dRows))
  <1>1. Len(dRows) \in Nat /\ DOMAIN dRows = 1..Len(dRows)
    BY DEF IsSequence
  <1>2. \E s : InOrder(s, R, Len(dRows))
    BY <1>1, OrderExists
  <1> QED BY <1>1, <1>2, Zenon DEF InOrder, Recording!Sorted

\* The first n of a sequence of length N are its first h, the smaller of the two.
LEMMA FirstIs ==
  ASSUME NEW N \in Nat, NEW s \in [1..N -> 1..N], NEW n \in Nat
  PROVE  \E h \in 0..N :
           /\ h = (IF n < N THEN n ELSE N)
           /\ Len(Recording!First(s, n)) = h /\ DOMAIN Recording!First(s, n) = 1..h
           /\ \A k \in 1..h : Recording!First(s, n)[k] = s[k]
  <1> DEFINE h == IF n < N THEN n ELSE N
  <1>1. s \in Seq(1..N) /\ Len(s) = N
    OBVIOUS
  <1>2. h \in 0..N
    OBVIOUS
  <1>3. Recording!First(s, n) = SubSeq(s, 1, h)
    BY <1>1 DEF Recording!First
  <1> HIDE DEF h
  <1>4. /\ Len(SubSeq(s, 1, h)) = h /\ DOMAIN SubSeq(s, 1, h) = 1..h
        /\ \A k \in 1..h : SubSeq(s, 1, h)[k] = s[k]
    BY <1>1, <1>2
  <1> QED BY <1>2, <1>3, <1>4 DEF h

(***************************************************************************)
(* What the first k of the ids t collapse to: each line has the first of   *)
(* the ids with its command and directory, counts them, and every id has a *)
(* line; the lines are in the order of the ids.                            *)
(***************************************************************************)
Shown(i) == Recording!Key(dRows[i])
Among(t, k, i) == {j \in {t[q] : q \in 1..k} : Shown(j) = Shown(i)}
Line == [id : Nat, count : Nat]
LeadsOff(acc, t, k) ==
  \A m \in DOMAIN acc : \E p \in 1..k :
    acc[m].id = t[p] /\ \A q \in 1..k : Shown(t[q]) = Shown(t[p]) => p <= q
Counts(acc, t, k) == \A m \in DOMAIN acc : acc[m].count = Cardinality(Among(t, k, acc[m].id))
AllShown(acc, t, k) == \A q \in 1..k : \E m \in DOMAIN acc : Shown(acc[m].id) = Shown(t[q])
Falling(acc) == \A m, l \in DOMAIN acc : m < l => <<acc[m].id, acc[l].id>> \in Recording!ByTime
Lines(acc, t, k) ==
  acc \in Seq(Line) /\ LeadsOff(acc, t, k) /\ Counts(acc, t, k) /\ AllShown(acc, t, k) /\ Falling(acc)

\* Ids of rows, each of a row before the next.
Ids(t, h) ==
  /\ \A k \in 1..h : t[k] \in 1..Len(dRows)
  /\ \A k, m \in 1..h : k < m => <<t[k], t[m]>> \in Recording!ByTime
  /\ \A k, m \in 1..h : t[k] = t[m] => k = m

LEMMA OneMore ==
  ASSUME NEW N \in Nat, Len(dRows) = N, NEW h \in Nat, NEW t, Ids(t, h), NEW k \in 1..h, NEW i
  PROVE  /\ IsFiniteSet(Among(t, k - 1, i)) /\ Cardinality(Among(t, k - 1, i)) \in Nat
         /\ Shown(t[k]) # Shown(i) => Among(t, k, i) = Among(t, k - 1, i)
         /\ Shown(t[k]) = Shown(i) =>
              Cardinality(Among(t, k, i)) = Cardinality(Among(t, k - 1, i)) + 1
  <1> DEFINE A == Among(t, k - 1, i)
  <1>0. /\ \A q \in 1..k : q \in 1..k - 1 \/ q = k
        /\ \A q \in 1..k - 1 : q \in 1..k /\ q \in 1..h /\ q # k
        /\ k \in 1..k
    OBVIOUS
  <1>1. A \in SUBSET (1..N) /\ t[k] \notin A
    BY <1>0 DEF Among, Ids
  <1>2. IsFiniteSet(A) /\ Cardinality(A) \in Nat
    BY <1>1, UpTo, FS_Subset, FS_CardinalityType
  <1>3. Shown(t[k]) # Shown(i) => Among(t, k, i) = A
    BY <1>0 DEF Among
  <1>4. Shown(t[k]) = Shown(i) => Among(t, k, i) = A \cup {t[k]}
    BY <1>0 DEF Among
  <1> HIDE DEF A
  <1>5. Cardinality(A \cup {t[k]}) = Cardinality(A) + 1
    BY <1>1, <1>2, FS_AddElement
  <1> QED BY <1>2, <1>3, <1>4, <1>5 DEF A

\* A row whose command and directory have a line is counted there.
LEMMA CollapseInto ==
  ASSUME NEW N \in Nat, Len(dRows) = N, NEW h \in Nat, NEW t, Ids(t, h), NEW k \in 1..h,
         NEW acc, Lines(acc, t, k - 1), NEW l \in DOMAIN acc, Shown(acc[l].id) = Shown(t[k])
  PROVE  Lines(Recording!Collapse(acc, t[k]), t, k)
  <1> DEFINE new == Recording!Collapse(acc, t[k])
  <1>0. /\ \A q \in 1..k : q \in 1..k - 1 \/ q = k
        /\ \A q \in 1..k - 1 : q \in 1..k /\ q <= k
    OBVIOUS
  <1>1. new = [m \in DOMAIN acc |-> IF Shown(acc[m].id) = Shown(t[k])
                                    THEN [acc[m] EXCEPT !.count = @ + 1] ELSE acc[m]]
    BY DEF Recording!Collapse, Shown
  <1> HIDE DEF new
  <1>2. acc \in Seq(Line) /\ \A m \in DOMAIN acc : acc[m] \in Line
    BY DEF Lines
  <1>3. DOMAIN new = DOMAIN acc
    BY <1>1
  <1>4. ASSUME NEW m \in DOMAIN acc
        PROVE  /\ new[m] \in Line /\ new[m].id = acc[m].id
               /\ new[m].count = IF Shown(acc[m].id) = Shown(t[k]) THEN acc[m].count + 1
                                 ELSE acc[m].count
    <2>1. acc[m] = [id |-> acc[m].id, count |-> acc[m].count] /\ acc[m].id \in Nat /\ acc[m].count \in Nat
      BY <1>2 DEF Line
    <2>2. new[m] = IF Shown(acc[m].id) = Shown(t[k]) THEN [acc[m] EXCEPT !.count = @ + 1] ELSE acc[m]
      BY <1>1
    <2>3. [acc[m] EXCEPT !.count = @ + 1] = [id |-> acc[m].id, count |-> acc[m].count + 1]
      BY <2>1
    <2> QED BY <2>1, <2>2, <2>3 DEF Line
  <1>5. new \in Seq(Line)
    <2>1. Len(acc) \in Nat /\ DOMAIN acc = 1..Len(acc)
      BY <1>2
    <2>2. new \in [1..Len(acc) -> Line]
      BY <1>1, <1>3, <1>4, <2>1
    <2> QED BY <2>1, <2>2
  <1>6. LeadsOff(new, t, k)
    <2> SUFFICES ASSUME NEW m \in DOMAIN acc
                 PROVE  \E p \in 1..k : /\ new[m].id = t[p]
                                        /\ \A q \in 1..k : Shown(t[q]) = Shown(t[p]) => p <= q
      BY <1>3 DEF LeadsOff
    <2>1. PICK p \in 1..k - 1 :
            acc[m].id = t[p] /\ \A q \in 1..k - 1 : Shown(t[q]) = Shown(t[p]) => p <= q
      BY DEF Lines, LeadsOff
    <2>2. \A q \in 1..k : Shown(t[q]) = Shown(t[p]) => p <= q
      BY <1>0, <2>1
    <2> QED BY <1>0, <1>4, <2>1, <2>2
  <1>7. Counts(new, t, k)
    <2> SUFFICES ASSUME NEW m \in DOMAIN acc
                 PROVE  new[m].count = Cardinality(Among(t, k, acc[m].id))
      BY <1>3, <1>4 DEF Counts
    <2>1. acc[m].count = Cardinality(Among(t, k - 1, acc[m].id))
      BY DEF Lines, Counts
    <2>2. CASE Shown(acc[m].id) = Shown(t[k])
      <3>1. Cardinality(Among(t, k, acc[m].id)) = Cardinality(Among(t, k - 1, acc[m].id)) + 1
        BY <2>2, OneMore
      <3>2. new[m].count = acc[m].count + 1
        BY <1>4, <2>2
      <3> QED BY <2>1, <3>1, <3>2
    <2>3. CASE Shown(acc[m].id) # Shown(t[k])
      <3>1. Among(t, k, acc[m].id) = Among(t, k - 1, acc[m].id)
        BY <2>3, OneMore
      <3>2. new[m].count = acc[m].count
        BY <1>4, <2>3
      <3> QED BY <2>1, <3>1, <3>2
    <2> QED BY <2>2, <2>3
  <1>8. AllShown(new, t, k)
    <2> SUFFICES ASSUME NEW q \in 1..k
                 PROVE  \E m \in DOMAIN acc : Shown(acc[m].id) = Shown(t[q])
      BY <1>3, <1>4 DEF AllShown
    <2> QED BY <1>0 DEF Lines, AllShown
  <1>9. Falling(new)
    BY <1>3, <1>4 DEF Lines, Falling
  <1> QED BY <1>5, <1>6, <1>7, <1>8, <1>9 DEF Lines, new

\* Another row is a line of its own.
LEMMA CollapseAfter ==
  ASSUME NEW N \in Nat, Len(dRows) = N, NEW h \in Nat, NEW t, Ids(t, h), NEW k \in 1..h,
         NEW acc, Lines(acc, t, k - 1), \A l \in DOMAIN acc : Shown(acc[l].id) # Shown(t[k])
  PROVE  Lines(Recording!Collapse(acc, t[k]), t, k)
  <1> DEFINE e == [id |-> t[k], count |-> 1]
             new == Append(acc, e)
             L == Len(acc)
  <1>0. /\ \A q \in 1..k : q \in 1..k - 1 \/ q = k
        /\ \A q \in 1..k - 1 : q \in 1..k /\ q <= k /\ q \in 1..h /\ q < k
        /\ k \in 1..k /\ k <= k /\ k - 1 \in Nat
    OBVIOUS
  <1>1. Recording!Collapse(acc, t[k]) = new
    BY DEF Recording!Collapse, Shown
  <1>2. acc \in Seq(Line) /\ L \in Nat /\ DOMAIN acc = 1..L
    BY DEF Lines
  <1>3. e \in Line /\ e.id = t[k] /\ e.count = 1
    BY DEF Ids, Line
  <1> HIDE DEF e
  <1>4. /\ new \in Seq(Line) /\ DOMAIN new = 1..L + 1
        /\ (\A m \in 1..L : new[m] = acc[m]) /\ new[L + 1] = e
    BY <1>2, <1>3
  <1>5. \A m \in 1..L + 1 : m \in 1..L \/ m = L + 1
    BY <1>2
  <1>x. L + 1 \in 1..L + 1 /\ \A m \in 1..L : m \in 1..L + 1 /\ m < L + 1
    BY <1>2
  <1> HIDE DEF new
  <1>6. \A q \in 1..k - 1 : Shown(t[q]) # Shown(t[k])
    BY DEF Lines, AllShown
  <1>7. LeadsOff(new, t, k)
    <2>1. ASSUME NEW m \in 1..L
          PROVE  \E p \in 1..k : /\ new[m].id = t[p]
                                 /\ \A q \in 1..k : Shown(t[q]) = Shown(t[p]) => p <= q
      <3>1. PICK p \in 1..k - 1 :
              acc[m].id = t[p] /\ \A q \in 1..k - 1 : Shown(t[q]) = Shown(t[p]) => p <= q
        BY <1>2 DEF Lines, LeadsOff
      <3>2. \A q \in 1..k : Shown(t[q]) = Shown(t[p]) => p <= q
        BY <1>0, <3>1
      <3> QED BY <1>0, <1>4, <3>1, <3>2
    <2>2. \E p \in 1..k : /\ new[L + 1].id = t[p]
                          /\ \A q \in 1..k : Shown(t[q]) = Shown(t[p]) => p <= q
      BY <1>0, <1>3, <1>4, <1>6
    <2> QED BY <1>4, <1>5, <2>1, <2>2 DEF LeadsOff
  <1>8. Counts(new, t, k)
    <2>1. ASSUME NEW m \in 1..L PROVE new[m].count = Cardinality(Among(t, k, new[m].id))
      <3>1. acc[m].count = Cardinality(Among(t, k - 1, acc[m].id)) /\ Shown(acc[m].id) # Shown(t[k])
        BY <1>2 DEF Lines, Counts
      <3> QED BY <1>4, <3>1, OneMore
    <2>2. new[L + 1].count = Cardinality(Among(t, k, new[L + 1].id))
      <3>1. Among(t, k - 1, t[k]) = {}
        BY <1>6 DEF Among
      <3>2. Cardinality(Among(t, k - 1, t[k])) = 0
        BY <3>1, FS_EmptySet
      <3>3. Cardinality(Among(t, k, t[k])) = 0 + 1
        BY <3>2, OneMore
      <3> QED BY <1>3, <1>4, <3>3
    <2> QED BY <1>4, <1>5, <2>1, <2>2 DEF Counts
  <1>9. AllShown(new, t, k)
    <2>1. ASSUME NEW q \in 1..k - 1 PROVE \E m \in 1..L + 1 : Shown(new[m].id) = Shown(t[q])
      <3>1. PICK m \in 1..L : Shown(acc[m].id) = Shown(t[q])
        BY <1>2 DEF Lines, AllShown
      <3> QED BY <1>4, <1>x, <3>1
    <2>2. Shown(new[L + 1].id) = Shown(t[k])
      BY <1>3, <1>4
    <2> QED BY <1>0, <1>4, <1>x, <2>1, <2>2 DEF AllShown
  <1>10. Falling(new)
    <2>1. \A m, l \in 1..L : m < l => <<new[m].id, new[l].id>> \in Recording!ByTime
      BY <1>2, <1>4 DEF Lines, Falling
    <2>2. ASSUME NEW m \in 1..L PROVE <<new[m].id, t[k]>> \in Recording!ByTime
      <3>1. PICK p \in 1..k - 1 : acc[m].id = t[p]
        BY <1>2 DEF Lines, LeadsOff
      <3> QED BY <1>0, <1>4, <3>1 DEF Ids
    <2>3. \A l \in 1..L : ~(L + 1 < l)
      BY <1>2
    <2>4. ~(L + 1 < L + 1)
      BY <1>2
    <2> QED BY <1>3, <1>4, <1>5, <2>1, <2>2, <2>3, <2>4 DEF Falling
  <1> QED BY <1>1, <1>4, <1>7, <1>8, <1>9, <1>10 DEF Lines

LEMMA ListOfRows ==
  ASSUME NEW N \in Nat, Len(dRows) = N, NEW n, NEW h \in Nat, Len(Recording!Recent(n)) = h,
         Ids(Recording!Recent(n), h)
  PROVE  \E acc : /\ Lines(acc, Recording!Recent(n), h)
                  /\ Recording!List(n) = Recording!Reverse(acc)
  <1> DEFINE t == Recording!Recent(n)
             S == Seq(Line)
             Next(f, k) == IF k = 0 THEN <<>> ELSE Recording!Collapse(f[k - 1], t[k])
             step == [x \in (1..h) \X S |->
                        IF Recording!Collapse(x[2], t[x[1]]) \in S
                        THEN Recording!Collapse(x[2], t[x[1]]) ELSE <<>>]
             Right(f, k) == Lines(f[k], t, k)
  <1>0. <<>> \in S /\ step \in [(1..h) \X S -> S]
    OBVIOUS
  <1>1. PICK f : Computed(f, h, S, <<>>, step)
    <2> HIDE DEF S, step
    <2> QED BY <1>0, Recursion
  <1>2. Lines(<<>>, t, 0)
    BY DEF Lines, LeadsOff, Counts, AllShown, Falling
  <1>3. ASSUME NEW k \in 1..h, NEW acc, Lines(acc, t, k - 1)
        PROVE  Lines(Recording!Collapse(acc, t[k]), t, k)
    <2>1. CASE \E l \in DOMAIN acc : Shown(acc[l].id) = Shown(t[k])
      BY <1>3, <2>1, CollapseInto
    <2>2. CASE \A l \in DOMAIN acc : Shown(acc[l].id) # Shown(t[k])
      BY <1>3, <2>2, CollapseAfter
    <2> QED BY <2>1, <2>2
  <1>4. ASSUME NEW k \in 1..h, NEW acc, Lines(acc, t, k - 1)
        PROVE  step[<<k, acc>>] = Recording!Collapse(acc, t[k])
    <2>1. acc \in S /\ Recording!Collapse(acc, t[k]) \in S
      BY <1>3, <1>4 DEF Lines
    <2> HIDE DEF S, t
    <2> QED BY <2>1
  <1> HIDE DEF step, t
  <1>5. \A k \in 0..h : Right(f, k)
    <2> DEFINE T == {k \in 0..h : Right(f, k)}
    <2>1. 0 \in T
      BY <1>1, <1>2 DEF Computed
    <2>2. ASSUME NEW k \in 1..h, k - 1 \in T PROVE k \in T
      <3>1. Lines(f[k - 1], t, k - 1) /\ f[k] = step[<<k, f[k - 1]>>] /\ k \in 0..h
        BY <1>1, <2>2 DEF Computed
      <3>2. f[k] = Recording!Collapse(f[k - 1], t[k]) /\ Lines(f[k], t, k)
        BY <1>3, <1>4, <3>1
      <3> QED BY <3>1, <3>2
    <2>3. 0..h \subseteq T
      <3> HIDE DEF T
      <3> QED BY <2>1, <2>2, Upwards
    <2> QED BY <2>3
  <1> DEFINE Folds(g) == g = [k \in 0..h |-> Next(g, k)]
  <1>6. Folds(f)
    <2>1. ASSUME NEW k \in 0..h PROVE f[k] = Next(f, k)
      <3>1. CASE k = 0
        BY <1>1, <3>1 DEF Computed
      <3>2. CASE k # 0
        <4>1. k \in 1..h /\ k - 1 \in 0..h
          BY <3>2
        <4>2. Lines(f[k - 1], t, k - 1) /\ f[k] = step[<<k, f[k - 1]>>]
          BY <1>1, <1>5, <4>1 DEF Computed
        <4> QED BY <1>4, <3>2, <4>1, <4>2
      <3> QED BY <3>1, <3>2
    <2>2. f = [k \in 0..h |-> f[k]]
      BY <1>1 DEF Computed
    <2> HIDE DEF Next
    <2> QED BY <2>1, <2>2
  <1> DEFINE r == CHOOSE g : Folds(g)
  <1>7. Folds(r)
    <2> HIDE DEF Folds
    <2> QED BY <1>6
  <1>8. Recording!List(n) = Recording!Reverse(r[h])
    BY DEF Recording!List, t
  <1> HIDE DEF r
  <1>9. \A k \in 0..h : Right(r, k)
    <2> DEFINE T == {k \in 0..h : Right(r, k)}
    <2>0. ASSUME NEW k \in 0..h PROVE r[k] = Next(r, k)
      <3> HIDE DEF Next
      <3> QED BY <1>7
    <2>1. 0 \in T
      <3>1. 0 \in 0..h
        OBVIOUS
      <3>2. r[0] = <<>>
        BY <2>0, <3>1
      <3> QED BY <1>2, <3>1, <3>2
    <2>2. ASSUME NEW k \in 1..h, k - 1 \in T PROVE k \in T
      <3>1. Lines(r[k - 1], t, k - 1) /\ k \in 0..h /\ k # 0
        BY <2>2
      <3>2. r[k] = Recording!Collapse(r[k - 1], t[k])
        BY <2>0, <3>1
      <3>3. Lines(r[k], t, k)
        BY <1>3, <3>1, <3>2
      <3> QED BY <3>1, <3>3
    <2>3. 0..h \subseteq T
      <3> HIDE DEF T
      <3> QED BY <2>1, <2>2, Upwards
    <2> QED BY <2>3
  <1>10. Lines(r[h], t, h)
    <2>1. h \in 0..h
      OBVIOUS
    <2> QED BY <1>9, <2>1
  <1> QED BY <1>8, <1>10 DEF t

LEMMA ReverseIs ==
  ASSUME NEW S, NEW a \in Seq(S)
  PROVE  LET b == Recording!Reverse(a) IN
         /\ Len(a) \in Nat /\ DOMAIN a = 1..Len(a) /\ DOMAIN b = 1..Len(a)
         /\ \A m \in 1..Len(a) : Len(a) - m + 1 \in 1..Len(a) /\ b[m] = a[Len(a) - m + 1]
         /\ Recording!Range(b) = {a[m] : m \in DOMAIN a}
  <1> DEFINE L == Len(a)
             b == Recording!Reverse(a)
  <1>1. L \in Nat /\ DOMAIN a = 1..L
    OBVIOUS
  <1>2. b = [m \in 1..L |-> a[L - m + 1]]
    BY DEF Recording!Reverse
  <1> HIDE DEF L, b
  <1>3. \A m \in 1..L : L - m + 1 \in 1..L /\ L - (L - m + 1) + 1 = m
    BY <1>1
  <1>4. DOMAIN b = 1..L /\ \A m \in 1..L : b[m] = a[L - m + 1]
    BY <1>2
  <1>5. {b[m] : m \in 1..L} = {a[m] : m \in 1..L}
    <2>1. \A m \in 1..L : b[L - m + 1] = a[m]
      BY <1>3, <1>4
    <2> QED BY <1>3, <1>4, <2>1
  <1>6. Recording!Range(b) = {a[m] : m \in DOMAIN a}
    BY <1>1, <1>4, <1>5 DEF Recording!Range
  <1> QED BY <1>1, <1>3, <1>4, <1>6 DEF L, b

LEMMA CountedSame == \A S : Recording!Cardinality(S) = Cardinality(S)
  BY Zenon DEF Recording!Cardinality, Cardinality

LEMMA RecentIs ==
  ASSUME IsSequence(dRows), Timed(dRows), NEW n \in Nat
  PROVE  \E h \in Nat :
           /\ Len(Recording!Recent(n)) = h /\ Ids(Recording!Recent(n), h)
           /\ Recording!Latest(n) = {Recording!Recent(n)[k] : k \in 1..h}
  <1> DEFINE N == Len(dRows)
             R == Recording!ByTime
             s == Recording!Sorted(R)
             t == Recording!Recent(n)
  <1>1. N \in Nat /\ DOMAIN dRows = 1..N /\ Orders(R, N)
    BY RowsOrdered
  <1>2. InOrder(s, R, N)
    BY <1>1, SortedIs
  <1>3. t = Recording!First(s, n)
    BY DEF Recording!Recent
  <1>4. ASSUME NEW i \in 1..N
        PROVE  {j \in DOMAIN dRows : Recording!Later(j, i)} = Before(R, N, i)
    BY <1>1 DEF Before, Recording!ByTime
  <1> HIDE DEF N, R, s, t
  <1>e. Enumerates(s, R, N)
    BY <1>1, <1>2, OrderIs
  <1>5. s \in [1..N -> 1..N] /\ \A k, m \in 1..N : k < m => <<s[k], s[m]>> \in R
    BY <1>e DEF Enumerates
  <1>6. /\ \A i \in 1..N : \E k \in 1..N : s[k] = i
        /\ \A k, m \in 1..N : s[k] = s[m] => k = m
        /\ \A k \in 1..N : Cardinality(Before(R, N, s[k])) = k - 1
    BY <1>e DEF Enumerates
  <1>7. PICK h \in 0..N : /\ h = (IF n < N THEN n ELSE N)
                          /\ Len(t) = h /\ DOMAIN t = 1..h /\ \A k \in 1..h : t[k] = s[k]
    BY <1>1, <1>3, <1>5, FirstIs
  <1>8. h \in Nat /\ \A k \in 1..h : k \in 1..N
    BY <1>1
  <1>9. Ids(t, h)
    BY <1>5, <1>6, <1>7, <1>8 DEF Ids, R, N
  <1>10. \A k \in 1..N : k - 1 < n <=> k \in 1..h
    BY <1>1, <1>7
  <1>11. {i \in 1..N : Cardinality(Before(R, N, i)) < n} = {t[k] : k \in 1..h}
    <2>1. ASSUME NEW i \in 1..N, Cardinality(Before(R, N, i)) < n PROVE i \in {t[k] : k \in 1..h}
      <3>1. PICK k \in 1..N : s[k] = i
        BY <1>6
      <3>2. k \in 1..h
        BY <1>6, <1>10, <2>1, <3>1
      <3> QED BY <1>7, <3>1, <3>2
    <2>2. ASSUME NEW k \in 1..h PROVE t[k] \in 1..N /\ Cardinality(Before(R, N, t[k])) < n
      <3>1. t[k] = s[k] /\ k \in 1..N
        BY <1>7, <1>8
      <3>2. Cardinality(Before(R, N, s[k])) = k - 1 /\ k - 1 < n
        BY <1>6, <1>10, <3>1
      <3> QED BY <1>5, <3>1, <3>2
    <2> QED BY <2>1, <2>2
  <1>12. Recording!Latest(n) = {i \in 1..N : Cardinality(Before(R, N, i)) < n}
    <2> DEFINE later(i) == {j \in DOMAIN dRows : Recording!Later(j, i)}
    <2>1. Recording!Latest(n) = {i \in DOMAIN dRows : Cardinality(later(i)) < n}
      BY CountedSame DEF Recording!Latest
    <2>2. \A i \in 1..N : later(i) = Before(R, N, i)
      BY <1>4
    <2> HIDE DEF later
    <2> QED BY <1>1, <2>1, <2>2
  <1> QED BY <1>7, <1>8, <1>9, <1>11, <1>12 DEF t

LEMMA RowsListed == IsSequence(dRows) /\ Timed(dRows) => Recording!Listed
  <1> SUFFICES ASSUME IsSequence(dRows), Timed(dRows), NEW n \in DLimits
               PROVE  /\ Recording!OneLineEach(n) /\ Recording!NewestLast(n)
                      /\ \A d \in DDirs : Recording!OwnFirst(d, n)
    BY DEF Recording!Listed
  <1> DEFINE N == Len(dRows)
             newest == Recording!Latest(n)
             Runs(i) == Recording!Runs(i, n)
             lines == Recording!List(n)
             t == Recording!Recent(n)
  <1>0. n \in Nat
    BY HistoryAssumption
  <1>1. N \in Nat /\ DOMAIN dRows = 1..N /\ Orders(Recording!ByTime, N)
    BY RowsOrdered
  <1>2. PICK h \in Nat : Len(t) = h /\ Ids(t, h) /\ newest = {t[k] : k \in 1..h}
    BY <1>0, RecentIs
  <1>3. PICK acc : Lines(acc, t, h) /\ lines = Recording!Reverse(acc)
    BY <1>1, <1>2, ListOfRows, Zenon
  <1>4. ASSUME NEW i PROVE Runs(i) = Among(t, h, i)
    BY <1>2 DEF Among, Shown, Recording!Key, Recording!Runs
  <1>5. \A i, j \in 1..N : <<i, j>> \in Recording!ByTime <=> Recording!Later(i, j)
    BY <1>1 DEF Recording!ByTime
  <1>6. /\ Len(acc) \in Nat /\ DOMAIN acc = 1..Len(acc) /\ DOMAIN lines = 1..Len(acc)
        /\ \A m \in 1..Len(acc) :
             Len(acc) - m + 1 \in 1..Len(acc) /\ lines[m] = acc[Len(acc) - m + 1]
        /\ Recording!Range(lines) = {acc[m] : m \in DOMAIN acc}
    BY <1>3, ReverseIs DEF Lines
  <1> HIDE DEF N, newest, Runs, lines, t
  <1>7. \A k \in 1..h : t[k] \in 1..N
    BY <1>2 DEF Ids, N
  <1>8. \A m \in DOMAIN acc : acc[m].id \in 1..N
    BY <1>3, <1>7 DEF Lines, LeadsOff
  <1>9. Recording!OneLineEach(n)
    <2> DEFINE heads == Recording!LastRuns(n)
    <2>h. \A i : i \in heads <=> i \in newest /\ \A j \in Runs(i) : ~Recording!Later(j, i)
      BY DEF Recording!LastRuns, newest, Runs
    <2> HIDE DEF heads
    <2>0. ASSUME NEW p \in 1..h, NEW q \in 1..h, p < q
          PROVE  Recording!Later(t[p], t[q]) /\ ~Recording!Later(t[q], t[p])
      <3>1. t[p] \in 1..N /\ t[q] \in 1..N /\ <<t[p], t[q]>> \in Recording!ByTime
        BY <1>2, <1>7, <2>0 DEF Ids
      <3>2. <<t[q], t[p]>> \notin Recording!ByTime
        BY <1>1, <3>1 DEF Orders
      <3> QED BY <1>5, <3>1, <3>2
    <2>x. \A p \in 1..h : ~Recording!Later(t[p], t[p])
      BY <1>1, <1>5, <1>7 DEF Orders
    <2>1. ASSUME NEW m \in DOMAIN acc PROVE acc[m].id \in heads
      <3>1. PICK p \in 1..h :
              acc[m].id = t[p] /\ \A q \in 1..h : Shown(t[q]) = Shown(t[p]) => p <= q
        BY <1>3 DEF Lines, LeadsOff
      <3>2. ASSUME NEW j \in Runs(t[p]) PROVE ~Recording!Later(j, t[p])
        <4>1. PICK q \in 1..h : j = t[q] /\ Shown(t[q]) = Shown(t[p])
          BY <1>4 DEF Among
        <4>2. p < q \/ p = q
          BY <3>1, <4>1
        <4> QED BY <2>0, <2>x, <4>1, <4>2
      <3> QED BY <1>2, <2>h, <3>1, <3>2
    <2>2. ASSUME NEW i \in heads PROVE \E m \in DOMAIN acc : acc[m].id = i
      <3>1. PICK q \in 1..h : i = t[q]
        BY <1>2, <2>h
      <3>2. PICK m \in DOMAIN acc : Shown(acc[m].id) = Shown(t[q])
        BY <1>3 DEF Lines, AllShown
      <3>3. PICK p \in 1..h :
              acc[m].id = t[p] /\ \A r \in 1..h : Shown(t[r]) = Shown(t[p]) => p <= r
        BY <1>3 DEF Lines, LeadsOff
      <3>4. t[p] \in Runs(i)
        BY <1>4, <3>1, <3>2, <3>3 DEF Among
      <3>5. ~(p < q)
        BY <2>0, <2>h, <3>1, <3>4
      <3>6. p = q
        BY <3>2, <3>3, <3>5
      <3> QED BY <3>1, <3>3, <3>6
    <2>3. ASSUME NEW m \in DOMAIN acc PROVE acc[m].count = Cardinality(Runs(acc[m].id))
      BY <1>3, <1>4 DEF Lines, Counts
    <2>4. {<<l.id, l.count>> : l \in {acc[m] : m \in DOMAIN acc}}
            = {<<i, Cardinality(Runs(i))>> : i \in heads}
      <3>1. {<<l.id, l.count>> : l \in {acc[m] : m \in DOMAIN acc}}
              = {<<acc[m].id, Cardinality(Runs(acc[m].id))>> : m \in DOMAIN acc}
        BY <2>3
      <3> QED BY <2>1, <2>2, <3>1
    <2>5. {<<l.id, l.count>> : l \in Recording!Range(lines)}
            = {<<i, Cardinality(Runs(i))>> : i \in heads}
      BY <1>6, <2>4
    <2>6. {<<i, Cardinality(Runs(i))>> : i \in heads}
            = {<<i, Recording!Cardinality(Runs(i))>> : i \in heads}
      BY CountedSame
    <2> QED BY <2>5, <2>6, Zenon DEF heads, lines, Runs, Recording!OneLineEach
  <1>10. Recording!NewestLast(n)
    <2> SUFFICES ASSUME NEW k \in 1..Len(acc), NEW m \in 1..Len(acc), k < m
                 PROVE  Recording!Later(lines[m].id, lines[k].id)
      BY <1>6 DEF lines, Recording!NewestLast
    <2> DEFINE a == Len(acc) - m + 1
               b == Len(acc) - k + 1
    <2>1. a \in DOMAIN acc /\ b \in DOMAIN acc /\ a < b /\ lines[m] = acc[a] /\ lines[k] = acc[b]
      BY <1>6
    <2> HIDE DEF a, b
    <2>2. <<acc[a].id, acc[b].id>> \in Recording!ByTime
      BY <1>3, <2>1 DEF Lines, Falling
    <2> QED BY <1>5, <1>8, <2>1, <2>2
  <1>11. ASSUME NEW d, NEW i \in DOMAIN dRows, dRows[i].cwd = d,
                i \notin Recording!Range(Recording!PreferCwd(d, n)),
                NEW j \in Recording!Range(Recording!PreferCwd(d, n))
         PROVE  dRows[j].cwd = d
    <2> DEFINE R == Recording!ByDirectory(d)
               s == Recording!Sorted(R)
               f == Recording!PreferCwd(d, n)
    <2>1. Orders(R, N)
      BY RowsOrdered DEF N
    <2>2. InOrder(s, R, N)
      BY <2>1, SortedIs DEF N
    <2>3. f = Recording!First(s, n)
      BY DEF Recording!PreferCwd
    <2> HIDE DEF s, f
    <2>e. Enumerates(s, R, N)
      BY <1>1, <2>1, <2>2, OrderIs
    <2>4. s \in [1..N -> 1..N] /\ \A k, m \in 1..N : k < m => <<s[k], s[m]>> \in R
      BY <2>e DEF Enumerates
    <2>5. PICK q \in 1..N : s[q] = i
      BY <1>1, <2>e DEF Enumerates
    <2>6. PICK g \in 0..N : DOMAIN f = 1..g /\ \A k \in 1..g : f[k] = s[k]
      BY <1>0, <1>1, <2>3, <2>4, FirstIs
    <2>7. PICK k \in 1..g : j = f[k]
      BY <1>11, <2>6 DEF Recording!Range, f
    <2>8. q \notin 1..g
      BY <1>11, <2>5, <2>6 DEF Recording!Range, f
    <2>9. k \in 1..N /\ k < q
      BY <1>1, <2>8
    <2>10. j = s[k] /\ <<j, i>> \in R
      BY <2>4, <2>5, <2>6, <2>7, <2>9
    <2> QED BY <1>11, <2>10 DEF Recording!ByDirectory
  <1>12. ASSUME NEW d PROVE Recording!OwnFirst(d, n)
    BY <1>11, Zenon DEF Recording!OwnFirst
  <1> QED BY <1>9, <1>10, <1>12

--------------------------------------------------------------------------------
(* Commands of a machine that wait for an operator. *)

(***************************************************************************)
(* StillMeant speaks of a command that runs.  It was meant when it was put *)
(* together, with a system that is in the store once it is built or copied *)
(* back, and what a later step took from it outdates it, whether it was    *)
(* asked for by then or not.                                               *)
(***************************************************************************)
HostTyped ==
  /\ nLast \in Nat /\ IsSequence(nAsked) /\ Len(nAsked) = nLast
  /\ DOMAIN nQueue = {Hosting!Rebuilds, Hosting!Cleanups}
  /\ \A s \in DOMAIN nQueue : nQueue[s] \in 0..nLast
  /\ DOMAIN nPc = NOperators /\ DOMAIN nCmd = NOperators
  /\ \A o \in NOperators : nPc[o] = "run" => nCmd[o] \in 1..nLast
  /\ DOMAIN nSt = NUsers /\ DOMAIN nTodo = NUsers /\ DOMAIN nCurrent = NProfiles

Meant(c) ==
  /\ c.kind = "switch" => c.system \in nStore
  /\ c.kind = "rm" => \A p \in NProfiles : <<p, nCurrent[p]>> \in c.links => Hosting!Shadowed(p)
Prepares(u) ==
  /\ nSt[u] \in {"build", "back"} => nTodo[u].kind = "switch"
  /\ nSt[u] = "ask" /\ u \notin nDated => Meant(nTodo[u])
WaitsMeant == \A c \in 1..nLast : c \notin nStale => Meant(nAsked[c])
HostInv == HostTyped /\ (\A u \in NUsers : Prepares(u)) /\ WaitsMeant

LEMMA HostInit == Hosting!Init => HostInv
  <1> SUFFICES ASSUME Hosting!Init PROVE HostInv
    OBVIOUS
  <1>1. IsSequence(nAsked) /\ Len(nAsked) = 0 /\ nLast = 0
    BY DEF Hosting!Init, Hosting!Q!Init, IsSequence
  <1>2. HostTyped
    BY <1>1 DEF HostTyped, Hosting!Init, Hosting!Q!Init
  <1>3. \A u \in NUsers : Prepares(u)
    BY DEF Hosting!Init, Prepares
  <1>4. WaitsMeant
    BY <1>1 DEF WaitsMeant
  <1> QED BY <1>2, <1>3, <1>4 DEF HostInv

\* What the users do before they ask.
LEMMA HostPrepares ==
  ASSUME HostInv, NEW u \in NUsers,
         \/ \E a \in NActions : Hosting!ResolveFlakePath(u, a)
         \/ Hosting!RemoteBuild(u) \/ Hosting!CopyBack(u) \/ Hosting!Build(u)
         \/ Hosting!CleanupProfiles(u) \/ Hosting!GiveUp(u)
  PROVE  HostInv'
  <1> USE DEF Hosting!Goto, Hosting!queueVars, Hosting!hostVars
  <1>1. /\ UNCHANGED <<nQueue, nLast, nPc, nCmd, nAsked, nCurrent, nStale>>
        /\ nStore \subseteq nStore' /\ DOMAIN nSt' = NUsers /\ DOMAIN nTodo' = NUsers
        /\ \A v \in NUsers \ {u} :
             nSt'[v] = nSt[v] /\ nTodo'[v] = nTodo[v] /\ (v \in nDated => v \in nDated')
    BY DEF HostInv, HostTyped, Hosting!ResolveFlakePath, Hosting!RemoteBuild, Hosting!CopyBack,
           Hosting!Copied, Hosting!Build, Hosting!CleanupProfiles, Hosting!GiveUp
  <1>2. HostTyped'
    BY <1>1 DEF HostInv, HostTyped
  <1>3. WaitsMeant'
    BY <1>1 DEF HostInv, WaitsMeant, Meant
  <1>4. \A v \in NUsers \ {u} : Prepares(v)'
    BY <1>1 DEF HostInv, Prepares, Meant
  <1>5. Prepares(u)'
    <2>0. DOMAIN nSt = NUsers /\ DOMAIN nTodo = NUsers /\ Prepares(u)
      BY DEF HostInv, HostTyped
    <2>1. CASE \E a \in NActions : Hosting!ResolveFlakePath(u, a)
      BY <2>0, <2>1 DEF Hosting!ResolveFlakePath, Hosting!Switch, Prepares
    <2>2. CASE Hosting!RemoteBuild(u)
      BY <2>0, <2>2 DEF Hosting!RemoteBuild, Prepares
    <2>3. CASE Hosting!CopyBack(u)
      BY <2>0, <2>3 DEF Hosting!CopyBack, Hosting!Copied, Prepares, Meant
    <2>4. CASE Hosting!Build(u)
      BY <2>0, <2>4 DEF Hosting!Build, Prepares, Meant
    <2>5. CASE Hosting!CleanupProfiles(u)
      <3>1. nSt'[u] = "ask" /\ nTodo'[u] = Hosting!Removal(Hosting!OldLinks) /\ nCurrent' = nCurrent
        BY <2>0, <2>5 DEF Hosting!CleanupProfiles
      <3>2. ASSUME NEW p \in NProfiles, <<p, nCurrent[p]>> \in Hosting!OldLinks
            PROVE  Hosting!Shadowed(p)
        <4>1. PICK q \in NProfiles :
                Len(q) = 1 /\ Hosting!IsPrefix(q, p) /\ <<p, nCurrent[p]>> # <<q, nCurrent[q]>>
          BY <3>2 DEF Hosting!OldLinks, Hosting!Begins
        <4>2. q # p
          BY <4>1
        <4> QED BY <4>1, <4>2 DEF Hosting!Shadowed, Hosting!IsStrictPrefix
      <3> QED BY <3>1, <3>2 DEF Prepares, Meant, Hosting!Removal
    <2>6. CASE Hosting!GiveUp(u)
      BY <2>0, <2>6 DEF Hosting!GiveUp, Prepares
    <2> QED BY <2>1, <2>2, <2>3, <2>4, <2>5, <2>6
  <1> QED BY <1>2, <1>3, <1>4, <1>5 DEF HostInv

LEMMA HostEnqueue ==
  ASSUME HostInv, NEW u \in NUsers, Hosting!Enqueue(u)
  PROVE  HostInv'
  <1> USE DEF Hosting!Goto, Hosting!hostVars
  <1>1. /\ UNCHANGED <<nPc, nCmd, nCurrent, nStore>>
        /\ nLast' = nLast + 1 /\ nAsked' = Append(nAsked, nTodo[u])
        /\ DOMAIN nQueue' = DOMAIN nQueue
        /\ \A s \in DOMAIN nQueue : nQueue'[s] \in {nQueue[s], nLast + 1}
        /\ nSt[u] = "ask" /\ DOMAIN nSt' = NUsers /\ DOMAIN nTodo' = NUsers /\ nSt'[u] = "idle"
        /\ \A v \in NUsers \ {u} :
             nSt'[v] = nSt[v] /\ nTodo'[v] = nTodo[v] /\ (v \in nDated => v \in nDated')
        /\ nStale \subseteq nStale' /\ (u \in nDated => nLast + 1 \in nStale')
    BY DEF HostInv, HostTyped, Hosting!Enqueue, Hosting!Q!Enqueue
  <1>2. /\ nLast \in Nat /\ IsSequence(nAsked) /\ Len(nAsked) = nLast
        /\ nLast' \in Nat /\ IsSequence(nAsked') /\ Len(nAsked') = nLast'
        /\ \A n \in 1..nLast : nAsked'[n] = nAsked[n]
        /\ nAsked'[nLast + 1] = nTodo[u]
    BY <1>1, ListAppend DEF HostInv, HostTyped
  <1>3. HostTyped'
    BY <1>1, <1>2 DEF HostInv, HostTyped
  <1>4. \A v \in NUsers : Prepares(v)'
    BY <1>1 DEF HostInv, Prepares, Meant
  <1>5. WaitsMeant'
    <2>1. ASSUME NEW c \in 1..nLast', c \notin nStale'
          PROVE  Meant(nAsked'[c])
      <3>1. CASE c \in 1..nLast
        BY <1>1, <1>2, <2>1, <3>1 DEF HostInv, WaitsMeant
      <3>2. CASE c = nLast + 1
        BY <1>1, <1>2, <2>1, <3>2 DEF HostInv, Prepares
      <3> QED BY <1>1, <1>2, <3>1, <3>2
    <2> QED BY <1>1, <2>1 DEF WaitsMeant, Meant
  <1> QED BY <1>3, <1>4, <1>5 DEF HostInv

\* What operators do changes neither the store nor a profile's link.
LEMMA HostOperator ==
  ASSUME HostInv, NEW o \in NOperators, Hosting!RunCommand(o) \/ Hosting!Others(o)
  PROVE  HostInv'
  <1> DEFINE Queued == /\ DOMAIN nQueue = {Hosting!Rebuilds, Hosting!Cleanups}
                       /\ \A s \in DOMAIN nQueue : nQueue[s] \in 0..nLast
             Approved == /\ DOMAIN nPc = NOperators /\ DOMAIN nCmd = NOperators
                         /\ \A p \in NOperators : nPc[p] = "run" => nCmd[p] \in 1..nLast
  <1>1. UNCHANGED <<nLast, nAsked, nStore, nCurrent, nSt, nTodo, nDated, nStale>>
    BY DEF Hosting!RunCommand, Hosting!Others, Hosting!hostVars, Hosting!Q!RunCommand,
           Hosting!Q!Remove, Hosting!Q!Kill, Hosting!Q!Approve, Hosting!Q!Reject
  <1>2. nLast \in Nat /\ Queued /\ Approved
    BY DEF HostInv, HostTyped
  <1>3. Queued' /\ Approved'
    <2>1. CASE Hosting!RunCommand(o)
      BY <1>1, <1>2, <2>1 DEF Hosting!RunCommand, Hosting!Q!RunCommand
    <2>2. CASE Hosting!Q!Remove(o)
      BY <1>1, <1>2, <2>2 DEF Hosting!Q!Remove
    <2>3. CASE Hosting!Q!Kill(o)
      BY <1>1, <1>2, <2>3 DEF Hosting!Q!Kill
    <2>4. CASE \E s \in {Hosting!Rebuilds, Hosting!Cleanups} : Hosting!Q!Approve(o, s)
      BY <1>1, <1>2, <2>4 DEF Hosting!Q!Approve, Hosting!Q!AtApproval
    <2>5. CASE \E s \in {Hosting!Rebuilds, Hosting!Cleanups} : Hosting!Q!Reject(s)
      BY <1>1, <1>2, <2>5 DEF Hosting!Q!Reject
    <2> HIDE DEF Queued, Approved
    <2> QED BY <2>1, <2>2, <2>3, <2>4, <2>5 DEF Hosting!Others
  <1>4. HostTyped'
    BY <1>1, <1>3 DEF HostInv, HostTyped
  <1> QED BY <1>1, <1>4 DEF HostInv, Prepares, WaitsMeant, Meant

\* The rest of the machine outdates what it takes from a command.
LEMMA HostMove ==
  ASSUME HostInv,
         \/ Hosting!Edit \/ Hosting!CollectGarbage \/ Hosting!Restart
         \/ \E p \in NProfiles : Hosting!NewGeneration(p) \/ Hosting!Rollback(p)
  PROVE  HostInv'
  <1>1. /\ UNCHANGED <<nLast, nAsked, nQueue, nPc, nCmd, nSt, nTodo>>
        /\ DOMAIN nCurrent' = NProfiles
    <2>0. Hosting!Move
      BY DEF Hosting!Edit, Hosting!CollectGarbage, Hosting!Restart, Hosting!NewGeneration,
             Hosting!Rollback
    <2>1. UNCHANGED <<nLast, nAsked, nQueue, nPc, nCmd, nSt, nTodo>>
      BY <2>0 DEF Hosting!Move, Hosting!queueVars
    <2>2. \/ nCurrent' = nCurrent
          \/ \E p \in NProfiles : \E g : nCurrent' = [nCurrent EXCEPT ![p] = g]
      BY DEF Hosting!Edit, Hosting!CollectGarbage, Hosting!Restart, Hosting!NewGeneration,
             Hosting!Rollback
    <2>3. DOMAIN nCurrent = NProfiles
      BY DEF HostInv, HostTyped
    <2> QED BY <2>1, <2>2, <2>3
  <1>2. HostTyped'
    BY <1>1 DEF HostInv, HostTyped
  <1>3. CASE Hosting!Edit \/ Hosting!Restart
    <2>1. UNCHANGED <<nStore, nCurrent, nDated, nStale>>
      BY <1>3 DEF Hosting!Edit, Hosting!Restart
    <2> QED BY <1>1, <1>2, <2>1 DEF HostInv, Prepares, WaitsMeant, Meant
  <1>4. CASE Hosting!CollectGarbage
    <2>1. /\ nStore' = {nRunning, nBoot} /\ nCurrent' = nCurrent
          /\ nDated' = nDated \cup {u \in NUsers : nTodo[u].kind = "switch"
                                                 /\ nTodo[u].system \in nStore \ {nRunning, nBoot}}
          /\ nStale' = nStale \cup {c \in 1..nLast : nAsked[c].kind = "switch"
                                                 /\ nAsked[c].system \in nStore \ {nRunning, nBoot}}
      BY <1>4 DEF Hosting!CollectGarbage, Hosting!Outdate
    <2>2. \A u \in NUsers : Prepares(u)'
      BY <1>1, <2>1 DEF HostInv, Prepares, Meant
    <2>3. WaitsMeant'
      BY <1>1, <2>1 DEF HostInv, WaitsMeant, Meant
    <2> QED BY <1>2, <2>2, <2>3 DEF HostInv
  <1>5. CASE \E p \in NProfiles : Hosting!NewGeneration(p) \/ Hosting!Rollback(p)
    <2> DEFINE Goes(p, g) ==
            /\ nStore' = nStore /\ nCurrent' = [nCurrent EXCEPT ![p] = g]
            /\ nDated' = nDated \cup {u \in NUsers : nTodo[u].kind = "rm" /\ <<p, g>> \in nTodo[u].links}
            /\ nStale' = nStale \cup {c \in 1..nLast : nAsked[c].kind = "rm" /\ <<p, g>> \in nAsked[c].links}
    <2>0. PICK p \in NProfiles : Hosting!NewGeneration(p) \/ Hosting!Rollback(p)
      BY <1>5
    <2>1. PICK g : Goes(p, g)
      <3>1. CASE Hosting!NewGeneration(p)
        <4> DEFINE n == 1 + Hosting!Max(nGens[p] \cup {nCurrent[p]})
        <4>1. Goes(p, n)
          BY <3>1 DEF Hosting!NewGeneration, Hosting!Outdate, Hosting!Names
        <4> HIDE DEF Goes
        <4> QED BY <4>1
      <3>2. CASE Hosting!Rollback(p)
        <4>1. PICK n \in nGens[p] \ {nCurrent[p]} :
                /\ nCurrent' = [nCurrent EXCEPT ![p] = n]
                /\ Hosting!Outdate(LAMBDA c : Hosting!Names(c, <<p, n>>))
          BY <3>2 DEF Hosting!Rollback
        <4>2. Goes(p, n)
          BY <3>2, <4>1 DEF Hosting!Rollback, Hosting!Outdate, Hosting!Names
        <4> HIDE DEF Goes
        <4> QED BY <4>2
      <3> QED BY <2>0, <3>1, <3>2
    <2>2. /\ nCurrent'[p] = g
          /\ \A q \in NProfiles \ {p} : nCurrent'[q] = nCurrent[q]
      BY <2>1 DEF HostInv, HostTyped
    <2>3. \A u \in NUsers : Prepares(u)'
      BY <1>1, <2>1, <2>2 DEF HostInv, Prepares, Meant
    <2>4. WaitsMeant'
      BY <1>1, <2>1, <2>2 DEF HostInv, WaitsMeant, Meant
    <2> QED BY <1>2, <2>3, <2>4 DEF HostInv
  <1> QED BY <1>3, <1>4, <1>5

LEMMA HostNext == HostInv /\ [Hosting!Next]_hostVars => HostInv'
  <1> SUFFICES ASSUME HostInv, [Hosting!Next]_hostVars PROVE HostInv'
    OBVIOUS
  <1>0. Hosting!Next \/ UNCHANGED hostVars
    OBVIOUS
  <1>1. CASE UNCHANGED hostVars
    BY <1>1 DEF hostVars, HostInv, HostTyped, Prepares, WaitsMeant, Meant
  <1>2. CASE Hosting!Next
    BY <1>2, HostPrepares, HostEnqueue, HostOperator, HostMove DEF Hosting!Next
  <1> QED BY <1>0, <1>1, <1>2

LEMMA HostMeans == HostInv => Hosting!StillMeant
  BY DEF HostInv, HostTyped, WaitsMeant, Meant, Hosting!StillMeant

--------------------------------------------------------------------------------
(* The update of the program: the installed binary stays runnable. *)

Binaries == [v : Nat, open : SUBSET UProcs, torn : BOOLEAN, exec : BOOLEAN]
UpdatePlaces ==
  Updating!Resting \cup Updating!Downloading \cup {"build", "list", "stat", "replace"}

(***************************************************************************)
(* Runnable is not inductive: Move installs what a download left behind.   *)
(* A release that was never downloaded by two updates at a time has one    *)
(* writer, and nobody is to install it once it is torn.                    *)
(***************************************************************************)
UpdateTyped ==
  /\ uBin \in Binaries /\ uTmp \in [Updating!Versions -> Binaries]
  /\ UMaxVersion \in Nat /\ uLatest \in Updating!Versions
  /\ uKind \in [UProcs -> Updating!Commands] /\ uForce \in [UProcs -> BOOLEAN]
  /\ uOwn \in [UProcs -> Nat]
  /\ uWant \in [UProcs -> Nat]
  /\ uPc \in [UProcs -> UpdatePlaces]
  /\ uBare \in BOOLEAN

\* Past the list, an update works on a release.
PastList == Updating!Downloading \cup {"cleanfail"}
UpdatesWork ==
  \A p \in UProcs :
    /\ uPc[p] \in (PastList \ {"shim"}) \cup {"list"} => uKind[p] = "github"
    /\ uKind[p] = "github" => uPc[p] \notin {"build", "stat", "replace"}
    /\ uKind[p] = "github" /\ uPc[p] \in PastList => uWant[p] \in Updating!Versions

\* Between the start of its download and the rename.
Fetching(p, v) == uPc[p] \in {"fetching", "install"} /\ uWant[p] = v

OneWriter ==
  \A v \in Updating!Versions \ uShared :
    \A p, q \in UProcs : Fetching(p, v) /\ Fetching(q, v) => p = q

DownloadsWhole ==
  \A v \in Updating!Versions :
    /\ uTmp[v] # Updating!None => uTmp[v].v = v
    /\ v \notin uShared =>
         /\ uTmp[v].open \subseteq {p \in UProcs : uPc[p] = "fetching" /\ uWant[p] = v}
         /\ uTmp[v].torn => \A p \in UProcs : ~Fetching(p, v)

UpdateInv == UpdateTyped /\ UpdatesWork /\ OneWriter /\ DownloadsWhole /\ Updating!Runnable

LEMMA NoneFile == Updating!None \in Binaries
  BY DEF Updating!None, Binaries

LEMMA BinaryFile ==
  ASSUME NEW v \in Nat
  PROVE  /\ Updating!Binary(v) \in Binaries /\ Updating!Binary(v).v = v
         /\ Updating!Binary(v).open = {} /\ ~Updating!Binary(v).torn /\ Updating!Binary(v).exec
  BY DEF Updating!Binary, Binaries

LEMMA UpdateInit == UMaxVersion \in Nat \ {0} /\ Updating!Init => UpdateInv
  <1> SUFFICES ASSUME UMaxVersion \in Nat \ {0}, Updating!Init PROVE UpdateInv
    OBVIOUS
  <1> USE DEF Updating!Init, Updating!None, Updating!Binary, Updating!Versions
  <1>1. UpdateTyped
    <2>1. uBin \in Binaries /\ uTmp \in [Updating!Versions -> Binaries]
      <3>1. Updating!None \in Binaries /\ Updating!Binary(1) \in Binaries
        BY NoneFile, BinaryFile
      <3> HIDE DEF Updating!None, Updating!Binary
      <3> QED BY <3>1
    <2>2. uLatest \in Updating!Versions /\ uBare \in BOOLEAN
      <3>1. uLatest \in Updating!Versions
        OBVIOUS
      <3>2. uBare \in BOOLEAN
        BY Zenon
      <3> QED BY <3>1, <3>2
    <2>3. uKind \in [UProcs -> Updating!Commands] /\ uForce \in [UProcs -> BOOLEAN]
      BY DEF Updating!Commands
    <2>4. uOwn \in [UProcs -> Nat] /\ uWant \in [UProcs -> Nat] /\ uPc \in [UProcs -> UpdatePlaces]
      BY DEF UpdatePlaces, Updating!Resting
    <2> QED BY <2>1, <2>2, <2>3, <2>4 DEF UpdateTyped
  <1>2. UpdatesWork /\ OneWriter
    BY DEF UpdatesWork, PastList, Updating!Downloading, OneWriter, Fetching
  <1>3. DownloadsWhole /\ Updating!Runnable
    BY DEF DownloadsWhole, Updating!Runnable
  <1> QED BY <1>1, <1>2, <1>3 DEF UpdateInv

\* Letting go of file f turns it into g: it changes only for one of its writers.
LetGo(p, f, g, torn) ==
  /\ g \in Binaries /\ g.v = f.v /\ g.exec = f.exec
  /\ g.open = f.open \ {p}
  /\ g.torn => f.torn \/ (p \in f.open /\ torn = TRUE)
  /\ f = Updating!None => g = Updating!None
  /\ p \notin f.open => g = f

LEMMA CloseFile ==
  ASSUME NEW p, NEW f \in Binaries, NEW torn \in BOOLEAN
  PROVE  LetGo(p, f, Updating!Close(p, f, torn), torn)
  <1>1. CASE p \notin f.open
    BY <1>1 DEF Updating!Close, LetGo
  <1>2. CASE p \in f.open
    <2>1. PICK t \in BOOLEAN : t = (f.torn \/ torn)
      OBVIOUS
    <2> DEFINE g == [f EXCEPT !.open = @ \ {p}, !.torn = t]
    <2>2. Updating!Close(p, f, torn) = g
      BY <1>2, <2>1 DEF Updating!Close
    <2>3. /\ g \in Binaries /\ g.v = f.v /\ g.exec = f.exec
          /\ g.open = f.open \ {p} /\ (g.torn => t)
      BY DEF Binaries
    <2>4. f # Updating!None
      <3>1. Updating!None.open = {}
        BY DEF Updating!None
      <3> QED BY <1>2, <3>1
    <2> HIDE DEF g
    <2> QED BY <1>2, <2>1, <2>2, <2>3, <2>4 DEF LetGo
  <1> QED BY <1>1, <1>2

\* What a process lets go of, all files considered.
LEMMA CloseAllFiles ==
  ASSUME UpdateTyped, NEW p, NEW torn \in BOOLEAN, Updating!CloseAll(p, torn)
  PROVE  /\ uTmp' \in [Updating!Versions -> Binaries]
         /\ LetGo(p, uBin, uBin', torn)
         /\ \A v \in Updating!Versions : LetGo(p, uTmp[v], uTmp'[v], torn)
  <1>1. uBin \in Binaries /\ \A v \in Updating!Versions : uTmp[v] \in Binaries
    BY DEF UpdateTyped
  <1>2. /\ uBin' = Updating!Close(p, uBin, torn)
        /\ uTmp' = [v \in Updating!Versions |-> Updating!Close(p, uTmp[v], torn)]
    BY DEF Updating!CloseAll
  <1>3. /\ LetGo(p, uBin, Updating!Close(p, uBin, torn), torn)
        /\ \A v \in Updating!Versions : LetGo(p, uTmp[v], Updating!Close(p, uTmp[v], torn), torn)
    BY <1>1, CloseFile
  <1>4. \A v \in Updating!Versions : Updating!Close(p, uTmp[v], torn) \in Binaries
    BY <1>3 DEF LetGo
  <1> QED BY <1>2, <1>3, <1>4

\* A process that lets go, by ending its download or by an error or a kill,
\* leaves every release that was not shared whole or without anyone to install it.
LEMMA LettingGo ==
  ASSUME UpdateInv, NEW p \in UProcs, NEW torn \in BOOLEAN, Updating!CloseAll(p, torn),
         NEW to \in UpdatePlaces, Updating!Goto(p, to), UNCHANGED <<uWant, uShared>>,
         to # "fetching",
         torn = TRUE => to # "install",
         to = "install" => uPc[p] = "fetching"
  PROVE  /\ OneWriter' /\ DownloadsWhole'
         /\ uBin # Updating!None \/ uBin' = Updating!None
         /\ uBin'.v = uBin.v /\ uBin'.exec = uBin.exec
         /\ uBin # Updating!None /\ uBin.v \notin uShared => uBin' = uBin
  <1> USE DEF UpdateInv
  <1>1. /\ LetGo(p, uBin, uBin', torn)
        /\ \A v \in Updating!Versions : LetGo(p, uTmp[v], uTmp'[v], torn)
    BY CloseAllFiles
  <1>2. \A q \in UProcs : uPc'[q] = IF q = p THEN to ELSE uPc[q]
    BY DEF Updating!Goto, UpdateTyped
  <1>3. \A q \in UProcs : \A v : Fetching(q, v)' => Fetching(q, v)
    BY <1>2 DEF Fetching
  <1>4. OneWriter'
    BY <1>3 DEF OneWriter
  <1>5. DownloadsWhole'
    <2> SUFFICES ASSUME NEW v \in Updating!Versions
                 PROVE  /\ uTmp'[v] # Updating!None => uTmp'[v].v = v
                        /\ v \notin uShared =>
                             /\ uTmp'[v].open \subseteq
                                 {q \in UProcs : uPc'[q] = "fetching" /\ uWant[q] = v}
                             /\ uTmp'[v].torn => \A q \in UProcs : ~Fetching(q, v)'
      BY DEF DownloadsWhole
    <2>1. /\ uTmp'[v].v = uTmp[v].v
          /\ uTmp'[v].open = uTmp[v].open \ {p}
          /\ uTmp'[v].torn => uTmp[v].torn \/ (p \in uTmp[v].open /\ torn = TRUE)
          /\ uTmp[v] = Updating!None => uTmp'[v] = Updating!None
      BY <1>1 DEF LetGo
    <2>2. CASE v \in uShared
      BY <2>1, <2>2 DEF DownloadsWhole
    <2>3. CASE v \notin uShared
      <3>1. uTmp'[v].open \subseteq {q \in UProcs : uPc'[q] = "fetching" /\ uWant[q] = v}
        BY <1>2, <2>1, <2>3 DEF DownloadsWhole
      <3>2. ASSUME uTmp[v].torn PROVE \A q \in UProcs : ~Fetching(q, v)'
        BY <1>3, <2>3, <3>2 DEF DownloadsWhole
      <3>3. ASSUME p \in uTmp[v].open, torn = TRUE PROVE \A q \in UProcs : ~Fetching(q, v)'
        <4>1. Fetching(p, v)
          BY <2>3, <3>3 DEF DownloadsWhole, Fetching
        <4>2. ~Fetching(p, v)'
          BY <1>2, <3>3 DEF Fetching
        <4> QED BY <1>3, <2>3, <4>1, <4>2 DEF OneWriter
      <3> QED BY <2>1, <3>1, <3>2, <3>3 DEF DownloadsWhole
    <2> QED BY <2>2, <2>3
  <1>6. uBin # Updating!None /\ uBin.v \notin uShared => uBin' = uBin
    <2> SUFFICES ASSUME uBin # Updating!None, uBin.v \notin uShared PROVE uBin' = uBin
      OBVIOUS
    <2>1. uBin.open = {}
      BY DEF Updating!Runnable
    <2> QED BY <1>1, <2>1 DEF LetGo
  <1> QED BY <1>1, <1>4, <1>5, <1>6 DEF LetGo

\* A step that leaves the files alone and does not bring a process to a
\* download keeps what is said of files.
LEMMA FilesAlone ==
  ASSUME UpdateInv, NEW p \in UProcs, NEW to \in UpdatePlaces \ {"fetching", "install"},
         Updating!Goto(p, to),
         UNCHANGED <<uBin, uTmp, uBare, uShared>>,
         \A q \in UProcs \ {p} : uWant'[q] = uWant[q],
         uPc[p] # "chmod", uPc[p] # "fetching"
  PROVE  OneWriter' /\ DownloadsWhole' /\ Updating!Runnable'
  <1> USE DEF UpdateInv
  <1>1. \A q \in UProcs : uPc'[q] = IF q = p THEN to ELSE uPc[q]
    BY DEF Updating!Goto, UpdateTyped
  <1>2. \A q \in UProcs : \A v : Fetching(q, v)' => Fetching(q, v)
    BY <1>1 DEF Fetching
  <1>3. OneWriter'
    BY <1>2 DEF OneWriter
  <1>4. DownloadsWhole'
    BY <1>1, <1>2 DEF DownloadsWhole
  <1>5. Updating!Runnable'
    BY <1>1 DEF Updating!Runnable
  <1> QED BY <1>3, <1>4, <1>5

\* The start of a download.
LEMMA FetchInv ==
  ASSUME UpdateInv, NEW p \in UProcs, Updating!Fetch(p)
  PROVE  UpdateInv'
  <1> DEFINE v == uWant[p]
             g == uTmp'[v]
  <1> USE DEF UpdateInv
  <1>1. /\ uPc[p] = "fetch" /\ uPc' = [uPc EXCEPT ![p] = "fetching"]
        /\ uKind[p] = "github" /\ v \in Updating!Versions
        /\ UNCHANGED <<uKind, uForce, uOwn, uBin, uBare, uLatest, uWant>>
    BY DEF Updating!Fetch, Updating!Step, Updating!Goto, Updating!Same, UpdatesWork, PastList,
           Updating!Downloading
  <1>2. /\ uTmp' \in [Updating!Versions -> Binaries]
        /\ g.v = v /\ g.open = uTmp[v].open \cup {p}
        /\ g.torn => uTmp[v].open # {}
        /\ \A w \in Updating!Versions \ {v} : uTmp'[w] = uTmp[w]
    <2>1. PICK x \in BOOLEAN :
            uTmp' = [uTmp EXCEPT ![v] = [v |-> v, open |-> @.open \cup {p},
                                       torn |-> @.open # {} /\ @.torn, exec |-> x]]
      BY DEF Updating!Fetch
    <2>2. PICK t \in BOOLEAN : t = (uTmp[v].open # {} /\ uTmp[v].torn)
      OBVIOUS
    <2> DEFINE h == [v |-> v, open |-> uTmp[v].open \cup {p}, torn |-> t, exec |-> x]
    <2>3. uTmp' = [uTmp EXCEPT ![v] = h]
      BY <2>1, <2>2
    <2>4. uTmp \in [Updating!Versions -> Binaries] /\ v \in Updating!Versions
      BY <1>1 DEF UpdateTyped
    <2>5. h \in Binaries /\ h.v = v /\ h.open = uTmp[v].open \cup {p} /\ (h.torn => t)
      BY <2>4, <1>1 DEF Binaries, Updating!Versions
    <2> HIDE DEF h
    <2> QED BY <2>2, <2>3, <2>4, <2>5
  <1> HIDE DEF g, v
  <1>3. /\ uShared \subseteq uShared'
        /\ v \notin uShared' =>
             \A q \in UProcs \ {p} :
               ~(uKind[q] = "github" /\ uWant[q] = v /\ uPc[q] \in Updating!Downloading)
    BY DEF Updating!Fetch, v
  <1>4. v \notin uShared' => \A q \in UProcs : ~Fetching(q, v)
    BY <1>1, <1>3 DEF Fetching, UpdatesWork, PastList, Updating!Downloading
  <1>5. \A q \in UProcs : \A w : Fetching(q, w)' => Fetching(q, w) \/ (q = p /\ w = v)
    BY <1>1 DEF Fetching, UpdateTyped, v
  <1>6. UpdateTyped'
    BY <1>1, <1>2 DEF UpdateTyped, UpdatePlaces, Updating!Resting, Updating!Downloading
  <1>7. UpdatesWork'
    BY <1>1 DEF UpdatesWork, PastList, Updating!Downloading, UpdateTyped
  <1>8. OneWriter'
    BY <1>3, <1>4, <1>5 DEF OneWriter
  <1>9. DownloadsWhole'
    <2> SUFFICES ASSUME NEW w \in Updating!Versions
                 PROVE  /\ uTmp'[w] # Updating!None => uTmp'[w].v = w
                        /\ w \notin uShared' =>
                             /\ uTmp'[w].open \subseteq
                                 {q \in UProcs : uPc'[q] = "fetching" /\ uWant'[q] = w}
                             /\ uTmp'[w].torn => \A q \in UProcs : ~Fetching(q, w)'
      BY DEF DownloadsWhole
    <2>1. w \notin uShared' =>
            uTmp[w].open \subseteq {q \in UProcs : uPc'[q] = "fetching" /\ uWant'[q] = w}
      BY <1>1, <1>3 DEF DownloadsWhole, UpdateTyped
    <2>2. CASE w # v
      BY <1>2, <1>3, <1>5, <2>1, <2>2 DEF DownloadsWhole
    <2>3. CASE w = v
      <3>1. w \notin uShared' => uTmp[w].open = {}
        BY <1>3, <1>4, <2>3 DEF DownloadsWhole, Fetching
      <3>2. uPc'[p] = "fetching" /\ uWant'[p] = v
        BY <1>1 DEF UpdateTyped, v
      <3> QED BY <1>2, <2>1, <2>3, <3>1, <3>2 DEF g
    <2> QED BY <2>2, <2>3
  <1>10. Updating!Runnable'
    BY <1>1, <1>3 DEF Updating!Runnable, UpdateTyped
  <1> QED BY <1>6, <1>7, <1>8, <1>9, <1>10

\* The rename of a download over the installed binary.
LEMMA MoveInv ==
  ASSUME UpdateInv, NEW p \in UProcs, Updating!Move(p)
  PROVE  UpdateInv'
  <1> DEFINE v == uWant[p]
  <1> USE DEF UpdateInv
  <1>1. /\ uPc[p] = "install" /\ uPc' = [uPc EXCEPT ![p] = "chmod"]
        /\ uKind[p] = "github" /\ v \in Updating!Versions
        /\ uTmp[v] # Updating!None /\ uBin' = uTmp[v] /\ uBare' = FALSE
        /\ uTmp' = [uTmp EXCEPT ![v] = Updating!None]
        /\ UNCHANGED <<uKind, uForce, uOwn, uLatest, uWant, uShared>>
    BY DEF Updating!Move, Updating!Fetched, Updating!FindBinary, Updating!Goto, Updating!Same,
           UpdatesWork, PastList, Updating!Downloading
  <1>2. Updating!None \in Binaries /\ Updating!None.open = {} /\ ~Updating!None.torn
    BY NoneFile DEF Updating!None
  <1>3. uTmp' \in [Updating!Versions -> Binaries] /\ uBin' \in Binaries
    BY <1>1, <1>2 DEF UpdateTyped
  <1>4. UpdateTyped'
    BY <1>1, <1>3, Zenon DEF UpdateTyped, UpdatePlaces, Updating!Resting, Updating!Downloading
  <1>5. UpdatesWork'
    BY <1>1 DEF UpdatesWork, PastList, Updating!Downloading, UpdateTyped
  <1>6. \A q \in UProcs : \A w : Fetching(q, w)' => Fetching(q, w)
    BY <1>1 DEF Fetching, UpdateTyped
  <1>7. OneWriter'
    BY <1>1, <1>6 DEF OneWriter
  <1>8. DownloadsWhole'
    BY <1>1, <1>2, <1>6 DEF DownloadsWhole, UpdateTyped
  <1>9. Updating!Runnable'
    <2>1. v \notin uShared => uTmp[v].open = {} /\ ~uTmp[v].torn
      <3>1. Fetching(p, v)
        BY <1>1 DEF Fetching
      <3> QED BY <1>1, <3>1 DEF OneWriter, DownloadsWhole, Fetching
    <2>2. uTmp[v].v = v
      BY <1>1 DEF DownloadsWhole
    <2>3. uPc'[p] = "chmod"
      BY <1>1 DEF UpdateTyped
    <2> QED BY <1>1, <2>1, <2>2, <2>3 DEF Updating!Runnable
  <1> QED BY <1>4, <1>5, <1>7, <1>8, <1>9

\* A private temporary file over the installed binary.
LEMMA ReplaceInv ==
  ASSUME UpdateInv, NEW p \in UProcs, Updating!Replace(p)
  PROVE  UpdateInv'
  <1> USE DEF UpdateInv
  <1>1. /\ uPc[p] = "replace" /\ uPc' = [uPc EXCEPT ![p] = "shim"]
        /\ uBin' = Updating!Binary(uWant[p]) /\ uBare' = FALSE /\ uWant[p] \in Nat
        /\ UNCHANGED <<uKind, uForce, uOwn, uTmp, uLatest, uWant, uShared>>
    BY DEF Updating!Replace, Updating!Step, Updating!Goto, Updating!Same, UpdateTyped
  <1>2. uBin' \in Binaries /\ uBin'.open = {} /\ ~uBin'.torn /\ uBin'.exec
    BY <1>1, BinaryFile
  <1>3. UpdateTyped'
    BY <1>1, <1>2, Zenon DEF UpdateTyped, UpdatePlaces, Updating!Resting, Updating!Downloading
  <1>4. UpdatesWork'
    BY <1>1 DEF UpdatesWork, PastList, Updating!Downloading, UpdateTyped
  <1>5. \A q \in UProcs : \A w : Fetching(q, w)' => Fetching(q, w)
    BY <1>1 DEF Fetching, UpdateTyped
  <1>6. OneWriter'
    BY <1>1, <1>5 DEF OneWriter
  <1>7. DownloadsWhole'
    BY <1>1, <1>5 DEF DownloadsWhole, UpdateTyped
  <1>8. Updating!Runnable'
    BY <1>2 DEF Updating!Runnable
  <1> QED BY <1>3, <1>4, <1>6, <1>7, <1>8

\* The executable bit, after the rename.
LEMMA ChmodInv ==
  ASSUME UpdateInv, NEW p \in UProcs, Updating!Chmod(p)
  PROVE  UpdateInv'
  <1> USE DEF UpdateInv
  <1>1. /\ uPc[p] = "chmod" /\ uPc' = [uPc EXCEPT ![p] = "shim"]
        /\ uBin' = [uBin EXCEPT !.exec = TRUE]
        /\ UNCHANGED <<uKind, uForce, uOwn, uTmp, uBare, uLatest, uWant, uShared>>
    BY DEF Updating!Chmod, Updating!Step, Updating!Goto, Updating!Same
  <1>2. /\ uBin' \in Binaries /\ uBin'.v = uBin.v /\ uBin'.open = uBin.open
        /\ uBin'.torn = uBin.torn /\ uBin'.exec
    BY <1>1 DEF UpdateTyped, Binaries
  <1>3. UpdateTyped'
    BY <1>1, <1>2, Zenon DEF UpdateTyped, UpdatePlaces, Updating!Resting, Updating!Downloading
  <1>4. UpdatesWork'
    BY <1>1 DEF UpdatesWork, PastList, Updating!Downloading, UpdateTyped
  <1>5. \A q \in UProcs : \A w : Fetching(q, w)' => Fetching(q, w)
    BY <1>1 DEF Fetching, UpdateTyped
  <1>6. OneWriter'
    BY <1>1, <1>5 DEF OneWriter
  <1>7. DownloadsWhole'
    BY <1>1, <1>5 DEF DownloadsWhole, UpdateTyped
  <1>8. Updating!Runnable'
    <2>1. uBin.v \in uShared \/ (uBin.open = {} /\ ~uBin.torn)
      BY DEF Updating!Runnable, Updating!None
    <2> QED BY <1>1, <1>2, <2>1 DEF Updating!Runnable
  <1> QED BY <1>3, <1>4, <1>6, <1>7, <1>8

\* The end of a download, an error, or a kill.
LEMMA LeaveInv ==
  ASSUME UpdateInv, NEW p \in UProcs, NEW torn \in BOOLEAN, Updating!CloseAll(p, torn),
         NEW to \in {"install", "cleanfail", "failed"}, Updating!Goto(p, to),
         UNCHANGED <<uKind, uForce, uOwn, uWant, uLatest, uShared>>,
         torn = TRUE => to # "install",
         to = "install" => uPc[p] = "fetching",
         to = "cleanfail" => uKind[p] = "github" /\ uPc[p] \in Updating!Downloading,
         uBare' \in BOOLEAN, uBare' = (uBare \/ uPc[p] = "chmod")
  PROVE  UpdateInv'
  <1> USE DEF UpdateInv
  <1>1. to \in UpdatePlaces /\ to # "fetching"
    BY DEF UpdatePlaces, Updating!Resting, Updating!Downloading
  <1> HIDE DEF UpdateInv
  <1>2. /\ OneWriter' /\ DownloadsWhole'
        /\ uBin # Updating!None \/ uBin' = Updating!None
        /\ uBin'.v = uBin.v /\ uBin'.exec = uBin.exec
        /\ uBin # Updating!None /\ uBin.v \notin uShared => uBin' = uBin
    BY <1>1, LettingGo
  <1> USE DEF UpdateInv
  <1>3. uBin' \in Binaries /\ uTmp' \in [Updating!Versions -> Binaries]
    BY CloseAllFiles DEF LetGo
  <1>4. uPc \in [UProcs -> UpdatePlaces] /\ uPc' = [uPc EXCEPT ![p] = to]
    BY DEF UpdateTyped, Updating!Goto
  <1>5. UpdateTyped'
    BY <1>1, <1>3, <1>4, Zenon DEF UpdateTyped
  <1>6. UpdatesWork'
    <2>1. ASSUME NEW q \in UProcs
          PROVE  /\ uPc'[q] \in (PastList \ {"shim"}) \cup {"list"} => uKind[q] = "github"
                 /\ uKind[q] = "github" => uPc'[q] \notin {"build", "stat", "replace"}
                 /\ uKind[q] = "github" /\ uPc'[q] \in PastList => uWant[q] \in Updating!Versions
      <3>1. CASE q # p
        BY <1>4, <3>1 DEF UpdatesWork
      <3>2. CASE q = p
        BY <1>4, <3>2 DEF UpdatesWork, PastList, Updating!Downloading
      <3> QED BY <3>1, <3>2
    <2> QED BY <2>1 DEF UpdatesWork
  <1>7. Updating!Runnable'
    BY <1>2, <1>4 DEF Updating!Runnable
  <1> QED BY <1>2, <1>5, <1>6, <1>7

\* The deferred removal of the directory of a release.
LEMMA CleanInv ==
  ASSUME UpdateInv, NEW p \in UProcs, Updating!Clean(p)
  PROVE  UpdateInv'
  <1> USE DEF UpdateInv
  <1>1. /\ uPc[p] \in {"clean", "cleanfail"}
        /\ uTmp' = [uTmp EXCEPT ![uWant[p]] = Updating!None]
        /\ UNCHANGED <<uKind, uForce, uOwn, uBin, uBare, uLatest, uWant, uShared>>
    BY DEF Updating!Clean, Updating!Step, Updating!Same
  <1>2. PICK to \in {"done", "failed"} : uPc' = [uPc EXCEPT ![p] = to]
    BY DEF Updating!Clean, Updating!Step, Updating!Goto
  <1>3. Updating!None \in Binaries /\ Updating!None.open = {} /\ ~Updating!None.torn
    BY NoneFile DEF Updating!None
  <1>4. uTmp' \in [Updating!Versions -> Binaries]
    BY <1>1, <1>3 DEF UpdateTyped
  <1>5. UpdateTyped'
    BY <1>1, <1>2, <1>4, Zenon DEF UpdateTyped, UpdatePlaces, Updating!Resting
  <1>6. UpdatesWork'
    BY <1>1, <1>2 DEF UpdatesWork, PastList, Updating!Downloading, UpdateTyped
  <1>7. \A q \in UProcs : \A w : Fetching(q, w)' => Fetching(q, w)
    BY <1>1, <1>2 DEF Fetching, UpdateTyped
  <1>8. OneWriter'
    BY <1>1, <1>7 DEF OneWriter
  <1>9. DownloadsWhole'
    BY <1>1, <1>2, <1>3, <1>7 DEF DownloadsWhole, UpdateTyped
  <1>10. Updating!Runnable'
    BY <1>1, <1>2 DEF Updating!Runnable, UpdateTyped
  <1> QED BY <1>5, <1>6, <1>8, <1>9, <1>10

LEMMA UpdateNext == UpdateInv /\ [Updating!Next]_updateVars => UpdateInv'
  <1> SUFFICES ASSUME UpdateInv, [Updating!Next]_updateVars PROVE UpdateInv'
    OBVIOUS
  <1>1. ASSUME NEW p \in UProcs, NEW to \in UpdatePlaces \ {"fetching", "install"},
               Updating!Goto(p, to),
               UNCHANGED <<uBin, uTmp, uBare, uShared>>,
               \A q \in UProcs \ {p} : uWant'[q] = uWant[q],
               uPc[p] # "chmod", uPc[p] # "fetching", UpdateTyped', UpdatesWork'
        PROVE  UpdateInv'
    BY <1>1, FilesAlone DEF UpdateInv
  <1>2. ASSUME NEW p \in UProcs, NEW k \in Updating!Commands, NEW f \in BOOLEAN,
               NEW v \in 1..uLatest,
               Updating!Start(p, k, f, v)
        PROVE  UpdateInv'
    <2> DEFINE to == CASE k = "source" -> "build" [] k = "github" -> "list"
                       [] k = "install" -> "stat"
    <2>1. /\ uPc[p] \in Updating!Resting /\ Updating!Goto(p, to)
          /\ UNCHANGED <<uBin, uTmp, uLatest, uWant, uShared, uBare>>
          /\ uKind' = [uKind EXCEPT ![p] = k] /\ uForce' = [uForce EXCEPT ![p] = f]
          /\ uOwn' = [uOwn EXCEPT ![p] = v]
      BY <1>2 DEF Updating!Start
    <2>2. to \in {"build", "list", "stat"} /\ (k = "github" <=> to = "list")
      BY DEF Updating!Commands, Updating!SelfUpdates
    <2> HIDE DEF to
    <2>3. uPc' = [uPc EXCEPT ![p] = to] /\ v \in Nat
      BY <2>1 DEF Updating!Goto, UpdateInv, UpdateTyped, Updating!Versions
    <2>4. uPc' \in [UProcs -> UpdatePlaces]
      BY <2>2, <2>3 DEF UpdateInv, UpdateTyped, UpdatePlaces
    <2>5. uForce' \in [UProcs -> BOOLEAN]
      BY <2>1, Zenon DEF UpdateInv, UpdateTyped
    <2>6. UpdateTyped'
      BY <2>1, <2>3, <2>4, <2>5 DEF UpdateInv, UpdateTyped
    <2>7. UpdatesWork'
      BY <2>1, <2>2, <2>3 DEF UpdateInv, UpdateTyped, UpdatesWork, PastList, Updating!Downloading
    <2>8. to \in UpdatePlaces \ {"fetching", "install"} /\ uPc[p] \notin {"chmod", "fetching"}
      BY <2>1, <2>2 DEF UpdatePlaces, Updating!Resting
    <2> QED BY <1>1, <2>1, <2>6, <2>7, <2>8
  <1>3. ASSUME NEW p \in UProcs, Updating!Build(p) PROVE UpdateInv'
    <2>1. /\ uPc[p] = "build" /\ Updating!Goto(p, "replace")
          /\ uWant' = [uWant EXCEPT ![p] = Updating!Source]
          /\ UNCHANGED <<uBin, uTmp, uBare, uLatest, uShared, uKind, uForce, uOwn>>
      BY <1>3 DEF Updating!Build, Updating!Step, Updating!Same, Updating!Files
    <2>2. Updating!Source \in Nat
      BY DEF Updating!Source, UpdateInv, UpdateTyped, Updating!Versions
    <2>3. UpdateTyped'
      BY <2>1, <2>2, Zenon DEF UpdateInv, UpdateTyped, Updating!Goto, UpdatePlaces
    <2>4. UpdatesWork'
      BY <2>1 DEF UpdateInv, UpdateTyped, UpdatesWork, PastList, Updating!Downloading,
                  Updating!Goto
    <2> QED BY <1>1, <2>1, <2>3, <2>4 DEF UpdatePlaces, UpdateInv, UpdateTyped
  <1>4. ASSUME NEW p \in UProcs, Updating!Stat(p) PROVE UpdateInv'
    <2>1. PICK to \in {"replace", "shim"} :
            /\ uPc[p] = "stat" /\ Updating!Goto(p, to) /\ uWant' = [uWant EXCEPT ![p] = uOwn[p]]
            /\ UNCHANGED <<uBin, uTmp, uBare, uLatest, uShared, uKind, uForce, uOwn>>
      BY <1>4 DEF Updating!Stat, Updating!Step, Updating!Same, Updating!Files
    <2>2. to \in UpdatePlaces \ {"fetching", "install"}
      BY <2>1 DEF UpdatePlaces, Updating!Downloading
    <2>3. UpdateTyped'
      BY <2>1, <2>2, Zenon DEF UpdateInv, UpdateTyped, Updating!Goto
    <2>4. UpdatesWork'
      BY <2>1 DEF UpdateInv, UpdateTyped, UpdatesWork, PastList, Updating!Downloading,
                  Updating!Goto
    <2> QED BY <1>1, <2>1, <2>2, <2>3, <2>4 DEF UpdateInv, UpdateTyped
  <1>5. ASSUME NEW p \in UProcs, Updating!List(p) PROVE UpdateInv'
    <2>1. PICK to \in {"done", "fetch"} :
            /\ uPc[p] = "list" /\ Updating!Goto(p, to) /\ uWant' = [uWant EXCEPT ![p] = uLatest]
            /\ UNCHANGED <<uBin, uTmp, uBare, uLatest, uShared, uKind, uForce, uOwn>>
      BY <1>5 DEF Updating!List, Updating!Step, Updating!Same, Updating!Files
    <2>2. to \in UpdatePlaces \ {"fetching", "install"}
      BY <2>1 DEF UpdatePlaces, Updating!Downloading, Updating!Resting
    <2>3. uLatest \in Updating!Versions /\ uLatest \in Nat
      BY DEF UpdateInv, UpdateTyped, Updating!Versions
    <2>4. UpdateTyped'
      BY <2>1, <2>2, <2>3, Zenon DEF UpdateInv, UpdateTyped, Updating!Goto
    <2>5. UpdatesWork'
      <3>1. uKind[p] = "github"
        BY <2>1 DEF UpdateInv, UpdatesWork
      <3> QED BY <2>1, <2>3, <3>1 DEF UpdateInv, UpdateTyped, UpdatesWork, PastList,
                                      Updating!Downloading, Updating!Goto
    <2> QED BY <1>1, <2>1, <2>2, <2>4, <2>5 DEF UpdateInv, UpdateTyped
  <1>6. ASSUME NEW p \in UProcs, Updating!Replace(p) PROVE UpdateInv'
    BY <1>6, ReplaceInv
  <1>7. ASSUME NEW p \in UProcs, Updating!Fetch(p) PROVE UpdateInv'
    BY <1>7, FetchInv
  <1>8. ASSUME NEW p \in UProcs, Updating!EndFetch(p) PROVE UpdateInv'
    <2>1. /\ uPc[p] = "fetching" /\ Updating!Goto(p, "install") /\ Updating!CloseAll(p, FALSE)
          /\ UNCHANGED <<uKind, uForce, uOwn, uWant, uLatest, uShared, uBare>>
      BY <1>8 DEF Updating!EndFetch, Updating!Step, Updating!Same
    <2>2. uBare' \in BOOLEAN /\ uBare' = (uBare \/ uPc[p] = "chmod")
      BY <2>1, Zenon DEF UpdateInv, UpdateTyped
    <2> QED BY <2>1, <2>2, LeaveInv
  <1>9. ASSUME NEW p \in UProcs, Updating!Move(p) PROVE UpdateInv'
    BY <1>9, MoveInv
  <1>10. ASSUME NEW p \in UProcs, Updating!Chmod(p) PROVE UpdateInv'
    BY <1>10, ChmodInv
  <1>11. ASSUME NEW p \in UProcs, Updating!Shim(p) PROVE UpdateInv'
    <2>1. PICK to \in {"clean", "done"} :
            /\ uPc[p] = "shim" /\ Updating!Goto(p, to) /\ (to = "clean" => uKind[p] = "github")
            /\ UNCHANGED <<uBin, uTmp, uBare, uLatest, uShared, uKind, uForce, uOwn, uWant>>
      BY <1>11 DEF Updating!Shim, Updating!Step, Updating!Same, Updating!Files
    <2>2. to \in UpdatePlaces \ {"fetching", "install"}
      BY <2>1 DEF UpdatePlaces, Updating!Downloading, Updating!Resting
    <2>3. UpdateTyped'
      BY <2>1, <2>2, Zenon DEF UpdateInv, UpdateTyped, Updating!Goto
    <2>4. UpdatesWork'
      BY <2>1 DEF UpdateInv, UpdateTyped, UpdatesWork, PastList, Updating!Downloading,
                  Updating!Goto
    <2> QED BY <1>1, <2>1, <2>2, <2>3, <2>4 DEF UpdateInv, UpdateTyped
  <1>12. ASSUME NEW p \in UProcs, Updating!Clean(p) PROVE UpdateInv'
    BY <1>12, CleanInv
  <1>13. ASSUME NEW p \in UProcs, Updating!Fail(p) \/ Updating!Kill(p) PROVE UpdateInv'
    <2>1. PICK to \in {"cleanfail", "failed"} :
            /\ Updating!Goto(p, to) /\ Updating!CloseAll(p, TRUE)
            /\ uBare' = (uBare \/ uPc[p] = "chmod")
            /\ to = "cleanfail" => uKind[p] = "github" /\ uPc[p] \in Updating!Downloading
            /\ UNCHANGED <<uKind, uForce, uOwn, uWant, uLatest, uShared>>
      BY <1>13 DEF Updating!Fail, Updating!Kill, Updating!FailAt, Updating!Same
    <2>2. uBare' \in BOOLEAN
      BY <2>1
    <2> QED BY <2>1, <2>2, LeaveInv
  <1>14. CASE Updating!Publish
    <2>1. uLatest' \in Updating!Versions
      BY <1>14 DEF Updating!Publish, UpdateInv, UpdateTyped, Updating!Versions
    <2>2. UNCHANGED <<uBin, uTmp, uBare, uKind, uForce, uOwn, uWant, uPc, uShared>>
      BY <1>14 DEF Updating!Publish, Updating!Files
    <2> QED BY <2>1, <2>2 DEF UpdateInv, UpdateTyped, UpdatesWork, OneWriter, Fetching,
                              DownloadsWhole, Updating!Runnable
  <1>15. CASE UNCHANGED updateVars
    BY <1>15 DEF updateVars, UpdateInv, UpdateTyped, UpdatesWork, OneWriter, Fetching,
                 DownloadsWhole, Updating!Runnable
  <1> QED BY <1>2, <1>3, <1>4, <1>5, <1>6, <1>7, <1>8, <1>9, <1>10, <1>11, <1>12, <1>13, <1>14,
             <1>15
          DEF Updating!Next, Updating!Act, Updating!InstallBuilt, Updating!CopyFile

LEMMA UpdateRuns == UpdateInv => Updating!Runnable
  BY DEF UpdateInv
=============================================================================
