-------------------------- MODULE WorkspaceProofs --------------------------
(***************************************************************************)
(* What holds of a workspace, for any values of the constants: for each    *)
(* part an inductive invariant, that it holds at first, that every step    *)
(* keeps it, and that it implies what the part promises.  PartsProofs      *)
(* states the theorems.                                                    *)
(***************************************************************************)
EXTENDS Workspace, WellFoundedInduction, FiniteSetTheorems, TLAPS

--------------------------------------------------------------------------------
(* Least numbers and sequences. *)

LEMMA SmallestOf ==
  ASSUME NEW T \in SUBSET Nat, T # {}
  PROVE  \E n \in T : \A m \in T : n <= m
  <1> DEFINE R == {p \in Nat \X Nat : p[1] < p[2]}
  <1>1. IsWellFoundedOn(R, Nat)
    BY NatLessThanWellFounded DEF OpToRel
  <1>2. PICK n \in T : \A m \in T : ~(<<m, n>> \in R)
    <2> HIDE DEF R
    <2> QED BY <1>1, WFMin
  <1>3. ASSUME NEW m \in T PROVE n <= m
    <2>1. <<m, n>> \in Nat \X Nat
      OBVIOUS
    <2>2. ~(m < n)
      BY <1>2, <2>1
    <2> QED BY <2>2
  <1> QED BY <1>3

\* Sequences of anything, of which the set of elements is left open.
LEMMA SequenceOf ==
  ASSUME NEW S, NEW s \in Seq(S)
  PROVE  IsSequence(s)
  BY DEF IsSequence

LEMMA SequenceAppend ==
  ASSUME NEW s, IsSequence(s), NEW e
  PROVE  /\ IsSequence(Append(s, e)) /\ Len(s) \in Nat /\ DOMAIN s = 1..Len(s)
         /\ Len(Append(s, e)) = Len(s) + 1 /\ DOMAIN Append(s, e) = 1..Len(s) + 1
         /\ \A n \in 1..Len(s) : Append(s, e)[n] = s[n]
         /\ Append(s, e)[Len(s) + 1] = e
  <1> DEFINE S == {s[n] : n \in DOMAIN s} \cup {e}
  <1>1. s \in Seq(S)
    BY DEF IsSequence
  <1>2. e \in S
    OBVIOUS
  <1> HIDE DEF S
  <1>3. Append(s, e) \in Seq(S)
    BY <1>1, <1>2
  <1>4. IsSequence(Append(s, e))
    BY <1>3, SequenceOf
  <1>5. Len(s) \in Nat /\ DOMAIN s = 1..Len(s)
    BY <1>1
  <1>6. Len(Append(s, e)) = Len(s) + 1 /\ DOMAIN Append(s, e) = 1..Len(s) + 1
    BY <1>1, <1>2, <1>3
  <1>7. /\ \A n \in 1..Len(s) : Append(s, e)[n] = s[n]
        /\ Append(s, e)[Len(s) + 1] = e
    BY <1>1, <1>2
  <1> QED BY <1>4, <1>5, <1>6, <1>7

LEMMA SequenceConcat ==
  ASSUME NEW s, IsSequence(s), NEW t, IsSequence(t)
  PROVE  /\ IsSequence(s \o t) /\ Len(s) \in Nat /\ DOMAIN s = 1..Len(s)
         /\ Len(t) \in Nat /\ DOMAIN t = 1..Len(t)
         /\ Len(s \o t) = Len(s) + Len(t) /\ DOMAIN (s \o t) = 1..Len(s) + Len(t)
         /\ \A n \in 1..Len(s) + Len(t) :
              (s \o t)[n] = IF n <= Len(s) THEN s[n] ELSE t[n - Len(s)]
  <1> DEFINE S == {s[n] : n \in DOMAIN s} \cup {t[n] : n \in DOMAIN t}
  <1>1. s \in Seq(S) /\ t \in Seq(S)
    BY DEF IsSequence
  <1> HIDE DEF S
  <1>2. s \o t \in Seq(S)
    BY <1>1
  <1>3. IsSequence(s \o t)
    BY <1>2, SequenceOf
  <1>4. Len(s) \in Nat /\ DOMAIN s = 1..Len(s) /\ Len(t) \in Nat /\ DOMAIN t = 1..Len(t)
    BY <1>1
  <1>5. Len(s \o t) = Len(s) + Len(t) /\ DOMAIN (s \o t) = 1..Len(s) + Len(t)
    BY <1>1, <1>2
  <1>6. \A n \in 1..Len(s) + Len(t) : (s \o t)[n] = IF n <= Len(s) THEN s[n] ELSE t[n - Len(s)]
    BY <1>1
  <1> QED BY <1>3, <1>4, <1>5, <1>6

LEMMA SequenceTail ==
  ASSUME NEW s, IsSequence(s), NEW n \in Nat
  PROVE  IsSequence(SubSeq(s, n + 1, Len(s)))
  <1> DEFINE S == {s[i] : i \in DOMAIN s}
  <1>1. s \in Seq(S) /\ Len(s) \in Nat /\ DOMAIN s = 1..Len(s)
    BY DEF IsSequence
  <1>2. \A i \in 1..Len(s) : s[i] \in S
    BY <1>1
  <1> HIDE DEF S
  <1>3. SubSeq(s, n + 1, Len(s)) \in Seq(S)
    BY <1>1, <1>2
  <1> QED BY <1>3, SequenceOf

--------------------------------------------------------------------------------
(* The source pipeline. *)

(***************************************************************************)
(* The steps of a mount: every entry is a file, and what came from none is *)
(* named in a warning.                                                     *)
(***************************************************************************)
Named(run, m) ==
  /\ DOMAIN run = {"entries", "warned", "ok"}
  /\ \A e \in run.entries : IsFile(e)
  /\ \A e \in m.entries : e.src \in run.warned \/ \E d \in run.entries : d.src = e.src

LEMMA StepNames ==
  ASSUME NEW m, IsMount(m), NEW run, Named(run, m), NEW n \in DOMAIN m.steps
  PROVE  Named(Composing!Step(run, m.steps[n]), m)
  <1> DEFINE step == m.steps[n]
  <1>1. step.op \in {"move", "require"} /\ IsSequence(step.from) /\ IsSequence(step.to)
    BY DEF IsMount
  <1> HIDE DEF step
  <1>2. CASE step.op = "move" /\ run.ok
    <2> DEFINE To(e) == [e EXCEPT !.rel = Composing!Rewrite(e.rel, step.from, step.to)]
               moving == {e \in run.entries : e.rel = step.from \/ Composing!Under(step.from, e.rel)}
               moved == {To(e) : e \in moving}
               hit == {e \in run.entries \ moving : \E d \in moved : d.rel = e.rel}
               next == Composing!Move(run, step)
    <2>1. /\ DOMAIN next = {"entries", "warned", "ok"}
          /\ next.entries = (run.entries \ (moving \cup hit)) \cup moved
          /\ next.warned = run.warned \cup {e.src : e \in hit}
      BY DEF Named, Composing!Move
    <2>2. ASSUME NEW e \in run.entries PROVE IsFile(To(e)) /\ To(e).src = e.src
      <3>1. IsFile(e)
        BY DEF Named
      <3>2. Len(step.from) \in Nat
        BY <1>1 DEF IsSequence
      <3>3. IsSequence(SubSeq(e.rel, Len(step.from) + 1, Len(e.rel)))
        BY <3>1, <3>2, SequenceTail DEF IsFile
      <3>4. IsSequence(Composing!Rewrite(e.rel, step.from, step.to))
        BY <1>1, <3>3, SequenceConcat DEF Composing!Rewrite
      <3> QED BY <3>1, <3>4 DEF IsFile
    <2>3. Composing!Step(run, step) = next
      BY <1>2 DEF Composing!Step
    <2> HIDE DEF To, next
    <2>4. \A e \in next.entries : IsFile(e)
      BY <2>1, <2>2 DEF Named
    <2>5. ASSUME NEW e \in m.entries
          PROVE  e.src \in next.warned \/ \E d \in next.entries : d.src = e.src
      <3>1. CASE e.src \in run.warned
        BY <2>1, <3>1
      <3>2. CASE \E d \in run.entries : d.src = e.src
        <4>1. PICK d \in run.entries : d.src = e.src
          BY <3>2
        <4>2. CASE d \in moving
          BY <2>1, <2>2, <4>1, <4>2
        <4>3. CASE d \in hit
          BY <2>1, <4>1, <4>3
        <4>4. CASE d \notin moving \cup hit
          BY <2>1, <4>1, <4>4
        <4> QED BY <4>2, <4>3, <4>4
      <3> QED BY <3>1, <3>2 DEF Named
    <2> QED BY <2>1, <2>3, <2>4, <2>5 DEF Named, step
  <1>3. CASE step.op = "require" \/ ~run.ok
    <2>1. \/ Composing!Step(run, step) = run
          \/ Composing!Step(run, step) = [run EXCEPT !.ok = FALSE]
      BY <1>3 DEF Composing!Step, Composing!Require
    <2> QED BY <2>1 DEF Named, step
  <1> QED BY <1>1, <1>2, <1>3

\* By induction as in ReplayedLine.
LEMMA StepsName ==
  ASSUME NEW m, IsMount(m)
  PROVE  Named(Composing!Steps(m), m)
  <1> DEFINE Start == [entries |-> m.entries, warned |-> {}, ok |-> TRUE]
             Next(f, n) == IF n = 0 THEN Start ELSE Composing!Step(f[n - 1], m.steps[n])
             Stepped(f, n) == f = [i \in 0..n |-> Next(f, i)]
             Missing == {n \in 0..Len(m.steps) : ~ \E f : Stepped(f, n)}
  <1>l. Len(m.steps) \in Nat /\ DOMAIN m.steps = 1..Len(m.steps)
    BY DEF IsMount, IsSequence
  <1>1. Missing = {}
    <2> SUFFICES ASSUME Missing # {} PROVE FALSE
      OBVIOUS
    <2>1. Missing \in SUBSET Nat
      BY <1>l
    <2>2. PICK n \in Missing : \A k \in Missing : n <= k
      <3> HIDE DEF Missing
      <3> QED BY <2>1, SmallestOf
    <2>3. n \in 0..Len(m.steps) /\ n \in Nat /\ ~ \E f : Stepped(f, n)
      BY <2>1
    <2>4. CASE n = 0
      <3>1. Stepped([i \in 0..0 |-> Start], 0)
        OBVIOUS
      <3> QED BY <2>3, <2>4, <3>1
    <2>5. CASE n # 0
      <3>0. n - 1 \in 0..Len(m.steps) /\ ~(n <= n - 1)
        BY <1>l, <2>3, <2>5
      <3>1. n - 1 \notin Missing
        <4> HIDE DEF Missing
        <4> QED BY <2>2, <3>0
      <3>2. PICK f : Stepped(f, n - 1)
        <4> HIDE DEF Stepped
        <4> QED BY <3>0, <3>1
      <3> DEFINE g == [i \in 0..n |-> IF i = n THEN Next(f, n) ELSE f[i]]
      <3>3. ASSUME NEW i \in 0..n PROVE g[i] = Next(g, i)
        <4>1. CASE i = n
          BY <2>3, <2>5, <4>1
        <4>2. CASE i # n
          <5>0. i \in 0..n - 1
            BY <2>3, <4>2
          <5>1. f[i] = Next(f, i)
            <6> HIDE DEF Next
            <6> QED BY <3>2, <5>0
          <5>2. i # 0 => i - 1 \in 0..n /\ i - 1 # n
            BY <2>3, <5>0
          <5> QED BY <4>2, <5>1, <5>2
        <4> QED BY <4>1, <4>2
      <3>4. Stepped(g, n)
        <4>1. g = [i \in 0..n |-> g[i]]
          OBVIOUS
        <4> HIDE DEF g
        <4> QED BY <3>3, <4>1
      <3> QED BY <2>3, <3>4
    <2> QED BY <2>4, <2>5
  <1>2. \E f : Stepped(f, Len(m.steps))
    <2>1. Len(m.steps) \in 0..Len(m.steps)
      BY <1>l
    <2> HIDE DEF Stepped
    <2> QED BY <1>1, <2>1
  <1> DEFINE r == CHOOSE f : Stepped(f, Len(m.steps))
  <1>3. r = [i \in 0..Len(m.steps) |-> Next(r, i)]
    BY <1>2
  <1>4. Composing!Steps(m) = r[Len(m.steps)]
    BY DEF Composing!Steps
  <1> HIDE DEF r
  <1> DEFINE Wrong == {n \in 0..Len(m.steps) : ~Named(r[n], m)}
  <1>5. Wrong = {}
    <2> SUFFICES ASSUME Wrong # {} PROVE FALSE
      OBVIOUS
    <2>1. Wrong \in SUBSET Nat
      BY <1>l
    <2>2. PICK n \in Wrong : \A k \in Wrong : n <= k
      <3> HIDE DEF Wrong
      <3> QED BY <2>1, SmallestOf
    <2>3. n \in 0..Len(m.steps) /\ n \in Nat /\ ~Named(r[n], m)
      BY <2>1
    <2>4. CASE n = 0
      <3>1. r[n] = Start
        BY <1>3, <2>3, <2>4
      <3>2. Named(Start, m)
        BY DEF Named, IsMount
      <3> QED BY <2>3, <3>1, <3>2
    <2>5. CASE n # 0
      <3>1. n - 1 \in 0..Len(m.steps) /\ n \in DOMAIN m.steps /\ Named(r[n - 1], m)
        BY <1>l, <2>1, <2>2, <2>3, <2>5
      <3>2. r[n] = Composing!Step(r[n - 1], m.steps[n])
        BY <1>3, <2>3, <2>5
      <3> QED BY <2>3, <3>1, <3>2, StepNames
    <2> QED BY <2>4, <2>5
  <1>6. Len(m.steps) \in 0..Len(m.steps)
    BY <1>l
  <1> QED BY <1>4, <1>5, <1>6

(***************************************************************************)
(* What is merged is decided by the path, and so is what is a fragment.    *)
(* Of the files placed, those that join others are recorded; the others    *)
(* are copies that do not meet, of which those at the destination of       *)
(* fragments are recorded when all files are placed.  Nothing else is      *)
(* recorded or copied.                                                     *)
(***************************************************************************)
Files ==
  /\ \A f \in cFiles : IsFile(f)
  /\ \A m \in cMounts : IsMount(m)
  /\ \A a \in cCue : IsDeclared(a)
  /\ cLost = {}
  /\ cPc \in {"discover", "mount"} => cRecorded = Composing!Nothing /\ cDirect = Composing!Nothing

IsRecorded(f) ==
  /\ Composing!PathOf(f) \in DOMAIN cRecorded
  /\ Composing!Same(cRecorded[Composing!PathOf(f)], Composing!Member(f))
IsCopied(f) ==
  /\ Composing!PathOf(f) \in DOMAIN cDirect
  /\ cDirect[Composing!PathOf(f)] = Composing!Marked(f)
IsAbsorbed(f) == cTodo = {} /\ Composing!PathOf(f) \in Composing!Lines /\ IsRecorded(f)

Placed ==
  LET placed == cFiles \ cTodo IN
  /\ cTodo \subseteq cFiles
  /\ \A f \in placed :
       /\ f.under # Composing!Outside
       /\ IF Composing!Joins(f) THEN IsRecorded(f) ELSE IsCopied(f) \/ IsAbsorbed(f)
  /\ \A f, g \in placed :
       f # g /\ ~Composing!Joins(f) /\ ~Composing!Joins(g)
         => ~Composing!Nested(Composing!PathOf(f), Composing!PathOf(g))
  /\ \A p \in DOMAIN cRecorded : \E f \in placed :
       /\ Composing!PathOf(f) = p /\ IsRecorded(f)
       /\ Composing!Joins(f) \/ IsAbsorbed(f)
  /\ \A p \in DOMAIN cDirect : \E f \in placed :
       Composing!PathOf(f) = p /\ IsCopied(f) /\ ~Composing!Joins(f)
  /\ DOMAIN cRecorded \cap DOMAIN cDirect = {}
Sorted == cTodo = {} /\ Composing!Absorbable = {}

ComposeInv ==
  /\ Files
  /\ Composing!NoNestedLink =>
       /\ cPc \in {"place", "merge", "done"} => Placed
       /\ cPc \in {"merge", "done"} => Sorted
       /\ cPc = "done" => Composing!Compatible /\ cOut = cCue \cup Composing!Squashed
                                \cup {Composing!Whole(p, cDirect[p]) : p \in DOMAIN cDirect}
       /\ cPc = "refused" => ~Composing!Compatible

LEMMA JoinsByPath ==
  ASSUME NEW f
  PROVE  Composing!Joins(f) <=> Composing!NeedsMerge(Composing!PathOf(f))
  BY DEF Composing!Joins, Composing!NeedsMerge, Composing!InDotted, Composing!Overlaps,
         Composing!CuePaths

LEMMA ComposeInit == Composing!Init => ComposeInv
  <1> SUFFICES ASSUME Composing!Init PROVE ComposeInv
    OBVIOUS
  <1>1. Composing!Init
    OBVIOUS
  <1>2. PICK i \in CInputs : cFiles = i.files /\ cMounts = i.mounts /\ cCue = i.cue
    BY <1>1 DEF Composing!Init
  <1>3. Files
    BY <1>1, <1>2, InputsAssumption DEF Composing!Init, Files
  <1> QED BY <1>1, <1>3 DEF Composing!Init, ComposeInv

LEMMA ComposeRender ==
  ASSUME ComposeInv, NEW t \in cFiles, Composing!Render(t)
  PROVE  ComposeInv'
  <1>1. /\ cPc = "discover" /\ cPc' \in {"discover", "failed"}
        /\ UNCHANGED <<cMounts, cCue, cRecorded, cDirect, cTodo, cOut, cLost>>
        /\ cFiles' = cFiles \/ \E made \in Composing!Renderings(t) : cFiles' = (cFiles \ {t}) \cup made
    BY DEF Composing!Render, ComposeInv
  <1>2. ASSUME NEW made \in Composing!Renderings(t), NEW f \in made PROVE IsFile(f)
    <2> DEFINE Made(p) == [t EXCEPT !.rel = p, !.src = Composing!Rendered, !.kind = "plain",
                                    !.id = <<t.id, p>>]
    <2>1. IsFile(t)
      BY DEF ComposeInv, Files
    <2>2. ASSUME NEW p, IsSequence(p) PROVE IsFile(Made(p))
      BY <2>1, <2>2 DEF IsFile
    <2>3. IsSequence(Composing!Strip(t.rel))
      <3> DEFINE s == t.rel
                 S == {s[n] : n \in DOMAIN s} \cup {CStripOf[s[Len(s)]]}
      <3>1. s \in Seq(S)
        BY <2>1 DEF IsFile, IsSequence
      <3>2. CStripOf[s[Len(s)]] \in S
        OBVIOUS
      <3>3. Composing!Strip(s) = [s EXCEPT ![Len(s)] = CStripOf[s[Len(s)]]]
        BY DEF Composing!Strip
      <3> HIDE DEF S, s
      <3>4. Composing!Strip(s) \in Seq(S)
        <4> DEFINE u == [i \in 1..Len(s) |-> IF i = Len(s) THEN CStripOf[s[Len(s)]] ELSE s[i]]
        <4>1. Len(s) \in Nat /\ DOMAIN s = 1..Len(s) /\ s = [i \in 1..Len(s) |-> s[i]]
          BY <3>1
        <4>2. Composing!Strip(s) = u
          BY <3>3, <4>1
        <4>3. \A i \in 1..Len(s) : u[i] \in S
          BY <3>1, <3>2, <4>1
        <4>4. u \in Seq(S)
          <5> HIDE DEF u
          <5>1. u = [i \in 1..Len(s) |-> u[i]]
            BY DEF u
          <5> QED BY <4>1, <4>3, <5>1
        <4> QED BY <4>2, <4>4
      <3>5. IsSequence(Composing!Strip(s))
        BY <3>4, SequenceOf
      <3> QED BY <3>5 DEF s
    <2>4. \A n : IsSequence(Append(Composing!Strip(t.rel), n))
      BY Zenon, <2>3, SequenceAppend
    <2>5. \/ f = Made(Composing!Strip(t.rel))
          \/ \E n \in CParts : f = Made(Append(Composing!Strip(t.rel), n))
      BY <1>2 DEF Composing!Renderings
    <2> HIDE DEF Made
    <2> QED BY <2>2, <2>3, <2>4, <2>5
  <1>3. Files'
    BY <1>1, <1>2 DEF ComposeInv, Files
  <1> QED BY <1>1, <1>3 DEF ComposeInv

LEMMA ComposeMount ==
  ASSUME ComposeInv, NEW m \in cMounts, Composing!Mount(m)
  PROVE  ComposeInv'
  <1> DEFINE run == Composing!Steps(m)
             At(e) == [e EXCEPT !.rel = Composing!Target(m, e), !.id = <<@, m>>]
  <1>1. IsMount(m)
    BY DEF ComposeInv, Files
  <1>2. Named(run, m)
    BY <1>1, StepsName
  <1>3. /\ cPc = "mount" /\ cPc' \in {"mount", "failed"} /\ cMounts' = cMounts \ {m}
        /\ cFiles' = cFiles \cup {At(e) : e \in run.entries}
        /\ cLost' = cLost \cup ({e.src : e \in m.entries}
                                   \ ({e.src : e \in run.entries} \cup run.warned))
        /\ UNCHANGED <<cCue, cRecorded, cDirect, cTodo, cOut>>
    BY DEF Composing!Mount
  <1> HIDE DEF run
  <1>4. cLost' = {}
    BY <1>2, <1>3 DEF ComposeInv, Files, Named
  <1>5. ASSUME NEW e \in run.entries PROVE IsFile(At(e))
    <2>1. IsFile(e)
      BY <1>2 DEF Named
    <2>2. IsSequence(m.dest \o e.rel)
      BY <1>1, <2>1, SequenceConcat DEF IsFile, IsMount
    <2>3. IsSequence(Composing!Target(m, e))
      BY <1>1, <2>2 DEF Composing!Target, IsMount
    <2> QED BY <2>1, <2>3 DEF IsFile
  <1> HIDE DEF At
  <1>6. Files'
    BY <1>3, <1>4, <1>5 DEF ComposeInv, Files
  <1> QED BY <1>3, <1>6 DEF ComposeInv

\* A file that joins others is recorded, and nothing it is compared with was absorbed yet.
LEMMA ComposePlace ==
  ASSUME ComposeInv, NEW f \in cTodo, Composing!Place(f)
  PROVE  ComposeInv'
  <1> DEFINE p == Composing!PathOf(f)
  <1>1. /\ cPc = "place" /\ cTodo' = cTodo \ {f}
        /\ UNCHANGED <<cFiles, cMounts, cCue, cOut, cLost>>
    BY DEF Composing!Place
  <1>2. \/ f.under = Composing!Outside /\ cPc' = "refused"
        \/ /\ f.under # Composing!Outside /\ Composing!NeedsMerge(p)
           /\ Composing!Record(p, f) /\ UNCHANGED cDirect
        \/ /\ f.under # Composing!Outside /\ ~Composing!NeedsMerge(p)
           /\ Composing!AddDirect(p, f) /\ UNCHANGED cRecorded
    BY DEF Composing!Place
  <1>3. Files' /\ cPc' \in {"place", "refused"}
    BY <1>1, <1>2 DEF ComposeInv, Files, Composing!Record, Composing!AddDirect
  <1> SUFFICES ASSUME Composing!NoNestedLink
               PROVE  /\ cPc' = "place" => Placed'
                      /\ cPc' = "refused" => ~Composing!Compatible'
    BY <1>1, <1>3 DEF ComposeInv, Composing!NoNestedLink
  <1>4. Placed /\ f \in cFiles
    BY <1>1 DEF ComposeInv, Placed
  <1>5. Composing!Compatible' <=> Composing!Compatible
    BY <1>1 DEF Composing!Compatible, Composing!Joins, Composing!Joined, Composing!Lines,
                Composing!PassedOver, Composing!Assigned
  <1>6. Composing!Joins(f) <=> Composing!NeedsMerge(p)
    BY JoinsByPath
  <1> HIDE DEF p
  <1>7. CASE f.under = Composing!Outside /\ cPc' = "refused"
    BY <1>4, <1>5, <1>7 DEF Composing!Compatible
  <1>8. \A g : Composing!Joins(g)' <=> Composing!Joins(g)
    BY <1>1 DEF Composing!Joins
  <1>9. cTodo # {} /\ \A g : ~IsAbsorbed(g)
    BY DEF IsAbsorbed
  <1>10. (cFiles \ cTodo)' = (cFiles \ cTodo) \cup {f} /\ cTodo' \subseteq cFiles'
    BY <1>1, <1>4 DEF Placed
  <1>11. CASE f.under # Composing!Outside /\ Composing!NeedsMerge(p) /\ Composing!Record(p, f)
             /\ UNCHANGED cDirect
    <2>1. ASSUME p \in DOMAIN cRecorded, ~Composing!Same(cRecorded[p], Composing!Member(f))
          PROVE  ~Composing!Compatible
      <3>1. PICK g \in cFiles : Composing!PathOf(g) = p /\ IsRecorded(g) /\ Composing!Joins(g)
        BY <1>4, <1>9, <2>1 DEF Placed
      <3>2. ~Composing!Same(Composing!Member(f), Composing!Member(g))
        BY <2>1, <3>1 DEF IsRecorded, Composing!Same
      <3>3. f \in Composing!Joined /\ g \in Composing!Joined
        BY <1>4, <1>6, <1>11, <3>1 DEF Composing!Joined
      <3> QED BY <3>1, <3>2, <3>3 DEF Composing!Compatible, p
    <2>2. p \notin DOMAIN cDirect
      BY <1>4, <1>11, JoinsByPath DEF Placed
    <2>3. ASSUME cPc' = "place"
          PROVE  /\ DOMAIN cRecorded' = DOMAIN cRecorded \cup {p}
                 /\ \A q \in DOMAIN cRecorded : cRecorded'[q] = cRecorded[q]
                 /\ Composing!Same(cRecorded'[p], Composing!Member(f))
      BY <1>11, <2>3 DEF Composing!Record, Composing!Put, Composing!Same
    <2>4. ASSUME cPc' = "place" PROVE Placed'
      <3>1. \A g : (IsRecorded(g) => IsRecorded(g)') /\ (IsCopied(g) => IsCopied(g)')
        BY <1>11, <2>3, <2>4 DEF IsRecorded, IsCopied
      <3>2. IsRecorded(f)' /\ Composing!Joins(f) /\ Composing!PathOf(f) = p
        BY <1>6, <1>11, <2>3, <2>4 DEF IsRecorded, p
      <3>3. \A g \in (cFiles \ cTodo)' :
              /\ g.under # Composing!Outside
              /\ IF Composing!Joins(g) THEN IsRecorded(g)' ELSE IsCopied(g)'
        BY <1>4, <1>11, <1>9, <1>10, <3>1, <3>2 DEF Placed
      <3>4. \A g, h \in (cFiles \ cTodo)' :
              g # h /\ ~Composing!Joins(g) /\ ~Composing!Joins(h)
                => ~Composing!Nested(Composing!PathOf(g), Composing!PathOf(h))
        BY <1>4, <1>10, <3>2 DEF Placed
      <3>5. \A q \in DOMAIN cRecorded' : \E g \in (cFiles \ cTodo)' :
              Composing!PathOf(g) = q /\ IsRecorded(g)' /\ Composing!Joins(g)
        BY <1>4, <1>9, <1>10, <2>3, <2>4, <3>1, <3>2 DEF Placed
      <3>6. \A q \in DOMAIN cDirect' : \E g \in (cFiles \ cTodo)' :
              Composing!PathOf(g) = q /\ IsCopied(g)' /\ ~Composing!Joins(g)
        BY <1>4, <1>11, <1>10, <3>1 DEF Placed
      <3>7. DOMAIN cRecorded' \cap DOMAIN cDirect' = {}
        BY <1>4, <1>11, <2>2, <2>3, <2>4 DEF Placed
      <3> QED BY <1>8, <1>10, <3>3, <3>4, <3>5, <3>6, <3>7 DEF Placed
    <2>5. cPc' = "refused"
            => p \in DOMAIN cRecorded /\ ~Composing!Same(cRecorded[p], Composing!Member(f))
      BY <1>1, <1>11 DEF Composing!Record
    <2> QED BY <1>5, <2>1, <2>4, <2>5
  <1>12. CASE f.under # Composing!Outside /\ ~Composing!NeedsMerge(p) /\ Composing!AddDirect(p, f)
             /\ UNCHANGED cRecorded
    <2>1. ASSUME Composing!Overlaps(DOMAIN cDirect, p) PROVE ~Composing!Compatible
      <3>1. PICK g \in cFiles \ cTodo : /\ ~Composing!Joins(g)
                                       /\ Composing!Nested(p, Composing!PathOf(g))
        BY <1>4, <2>1 DEF Composing!Overlaps, Placed
      <3>2. f # g
        OBVIOUS
      <3> QED BY <1>4, <1>6, <1>12, <3>1, <3>2 DEF Composing!Compatible, p
    <2>2. p \notin DOMAIN cRecorded
      BY <1>4, <1>12, <1>9, JoinsByPath DEF Placed
    <2>3. ASSUME cPc' = "place"
          PROVE  /\ ~Composing!Overlaps(DOMAIN cDirect, p) /\ p \notin DOMAIN cDirect
                 /\ DOMAIN cDirect' = DOMAIN cDirect \cup {p}
                 /\ \A q \in DOMAIN cDirect : cDirect'[q] = cDirect[q]
                 /\ cDirect'[p] = Composing!Marked(f)
      BY <1>12, <2>3 DEF Composing!AddDirect, Composing!Put, Composing!Overlaps, Composing!Nested
    <2>4. ASSUME cPc' = "place" PROVE Placed'
      <3>1. \A g : (IsRecorded(g) => IsRecorded(g)') /\ (IsCopied(g) => IsCopied(g)')
        BY <1>12, <2>3, <2>4 DEF IsRecorded, IsCopied
      <3>2. IsCopied(f)' /\ ~Composing!Joins(f) /\ Composing!PathOf(f) = p
        BY <1>6, <1>12, <2>3, <2>4 DEF IsCopied, p
      <3>3. \A g \in (cFiles \ cTodo)' :
              /\ g.under # Composing!Outside
              /\ IF Composing!Joins(g) THEN IsRecorded(g)' ELSE IsCopied(g)'
        BY <1>4, <1>12, <1>9, <1>10, <3>1, <3>2 DEF Placed
      <3>4. ASSUME NEW g \in (cFiles \ cTodo), ~Composing!Joins(g)
            PROVE  /\ ~Composing!Nested(p, Composing!PathOf(g))
                   /\ ~Composing!Nested(Composing!PathOf(g), p)
        <4>1. Composing!PathOf(g) \in DOMAIN cDirect
          BY <1>4, <1>9, <3>4 DEF Placed, IsCopied
        <4> QED BY <2>3, <2>4, <4>1 DEF Composing!Overlaps, Composing!Nested
      <3>5. \A g, h \in (cFiles \ cTodo)' :
              g # h /\ ~Composing!Joins(g) /\ ~Composing!Joins(h)
                => ~Composing!Nested(Composing!PathOf(g), Composing!PathOf(h))
        BY <1>4, <1>10, <3>2, <3>4 DEF Placed
      <3>6. \A q \in DOMAIN cRecorded' : \E g \in (cFiles \ cTodo)' :
              Composing!PathOf(g) = q /\ IsRecorded(g)' /\ Composing!Joins(g)
        BY <1>4, <1>12, <1>9, <1>10, <3>1 DEF Placed
      <3>7. \A q \in DOMAIN cDirect' : \E g \in (cFiles \ cTodo)' :
              Composing!PathOf(g) = q /\ IsCopied(g)' /\ ~Composing!Joins(g)
        BY <1>4, <1>10, <2>3, <2>4, <3>1, <3>2 DEF Placed
      <3>8. DOMAIN cRecorded' \cap DOMAIN cDirect' = {}
        BY <1>4, <1>12, <2>2, <2>3, <2>4 DEF Placed
      <3> QED BY <1>8, <1>10, <3>3, <3>5, <3>6, <3>7, <3>8 DEF Placed
    <2>5. cPc' = "refused" => Composing!Overlaps(DOMAIN cDirect, p)
      BY <1>1, <1>12 DEF Composing!AddDirect
    <2> QED BY <1>5, <2>1, <2>4, <2>5
  <1> QED BY <1>2, <1>7, <1>11, <1>12

LEMMA ComposePlain ==
  ASSUME ComposeInv, \/ Composing!Discovered \/ Composing!Mounted \/ Composing!ReadFails
                     \/ Composing!Absorbed
  PROVE  ComposeInv'
  <1>1. UNCHANGED <<cFiles, cMounts, cCue, cRecorded, cDirect, cLost>>
    BY DEF Composing!Discovered, Composing!Mounted, Composing!ReadFails, Composing!Absorbed
  <1>2. Files'
    BY <1>1 DEF ComposeInv, Files, Composing!Discovered, Composing!Mounted, Composing!ReadFails,
                Composing!Absorbed
  <1>3. Composing!NoNestedLink' <=> Composing!NoNestedLink
    BY <1>1 DEF Composing!NoNestedLink
  <1>4. CASE Composing!Discovered \/ Composing!ReadFails
    BY <1>2, <1>4 DEF ComposeInv, Composing!Discovered, Composing!ReadFails
  <1>5. CASE Composing!Mounted
    <2>1. cPc' = "place" /\ cTodo' = cFiles' /\ DOMAIN cRecorded' = {} /\ DOMAIN cDirect' = {}
      BY <1>1, <1>5 DEF Composing!Mounted, ComposeInv, Files, Composing!Nothing
    <2>2. Placed'
      BY <2>1 DEF Placed
    <2> QED BY <1>2, <2>1, <2>2 DEF ComposeInv
  <1>6. CASE Composing!Absorbed
    <2>1. /\ cPc = "place" /\ cPc' = "merge" /\ UNCHANGED cTodo /\ cTodo = {}
          /\ Composing!Absorbable = {}
      BY <1>6 DEF Composing!Absorbed
    <2>2. Sorted'
      BY <1>1, <2>1 DEF Sorted, Composing!Absorbable, Composing!Fragments
    <2>3. Placed => Placed'
      BY <1>1, <2>1 DEF Placed, IsRecorded, IsCopied, IsAbsorbed, Composing!Joins, Composing!Lines
    <2> QED BY <1>2, <1>3, <2>1, <2>2, <2>3 DEF ComposeInv
  <1> QED BY <1>4, <1>5, <1>6

\* Without nested links a copy goes by its own path, and what is recorded of it is what is
\* recorded of the file.
LEMMA CopyOfFile ==
  ASSUME NEW f, IsFile(f), f.kind # "plain" => f.under = <<>>
  PROVE  /\ Composing!PathOf(Composing!Marked(f)) = Composing!PathOf(f)
         /\ Composing!Same(Composing!Member(Composing!Marked(f)), Composing!Member(f))
  BY DEF IsFile, Composing!Marked, Composing!PathOf, Composing!Same, Composing!Member,
         Composing!Rendered

LEMMA ComposeAbsorb ==
  ASSUME ComposeInv, NEW p \in DOMAIN cDirect, Composing!Absorb(p)
  PROVE  ComposeInv'
  <1>1. /\ cPc = "place" /\ cTodo = {} /\ p \in Composing!Absorbable
        /\ cDirect' = Composing!Drop(cDirect, p)
        /\ Composing!Record(Composing!PathOf(cDirect[p]), cDirect[p])
        /\ UNCHANGED <<cFiles, cMounts, cCue, cTodo, cOut, cLost>>
    BY DEF Composing!Absorb
  <1>2. Files' /\ cPc' \in {"place", "refused"}
    BY <1>1 DEF ComposeInv, Files, Composing!Record
  <1> SUFFICES ASSUME Composing!NoNestedLink PROVE cPc' = "place" /\ Placed'
    BY <1>1, <1>2 DEF ComposeInv, Composing!NoNestedLink
  <1>3. Placed
    BY <1>1 DEF ComposeInv
  <1>4. PICK f \in cFiles \ cTodo :
          Composing!PathOf(f) = p /\ IsCopied(f) /\ ~Composing!Joins(f)
    BY <1>3 DEF Placed
  <1>5. /\ Composing!PathOf(cDirect[p]) = p
        /\ Composing!Same(Composing!Member(cDirect[p]), Composing!Member(f))
    BY <1>4, CopyOfFile DEF ComposeInv, Files, Composing!NoNestedLink, IsCopied
  <1>6. /\ cPc' = "place" /\ DOMAIN cRecorded' = DOMAIN cRecorded \cup {p}
        /\ \A q \in DOMAIN cRecorded : cRecorded'[q] = cRecorded[q]
        /\ Composing!Same(cRecorded'[p], Composing!Member(f))
    BY <1>1, <1>3, <1>5 DEF Placed, Composing!Record, Composing!Put
  <1>7. /\ DOMAIN cDirect' = DOMAIN cDirect \ {p}
        /\ \A q \in DOMAIN cDirect' : cDirect'[q] = cDirect[q]
    BY <1>1 DEF Composing!Drop
  <1>8. p \in Composing!Lines
    BY <1>1, <1>3 DEF Composing!Absorbable, Composing!Fragments, Composing!Lines, Placed
  <1>9. /\ \A g : Composing!Joins(g)' <=> Composing!Joins(g)
        /\ Composing!Lines' = Composing!Lines
    BY <1>1 DEF Composing!Joins, Composing!Lines
  <1>10. \A g : (IsRecorded(g) => IsRecorded(g)') /\ (IsAbsorbed(g) => IsAbsorbed(g)')
    BY <1>1, <1>6, <1>9 DEF IsRecorded, IsAbsorbed
  <1>11. IsAbsorbed(f)'
    BY <1>1, <1>4, <1>6, <1>8, <1>9 DEF IsAbsorbed, IsRecorded
  <1>12. ASSUME NEW g \in cFiles \ cTodo, ~Composing!Joins(g), IsCopied(g), g # f
         PROVE  IsCopied(g)'
    <2>1. Composing!PathOf(g) # p
      BY <1>3, <1>4, <1>12 DEF Placed, Composing!Nested
    <2> QED BY <1>7, <1>12, <2>1 DEF IsCopied
  <1>13. ASSUME NEW g \in (cFiles \ cTodo)'
         PROVE  /\ g.under # Composing!Outside
                /\ IF Composing!Joins(g)' THEN IsRecorded(g)' ELSE IsCopied(g)' \/ IsAbsorbed(g)'
    BY <1>1, <1>3, <1>4, <1>9, <1>10, <1>11, <1>12 DEF Placed
  <1>14. ASSUME NEW q \in DOMAIN cRecorded'
         PROVE  \E g \in (cFiles \ cTodo)' :
                  /\ Composing!PathOf(g) = q /\ IsRecorded(g)'
                  /\ Composing!Joins(g)' \/ IsAbsorbed(g)'
    <2>1. CASE q = p
      BY <1>1, <1>4, <1>11, <2>1 DEF IsAbsorbed
    <2>2. CASE q \in DOMAIN cRecorded
      BY <1>1, <1>3, <1>9, <1>10, <2>2 DEF Placed
    <2> QED BY <1>6, <2>1, <2>2
  <1>15. ASSUME NEW q \in DOMAIN cDirect'
         PROVE  \E g \in (cFiles \ cTodo)' :
                  Composing!PathOf(g) = q /\ IsCopied(g)' /\ ~Composing!Joins(g)'
    <2>1. PICK g \in cFiles \ cTodo :
            Composing!PathOf(g) = q /\ IsCopied(g) /\ ~Composing!Joins(g)
      BY <1>3, <1>7 DEF Placed
    <2> QED BY <1>1, <1>4, <1>7, <1>9, <1>12, <2>1
  <1>16. DOMAIN cRecorded' \cap DOMAIN cDirect' = {}
    BY <1>3, <1>6, <1>7 DEF Placed
  <1>17. \A g, h \in (cFiles \ cTodo)' :
           g # h /\ ~Composing!Joins(g)' /\ ~Composing!Joins(h)'
             => ~Composing!Nested(Composing!PathOf(g), Composing!PathOf(h))
    BY <1>1, <1>3, <1>9 DEF Placed
  <1> QED BY <1>1, <1>6, <1>13, <1>14, <1>15, <1>16, <1>17 DEF Placed

LEMMA FragmentJoins ==
  ASSUME NEW f, IsFile(f), Composing!Fragment(Composing!PathOf(f))
  PROVE  Composing!Joins(f)
  <1> DEFINE p == Composing!PathOf(f)
  <1>1. IsSequence(p)
    BY SequenceConcat DEF IsFile, Composing!PathOf
  <1>2. Len(p) \in Nat /\ DOMAIN p = 1..Len(p)
    BY <1>1 DEF IsSequence
  <1>3. \E i \in DOMAIN p : p[i] \in Composing!Dotted
    <2>1. PICK i \in 1..Len(p) - 1 : p[i] \in Composing!Dotted
      BY DEF Composing!Fragment
    <2>2. i \in DOMAIN p
      <3> HIDE DEF p
      <3> QED BY <1>2
    <2> QED BY <2>1, <2>2
  <1> QED BY <1>3 DEF Composing!Joins

\* When everything is placed, the files that are merged are recorded and the others are copied.
LEMMA SortedOut ==
  ASSUME Files, Placed, Sorted
  PROVE  /\ \A f \in Composing!Joined : IsRecorded(f)
         /\ \A f \in cFiles \ Composing!Joined : IsCopied(f)
         /\ \A p \in DOMAIN cRecorded : \E f \in Composing!Joined : Composing!PathOf(f) = p
         /\ \A p \in DOMAIN cDirect :
              \E f \in cFiles \ Composing!Joined : Composing!PathOf(f) = p /\ IsCopied(f)
         /\ Composing!Lines \cap DOMAIN cDirect = {}
  <1>1. cTodo = {} /\ Composing!Absorbable = {} /\ cFiles \ cTodo = cFiles
    BY DEF Sorted
  <1>2. ASSUME NEW p \in Composing!Lines PROVE p \notin DOMAIN cDirect
    <2>1. PICK g \in cFiles : /\ Composing!Fragment(Composing!PathOf(g))
                             /\ p = Composing!LinesDest(Composing!PathOf(g))
      BY DEF Composing!Lines
    <2>2. Composing!PathOf(g) \in DOMAIN cRecorded
      BY <1>1, <2>1, FragmentJoins DEF Files, Placed, IsRecorded
    <2> QED BY <1>1, <2>1, <2>2 DEF Composing!Absorbable, Composing!Fragments
  <1> QED BY <1>1, <1>2 DEF Placed, Composing!Joined, IsCopied, IsAbsorbed

\* What is assigned for a file is what was recorded or copied of it.
LEMMA AssignedRecord ==
  ASSUME NEW f, IsFile(f), f.kind # "plain" => f.under = <<>>,
         NEW r, Composing!Same(r, Composing!Member(f))
  PROVE  Composing!Assigned(f) = IF Composing!Fragment(Composing!PathOf(f))
                                 THEN Composing!Line(Composing!PathOf(f), r)
                                 ELSE Composing!Whole(Composing!PathOf(f), r)
  <1> DEFINE g == [f EXCEPT !.kind = IF @ = "found" THEN "link" ELSE @]
  <1>1. g.kind = r.kind /\ g.body = r.body
    BY DEF IsFile, Composing!Same, Composing!Member, Composing!Rendered
  <1>2. Composing!Assigned(f) = IF Composing!Fragment(Composing!PathOf(f))
                                THEN Composing!Line(Composing!PathOf(f), g)
                                ELSE Composing!Whole(Composing!PathOf(f), g)
    BY DEF Composing!Assigned
  <1> HIDE DEF g
  <1> QED BY <1>1, <1>2 DEF Composing!Line, Composing!Whole

LEMMA AssignedCopy ==
  ASSUME NEW f, IsFile(f), ~Composing!Fragment(Composing!PathOf(f))
  PROVE  Composing!Assigned(f) = Composing!Whole(Composing!PathOf(f), Composing!Marked(f))
  <1> DEFINE g == [f EXCEPT !.kind = IF @ = "found" THEN "link" ELSE @]
  <1>1. g.kind = Composing!Marked(f).kind /\ g.body = Composing!Marked(f).body
    BY DEF IsFile, Composing!Marked
  <1>2. Composing!Assigned(f) = Composing!Whole(Composing!PathOf(f), g)
    BY DEF Composing!Assigned
  <1> HIDE DEF g
  <1> QED BY <1>1, <1>2 DEF Composing!Whole

LEMMA SquashedFiles ==
  ASSUME Files, Placed, Sorted, Composing!NoNestedLink
  PROVE  Composing!Squashed =
           {Composing!Assigned(f) : f \in {f \in Composing!Joined : ~Composing!PassedOver(f)}}
  <1> DEFINE Of(p) == IF Composing!Fragment(p) THEN Composing!Line(p, cRecorded[p])
                      ELSE Composing!Whole(p, cRecorded[p])
             ps == {p \in DOMAIN cRecorded : ~Composing!IsTemplate(p)}
             fs == {f \in Composing!Joined : ~Composing!PassedOver(f)}
  <1>1. ASSUME NEW f \in Composing!Joined
        PROVE  /\ Composing!PathOf(f) \in DOMAIN cRecorded
               /\ Composing!Assigned(f) = Of(Composing!PathOf(f))
               /\ Composing!PassedOver(f) <=> Composing!IsTemplate(Composing!PathOf(f))
    <2>1. IsRecorded(f)
      BY SortedOut
    <2>2. IsFile(f) /\ (f.kind # "plain" => f.under = <<>>)
      BY DEF Files, Composing!NoNestedLink, Composing!Joined
    <2> QED BY <2>1, <2>2, AssignedRecord DEF IsRecorded, Composing!PassedOver
  <1>2. Composing!Squashed = {Of(p) : p \in ps}
    BY DEF Composing!Squashed
  <1> HIDE DEF Of
  <1>3. ASSUME NEW p \in ps PROVE \E f \in fs : Composing!Assigned(f) = Of(p)
    BY <1>1, SortedOut
  <1>4. ASSUME NEW f \in fs PROVE \E p \in ps : Composing!Assigned(f) = Of(p)
    BY <1>1
  <1> QED BY <1>2, <1>3, <1>4

LEMMA ComposeMerge ==
  ASSUME ComposeInv, Composing!Merge
  PROVE  ComposeInv'
  <1> DEFINE tree == cCue \cup Composing!Squashed
             fits == /\ \A p \in DOMAIN cRecorded : Composing!WellPlaced(p)
                     /\ \A p, q \in DOMAIN cRecorded : ~Composing!Under(p, q)
                     /\ Composing!Fits(tree)
             copies == {Composing!Whole(p, cDirect[p]) : p \in DOMAIN cDirect}
  <1>1. /\ cPc = "merge" /\ UNCHANGED <<cFiles, cMounts, cCue, cRecorded, cDirect, cTodo, cLost>>
        /\ IF fits THEN cPc' = "done" /\ cOut' = tree \cup copies
                   ELSE cPc' = "refused" /\ UNCHANGED cOut
    BY DEF Composing!Merge
  <1>2. Files'
    BY <1>1 DEF ComposeInv, Files
  <1>3. Composing!NoNestedLink' <=> Composing!NoNestedLink
    BY <1>1 DEF Composing!NoNestedLink
  <1>4. Composing!Compatible' <=> Composing!Compatible
    BY <1>1 DEF Composing!Compatible, Composing!Joins, Composing!Joined, Composing!Lines,
                Composing!PassedOver, Composing!Assigned
  <1>5. Composing!Squashed' = Composing!Squashed
    BY <1>1 DEF Composing!Squashed
  <1>6. (Placed => Placed') /\ (Sorted => Sorted')
    BY <1>1 DEF Placed, Sorted, IsRecorded, IsCopied, IsAbsorbed, Composing!Joins, Composing!Lines,
                Composing!Absorbable, Composing!Fragments
  <1>7. ASSUME Composing!NoNestedLink PROVE Composing!Compatible <=> fits
    <2>1. Files /\ Placed /\ Sorted
      BY <1>1, <1>7 DEF ComposeInv
    <2>2. Composing!Squashed =
            {Composing!Assigned(f) : f \in {f \in Composing!Joined : ~Composing!PassedOver(f)}}
      BY <1>7, <2>1, SquashedFiles
    <2>3. /\ \A f \in Composing!Joined : IsRecorded(f)
          /\ \A p \in DOMAIN cRecorded : \E f \in Composing!Joined : Composing!PathOf(f) = p
      BY <2>1, SortedOut
    <2>4. /\ \A f \in cFiles : f.under # Composing!Outside
          /\ \A f, g \in {f \in cFiles : ~Composing!Joins(f)} :
               f # g => ~Composing!Nested(Composing!PathOf(f), Composing!PathOf(g))
      BY <2>1 DEF Placed, Sorted
    <2>5. \A f, g \in Composing!Joined :
            Composing!PathOf(f) = Composing!PathOf(g)
              => Composing!Same(Composing!Member(f), Composing!Member(g))
      BY <2>3 DEF IsRecorded, Composing!Same
    <2>6. /\ (\A p \in DOMAIN cRecorded : Composing!WellPlaced(p))
               <=> \A f \in Composing!Joined : Composing!WellPlaced(Composing!PathOf(f))
          /\ (\A p, q \in DOMAIN cRecorded : ~Composing!Under(p, q))
               <=> \A f, g \in Composing!Joined :
                     ~Composing!Under(Composing!PathOf(f), Composing!PathOf(g))
      BY <2>3 DEF IsRecorded
    <2> QED BY <2>2, <2>4, <2>5, <2>6 DEF Composing!Compatible
  <1>8. cPc' = "done" => cOut' = tree \cup copies
    BY <1>1
  <1> QED BY <1>1, <1>2, <1>3, <1>4, <1>5, <1>6, <1>7, <1>8 DEF ComposeInv

LEMMA ComposeNext == ComposeInv /\ [Composing!Next]_composeVars => ComposeInv'
  <1> SUFFICES ASSUME ComposeInv, [Composing!Next]_composeVars PROVE ComposeInv'
    OBVIOUS
  <1>0. Composing!Next \/ UNCHANGED composeVars
    OBVIOUS
  <1>1. CASE UNCHANGED composeVars
    BY <1>1 DEF composeVars, ComposeInv, Files, Placed, Sorted, IsRecorded, IsCopied, IsAbsorbed,
                Composing!NoNestedLink, Composing!Joins, Composing!Lines, Composing!Absorbable,
                Composing!Fragments, Composing!Squashed, Composing!Compatible, Composing!Joined,
                Composing!PassedOver, Composing!Assigned
  <1> QED BY <1>0, <1>1, ComposeRender, ComposeMount, ComposePlace, ComposePlain, ComposeAbsorb,
             ComposeMerge DEF Composing!Next

\* What was recorded and copied is what the files and the configuration say.
LEMMA TreeSays == ComposeInv => Composing!SaysAll
  <1>1. ASSUME ComposeInv, cPc = "done", Composing!NoNestedLink
        PROVE  cOut = cCue \cup {Composing!Assigned(f) : f \in {f \in cFiles : ~Composing!PassedOver(f)}}
    <2> DEFINE copies == {Composing!Whole(p, cDirect[p]) : p \in DOMAIN cDirect}
               rest == cFiles \ Composing!Joined
    <2>1. Files /\ Placed /\ Sorted /\ cOut = cCue \cup Composing!Squashed \cup copies
      BY <1>1 DEF ComposeInv
    <2>2. Composing!Squashed =
            {Composing!Assigned(f) : f \in {f \in Composing!Joined : ~Composing!PassedOver(f)}}
      BY <1>1, <2>1, SquashedFiles
    <2>3. ASSUME NEW f \in rest, IsCopied(f)
          PROVE  Composing!Assigned(f) = Composing!Whole(Composing!PathOf(f), cDirect[Composing!PathOf(f)])
      <3>1. IsFile(f) /\ ~Composing!Fragment(Composing!PathOf(f))
        BY <2>1, FragmentJoins DEF Files, Composing!Joined
      <3> QED BY <2>3, <3>1, AssignedCopy DEF IsCopied
    <2>4. copies = {Composing!Assigned(f) : f \in rest}
      <3>1. ASSUME NEW p \in DOMAIN cDirect
            PROVE  \E f \in rest : Composing!Assigned(f) = Composing!Whole(p, cDirect[p])
        BY <2>1, <2>3, SortedOut
      <3>2. ASSUME NEW f \in rest
            PROVE  \E p \in DOMAIN cDirect : Composing!Assigned(f) = Composing!Whole(p, cDirect[p])
        BY <2>1, <2>3, SortedOut DEF IsCopied
      <3> QED BY <3>1, <3>2
    <2>5. {f \in cFiles : ~Composing!PassedOver(f)}
            = {f \in Composing!Joined : ~Composing!PassedOver(f)} \cup rest
      BY DEF Composing!PassedOver, Composing!Joined
    <2> HIDE DEF copies, rest
    <2> QED BY <2>1, <2>2, <2>4, <2>5
  <1> QED BY <1>1 DEF Composing!SaysAll, ComposeInv, Files

LEMMA TreeSettled == ComposeInv => Composing!Settled
  BY DEF ComposeInv, Composing!Settled

\* A copy meets nothing that is merged, but what goes to the destination of fragments.
LEMMA CopyAlone ==
  ASSUME ComposeInv, cPc = "done", Composing!NoNestedLink,
         NEW p \in DOMAIN cDirect, NEW b \in cCue \cup Composing!Squashed
  PROVE  ~Composing!Nested(p, b.path) \/ (b.path \in Composing!Lines /\ b.path # p)
  <1>1. Files /\ Placed /\ Sorted /\ Composing!Compatible
    BY DEF ComposeInv
  <1>2. PICK f \in cFiles \ Composing!Joined : Composing!PathOf(f) = p
    BY <1>1, SortedOut
  <1>3. ~Composing!Joins(f)
    BY <1>2 DEF Composing!Joined
  <1>4. \A a \in cCue : ~Composing!Nested(p, a.path)
    BY <1>2, <1>3 DEF Composing!Joins
  <1>5. CASE b \in cCue
    BY <1>4, <1>5
  <1>6. CASE b \in Composing!Squashed
    <2>1. PICK q \in DOMAIN cRecorded :
            b = IF Composing!Fragment(q) THEN Composing!Line(q, cRecorded[q])
                ELSE Composing!Whole(q, cRecorded[q])
      BY <1>6 DEF Composing!Squashed
    <2>2. PICK g \in Composing!Joined : Composing!PathOf(g) = q
      BY <1>1, SortedOut
    <2>3. CASE Composing!Fragment(q)
      <3>1. b.path \in Composing!Lines
        BY <2>1, <2>2, <2>3 DEF Composing!Line, Composing!Lines, Composing!Joined
      <3> QED BY <1>1, <3>1, SortedOut
    <2>4. CASE ~Composing!Fragment(q) /\ ~Composing!Joins(g)
      <3>1. b.path = q
        BY <2>1, <2>4 DEF Composing!Whole
      <3>2. g \in cFiles /\ f # g
        BY <1>2, <2>2 DEF Composing!Joined
      <3> QED BY <1>1, <1>2, <1>3, <2>2, <2>4, <3>1, <3>2 DEF Composing!Compatible
    <2>5. CASE ~Composing!Fragment(q) /\ Composing!Joins(g)
      <3>1. b.path = q
        BY <2>1, <2>5 DEF Composing!Whole
      <3>2. Composing!WellPlaced(q)
        BY <1>1, <2>2 DEF Composing!Compatible
      <3>3. IsSequence(q)
        BY <1>1, <2>2, SequenceConcat
           DEF Files, Composing!Joined, IsFile, Composing!PathOf
      <3>4. \A i \in DOMAIN q : q[i] \notin Composing!Dotted
        <4>1. Len(q) \in Nat /\ DOMAIN q = 1..Len(q)
          BY <3>3 DEF IsSequence
        <4>2. \A i \in DOMAIN q : i = Len(q) - 1 => i \in 1..Len(q) - 1
          BY <4>1
        <4> QED BY <2>5, <3>2, <4>2 DEF Composing!WellPlaced, Composing!Fragment
      <3>5. PICK c \in cCue : Composing!Nested(q, c.path)
        BY <2>2, <2>5, <3>4 DEF Composing!Joins
      <3>6. Composing!Agree(c, b)
        <4>1. Composing!Squashed =
                {Composing!Assigned(d) : d \in {d \in Composing!Joined : ~Composing!PassedOver(d)}}
          BY <1>1, SquashedFiles
        <4>2. Composing!Fits(cCue \cup Composing!Squashed)
          BY <1>1, <4>1 DEF Composing!Compatible
        <4> QED BY <1>6, <4>2 DEF Composing!Fits
      <3>7. c.path = q
        BY <3>1, <3>5, <3>6 DEF Composing!Agree, Composing!Nested
      <3> QED BY <1>4, <3>1, <3>7
    <2> QED BY <2>3, <2>4, <2>5
  <1> QED BY <1>5, <1>6

\* What the parts of the tree agree on leaves each path one file.
LEMMA TreeOneFile == ComposeInv => Composing!OneFilePerPath
  <1> DEFINE tree == cCue \cup Composing!Squashed
             copies == {Composing!Whole(p, cDirect[p]) : p \in DOMAIN cDirect}
             Apart(a, b) ==
               /\ a.path = b.path => a = b \/ (a.kind = "lines" /\ b.kind = "lines")
               /\ Composing!Under(a.path, b.path) =>
                     \/ a.path \in DOMAIN cDirect /\ b.path \in Composing!Lines
                     \/ b.path \in DOMAIN cDirect /\ a.path \in Composing!Lines
  <1>1. ASSUME ComposeInv, cPc = "done", Composing!NoNestedLink, NEW a \in cOut, NEW b \in cOut
        PROVE  Apart(a, b)
    <2>1. Files /\ Placed /\ Sorted /\ Composing!Compatible /\ cOut = tree \cup copies
      BY <1>1 DEF ComposeInv
    <2>2. \A x \in copies : x.path \in DOMAIN cDirect
      BY DEF Composing!Whole
    <2>3. CASE a \in tree /\ b \in tree
      <3>1. Composing!Squashed =
              {Composing!Assigned(d) : d \in {d \in Composing!Joined : ~Composing!PassedOver(d)}}
        BY <1>1, <2>1, SquashedFiles
      <3>2. Composing!Agree(a, b)
        BY <2>1, <2>3, <3>1 DEF Composing!Compatible, Composing!Fits
      <3>3. ASSUME NEW x \in tree
            PROVE  /\ x = [path |-> x.path, kind |-> x.kind, slot |-> x.slot, val |-> x.val]
                   /\ x.kind # "lines" => x.slot = "all"
        <4>1. CASE x \in cCue
          BY <2>1, <4>1 DEF Files, IsDeclared
        <4>2. CASE x \in Composing!Squashed
          <5>1. PICK p \in DOMAIN cRecorded :
                  x = IF Composing!Fragment(p) THEN Composing!Line(p, cRecorded[p])
                      ELSE Composing!Whole(p, cRecorded[p])
            BY <4>2 DEF Composing!Squashed
          <5>2. CASE Composing!Fragment(p)
            BY <5>1, <5>2 DEF Composing!Line
          <5>3. CASE ~Composing!Fragment(p)
            BY <5>1, <5>3 DEF Composing!Whole
          <5> QED BY <5>2, <5>3
        <4> QED BY <4>1, <4>2
      <3> QED BY <2>3, <3>2, <3>3 DEF Composing!Agree
    <2>4. CASE a \in copies /\ b \in copies
      <3>1. PICK p \in DOMAIN cDirect, q \in DOMAIN cDirect :
              a = Composing!Whole(p, cDirect[p]) /\ b = Composing!Whole(q, cDirect[q])
        BY <2>4
      <3>2. a.path = p /\ b.path = q
        BY <3>1 DEF Composing!Whole
      <3>3. PICK f \in cFiles, g \in cFiles :
              /\ Composing!PathOf(f) = p /\ ~Composing!Joins(f)
              /\ Composing!PathOf(g) = q /\ ~Composing!Joins(g)
        BY <2>1 DEF Placed
      <3>4. p # q => ~Composing!Under(p, q)
        BY <2>1, <3>3 DEF Composing!Compatible, Composing!Nested
      <3>5. IsSequence(p)
        BY <2>1, <3>3, SequenceConcat DEF Files, IsFile, Composing!PathOf
      <3>6. ~Composing!Under(p, p)
        BY <3>5 DEF IsSequence, Composing!Under
      <3> QED BY <3>1, <3>2, <3>4, <3>6
    <2>5. CASE (a \in copies /\ b \in tree) \/ (a \in tree /\ b \in copies)
      BY <1>1, <2>2, <2>5, CopyAlone DEF Composing!Nested
    <2> QED BY <2>1, <2>3, <2>4, <2>5
  <1> QED BY <1>1 DEF Composing!OneFilePerPath

--------------------------------------------------------------------------------
(* Loading a configuration. *)

(***************************************************************************)
(* What a load computes is what any disk denotes that fits all it read: a  *)
(* layer each time it was compiled, a directory where discovery found      *)
(* nothing, the file of a module.  If no file was torn and the disk had    *)
(* but two contents, one of them fits.                                     *)
(***************************************************************************)
Fits(disk) == \A r \in lRead : Loading!Text(disk, r[1]) = r[2]
Holds(disk) == \A i \in DOMAIN lLayers : lLayers[i][2] \in DOMAIN disk
TextsOf(disk) == {disk[lLayers[i][2]] : i \in DOMAIN lLayers}
FirstOf(disk) == Loading!Ready(Loading!Compiled(TextsOf(disk), <<>>))
BaseRoot == IF lLayers = <<>> THEN <<>> ELSE Loading!Root(lLayers)
KnownOf(disk) == Loading!RuntimePaths(FirstOf(disk), BaseRoot)
Chosen == IF lLayers = <<>> THEN {} ELSE Loading!Enabled(Loading!Ready(lEntry))
DirOf(m) == Loading!LocalDir(Loading!Ready(lEntry), m, Loading!Root(lLayers))

\* Everything that was read was on the disk at some time; of two disks one directory is different.
FromDisks ==
  /\ IsFiniteSet(lDisks) /\ lCue \in lDisks
  /\ \A r \in lRead : \E disk \in lDisks : Loading!Text(disk, r[1]) = r[2]
  /\ Cardinality(lDisks) <= 2 =>
       \E d : \A a, b \in lDisks : \A e : e # d => Loading!Text(a, e) = Loading!Text(b, e)

LayersRead == lPc # "discover" => \A disk : Fits(disk) /\ Holds(disk) => Loading!Discovered(disk) = lLayers
InputsRead ==
  lPc \in {"base", "join", "scan", "done"} =>
    \A disk : Fits(disk) => Holds(disk) /\ lPaths = KnownOf(disk)
EntryRead ==
  lPc \in {"join", "scan", "done"} =>
    \A disk : Fits(disk) => lEntry = Loading!Compiled(TextsOf(disk), lPaths)
ModulesRead ==
  lPc = "join" =>
    /\ lConfig = lEntry /\ lTodo \subseteq Chosen
    /\ \A disk : Fits(disk) =>
         lJoined = UNION {{<<m, d, disk[d]>> : d \in DirOf(m) \cap DOMAIN disk} : m \in Chosen \ lTodo}
AllRead ==
  lPc \in {"scan", "done"} =>
    \A disk : Fits(disk) =>
      /\ lConfig = Loading!Denoted(disk)
      /\ lJoined = UNION {{<<m, d, disk[d]>> : d \in DirOf(m) \cap DOMAIN disk} : m \in Chosen}
LoadTyped ==
  lCmd \in LCommands /\ \A d \in DOMAIN lCue : \A f \in lCue[d] : IsSequence(f.value)
NoneJoined == lPc \in {"discover", "inputs", "base"} => lJoined = {}
ReadInv ==
  /\ LoadTyped /\ NoneJoined /\ FromDisks
  /\ LayersRead /\ InputsRead /\ EntryRead /\ ModulesRead /\ AllRead

LEMMA LoadInit == Loading!Init => ReadInv
  <1> SUFFICES ASSUME Loading!Init PROVE ReadInv
    OBVIOUS
  <1>1. IsFiniteSet(lDisks) /\ lDisks = {lCue} /\ lRead = {} /\ lPc = "discover" /\ lJoined = {}
    BY FS_Singleton DEF Loading!Init
  <1>2. FromDisks
    BY <1>1 DEF FromDisks
  <1>3. LoadTyped
    BY LoadsAssumption DEF Loading!Init, LoadTyped
  <1> QED BY <1>1, <1>2, <1>3 DEF ReadInv, NoneJoined, LayersRead, InputsRead, EntryRead, ModulesRead, AllRead

\* A disk that lacks what discovery missed, and has what it found, is discovered alike.
LEMMA LongestOf ==
  ASSUME NEW root, IsSequence(root), NEW T \in SUBSET Loading!Prefixes(root), T # {}
  PROVE  /\ Loading!Longest(T) \in T
         /\ \A d \in T : Len(d) \in Nat /\ Len(d) <= Len(Loading!Longest(T))
         /\ \A d \in T : Len(d) = Len(Loading!Longest(T)) => d = Loading!Longest(T)
  <1>1. Len(root) \in Nat
    BY DEF IsSequence
  <1>2. \A d \in T : \E n \in 0..Len(root) : d = SubSeq(root, 1, n) /\ Len(d) = n
    <2>1. ASSUME NEW n \in 0..Len(root)
          PROVE  Len(SubSeq(root, 1, n)) = n
      <3> DEFINE S == {root[i] : i \in DOMAIN root}
      <3>1. root \in Seq(S)
        BY DEF IsSequence
      <3> HIDE DEF S
      <3> QED BY <1>1, <2>1, <3>1
    <2> QED BY <2>1 DEF Loading!Prefixes
  <1> DEFINE Short == {Len(root) - Len(d) : d \in T}
  <1>3. Short \in SUBSET Nat /\ Short # {}
    BY <1>1, <1>2
  <1>4. PICK d \in T : \A e \in T : Len(root) - Len(d) <= Len(root) - Len(e)
    <2> HIDE DEF Short
    <2>1. PICK n \in Short : \A k \in Short : n <= k
      BY <1>3, SmallestOf
    <2> QED BY <2>1 DEF Short
  <1>5. \A e \in T : Len(e) <= Len(d)
    BY <1>1, <1>2, <1>4
  <1>6. Loading!Longest(T) \in T /\ \A e \in T : Len(e) <= Len(Loading!Longest(T))
    BY <1>5 DEF Loading!Longest
  <1> QED BY <1>1, <1>2, <1>6

LEMMA NearestAlike ==
  ASSUME NEW root, IsSequence(root), NEW a, NEW b,
         \A d \in Loading!Upward(root) :
           (\A e \in Loading!Upward(root) \cap DOMAIN a : Len(d) > Len(e)) => d \notin DOMAIN b,
         \A i \in DOMAIN Loading!Nearest(root, a) : Loading!Nearest(root, a)[i][2] \in DOMAIN b
  PROVE  Loading!Nearest(root, b) = Loading!Nearest(root, a)
  <1> DEFINE up == Loading!Upward(root)
             found == up \cap DOMAIN a
             again == up \cap DOMAIN b
  <1>1. up \subseteq Loading!Prefixes(root)
    BY DEF Loading!Upward
  <1>2. CASE found = {}
    <2>1. again = {}
      BY <1>2
    <2> QED BY <1>2, <2>1 DEF Loading!Nearest
  <1>3. CASE found # {}
    <2> DEFINE l == Loading!Longest(found)
    <2>1. /\ l \in found
          /\ \A d \in found : Len(d) \in Nat /\ Len(d) <= Len(l)
      BY <1>1, <1>3, LongestOf
    <2>2. Loading!Nearest(root, a) = << <<"repo", l>> >>
      BY <1>3 DEF Loading!Nearest
    <2>3. l \in again
      <3>1. l \in DOMAIN b
        <4> HIDE DEF l
        <4>1. 1 \in DOMAIN << <<"repo", l>> >> /\ << <<"repo", l>> >>[1][2] = l
          OBVIOUS
        <4> QED BY <2>2, <4>1
      <3> QED BY <2>1, <3>1
    <2>4. /\ Loading!Longest(again) \in again
          /\ \A d \in again : Len(d) \in Nat /\ Len(d) <= Len(Loading!Longest(again))
          /\ \A d \in again : Len(d) = Len(Loading!Longest(again)) => d = Loading!Longest(again)
      BY <1>1, <2>3, LongestOf
    <2>5. ASSUME NEW d \in again
          PROVE  Len(d) <= Len(l)
      <3>1. d \in up /\ d \in DOMAIN b
        OBVIOUS
      <3>2. PICK e \in found : ~(Len(d) > Len(e))
        BY <3>1
      <3>3. Len(d) \in Nat /\ Len(e) \in Nat /\ Len(e) <= Len(l) /\ Len(l) \in Nat
        BY <2>1, <2>4, <3>2
      <3> HIDE DEF l
      <3> QED BY <3>2, <3>3
    <2>6. Loading!Longest(again) = l
      <3>1. /\ Len(l) \in Nat /\ Len(Loading!Longest(again)) \in Nat
            /\ Len(l) <= Len(Loading!Longest(again)) /\ Len(Loading!Longest(again)) <= Len(l)
        BY <2>3, <2>4, <2>5
      <3>2. Len(l) = Len(Loading!Longest(again))
        <4> HIDE DEF l, again
        <4> QED BY <3>1
      <3> QED BY <2>3, <2>4, <3>2
    <2> QED BY <2>2, <2>3, <2>6 DEF Loading!Nearest
  <1> QED BY <1>2, <1>3

LEMMA LayersThere ==
  ASSUME NEW x, NEW y, NEW z, NEW a, NEW d \in {x, y, z} \cap DOMAIN a
  PROVE  LET ls == Loading!Present("dotfiles", x, a) \o Loading!Present("user", y, a)
                     \o Loading!Present("home", z, a)
         IN  \E i \in DOMAIN ls : ls[i][2] = d
  <1> DEFINE p == Loading!Present("dotfiles", x, a)
             q == Loading!Present("user", y, a)
             r == Loading!Present("home", z, a)
  <1>1. IsSequence(p) /\ IsSequence(q) /\ IsSequence(r)
    <2>1. ASSUME NEW n, NEW e
          PROVE  IsSequence(Loading!Present(n, e, a))
      <3> DEFINE one == <<n, e>>
      <3>1. << one >> \in Seq({one}) /\ << >> \in Seq({one})
        OBVIOUS
      <3>2. IsSequence(<< one >>) /\ IsSequence(<< >>)
        BY <3>1, SequenceOf
      <3> QED BY <3>2 DEF Loading!Present
    <2> QED BY <2>1
  <1>2. /\ d = x => 1 \in DOMAIN p /\ p[1][2] = d
        /\ d = y => 1 \in DOMAIN q /\ q[1][2] = d
        /\ d = z => 1 \in DOMAIN r /\ r[1][2] = d
    BY DEF Loading!Present
  <1> HIDE DEF p, q, r
  <1>3. /\ IsSequence(p \o q) /\ Len(p) \in Nat /\ DOMAIN p = 1..Len(p) /\ Len(q) \in Nat
        /\ DOMAIN q = 1..Len(q) /\ DOMAIN (p \o q) = 1..Len(p) + Len(q)
        /\ Len(p \o q) = Len(p) + Len(q)
        /\ \A n \in 1..Len(p) + Len(q) : (p \o q)[n] = IF n <= Len(p) THEN p[n] ELSE q[n - Len(p)]
    BY <1>1, SequenceConcat
  <1>4. /\ Len(r) \in Nat /\ DOMAIN r = 1..Len(r) /\ DOMAIN (p \o q \o r) = 1..Len(p \o q) + Len(r)
        /\ \A n \in 1..Len(p \o q) + Len(r) :
             (p \o q \o r)[n] = IF n <= Len(p \o q) THEN (p \o q)[n] ELSE r[n - Len(p \o q)]
    BY <1>1, <1>3, SequenceConcat
  <1>5. \E i \in DOMAIN (p \o q \o r) : (p \o q \o r)[i][2] = d
    <2>1. CASE d = x
      <3>1. 1 \in 1..Len(p)
        BY <1>2, <1>3, <2>1
      <3>2. /\ 1 \in 1..Len(p) + Len(q) /\ 1 \in 1..Len(p \o q) + Len(r)
            /\ 1 <= Len(p) /\ 1 <= Len(p \o q)
        BY <1>3, <1>4, <3>1
      <3>3. (p \o q \o r)[1] = p[1]
        BY <1>3, <1>4, <3>2
      <3> QED BY <1>2, <1>4, <2>1, <3>2, <3>3
    <2>2. CASE d = y
      <3> DEFINE n == Len(p) + 1
      <3>1. 1 \in 1..Len(q)
        BY <1>2, <1>3, <2>2
      <3>2. /\ n \in 1..Len(p) + Len(q) /\ n \in 1..Len(p \o q) + Len(r)
            /\ ~(n <= Len(p)) /\ n <= Len(p \o q) /\ n - Len(p) = 1
        BY <1>3, <1>4, <3>1
      <3> HIDE DEF n
      <3>3. (p \o q \o r)[n] = q[1]
        BY <1>3, <1>4, <3>2
      <3> QED BY <1>2, <1>4, <2>2, <3>2, <3>3
    <2>3. CASE d = z
      <3> DEFINE n == Len(p \o q) + 1
      <3>1. 1 \in 1..Len(r)
        BY <1>2, <1>4, <2>3
      <3>2. /\ n \in 1..Len(p \o q) + Len(r)
            /\ ~(n <= Len(p \o q)) /\ n - Len(p \o q) = 1
        BY <1>3, <1>4, <3>1
      <3> HIDE DEF n
      <3>3. (p \o q \o r)[n] = r[1]
        BY <1>4, <3>2
      <3> QED BY <1>2, <1>4, <2>3, <3>2, <3>3
    <2> QED BY <2>1, <2>2, <2>3
  <1> QED BY <1>5 DEF p, q, r

LEMMA DiscoverAlike ==
  ASSUME LoadTyped, Loading!Discover, NEW disk, Fits(disk)', Holds(disk)'
  PROVE  Loading!Discovered(disk) = Loading!Discovered(lCue)
  <1>1. /\ lLayers' = Loading!Discovered(lCue)
        /\ \A d \in Loading!Missed(lCue) : Loading!Text(disk, d) = Loading!Text(lCue, d)
    <2>1. lLayers' = Loading!Discovered(lCue) /\ lRead' = Loading!Readings(Loading!Missed(lCue))
      BY DEF Loading!Discover
    <2>2. \A r \in lRead' : Loading!Text(disk, r[1]) = r[2]
      BY DEF Fits
    <2>3. ASSUME NEW d \in Loading!Missed(lCue)
          PROVE  Loading!Text(disk, d) = Loading!Text(lCue, d)
      <3>1. <<d, Loading!Text(lCue, d)>> \in lRead'
        BY <2>1, <2>3 DEF Loading!Readings
      <3> QED BY <2>2, <3>1
    <2> QED BY <2>1, <2>3
  <1>2. \A i \in DOMAIN Loading!Discovered(lCue) : Loading!Discovered(lCue)[i][2] \in DOMAIN disk
    BY <1>1 DEF Holds
  <1>3. CASE Loading!HomeLayers
    <2>1. Loading!Discovered(lCue) =
            Loading!Present("dotfiles", LDotfilesRoot, lCue) \o Loading!Present("user", LHome, lCue)
              \o Loading!Present("home", LConfigDir, lCue)
      BY <1>3 DEF Loading!Discovered
    <2>2. ASSUME NEW d \in {LDotfilesRoot, LHome, LConfigDir}
          PROVE  d \in DOMAIN disk <=> d \in DOMAIN lCue
      <3>1. d \in DOMAIN lCue => d \in DOMAIN disk
        BY <1>2, <2>1, <2>2, LayersThere
      <3>2. d \notin DOMAIN lCue => d \notin DOMAIN disk
        BY <1>1, <1>3, <2>2 DEF Loading!Missed, Loading!Text
      <3> QED BY <3>1, <3>2
    <2> QED BY <1>3, <2>2 DEF Loading!Discovered, Loading!Present
  <1>4. CASE ~Loading!HomeLayers
    <2> DEFINE up == Loading!Upward(lCmd.root)
    <2>1. IsSequence(lCmd.root)
      BY LoadsAssumption DEF LoadTyped
    <2>2. ASSUME NEW d \in up, \A e \in up \cap DOMAIN lCue : Len(d) > Len(e)
          PROVE  d \notin DOMAIN disk
      <3>1. Len(d) \in Nat
        <4>1. {d} \in SUBSET Loading!Prefixes(lCmd.root)
          BY <2>2 DEF Loading!Upward
        <4> QED BY <2>1, <4>1, LongestOf
      <3>2. d \notin DOMAIN lCue
        BY <2>2, <3>1
      <3>3. d \in Loading!Missed(lCue)
        BY <1>4, <2>2 DEF Loading!Missed
      <3> QED BY <1>1, <3>2, <3>3 DEF Loading!Text
    <2>3. Loading!Discovered(lCue) = Loading!Nearest(lCmd.root, lCue)
          /\ Loading!Discovered(disk) = Loading!Nearest(lCmd.root, disk)
      BY <1>4 DEF Loading!Discovered
    <2> HIDE DEF up
    <2>4. Loading!Nearest(lCmd.root, disk) = Loading!Nearest(lCmd.root, lCue)
      BY <1>2, <2>1, <2>2, <2>3, NearestAlike DEF up
    <2> QED BY <2>3, <2>4
  <1> QED BY <1>3, <1>4

\* The texts of the layers, as they are read, are those of a disk that fits.
LEMMA LayersFit ==
  ASSUME NEW disk, Loading!Readable(lLayers), Loading!Readings(Loading!LayerDirs) \subseteq lRead',
         Fits(disk)'
  PROVE  Holds(disk) /\ TextsOf(disk) = Loading!Read(lLayers)
  <1>1. ASSUME NEW i \in DOMAIN lLayers
        PROVE  lLayers[i][2] \in DOMAIN disk /\ disk[lLayers[i][2]] = lCue[lLayers[i][2]]
    <2>1. PICK d : d = lLayers[i][2]
      OBVIOUS
    <2>2. <<d, Loading!Text(lCue, d)>> \in lRead'
      BY <1>1, <2>1 DEF Loading!Readings, Loading!LayerDirs
    <2>3. Loading!Text(disk, d) = Loading!Text(lCue, d)
      <3>1. \A r \in lRead' : Loading!Text(disk, r[1]) = r[2]
        BY DEF Fits
      <3> QED BY <2>2, <3>1
    <2>4. d \in DOMAIN lCue
      BY <1>1, <2>1 DEF Loading!Readable
    <2> QED BY <2>1, <2>3, <2>4 DEF Loading!Text
  <1> QED BY <1>1 DEF Holds, TextsOf, Loading!Read

\* What is read is read from the disk as it is: a disk that fits then fitted before.
LEMMA ReadMore ==
  ASSUME FromDisks, UNCHANGED <<lDisks, lCue>>, NEW dirs, lRead' = lRead \cup Loading!Readings(dirs)
  PROVE  FromDisks' /\ \A disk : Fits(disk)' =>
                         Fits(disk) /\ \A d \in dirs : Loading!Text(disk, d) = Loading!Text(lCue, d)
  <1>1. \A r \in Loading!Readings(dirs) : Loading!Text(lCue, r[1]) = r[2]
    BY DEF Loading!Readings
  <1>2. FromDisks'
    BY <1>1 DEF FromDisks
  <1>3. ASSUME NEW disk, Fits(disk)'
        PROVE  Fits(disk) /\ \A d \in dirs : Loading!Text(disk, d) = Loading!Text(lCue, d)
    <2>1. \A r \in lRead' : Loading!Text(disk, r[1]) = r[2]
      BY <1>3 DEF Fits
    <2>2. ASSUME NEW d \in dirs
          PROVE  Loading!Text(disk, d) = Loading!Text(lCue, d)
      <3>1. <<d, Loading!Text(lCue, d)>> \in lRead'
        BY <2>2 DEF Loading!Readings
      <3> QED BY <2>1, <3>1
    <2> QED BY <2>1, <2>2 DEF Fits
  <1> QED BY <1>2, <1>3

LEMMA LoadDiscover == ReadInv /\ Loading!Discover => ReadInv'
  <1> SUFFICES ASSUME ReadInv, Loading!Discover PROVE ReadInv'
    OBVIOUS
  <1> USE DEF ReadInv
  <1>1. /\ lPc = "discover" /\ lPc' = "inputs" /\ UNCHANGED <<lCue, lCmd, lDisks, lJoined>>
        /\ lLayers' = Loading!Discovered(lCue)
        /\ lRead' = Loading!Readings(Loading!Missed(lCue))
    BY DEF Loading!Discover
  <1>2. LoadTyped' /\ NoneJoined'
    BY <1>1 DEF LoadTyped, NoneJoined
  <1>3. FromDisks'
    <2>1. \A r \in lRead' : Loading!Text(lCue, r[1]) = r[2]
      BY <1>1 DEF Loading!Readings
    <2> QED BY <1>1, <2>1 DEF FromDisks
  <1>4. LayersRead'
    <2>1. ASSUME NEW disk, Fits(disk)', Holds(disk)'
          PROVE  Loading!Discovered(disk)' = lLayers'
      <3>1. Loading!Discovered(disk) = Loading!Discovered(lCue)
        BY <2>1, DiscoverAlike
      <3>2. Loading!Discovered(disk)' = Loading!Discovered(disk)
        BY <1>1 DEF Loading!Discovered, Loading!HomeLayers
      <3> QED BY <1>1, <3>1, <3>2
    <2> QED BY <2>1 DEF LayersRead
  <1> QED BY <1>1, <1>2, <1>3, <1>4 DEF InputsRead, EntryRead, ModulesRead, AllRead

\* What the layers say depends on nothing else.
LEMMA LayersStay ==
  ASSUME UNCHANGED <<lCmd, lLayers>>, NEW disk
  PROVE  /\ Holds(disk)' = Holds(disk) /\ TextsOf(disk)' = TextsOf(disk)
         /\ KnownOf(disk)' = KnownOf(disk)
         /\ Loading!Discovered(disk)' = Loading!Discovered(disk)
  <1>1. Holds(disk)' = Holds(disk) /\ TextsOf(disk)' = TextsOf(disk)
    BY DEF Holds, TextsOf
  <1>2. KnownOf(disk)' = KnownOf(disk)
    BY <1>1 DEF KnownOf, FirstOf, BaseRoot, Loading!Root
  <1>3. Loading!Discovered(disk)' = Loading!Discovered(disk)
    BY DEF Loading!Discovered, Loading!HomeLayers
  <1> QED BY <1>1, <1>2, <1>3

LEMMA LoadResolve == ReadInv /\ Loading!ResolveInputs => ReadInv'
  <1> SUFFICES ASSUME ReadInv, Loading!ResolveInputs PROVE ReadInv'
    OBVIOUS
  <1> USE DEF ReadInv
  <1>1. /\ lPc = "inputs" /\ lPc' = "base"
        /\ UNCHANGED <<lCue, lCmd, lDisks, lJoined, lLayers>>
        /\ Loading!Readable(lLayers)
        /\ lPaths' = Loading!RuntimePaths(Loading!Ready(Loading!Compiled(Loading!Read(lLayers), <<>>)),
                                          BaseRoot)
        /\ lRead' = lRead \cup Loading!Readings(Loading!LayerDirs)
    BY DEF Loading!ResolveInputs, BaseRoot
  <1>2. LoadTyped' /\ NoneJoined'
    BY <1>1 DEF LoadTyped, NoneJoined
  <1>3. FromDisks' /\ \A disk : Fits(disk)' => Fits(disk)
    BY <1>1, ReadMore
  <1>4. ASSUME NEW disk, Fits(disk)'
        PROVE  Holds(disk)' /\ lPaths' = KnownOf(disk)'
    <2>1. Loading!Readings(Loading!LayerDirs) \subseteq lRead'
      BY <1>1
    <2>2. Holds(disk) /\ TextsOf(disk) = Loading!Read(lLayers)
      BY <1>1, <1>4, <2>1, LayersFit
    <2>3. Holds(disk)' = Holds(disk) /\ KnownOf(disk)' = KnownOf(disk)
      BY <1>1, LayersStay
    <2> QED BY <1>1, <2>2, <2>3 DEF KnownOf, FirstOf
  <1>5. LayersRead'
    <2>1. ASSUME NEW disk, Fits(disk)', Holds(disk)'
          PROVE  Loading!Discovered(disk)' = lLayers'
      <3>1. Holds(disk)' = Holds(disk) /\ Loading!Discovered(disk)' = Loading!Discovered(disk)
        BY <1>1, LayersStay
      <3> QED BY <1>1, <1>3, <2>1, <3>1 DEF LayersRead
    <2> QED BY <2>1 DEF LayersRead
  <1>6. InputsRead'
    BY <1>4 DEF InputsRead
  <1> QED BY <1>1, <1>2, <1>3, <1>5, <1>6 DEF EntryRead, ModulesRead, AllRead

\* Past the inputs, what a fitting disk says of layers and inputs stays.
LEMMA InputsStay ==
  ASSUME LayersRead, InputsRead, lPc \in {"base", "join", "scan"}, UNCHANGED <<lCmd, lLayers, lPaths>>,
         \A disk : Fits(disk)' => Fits(disk)
  PROVE  LayersRead' /\ InputsRead'
  <1>1. ASSUME NEW disk, Fits(disk)'
        PROVE  Holds(disk)' /\ lPaths' = KnownOf(disk)' /\ Loading!Discovered(disk)' = lLayers'
    <2>1. Holds(disk) /\ lPaths = KnownOf(disk)
      BY <1>1 DEF InputsRead
    <2>2. Loading!Discovered(disk) = lLayers
      BY <1>1, <2>1 DEF LayersRead
    <2>3. Holds(disk)' = Holds(disk) /\ KnownOf(disk)' = KnownOf(disk)
          /\ Loading!Discovered(disk)' = Loading!Discovered(disk)
      BY LayersStay
    <2> QED BY <2>1, <2>2, <2>3
  <1> QED BY <1>1 DEF LayersRead, InputsRead

LEMMA LoadCompile == ReadInv /\ Loading!CompileBase => ReadInv'
  <1> SUFFICES ASSUME ReadInv, Loading!CompileBase PROVE ReadInv'
    OBVIOUS
  <1> USE DEF ReadInv
  <1>1. /\ lPc = "base" /\ lPc' = "join" /\ lJoined = {}
        /\ UNCHANGED <<lCue, lCmd, lDisks, lJoined, lLayers, lPaths>>
        /\ Loading!Readable(lLayers)
        /\ lEntry' = Loading!Compiled(Loading!Read(lLayers), lPaths)
        /\ lConfig' = lEntry'
        /\ lTodo' = IF lLayers = <<>> THEN {} ELSE Loading!Enabled(Loading!Ready(lEntry'))
        /\ lRead' = lRead \cup Loading!Readings(Loading!LayerDirs)
    BY DEF Loading!CompileBase, NoneJoined
  <1>2. LoadTyped' /\ NoneJoined'
    BY <1>1 DEF LoadTyped, NoneJoined
  <1>3. FromDisks' /\ \A disk : Fits(disk)' => Fits(disk)
    BY <1>1, ReadMore
  <1>4. LayersRead' /\ InputsRead'
    BY <1>1, <1>3, InputsStay
  <1>5. EntryRead'
    <2>1. ASSUME NEW disk, Fits(disk)'
          PROVE  lEntry' = Loading!Compiled(TextsOf(disk)', lPaths')
      <3>1. Loading!Readings(Loading!LayerDirs) \subseteq lRead'
        BY <1>1
      <3>2. TextsOf(disk) = Loading!Read(lLayers)
        BY <1>1, <2>1, <3>1, LayersFit
      <3>3. TextsOf(disk)' = TextsOf(disk)
        BY <1>1, LayersStay
      <3> QED BY <1>1, <3>2, <3>3
    <2> QED BY <2>1 DEF EntryRead
  <1>6. ModulesRead'
    <2>1. lTodo' = Chosen'
      BY <1>1 DEF Chosen
    <2> QED BY <1>1, <2>1 DEF ModulesRead
  <1> QED BY <1>1, <1>2, <1>3, <1>4, <1>5, <1>6 DEF AllRead

\* The files of modules as a disk has them.
FilesOf(ms, disk) == UNION {{<<m, d, disk[d]>> : d \in DirOf(m) \cap DOMAIN disk} : m \in ms}

\* What was compiled first is what the disk says, and stays.
LEMMA EntryStays ==
  ASSUME EntryRead, lPc \in {"join", "scan"}, UNCHANGED <<lCmd, lLayers, lPaths, lEntry>>,
         \A disk : Fits(disk)' => Fits(disk)
  PROVE  EntryRead' /\ UNCHANGED Chosen /\ \A ms, disk : FilesOf(ms, disk)' = FilesOf(ms, disk)
  <1>1. ASSUME NEW disk, Fits(disk)'
        PROVE  lEntry' = Loading!Compiled(TextsOf(disk)', lPaths')
    <2>1. TextsOf(disk)' = TextsOf(disk)
      BY LayersStay
    <2> QED BY <1>1, <2>1 DEF EntryRead
  <1>2. \A m : DirOf(m)' = DirOf(m)
    BY DEF DirOf, Loading!Root
  <1>3. \A ms, disk : FilesOf(ms, disk)' = FilesOf(ms, disk)
    BY <1>2 DEF FilesOf
  <1> QED BY <1>1, <1>3 DEF EntryRead, Chosen

LEMMA LoadJoin == ASSUME ReadInv, NEW m \in lTodo, Loading!Join(m) PROVE ReadInv'
  <1> USE DEF ReadInv
  <1>1. /\ lPc = "join" /\ lPc' = "join"
        /\ UNCHANGED <<lCue, lCmd, lDisks, lLayers, lPaths, lConfig, lEntry>>
        /\ lTodo' = lTodo \ {m} /\ lConfig = lEntry /\ lTodo \subseteq Chosen
    BY DEF Loading!Join, ModulesRead
  <1>2. /\ lJoined' = lJoined \cup {<<m, d, lCue[d]>> : d \in DirOf(m) \cap DOMAIN lCue}
        /\ lRead' = lRead \cup Loading!Readings(DirOf(m))
    BY <1>1 DEF Loading!Join, DirOf
  <1>3. LoadTyped' /\ NoneJoined'
    BY <1>1 DEF LoadTyped, NoneJoined
  <1>4. FromDisks' /\ \A disk : Fits(disk)' =>
                        Fits(disk) /\ \A d \in DirOf(m) : Loading!Text(disk, d) = Loading!Text(lCue, d)
    BY <1>1, <1>2, ReadMore
  <1>5. LayersRead' /\ InputsRead' /\ EntryRead' /\ UNCHANGED Chosen
        /\ \A ms, disk : FilesOf(ms, disk)' = FilesOf(ms, disk)
    BY <1>1, <1>4, InputsStay, EntryStays
  <1>6. ASSUME NEW disk, Fits(disk)'
        PROVE  lJoined' = FilesOf(Chosen \ lTodo', disk)
    <2>1. lJoined = FilesOf(Chosen \ lTodo, disk)
      BY <1>1, <1>4, <1>6 DEF ModulesRead, FilesOf
    <2>2. {<<m, d, lCue[d]>> : d \in DirOf(m) \cap DOMAIN lCue}
            = {<<m, d, disk[d]>> : d \in DirOf(m) \cap DOMAIN disk}
      <3>1. ASSUME NEW d \in DirOf(m)
            PROVE  /\ d \in DOMAIN disk <=> d \in DOMAIN lCue
                   /\ d \in DOMAIN disk => disk[d] = lCue[d]
        <4>1. Loading!Text(disk, d) = Loading!Text(lCue, d)
          BY <1>4, <1>6, <3>1
        <4> QED BY <4>1 DEF Loading!Text
      <3> QED BY <3>1
    <2>3. Chosen \ lTodo' = (Chosen \ lTodo) \cup {m}
      BY <1>1
    <2> QED BY <1>2, <2>1, <2>2, <2>3 DEF FilesOf
  <1>7. ModulesRead'
    <2>1. \A disk : Fits(disk)' => lJoined' = FilesOf(Chosen \ lTodo, disk)'
      BY <1>5, <1>6
    <2> QED BY <1>1, <1>5, <2>1 DEF ModulesRead, FilesOf
  <1> QED BY <1>1, <1>3, <1>4, <1>5, <1>7 DEF AllRead

\* The last value is what the disk denotes, given the layers, inputs and modules it has.
LEMMA FinalDenoted ==
  ASSUME NEW disk, Loading!Discovered(disk) = lLayers, lPaths = KnownOf(disk),
         lEntry = Loading!Compiled(TextsOf(disk), lPaths), lConfig = lEntry,
         lJoined = FilesOf(Chosen, disk), lJoined # {} => Loading!Read(lLayers) = TextsOf(disk)
  PROVE  Loading!FinalValue = Loading!Denoted(disk)
  <1> DEFINE texts == TextsOf(disk)
             chosen == UNION {DirOf(m) : m \in Loading!Enabled(Loading!Ready(lEntry))}
             more == {disk[d] : d \in chosen \cap DOMAIN disk}
  <1>1. Loading!Denoted(disk) =
          IF lLayers = <<>> THEN lEntry ELSE Loading!Compiled(texts \cup more, lPaths)
    BY DEF Loading!Denoted, TextsOf, KnownOf, FirstOf, BaseRoot, DirOf
  <1>2. CASE lLayers = <<>>
    <2>1. lJoined = {}
      BY <1>2 DEF Chosen, FilesOf
    <2> QED BY <1>1, <1>2, <2>1 DEF Loading!FinalValue
  <1>3. CASE lLayers # <<>>
    <2>1. Loading!JoinedTexts = more
      <3>1. \A j : j \in lJoined <=> \E m \in Loading!Enabled(Loading!Ready(lEntry)) :
                                       \E d \in DirOf(m) \cap DOMAIN disk : j = <<m, d, disk[d]>>
        BY <1>3 DEF FilesOf, Chosen
      <3>2. ASSUME NEW j \in lJoined
            PROVE  j[3] \in more
        <4>1. \E m \in Loading!Enabled(Loading!Ready(lEntry)) :
                \E d \in DirOf(m) \cap DOMAIN disk : j = <<m, d, disk[d]>>
          BY <3>1, <3>2
        <4> QED BY <4>1
      <3>3. ASSUME NEW t \in more
            PROVE  \E j \in lJoined : j[3] = t
        <4>1. PICK m \in Loading!Enabled(Loading!Ready(lEntry)) :
                     \E d \in DirOf(m) \cap DOMAIN disk : t = disk[d]
          BY <3>3
        <4>2. PICK d \in DirOf(m) \cap DOMAIN disk : t = disk[d]
          BY <4>1
        <4>3. <<m, d, disk[d]>> \in lJoined
          BY <3>1
        <4> QED BY <4>2, <4>3
      <3> HIDE DEF more
      <3> QED BY <3>2, <3>3 DEF Loading!JoinedTexts
    <2>2. CASE lJoined = {}
      <3>1. more = {}
        BY <2>1, <2>2 DEF Loading!JoinedTexts
      <3>2. texts \cup more = texts
        BY <3>1
      <3> HIDE DEF texts, more
      <3>3. lEntry = Loading!Compiled(texts, lPaths)
        BY DEF texts
      <3> QED BY <1>1, <1>3, <2>2, <3>2, <3>3 DEF Loading!FinalValue
    <2>3. CASE lJoined # {}
      <3> HIDE DEF more
      <3> QED BY <1>1, <1>3, <2>1, <2>3 DEF Loading!FinalValue
    <2> QED BY <2>2, <2>3
  <1> QED BY <1>2, <1>3

LEMMA LoadFinal == ReadInv /\ Loading!CompileFinal => ReadInv'
  <1> SUFFICES ASSUME ReadInv, Loading!CompileFinal PROVE ReadInv'
    OBVIOUS
  <1> USE DEF ReadInv
  <1>1. /\ lPc = "join" /\ lPc' = "scan" /\ lTodo = {} /\ lConfig = lEntry
        /\ UNCHANGED <<lCue, lCmd, lDisks, lJoined, lLayers, lPaths, lEntry>>
        /\ lConfig' = Loading!FinalValue
        /\ lJoined # {} => Loading!Readable(lLayers)
    BY DEF Loading!CompileFinal, Loading!FinalFails, ModulesRead
  <1>2. lRead' = IF lJoined = {} THEN lRead ELSE lRead \cup Loading!Readings(Loading!LayerDirs)
    BY DEF Loading!CompileFinal
  <1>3. LoadTyped' /\ NoneJoined'
    BY <1>1 DEF LoadTyped, NoneJoined
  <1>4. FromDisks' /\ \A disk : Fits(disk)' => Fits(disk)
    <2>1. CASE lJoined = {}
      BY <1>1, <1>2, <2>1 DEF FromDisks, Fits
    <2>2. CASE lJoined # {}
      BY <1>1, <1>2, <2>2, ReadMore
    <2> QED BY <2>1, <2>2
  <1>5. LayersRead' /\ InputsRead' /\ EntryRead' /\ UNCHANGED Chosen
        /\ \A ms, disk : FilesOf(ms, disk)' = FilesOf(ms, disk)
    BY <1>1, <1>4, InputsStay, EntryStays
  <1>6. ASSUME NEW disk, Fits(disk)'
        PROVE  lConfig' = Loading!Denoted(disk)' /\ lJoined' = FilesOf(Chosen, disk)
    <2>1. Fits(disk)
      BY <1>4, <1>6
    <2>2. Holds(disk) /\ lPaths = KnownOf(disk)
      BY <1>1, <2>1 DEF InputsRead
    <2>3. Loading!Discovered(disk) = lLayers
      BY <1>1, <2>1, <2>2 DEF LayersRead
    <2>4. lEntry = Loading!Compiled(TextsOf(disk), lPaths)
      BY <1>1, <2>1 DEF EntryRead
    <2>5. lJoined = FilesOf(Chosen, disk)
      <3>1. Chosen \ lTodo = Chosen
        BY <1>1
      <3>2. lJoined = FilesOf(Chosen \ lTodo, disk)
        BY <1>1, <2>1 DEF ModulesRead, FilesOf
      <3> QED BY <3>1, <3>2
    <2>6. ASSUME lJoined # {}
          PROVE  Loading!Read(lLayers) = TextsOf(disk)
      <3>1. Loading!Readings(Loading!LayerDirs) \subseteq lRead'
        BY <1>2, <2>6
      <3> QED BY <1>1, <1>6, <2>6, <3>1, LayersFit
    <2>7. Loading!FinalValue = Loading!Denoted(disk)
      BY <1>1, <2>2, <2>3, <2>4, <2>5, <2>6, FinalDenoted
    <2>8. Loading!Denoted(disk)' = Loading!Denoted(disk)
      <3>1. Loading!Discovered(disk)' = Loading!Discovered(disk)
        BY <1>1, LayersStay
      <3> QED BY <3>1 DEF Loading!Denoted
    <2> QED BY <1>1, <2>5, <2>7, <2>8
  <1>7. AllRead'
    <2>1. \A disk : Fits(disk)' => lJoined' = FilesOf(Chosen, disk)'
      BY <1>5, <1>6
    <2> QED BY <1>6, <2>1 DEF AllRead, FilesOf
  <1> QED BY <1>1, <1>3, <1>4, <1>5, <1>7 DEF ModulesRead

\* Scanning, building and failing read nothing more.
LEMMA LoadPlain ==
  ASSUME ReadInv,
         UNCHANGED <<lCue, lCmd, lLayers, lPaths, lConfig, lJoined, lEntry, lDisks, lRead>>,
         lPc # "discover", lPc' = "failed" \/ (lPc = "scan" /\ lPc' \in {"scan", "done"})
  PROVE  ReadInv'
  <1> USE DEF ReadInv
  <1>1. LoadTyped' /\ NoneJoined' /\ FromDisks' /\ \A disk : Fits(disk)' => Fits(disk)
    BY DEF LoadTyped, NoneJoined, FromDisks, Fits
  <1>2. LayersRead'
    <2>1. \A disk : Loading!Discovered(disk)' = Loading!Discovered(disk) /\ Holds(disk)' = Holds(disk)
      BY LayersStay
    <2> QED BY <1>1, <2>1 DEF LayersRead
  <1>3. CASE lPc' = "failed"
    BY <1>1, <1>2, <1>3 DEF InputsRead, EntryRead, ModulesRead, AllRead
  <1>4. CASE lPc = "scan" /\ lPc' \in {"scan", "done"}
    <2>1. LayersRead' /\ InputsRead' /\ EntryRead' /\ UNCHANGED Chosen
          /\ \A ms, disk : FilesOf(ms, disk)' = FilesOf(ms, disk)
      BY <1>1, <1>4, InputsStay, EntryStays
    <2>2. ASSUME NEW disk, Fits(disk)'
          PROVE  lConfig' = Loading!Denoted(disk)' /\ lJoined' = FilesOf(Chosen, disk)'
      <3>1. lConfig = Loading!Denoted(disk) /\ lJoined = FilesOf(Chosen, disk)
        BY <1>1, <1>4, <2>2 DEF AllRead, FilesOf
      <3>2. Loading!Denoted(disk)' = Loading!Denoted(disk)
        <4>1. Loading!Discovered(disk)' = Loading!Discovered(disk)
          BY LayersStay
        <4> QED BY <4>1 DEF Loading!Denoted
      <3> QED BY <2>1, <3>1, <3>2
    <2>3. AllRead'
      BY <2>2 DEF AllRead, FilesOf
    <2> QED BY <1>1, <1>4, <2>1, <2>3 DEF ModulesRead
  <1> QED BY <1>3, <1>4

\* A save or a deletion changes one directory of the disk.
LEMMA LoadDisturbed ==
  ASSUME ReadInv, LoadTyped', NEW d, \A e : e # d => Loading!Text(lCue', e) = Loading!Text(lCue, e),
         lDisks' = lDisks \cup {lCue'},
         UNCHANGED <<lPc, lCmd, lLayers, lPaths, lConfig, lTodo, lJoined, lEntry, lRead>>
  PROVE  ReadInv'
  <1> USE DEF ReadInv
  <1>1. NoneJoined' /\ \A disk : Fits(disk)' <=> Fits(disk)
    BY DEF NoneJoined, Fits
  <1>2. FromDisks'
    <2>1. IsFiniteSet(lDisks') /\ lCue' \in lDisks'
      BY FS_AddElement DEF FromDisks
    <2>2. \A r \in lRead' : \E disk \in lDisks' : Loading!Text(disk, r[1]) = r[2]
      BY DEF FromDisks
    <2>3. ASSUME Cardinality(lDisks') <= 2
          PROVE  \E g : \A a, b \in lDisks' : \A e : e # g => Loading!Text(a, e) = Loading!Text(b, e)
      <3>1. CASE lCue' \in lDisks
        <4>1. lDisks' = lDisks
          BY <3>1
        <4> QED BY <2>3, <4>1 DEF FromDisks
      <3>2. CASE lCue' \notin lDisks
        <4>1. Cardinality(lDisks') = Cardinality(lDisks) + 1 /\ Cardinality(lDisks) \in Nat
          BY <3>2, FS_AddElement, FS_CardinalityType DEF FromDisks
        <4>2. Cardinality(lDisks) <= 1
          BY <2>3, <4>1
        <4>3. \A a \in lDisks : a = lCue
          <5>1. ASSUME NEW a \in lDisks, a # lCue
                PROVE  FALSE
            <6>1. {a, lCue} \subseteq lDisks /\ Cardinality({a, lCue}) = 2 /\ IsFiniteSet({a, lCue})
              <7>1. IsFiniteSet({a}) /\ Cardinality({a}) = 1
                BY FS_Singleton
              <7>2. {a, lCue} = {a} \cup {lCue} /\ lCue \notin {a}
                BY <5>1
              <7>3. Cardinality({a} \cup {lCue}) = Cardinality({a}) + 1 /\ IsFiniteSet({a} \cup {lCue})
                BY <7>1, <7>2, FS_AddElement
              <7> QED BY <5>1, <7>1, <7>2, <7>3 DEF FromDisks
            <6>2. Cardinality({a, lCue}) <= Cardinality(lDisks)
              BY <6>1, FS_Subset DEF FromDisks
            <6> QED BY <4>1, <4>2, <6>1, <6>2
          <5> QED BY <5>1
        <4>4. \A a \in lDisks' : a = lCue \/ a = lCue'
          BY <4>3
        <4> QED BY <4>4
      <3> QED BY <3>1, <3>2
    <2> QED BY <2>1, <2>2, <2>3 DEF FromDisks
  <1>3. LayersRead' /\ InputsRead'
    <2>1. \A disk : /\ Loading!Discovered(disk)' = Loading!Discovered(disk) /\ Holds(disk)' = Holds(disk)
                    /\ KnownOf(disk)' = KnownOf(disk)
      BY LayersStay
    <2> QED BY <1>1, <2>1 DEF LayersRead, InputsRead
  <1>4. EntryRead' /\ ModulesRead' /\ AllRead'
    <2>1. /\ \A disk : TextsOf(disk)' = TextsOf(disk)
          /\ \A disk : Loading!Denoted(disk)' = Loading!Denoted(disk)
      <3>1. ASSUME NEW disk
            PROVE  TextsOf(disk)' = TextsOf(disk) /\ Loading!Denoted(disk)' = Loading!Denoted(disk)
        <4>1. Loading!Discovered(disk)' = Loading!Discovered(disk) /\ TextsOf(disk)' = TextsOf(disk)
          BY LayersStay
        <4> QED BY <4>1 DEF Loading!Denoted
      <3> QED BY <3>1
    <2>2. UNCHANGED Chosen /\ \A m : DirOf(m)' = DirOf(m)
      BY DEF Chosen, DirOf, Loading!Root
    <2> QED BY <1>1, <2>1, <2>2 DEF EntryRead, ModulesRead, AllRead
  <1> QED BY <1>1, <1>2, <1>3, <1>4

LEMMA LoadEdit == ASSUME ReadInv, NEW s \in LSaves, Loading!Edit(s[1], s[2]) PROVE ReadInv'
  <1> DEFINE d == s[1]
             t == s[2]
  <1>1. /\ lCue' = [e \in DOMAIN lCue \cup {d} |-> IF e = d THEN t ELSE lCue[e]]
        /\ lDisks' = lDisks \cup {lCue'}
        /\ UNCHANGED <<lPc, lCmd, lLayers, lPaths, lConfig, lTodo, lJoined, lEntry, lRead>>
    BY DEF Loading!Edit
  <1> HIDE DEF d, t
  <1>2. \A e : e # d => Loading!Text(lCue', e) = Loading!Text(lCue, e)
    BY <1>1 DEF Loading!Text
  <1>3. LoadTyped'
    <2>1. \A f \in t : IsSequence(f.value)
      BY LoadsAssumption DEF t
    <2> QED BY <1>1, <2>1 DEF LoadTyped, ReadInv
  <1> QED BY <1>1, <1>2, <1>3, LoadDisturbed

LEMMA LoadDelete == ASSUME ReadInv, NEW d \in DOMAIN lCue, Loading!Delete(d) PROVE ReadInv'
  <1>1. /\ lCue' = [e \in DOMAIN lCue \ {d} |-> lCue[e]]
        /\ lDisks' = lDisks \cup {lCue'}
        /\ UNCHANGED <<lPc, lCmd, lLayers, lPaths, lConfig, lTodo, lJoined, lEntry, lRead>>
    BY DEF Loading!Delete
  <1>2. \A e : e # d => Loading!Text(lCue', e) = Loading!Text(lCue, e)
    BY <1>1 DEF Loading!Text
  <1>3. LoadTyped'
    BY <1>1 DEF LoadTyped, ReadInv
  <1> QED BY <1>1, <1>2, <1>3, LoadDisturbed

LEMMA SameCardinality == \A S : Loading!Cardinality(S) = Cardinality(S)
  BY Zenon DEF Loading!Cardinality, Cardinality

LEMMA LoadNext == ReadInv /\ [Loading!Next]_loadVars => ReadInv'
  <1> SUFFICES ASSUME ReadInv, [Loading!Next]_loadVars PROVE ReadInv'
    OBVIOUS
  <1>1. CASE UNCHANGED loadVars
    <2>1. UNCHANGED <<lCue, lCmd, lLayers, lPaths, lConfig, lTodo, lJoined, lEntry, lDisks, lRead, lPc>>
      BY <1>1 DEF loadVars
    <2>2. lDisks' = lDisks \cup {lCue'} /\ LoadTyped'
      BY <2>1 DEF ReadInv, FromDisks, LoadTyped
    <2>3. \A e : e # lCue => Loading!Text(lCue', e) = Loading!Text(lCue, e)
      BY <2>1
    <2> QED BY <2>1, <2>2, <2>3, LoadDisturbed
  <1>2. CASE Loading!Next
    <2>1. CASE \/ Loading!InputsFail \/ Loading!BaseFails \/ Loading!CompileFails \/ Loading!Build
               \/ \E m \in lTodo : Loading!Scan(m) \/ Loading!ScanFails(m)
      <3>1. /\ UNCHANGED <<lCue, lCmd, lLayers, lPaths, lConfig, lJoined, lEntry, lDisks, lRead>>
            /\ lPc # "discover" /\ (lPc' = "failed" \/ (lPc = "scan" /\ lPc' \in {"scan", "done"}))
        BY <2>1 DEF Loading!InputsFail, Loading!BaseFails, Loading!CompileFails, Loading!Build,
                    Loading!Scan, Loading!ScanFails, Loading!Fail
      <3> QED BY <3>1, LoadPlain
    <2> QED BY <1>2, <2>1, LoadDiscover, LoadResolve, LoadCompile, LoadJoin, LoadFinal, LoadEdit,
               LoadDelete DEF Loading!Next, Loading!Load
  <1> QED BY <1>1, <1>2

\* Of the disks that there were, one fits all that was read, unless a file was torn.
LEMMA LoadAtomic == ReadInv => Loading!LoadIsAtomic
  <1> SUFFICES ASSUME ReadInv, lPc \in {"scan", "done"}, ~Loading!Torn, Cardinality(lDisks) <= 2
               PROVE  \E disk \in lDisks : lConfig = Loading!Denoted(disk)
    BY SameCardinality DEF Loading!LoadIsAtomic
  <1> USE DEF ReadInv
  <1>1. \E disk \in lDisks : Fits(disk)
    <2>1. PICK d : \A a, b \in lDisks : \A e : e # d => Loading!Text(a, e) = Loading!Text(b, e)
      BY DEF FromDisks
    <2>2. ASSUME NEW a \in lDisks, NEW r \in lRead, r[1] # d
          PROVE  Loading!Text(a, r[1]) = r[2]
      BY <2>1, <2>2 DEF FromDisks
    <2>3. CASE \E r \in lRead : r[1] = d
      <3>1. PICK r \in lRead : r[1] = d
        BY <2>3
      <3>2. PICK a \in lDisks : Loading!Text(a, d) = r[2]
        BY <3>1 DEF FromDisks
      <3>3. ASSUME NEW s \in lRead, s[1] = d
            PROVE  s[2] = r[2]
        BY <3>1, <3>3 DEF Loading!Torn
      <3> QED BY <2>2, <3>2, <3>3 DEF Fits
    <2>4. CASE ~\E r \in lRead : r[1] = d
      BY <2>2, <2>4 DEF FromDisks, Fits
    <2> QED BY <2>3, <2>4
  <1> QED BY <1>1 DEF AllRead

--------------------------------------------------------------------------------
(* What inputs and modules stand for, once a load that nothing disturbed has ended. *)

\* A last value with a conflict, or with a part that is not concrete, ends the load.
FinalSound ==
  lPc \in {"scan", "done"} =>
    ~Loading!Conflict(lConfig) /\ \A f \in lConfig : ~Loading!Incomplete(f)

LEMMA SoundNext == FinalSound /\ [Loading!Next]_loadVars => FinalSound'
  <1> SUFFICES ASSUME FinalSound, [Loading!Next]_loadVars PROVE FinalSound'
    OBVIOUS
  <1>1. CASE UNCHANGED loadVars
    BY <1>1 DEF loadVars, FinalSound, Loading!Conflict, Loading!Incomplete
  <1>2. CASE Loading!Next
    <2>1. CASE Loading!CompileFinal
      <3>1. lConfig' = Loading!FinalValue /\ ~Loading!FinalFails
        BY <2>1 DEF Loading!CompileFinal
      <3>2. ~Loading!Conflict(lConfig') /\ \A f \in lConfig' : ~Loading!Incomplete(f)
        BY <3>1 DEF Loading!FinalFails
      <3> QED BY <3>2 DEF FinalSound
    <2>2. CASE lPc' \in {"scan", "done"} /\ ~Loading!CompileFinal
      <3>1. lPc \in {"scan", "done"} /\ lConfig' = lConfig
        BY <1>2, <2>2 DEF Loading!Next, Loading!Load, Loading!Discover, Loading!ResolveInputs,
             Loading!InputsFail, Loading!CompileBase, Loading!BaseFails, Loading!CompileFails,
             Loading!Build, Loading!Join, Loading!Scan, Loading!ScanFails, Loading!Fail,
             Loading!Edit, Loading!Delete
      <3> QED BY <3>1 DEF FinalSound, Loading!Conflict, Loading!Incomplete
    <2> QED BY <2>1, <2>2 DEF FinalSound
  <1> QED BY <1>1, <1>2

\* What was concrete before the inputs were known is said by every later compilation.
LEMMA ReadyStays ==
  ASSUME NEW T, NEW more, NEW known, NEW f \in Loading!Ready(Loading!Compiled(T, <<>>))
  PROVE  f \in Loading!Compiled(T \cup more, known)
  <1>1. PICK g \in Loading!Prelude \cup UNION T : f = Loading!Fact(g.field, Loading!Filled(g.value, <<>>))
    BY DEF Loading!Ready, Loading!Compiled
  <1>2. Loading!Filled(g.value, <<>>) = g.value
    BY DEF Loading!Filled
  <1>3. ~Loading!Incomplete(f) /\ f.value = g.value
    BY <1>1, <1>2 DEF Loading!Ready, Loading!Fact
  <1>4. Loading!Filled(g.value, known) = g.value
    BY <1>3 DEF Loading!Filled, Loading!Incomplete
  <1>5. g \in Loading!Prelude \cup UNION (T \cup more)
    OBVIOUS
  <1> QED BY <1>1, <1>2, <1>4, <1>5 DEF Loading!Compiled

LEMMA OnlyValue ==
  ASSUME NEW c, ~Loading!Conflict(c), NEW d \in SUBSET c, NEW f \in d, NEW default
  PROVE  Loading!Get(d, f.field, default) = f.value
  <1>1. \A g \in d : g.field = f.field => g.value = f.value
    BY DEF Loading!Conflict
  <1>2. {g \in d : g.field = f.field} # {}
    OBVIOUS
  <1> QED BY <1>1, <1>2 DEF Loading!Get

\* A load during which the disk did not change read that disk.
LEMMA CalmRead ==
  ASSUME ReadInv, lDisks = {lCue}, lPc \in {"scan", "done"}, lLayers # <<>>
  PROVE  /\ Holds(lCue) /\ lPaths = KnownOf(lCue)
         /\ lEntry = Loading!Compiled(TextsOf(lCue), lPaths)
         /\ \E more : lConfig = Loading!Compiled(TextsOf(lCue) \cup more, lPaths)
         /\ lJoined = FilesOf(Chosen, lCue)
  <1> USE DEF ReadInv
  <1>1. Fits(lCue)
    BY DEF FromDisks, Fits
  <1>2. Holds(lCue) /\ lPaths = KnownOf(lCue) /\ lEntry = Loading!Compiled(TextsOf(lCue), lPaths)
    BY <1>1 DEF InputsRead, EntryRead
  <1>3. Loading!Discovered(lCue) = lLayers
    BY <1>1, <1>2 DEF LayersRead
  <1>4. lConfig = Loading!Denoted(lCue) /\ lJoined = FilesOf(Chosen, lCue)
    BY <1>1 DEF AllRead, FilesOf
  <1>5. \E more : Loading!Denoted(lCue) = Loading!Compiled(TextsOf(lCue) \cup more, lPaths)
    BY <1>2, <1>3 DEF Loading!Denoted, TextsOf, KnownOf, FirstOf, BaseRoot
  <1> QED BY <1>2, <1>4, <1>5

LEMMA EntryWithin ==
  ASSUME ReadInv, FinalSound, lDisks = {lCue}, lPc \in {"scan", "done"}, lLayers # <<>>
  PROVE  FirstOf(lCue) \subseteq lConfig /\ lEntry \subseteq lConfig /\ Loading!Ready(lEntry) = lEntry
  <1>1. PICK more : lConfig = Loading!Compiled(TextsOf(lCue) \cup more, lPaths)
    BY CalmRead
  <1>2. FirstOf(lCue) \subseteq lConfig
    BY <1>1, ReadyStays DEF FirstOf
  <1>3. lEntry \subseteq lConfig
    <2>1. lEntry = Loading!Compiled(TextsOf(lCue), lPaths)
      BY CalmRead
    <2> QED BY <1>1, <2>1 DEF Loading!Compiled
  <1>4. Loading!Ready(lEntry) = lEntry
    BY <1>3 DEF FinalSound, Loading!Ready
  <1> QED BY <1>2, <1>3, <1>4

LEMMA TailIs ==
  ASSUME NEW s, IsSequence(s), s # <<>>
  PROVE  IsSequence(Tail(s))
  <1> DEFINE S == {s[i] : i \in DOMAIN s}
  <1>1. s \in Seq(S)
    BY DEF IsSequence
  <1> HIDE DEF S
  <1>2. Tail(s) \in Seq(S)
    BY <1>1
  <1> QED BY <1>2, SequenceOf

LEMMA OneIs == \A x : IsSequence(<<x>>) /\ IsSequence(<<>>) /\ <<x>> # <<>> /\ Tail(<<x>>) = <<>>
  <1> TAKE x
  <1>1. <<x>> \in Seq({x}) /\ <<>> \in Seq({x}) /\ <<x>> # <<>> /\ Tail(<<x>>) = <<>>
    OBVIOUS
  <1>2. IsSequence(<<x>>)
    BY Zenon, <1>1, SequenceOf
  <1>3. IsSequence(<<>>)
    BY Zenon, <1>1, SequenceOf
  <1> QED BY <1>1, <1>2, <1>3

LEMMA Joining ==
  /\ \A s : IsSequence(s) => s \o <<>> = s
  /\ \A x, s : IsSequence(s) => <<x>> \o s # <<>> /\ (<<x>> \o s)[1] = x
  <1>1. ASSUME NEW s, IsSequence(s)
        PROVE  s \o <<>> = s
    <2> DEFINE S == {s[i] : i \in DOMAIN s}
    <2>1. s \in Seq(S)
      BY <1>1 DEF IsSequence
    <2> HIDE DEF S
    <2> QED BY <2>1
  <1>2. ASSUME NEW x, NEW s, IsSequence(s)
        PROVE  <<x>> \o s # <<>> /\ (<<x>> \o s)[1] = x
    <2> DEFINE S == {s[i] : i \in DOMAIN s} \cup {x}
    <2>1. s \in Seq(S) /\ <<x>> \in Seq(S)
      <3>1. s \in Seq({s[i] : i \in DOMAIN s})
        BY <1>2 DEF IsSequence
      <3> QED BY <3>1
    <2> HIDE DEF S
    <2>2. Len(<<x>> \o s) = 1 + Len(s) /\ Len(s) \in Nat /\ (<<x>> \o s)[1] = x
      BY <2>1
    <2> QED BY <2>2
  <1> QED BY <1>1, <1>2

\* The texts are sequences, and so are the paths of the inputs below a root that is one.
LEMMA FirstTyped ==
  ASSUME LoadTyped, Holds(lCue), NEW f \in FirstOf(lCue)
  PROVE  IsSequence(f.value)
  <1>1. PICK g \in Loading!Prelude \cup UNION TextsOf(lCue) :
          f = Loading!Fact(g.field, Loading!Filled(g.value, <<>>))
    BY DEF FirstOf, Loading!Ready, Loading!Compiled
  <1>2. f.value = g.value
    BY <1>1 DEF Loading!Filled, Loading!Fact
  <1>3. CASE g \in Loading!Prelude
    <2>1. g.value = <<"self">>
      BY <1>3 DEF Loading!Prelude, Loading!Fact
    <2> QED BY <1>2, <2>1, OneIs
  <1>4. CASE g \in UNION TextsOf(lCue)
    <2>1. PICK i \in DOMAIN lLayers : g \in lCue[lLayers[i][2]] /\ lLayers[i][2] \in DOMAIN lCue
      BY <1>4 DEF TextsOf, Holds
    <2> QED BY <1>2, <2>1 DEF LoadTyped
  <1> QED BY <1>3, <1>4

LEMMA GetTyped ==
  ASSUME LoadTyped, Holds(lCue), NEW field
  PROVE  IsSequence(Loading!Get(FirstOf(lCue), field, <<>>))
  <1>1. CASE \E f \in FirstOf(lCue) : f.field = field
    <2>1. \E f \in FirstOf(lCue) : Loading!Get(FirstOf(lCue), field, <<>>) = f.value
      BY <1>1 DEF Loading!Get
    <2> QED BY <2>1, FirstTyped
  <1>2. CASE ~\E f \in FirstOf(lCue) : f.field = field
    <2>1. Loading!Get(FirstOf(lCue), field, <<>>) = <<>>
      BY <1>2 DEF Loading!Get
    <2> QED BY <2>1, OneIs
  <1> QED BY <1>1, <1>2

LEMMA PathTyped ==
  ASSUME LoadTyped, Holds(lCue), NEW root, IsSequence(root), NEW a,
         NEW d \in Loading!RuntimePath(FirstOf(lCue), a, root)
  PROVE  IsSequence(d)
  <1> DEFINE spec == Loading!Input(FirstOf(lCue), a)
             version == Loading!Version(FirstOf(lCue), a)
             ref == IF version = <<>> THEN <<"HEAD">> ELSE version
  <1>1. IsSequence(spec) /\ IsSequence(version)
    BY GetTyped DEF Loading!Input, Loading!Version
  <1>2. IsSequence(ref)
    BY <1>1, OneIs
  <1> HIDE DEF version, ref
  <1>3. \/ d = root
        \/ Len(spec) > 1 /\ d = <<"cache">> \o Tail(spec) \o ref
        \/ Len(spec) > 1 /\ d = Loading!Place(root, Tail(spec))
    BY DEF Loading!RuntimePath, version, ref
  <1> HIDE DEF spec
  <1>4. CASE Len(spec) > 1
    <2>1. IsSequence(Tail(spec))
      <3>1. spec # <<>>
        BY <1>4
      <3> QED BY <1>1, <3>1, TailIs
    <2>2. IsSequence(<<"cache">> \o Tail(spec) \o ref)
      BY <1>2, <2>1, OneIs, SequenceConcat
    <2>3. IsSequence(Loading!Place(root, Tail(spec)))
      BY <2>1, TailIs, SequenceConcat DEF Loading!Place, Loading!Absolute
    <2> QED BY <1>3, <2>2, <2>3
  <1> QED BY <1>3, <1>4

\* The loader and a mount that know the same of an input find the same directory.
LEMMA SamePath ==
  ASSUME NEW first, NEW last, NEW a, NEW root, IsSequence(root),
         Loading!Input(last, a) = Loading!Input(first, a),
         Loading!Version(last, a) = Loading!Version(first, a),
         a = "self" => Loading!Input(first, a) = <<"self">>,
         ~(/\ Loading!Input(first, a)[1] = "github" /\ Tail(Loading!Input(first, a)) \in DOMAIN LLocked
           /\ Loading!Version(first, a) = <<>> \/ Loading!Tagged(Loading!Version(first, a))),
         NEW d \in Loading!RuntimePath(first, a, root)
  PROVE  Loading!InputDir(last, a, root) = {d}
  <1> DEFINE spec == Loading!Input(first, a)
             version == Loading!Version(first, a)
  <1>1. CASE spec = <<"self">>
    <2>1. d = root
      BY <1>1 DEF Loading!RuntimePath
    <2>2. Loading!InputDir(last, a, root) = {Loading!SourceBase(<<"self">>, root)}
      BY <1>1 DEF Loading!InputDir
    <2>3. Loading!SourceBase(<<"self">>, root) = root
      BY OneIs, Joining DEF Loading!SourceBase, Loading!Place, Loading!Absolute
    <2> QED BY <2>1, <2>2, <2>3
  <1>2. CASE spec # <<"self">> /\ Len(spec) > 1 /\ spec[1] = "github"
    <2>1. d = <<"cache">> \o Tail(spec) \o (IF version = <<>> THEN <<"HEAD">> ELSE version)
      BY <1>2 DEF Loading!RuntimePath
    <2>2. Loading!InputDir(last, a, root) = {Loading!Fetched(last, a)}
      <3>1. spec # <<>>
        BY <1>2
      <3> QED BY <1>2, <3>1 DEF Loading!InputDir
    <2>3. Loading!Fetched(last, a) = d
      BY <1>2, <2>1 DEF Loading!Fetched
    <2> QED BY <2>2, <2>3
  <1>3. CASE spec # <<"self">> /\ ~(Len(spec) > 1 /\ spec[1] = "github")
    <2>1. Len(spec) > 1 /\ spec[1] = "local" /\ d = Loading!Place(root, Tail(spec))
      BY <1>3 DEF Loading!RuntimePath
    <2>2. spec # <<>>
      BY <2>1
    <2> QED BY <2>1, <2>2 DEF Loading!InputDir, Loading!SourceBase
  <1> QED BY <1>1, <1>2, <1>3

\* The path of an input is one that the first compilation gives it.
LEMMA PathOfInput ==
  ASSUME ReadInv, lDisks = {lCue}, lPc \in {"scan", "done"}, Loading!SameRoot, NEW a \in DOMAIN lPaths
  PROVE  /\ lPaths[a] \in Loading!RuntimePath(FirstOf(lCue), a, Loading!ScanRoot)
         /\ IsSequence(Loading!ScanRoot) /\ IsSequence(lPaths[a])
  <1>1. lLayers # <<>> /\ Loading!Root(lLayers) = Loading!ScanRoot /\ LoadTyped
    BY DEF Loading!SameRoot, ReadInv
  <1>2. IsSequence(Loading!ScanRoot)
    BY <1>1, LoadsAssumption DEF Loading!ScanRoot, LoadTyped
  <1>3. Holds(lCue) /\ lPaths = Loading!RuntimePaths(FirstOf(lCue), Loading!ScanRoot)
    BY <1>1, CalmRead DEF KnownOf, BaseRoot
  <1>4. lPaths[a] \in Loading!RuntimePath(FirstOf(lCue), a, Loading!ScanRoot)
    BY <1>3 DEF Loading!RuntimePaths
  <1> QED BY <1>1, <1>2, <1>3, <1>4, PathTyped

LEMMA SameInput ==
  ASSUME ReadInv, FinalSound, lDisks = {lCue}, lPc \in {"scan", "done"}, Loading!SameRoot,
         NEW a \in DOMAIN lPaths
  PROVE  /\ Loading!Input(lConfig, a) = Loading!Input(FirstOf(lCue), a)
         /\ a = "self" => Loading!Input(lConfig, a) = <<"self">>
  <1> DEFINE field == <<"inputs", a, "from">>
  <1>1. FirstOf(lCue) \subseteq lConfig /\ ~Loading!Conflict(lConfig)
    BY EntryWithin DEF Loading!SameRoot, FinalSound
  <1>2. a = "self" => \E f \in FirstOf(lCue) : f.field = field /\ f.value = <<"self">>
    <2> DEFINE f == Loading!Fact(<<"inputs", "self", "from">>, <<"self">>)
    <2>1. f \in Loading!Prelude /\ f.field = <<"inputs", "self", "from">> /\ f.value = <<"self">>
      BY DEF Loading!Prelude, Loading!Fact
    <2>2. f = Loading!Fact(f.field, Loading!Filled(f.value, <<>>))
      BY <2>1 DEF Loading!Filled
    <2> HIDE DEF f
    <2>3. f \in FirstOf(lCue)
      BY <2>1, <2>2 DEF FirstOf, Loading!Ready, Loading!Compiled, Loading!Incomplete
    <2> QED BY <2>1, <2>3
  <1>3. \E f \in FirstOf(lCue) : f.field = field
    <2>1. CASE a = "self"
      BY <1>2, <2>1
    <2>2. CASE a # "self" /\ ~\E f \in FirstOf(lCue) : f.field = field
      <3>1. Loading!Input(FirstOf(lCue), a) = <<>>
        BY <2>2 DEF Loading!Input, Loading!Get
      <3>2. Len(<<>>) = 0 /\ <<>> # <<"self">>
        BY OneIs
      <3>3. Loading!RuntimePath(FirstOf(lCue), a, Loading!ScanRoot) = {}
        BY <2>2, <3>1, <3>2 DEF Loading!RuntimePath
      <3> QED BY <3>3, PathOfInput
    <2> QED BY <2>1, <2>2
  <1>4. PICK f \in FirstOf(lCue) : f.field = field /\ (a = "self" => f.value = <<"self">>)
    BY <1>2, <1>3
  <1> HIDE DEF field
  <1>5. Loading!Get(lConfig, field, <<>>) = f.value /\ Loading!Get(FirstOf(lCue), field, <<>>) = f.value
    <2>1. f \in lConfig /\ FirstOf(lCue) \in SUBSET lConfig /\ lConfig \in SUBSET lConfig
      BY <1>1, <1>4
    <2>2. Loading!Get(lConfig, f.field, <<>>) = f.value
      BY Zenon, <1>1, <2>1, OnlyValue
    <2>3. Loading!Get(FirstOf(lCue), f.field, <<>>) = f.value
      BY Zenon, <1>1, <1>4, <2>1, OnlyValue
    <2> QED BY <1>4, <2>2, <2>3
  <1> QED BY <1>4, <1>5 DEF field, Loading!Input

LEMMA SameVersion ==
  ASSUME ReadInv, FinalSound, lDisks = {lCue}, lPc \in {"scan", "done"}, Loading!SameRoot,
         NEW a, Loading!Version(lConfig, a) = Loading!Version(lEntry, a),
         Loading!Literal(Loading!Version(lConfig, a))
  PROVE  Loading!Version(lConfig, a) = Loading!Version(FirstOf(lCue), a)
  <1> DEFINE field == <<"inputs", a, "version">>
  <1>1. FirstOf(lCue) \subseteq lConfig /\ lEntry \subseteq lConfig /\ ~Loading!Conflict(lConfig)
        /\ (\A f \in lConfig : ~Loading!Incomplete(f))
        /\ lEntry = Loading!Compiled(TextsOf(lCue), lPaths)
    BY EntryWithin, CalmRead DEF Loading!SameRoot, FinalSound
  <1>2. CASE \E f \in FirstOf(lCue) : f.field = field
    <2>1. PICK f \in FirstOf(lCue) : f.field = field
      BY <1>2
    <2> HIDE DEF field
    <2>2. Loading!Get(lConfig, field, <<>>) = f.value /\ Loading!Get(FirstOf(lCue), field, <<>>) = f.value
      BY <1>1, <2>1, OnlyValue
    <2> QED BY <2>2 DEF field, Loading!Version
  <1>3. CASE ~\E f \in FirstOf(lCue) : f.field = field
    <2>1. ASSUME NEW e \in lEntry, e.field = field
          PROVE  FALSE
      <3>1. PICK g \in Loading!Prelude \cup UNION TextsOf(lCue) :
              e = Loading!Fact(g.field, Loading!Filled(g.value, lPaths))
        BY <1>1 DEF Loading!Compiled
      <3>2. g.field = field /\ e.value = Loading!Filled(g.value, lPaths)
        BY <2>1, <3>1 DEF Loading!Fact
      <3>3. g.value # <<>> /\ g.value[1] = "runtime"
        <4> DEFINE f == Loading!Fact(g.field, Loading!Filled(g.value, <<>>))
        <4>1. f.field = field /\ f.value = g.value
          BY <3>2 DEF Loading!Fact, Loading!Filled
        <4>2. f \in Loading!Compiled(TextsOf(lCue), <<>>)
          BY DEF Loading!Compiled
        <4> HIDE DEF f
        <4>3. f \notin FirstOf(lCue)
          BY <1>3, <4>1
        <4> QED BY <4>1, <4>2, <4>3 DEF FirstOf, Loading!Ready, Loading!Incomplete
      <3>4. ~Loading!Incomplete(e)
        BY <1>1
      <3>5. g.value[2] \in DOMAIN lPaths /\ e.value = <<"dir">> \o lPaths[g.value[2]]
        BY <3>2, <3>3, <3>4 DEF Loading!Filled, Loading!Incomplete
      <3>6. e.value # <<>> /\ e.value[1] = "dir"
        <4>1. IsSequence(lPaths[g.value[2]])
          BY <3>5, PathOfInput
        <4> QED BY <3>5, <4>1, Joining
      <3>7. Loading!Get(lConfig, e.field, <<>>) = e.value
        BY <1>1, OnlyValue
      <3> QED BY <2>1, <3>6, <3>7 DEF Loading!Version, Loading!Literal
    <2>2. Loading!Version(lEntry, a) = <<>> /\ Loading!Version(FirstOf(lCue), a) = <<>>
      BY <1>3, <2>1 DEF Loading!Version, Loading!Get
    <2> QED BY <2>2
  <1> QED BY <1>2, <1>3

LEMMA OneDisk == ASSUME ReadInv, Loading!Calm PROVE lDisks = {lCue}
  <1>1. IsFiniteSet(lDisks) /\ lCue \in lDisks /\ Cardinality(lDisks) = 1
    BY SameCardinality DEF ReadInv, FromDisks, Loading!Calm
  <1>2. PICK x : lDisks = {x}
    BY <1>1, FS_Singleton
  <1> QED BY <1>1, <1>2

\* What concerns an input is the same in the first compilation and in the last.
LEMMA InputsSame == ReadInv /\ FinalSound => Loading!RefsAgree
  <1> SUFFICES ASSUME ReadInv, FinalSound, lPc = "done", Loading!Calm, Loading!SameRoot,
                      NEW a \in DOMAIN lPaths, ~Loading!FollowsLock(a),
                      Loading!Version(lConfig, a) = Loading!Version(lEntry, a),
                      Loading!Literal(Loading!Version(lConfig, a))
               PROVE  Loading!InputDir(lConfig, a, Loading!ScanRoot) = {lPaths[a]}
    BY DEF Loading!RefsAgree
  <1> DEFINE first == FirstOf(lCue)
  <1>1. lDisks = {lCue}
    BY OneDisk
  <1>2. /\ Loading!Input(lConfig, a) = Loading!Input(first, a)
        /\ a = "self" => Loading!Input(lConfig, a) = <<"self">>
        /\ Loading!Version(lConfig, a) = Loading!Version(first, a)
        /\ lPaths[a] \in Loading!RuntimePath(first, a, Loading!ScanRoot)
        /\ IsSequence(Loading!ScanRoot)
    BY <1>1, SameInput, SameVersion, PathOfInput
  <1> HIDE DEF first
  <1> QED BY <1>2, SamePath DEF Loading!FollowsLock

--------------------------------------------------------------------------------
(* Modules. *)

Usable(r) ==
  \/ r.provider = "core" /\ r.at \in Loading!CoreModules
  \/ r.provider = "self" /\ ~Loading!Unusable(r.at)
Refs(m) == Loading!ModuleRef(lConfig, m, Loading!ScanRoot)
GivenBy(m, r) ==
  IF r.provider = "core" THEN { <<m, r.at, "home">> }
  ELSE IF ~Loading!Contributes(r.at) THEN {}
  ELSE {<<m, r.at, p>> : p \in LContent[r.at] \cap Loading!Presets(lCmd.mode)}

\* While the disk stays as it is: what was found belongs to a module, and what a module
\* that was scanned gives was found.
ModulesFound ==
  /\ lPc \in {"discover", "inputs", "base", "join"} => lFiles = {}
  /\ lPc = "done" => lTodo = {}
  /\ lPc \in {"scan", "done"} /\ lDisks = {lCue} =>
       /\ \A f \in lFiles : \E r \in Refs(f[1]) : Usable(r) /\ r.at = f[2]
       /\ \A m \in Loading!Enabled(lConfig) \ lTodo :
            \E r \in Refs(m) : Usable(r) /\ GivenBy(m, r) \subseteq lFiles

LEMMA OneRef ==
  ASSUME NEW m, NEW r \in Refs(m), NEW s \in Refs(m)
  PROVE  r = s
  <1> DEFINE One(S) == \A x, y \in S : x = y
  <1>1. \A provider, at : One(Loading!Ref(provider, at))
    BY DEF Loading!Ref
  <1>2. ASSUME NEW spec, NEW root
        PROVE  One(Loading!ModuleSource(lConfig, spec, root))
    <2> HIDE DEF One
    <2>1. One({})
      BY DEF One
    <2>2. CASE Len(spec) < 2
      BY <2>1, <2>2 DEF Loading!ModuleSource
    <2>3. CASE ~(Len(spec) < 2) /\ spec[1] \in Loading!Direct
      BY <1>1, <2>3 DEF Loading!ModuleSource
    <2>4. CASE ~(Len(spec) < 2) /\ spec[1] \notin Loading!Direct
      BY <1>1, <2>1, <2>4 DEF Loading!ModuleSource
    <2> QED BY <2>2, <2>3, <2>4
  <1>3. One(Refs(m))
    <2> HIDE DEF One
    <2>1. One({})
      BY DEF One
    <2> QED BY <1>1, <1>2, <2>1 DEF Refs, Loading!ModuleRef
  <1> QED BY <1>3

LEMMA RefsStay ==
  ASSUME UNCHANGED <<lCue, lCmd, lConfig>>
  PROVE  /\ \A m : Refs(m)' = Refs(m)
         /\ \A r : Usable(r)' = Usable(r)
         /\ \A m, r : GivenBy(m, r)' = GivenBy(m, r)
  BY DEF Refs, Usable, GivenBy, Loading!ScanRoot, Loading!Unusable

LEMMA FoundKept ==
  ASSUME ModulesFound, UNCHANGED <<lCmd, lConfig, lFiles, lTodo, lPc>>,
         lCue \in lDisks, lDisks \subseteq lDisks'
  PROVE  ModulesFound'
  <1>1. CASE lDisks' = {lCue'}
    <2>1. lCue' = lCue /\ lDisks = {lCue}
      BY <1>1
    <2>2. /\ \A m : Refs(m)' = Refs(m)
          /\ \A r : Usable(r)' = Usable(r)
          /\ \A m, r : GivenBy(m, r)' = GivenBy(m, r)
      BY <2>1, RefsStay
    <2> QED BY <2>1, <2>2 DEF ModulesFound
  <1>2. CASE lDisks' # {lCue'}
    BY <1>2 DEF ModulesFound
  <1> QED BY <1>1, <1>2

LEMMA FoundScan == ASSUME ModulesFound, NEW m \in lTodo, Loading!Scan(m) PROVE ModulesFound'
  <1>1. /\ lPc = "scan" /\ lPc' = "scan" /\ lTodo' = lTodo \ {m}
        /\ UNCHANGED <<lCue, lCmd, lConfig, lDisks>>
        /\ lFiles' = lFiles \cup UNION {GivenBy(m, r) : r \in Refs(m)}
        /\ \E r \in Refs(m) : Usable(r)
    BY DEF Loading!Scan, Loading!Resolvable, GivenBy, Refs, Usable
  <1>2. PICK r \in Refs(m) : Usable(r)
    BY <1>1
  <1>3. lFiles' = lFiles \cup GivenBy(m, r)
    BY <1>1, <1>2, OneRef
  <1>4. \A f \in GivenBy(m, r) : f[1] = m /\ f[2] = r.at
    BY DEF GivenBy
  <1>5. /\ \A n : Refs(n)' = Refs(n)
        /\ \A s : Usable(s)' = Usable(s)
        /\ \A n, s : GivenBy(n, s)' = GivenBy(n, s)
    BY <1>1, RefsStay
  <1>6. ASSUME lDisks' = {lCue'}
        PROVE  /\ \A f \in lFiles' : \E s \in Refs(f[1]) : Usable(s) /\ s.at = f[2]
               /\ \A n \in Loading!Enabled(lConfig) \ lTodo' :
                    \E s \in Refs(n) : Usable(s) /\ GivenBy(n, s) \subseteq lFiles'
    <2>1. \A f \in lFiles' : \E s \in Refs(f[1]) : Usable(s) /\ s.at = f[2]
      BY <1>1, <1>2, <1>3, <1>4, <1>6 DEF ModulesFound
    <2>2. ASSUME NEW n \in Loading!Enabled(lConfig) \ lTodo'
          PROVE  \E s \in Refs(n) : Usable(s) /\ GivenBy(n, s) \subseteq lFiles'
      <3>1. CASE n = m
        BY <1>2, <1>3, <3>1
      <3>2. CASE n # m
        BY <1>1, <1>3, <1>6, <2>2, <3>2 DEF ModulesFound
      <3> QED BY <3>1, <3>2
    <2> QED BY <2>1, <2>2
  <1> QED BY <1>1, <1>5, <1>6 DEF ModulesFound

\* Before a load has read its last value.
LEMMA NothingLoaded == Loading!Init => FinalSound /\ ModulesFound
  BY DEF Loading!Init, FinalSound, ModulesFound

LEMMA FoundNext == ReadInv /\ ModulesFound /\ [Loading!Next]_loadVars => ModulesFound'
  <1> SUFFICES ASSUME ReadInv, ModulesFound, [Loading!Next]_loadVars PROVE ModulesFound'
    OBVIOUS
  <1>0. lCue \in lDisks
    BY DEF ReadInv, FromDisks
  <1>1. CASE UNCHANGED loadVars
    BY <1>0, <1>1, FoundKept DEF loadVars
  <1>2. CASE \/ \E s \in LSaves : Loading!Edit(s[1], s[2])
             \/ \E d \in DOMAIN lCue : Loading!Delete(d)
    <2>1. UNCHANGED <<lCmd, lConfig, lFiles, lTodo, lPc>> /\ lDisks \subseteq lDisks'
      BY <1>2 DEF Loading!Edit, Loading!Delete
    <2> QED BY <1>0, <2>1, FoundKept
  <1>3. CASE \/ Loading!Discover \/ Loading!ResolveInputs \/ Loading!CompileBase
             \/ \E m \in lTodo : Loading!Join(m)
    <2>1. /\ lPc \in {"discover", "inputs", "base", "join"} /\ UNCHANGED lFiles
          /\ lPc' \in {"inputs", "base", "join"}
      BY <1>3 DEF Loading!Discover, Loading!ResolveInputs, Loading!CompileBase, Loading!Join
    <2> QED BY <2>1 DEF ModulesFound
  <1>4. CASE Loading!CompileFinal
    <2>1. /\ lPc = "join" /\ lPc' = "scan" /\ UNCHANGED lFiles
          /\ lTodo' = Loading!Enabled(lConfig')
      BY <1>4 DEF Loading!CompileFinal
    <2> QED BY <2>1 DEF ModulesFound
  <1>5. CASE \/ Loading!InputsFail \/ Loading!BaseFails \/ Loading!CompileFails
             \/ \E m \in lTodo : Loading!ScanFails(m)
    <2>1. lPc' = "failed"
      BY <1>5 DEF Loading!InputsFail, Loading!BaseFails, Loading!CompileFails,
                  Loading!ScanFails, Loading!Fail
    <2> QED BY <2>1 DEF ModulesFound
  <1>6. CASE Loading!Build
    <2>1. /\ lPc = "scan" /\ lPc' \in {"done", "failed"} /\ lTodo = {}
          /\ UNCHANGED <<lCue, lCmd, lConfig, lFiles, lTodo, lDisks>>
      BY <1>6 DEF Loading!Build
    <2>2. /\ \A m : Refs(m)' = Refs(m)
          /\ \A r : Usable(r)' = Usable(r)
          /\ \A m, r : GivenBy(m, r)' = GivenBy(m, r)
      BY <2>1, RefsStay
    <2> QED BY <2>1, <2>2 DEF ModulesFound
  <1>7. CASE \E m \in lTodo : Loading!Scan(m)
    BY <1>7, FoundScan
  <1> QED BY <1>1, <1>2, <1>3, <1>4, <1>5, <1>6, <1>7
      DEF Loading!Next, Loading!Load

\* A reference of a plain form leads both readers to one directory.
LEMMA SameDir ==
  ASSUME ReadInv, FinalSound, lDisks = {lCue}, lPc = "done", Loading!SameRoot, NEW m,
         Loading!Entry(lConfig, m) = Loading!Entry(lEntry, m), Loading!PlainRef(m),
         NEW r \in Refs(m)
  PROVE  \/ r.provider = "self" /\ DirOf(m) = {r.at}
         \/ r.provider = "core" /\ DirOf(m) = {}
  <1> DEFINE e == Loading!Entry(lConfig, m)
             root == Loading!ScanRoot
             path == Loading!ModulePath(m, e)
  <1>1. DirOf(m) = IF e.from # <<>> THEN Loading!SpecDir(root, path, e.from)
                   ELSE IF Len(e.input) > 1 THEN Loading!SpecDir(root, path, e.input)
                   ELSE IF e.input = <<"self">> THEN {root \o path}
                   ELSE Loading!SpecDir(root, path, Loading!Input(lEntry, e.input[1]))
    <2>1. Loading!Ready(lEntry) = lEntry /\ Loading!Root(lLayers) = root
      BY EntryWithin DEF Loading!SameRoot
    <2> QED BY <2>1 DEF DirOf, Loading!LocalDir
  <1>2. ASSUME NEW spec, Loading!PlainSpec(e, spec), r \in Loading!ModuleSource(lConfig, spec, root)
        PROVE  \/ r.provider = "self" /\ Loading!SpecDir(root, path, spec) = {r.at}
               \/ r.provider = "core" /\ Loading!SpecDir(root, path, spec) = {}
    <2>1. /\ spec[1] \in {"self", "core"} /\ path = <<"modules", m>>
          /\ ~Loading!Absolute(Tail(spec)) /\ ~(Len(spec) < 2)
      BY <1>2 DEF Loading!PlainSpec, Loading!ModulePath, Loading!ModuleSource
    <2>2. spec # <<>> /\ Len(spec) # 1
      <3>1. Len(<<>>) = 0
        OBVIOUS
      <3>2. PICK n : n = Len(spec)
        OBVIOUS
      <3>3. n # 0 /\ n # 1
        BY <2>1, <3>2
      <3> QED BY <3>1, <3>2, <3>3
    <2>3. r \in Loading!Ref(spec[1], IF spec[1] = "self" THEN Loading!Place(root, Tail(spec)) ELSE Tail(spec))
      BY <1>2, <2>1 DEF Loading!ModuleSource, Loading!Direct
    <2>4. CASE spec[1] = "self"
      <3>1. r.provider = "self" /\ r.at = root \o Tail(spec)
        BY <2>1, <2>3, <2>4 DEF Loading!Ref, Loading!Place
      <3>2. path = <<"modules", path[Len(path)]>>
        BY <2>1
      <3>3. Loading!SpecDir(root, path, spec) = {Loading!Below(root, Tail(spec))}
        BY <2>2, <2>4, <3>2 DEF Loading!SpecDir
      <3> QED BY <2>1, <3>1, <3>3 DEF Loading!Below
    <2>5. CASE spec[1] = "core"
      BY <2>3, <2>5 DEF Loading!Ref, Loading!SpecDir
    <2> QED BY <2>1, <2>4, <2>5
  <1>3. CASE e.from # <<>>
    <2>1. Loading!PlainSpec(e, e.from) /\ r \in Loading!ModuleSource(lConfig, e.from, root)
      BY <1>3 DEF Loading!PlainRef, Refs, Loading!ModuleRef
    <2> HIDE DEF e
    <2> QED BY <1>1, <1>2, <1>3, <2>1
  <1>4. CASE e.from = <<>> /\ e.input = <<"self">>
    <2>1. ~(Len(e.input) > 1)
      BY <1>4
    <2>2. r.provider = "self" /\ r.at = root \o path
      BY <1>4, <2>1 DEF Refs, Loading!ModuleRef, Loading!Ref
    <2> QED BY <1>1, <1>4, <2>1, <2>2
  <1>5. CASE e.from = <<>> /\ e.input # <<"self">>
    <2>1. Len(e.input) > 1 /\ Loading!PlainSpec(e, e.input)
      BY <1>5 DEF Loading!PlainRef
    <2>2. e.path = <<>>
      BY <2>1 DEF Loading!PlainSpec
    <2>3. r \in Loading!ModuleSource(lConfig, e.input, root)
      BY <1>5, <2>1, <2>2 DEF Refs, Loading!ModuleRef
    <2> HIDE DEF e
    <2> QED BY <1>1, <1>2, <1>5, <2>1, <2>3
  <1> QED BY <1>3, <1>4, <1>5

\* What was joined and what was scanned of a module come from one directory.
LEMMA ModulesSame == ReadInv /\ FinalSound /\ ModulesFound => Loading!ModuleWhole
  <1> SUFFICES ASSUME ReadInv, FinalSound, ModulesFound, lPc = "done", Loading!Calm, Loading!SameRoot
               PROVE  /\ \A f \in lFiles : Loading!PlainRef(f[1]) /\ Loading!SameEntry(f[1])
                                           /\ f[2] \notin Loading!CoreModules
                           => \E j \in lJoined : j[1] = f[1] /\ j[2] = f[2]
                      /\ \A j \in lJoined : Loading!SameEntry(j[1]) /\ Loading!PlainRef(j[1])
                                            /\ Loading!Contributes(j[2])
                           => \A p \in LContent[j[2]] \cap Loading!Presets(lCmd.mode) :
                                <<j[1], j[2], p>> \in lFiles
    BY DEF Loading!ModuleWhole
  <1>1. lDisks = {lCue}
    BY OneDisk
  <1>2. /\ lJoined = FilesOf(Chosen, lCue) /\ lEntry \subseteq lConfig
        /\ Chosen = Loading!Enabled(Loading!Ready(lEntry)) /\ Loading!Ready(lEntry) = lEntry
    BY <1>1, CalmRead, EntryWithin DEF Loading!SameRoot, Chosen
  <1>3. /\ \A f \in lFiles : \E r \in Refs(f[1]) : Usable(r) /\ r.at = f[2]
        /\ \A m \in Loading!Enabled(lConfig) :
             \E r \in Refs(m) : Usable(r) /\ GivenBy(m, r) \subseteq lFiles
    BY <1>1 DEF ModulesFound
  <1>4. ASSUME NEW f \in lFiles, Loading!PlainRef(f[1]), Loading!SameEntry(f[1]),
               f[2] \notin Loading!CoreModules
        PROVE  \E j \in lJoined : j[1] = f[1] /\ j[2] = f[2]
    <2>1. PICK r \in Refs(f[1]) : Usable(r) /\ r.at = f[2]
      BY <1>3
    <2>2. r.provider = "self" /\ r.at \in DOMAIN lCue
      BY <1>4, <2>1 DEF Usable, Loading!Unusable
    <2>3. DirOf(f[1]) = {r.at}
      BY <1>1, <1>4, <2>2, SameDir DEF Loading!SameEntry
    <2>4. f[1] \in Chosen
      BY <1>2, <1>4 DEF Loading!SameEntry
    <2>5. <<f[1], r.at, lCue[r.at]>> \in lJoined
      BY <1>2, <2>2, <2>3, <2>4 DEF FilesOf
    <2> QED BY <2>1, <2>5
  <1>5. ASSUME NEW j \in lJoined, Loading!SameEntry(j[1]), Loading!PlainRef(j[1]),
               Loading!Contributes(j[2]),
               NEW p \in LContent[j[2]] \cap Loading!Presets(lCmd.mode)
        PROVE  <<j[1], j[2], p>> \in lFiles
    <2>1. PICK m \in Chosen : \E d \in DirOf(m) \cap DOMAIN lCue : j = <<m, d, lCue[d]>>
      BY <1>2 DEF FilesOf
    <2>2. j[1] = m /\ j[2] \in DirOf(m)
      BY <2>1
    <2>3. m \in Loading!Enabled(lConfig)
      <3>1. m \in Loading!Names(lEntry, "modules") /\ Loading!Entry(lEntry, m).on
        BY <1>2 DEF Loading!Enabled
      <3>2. m \in Loading!Names(lConfig, "modules")
        BY <1>2, <3>1 DEF Loading!Names
      <3> QED BY <1>5, <2>2, <3>1, <3>2 DEF Loading!Enabled, Loading!SameEntry
    <2>4. PICK r \in Refs(m) : Usable(r) /\ GivenBy(m, r) \subseteq lFiles
      BY <1>3, <2>3
    <2>5. r.provider = "self" /\ DirOf(m) = {r.at}
      BY <1>1, <1>5, <2>2, SameDir DEF Loading!SameEntry
    <2>6. r.at = j[2]
      BY <2>2, <2>5
    <2>7. <<m, r.at, p>> \in GivenBy(m, r)
      BY <1>5, <2>5, <2>6 DEF GivenBy
    <2> QED BY <2>2, <2>4, <2>6, <2>7
  <1> QED BY <1>4, <1>5

--------------------------------------------------------------------------------
(* The icon theme. *)

\* The theme of the settings and of the masters of lib, with nothing missing and nothing else.
Whole(fs, settings, lib) ==
  /\ DOMAIN fs = Theming!Wanted(lib)
  /\ \A t \in DOMAIN fs : fs[t] # {} /\ fs[t] \subseteq Theming!Shows(t, settings, lib)
  /\ \A m \in Theming!Deduped(DOMAIN lib) : Theming!Alone(m, lib) =>
       \E c \in Theming!Rendered(m, lib[m], settings) :
         \A f \in Theming!Formats : fs[Theming!Target(m, f)] = {c}

(***************************************************************************)
(* While nothing is edited that a command works from, it has one           *)
(* configuration and one set of masters.  What it has rendered is in the   *)
(* work directory, being written, or still to be written in other sizes;   *)
(* the rest is still to be rendered.  A master is painted once (OneEach),  *)
(* and a file is empty only while it is written (Filled).  So every theme  *)
(* in the cache is the one its fingerprint and the masters it was made of  *)
(* ask for.                                                                *)
(***************************************************************************)
Unedited ==
  ~iEdited =>
    /\ iPc \in {"stat", "clear", "colors"} => iConfig = iLoaded
    /\ iPc \in {"clear", "colors", "collect", "render"} => iMasters = iSeen
    /\ iPc \in {"collect", "render"} => iColors = iLoaded
Icons == Theming!Deduped(DOMAIN iSeen)
\* What painting a master gives.
Piece(c) == c[1] \in Icons /\ c \in Theming!Rendered(c[1], iSeen[c[1]], iLoaded)
File(w) == Theming!Target(w[1][1], w[2])
RasterOf(r) == r = <<r[1], r[2]>> /\ r[2] \in ISizes /\ Piece(r[1])
WriteOf(w) ==
  w = <<w[1], w[2]>> /\ w[2] \in Theming!Formats /\ Piece(w[1]) /\ File(w) \in DOMAIN iWork
ShownIn(t) ==
  t \in Theming!Wanted(iSeen) /\ \A c \in iWork[t] : Piece(c) /\ Theming!Target(c[1], t[1]) = t
Filled(t) == iWork[t] # {} \/ \E w \in iWriting : File(w) = t
\* Contents that are, or will be, in a file.
Contents ==
  {r[1] : r \in iRasters} \cup {w[1] : w \in iWriting} \cup UNION {iWork[t] : t \in DOMAIN iWork}
OneEach ==
  \A c \in Contents : c[1] \notin iTodo /\ \A d \in Contents : c[1] = d[1] => c = d
Written(m) ==
  /\ Theming!Target(m, "scalable") \in DOMAIN iWork
  /\ \A s \in ISizes : \/ Theming!Target(m, s) \in DOMAIN iWork
                       \/ \E r \in iRasters : r[1][1] = m /\ r[2] = s
                       \/ \E w \in iWriting : w[1][1] = m /\ w[2] = "scalable"
Rendering ==
  iPc = "render" /\ ~iEdited =>
    /\ iTodo \subseteq Icons
    /\ \A r \in iRasters : RasterOf(r)
    /\ \A w \in iWriting : WriteOf(w)
    /\ \A t \in DOMAIN iWork : ShownIn(t) /\ Filled(t)
    /\ OneEach
    /\ \A m \in Icons \ iTodo : Written(m)
Cached ==
  /\ \A k \in DOMAIN iCache : ~iCache[k].edited => Whole(iCache[k].files, k[1], iCache[k].of)
  /\ iPc \in {"walk", "done"} => Theming!Mine \in DOMAIN iCache
  /\ iPc = "done" => iFiles = iCache[Theming!Mine].files
ThemeInv ==
  /\ Unedited /\ Rendering /\ Cached
  /\ iPc \in {"colors", "collect"} => iWork = <<>>
  /\ iPc # "render" => iRasters = {} /\ iWriting = {}

\* A file that a master asks for shows what painting this master gives.
LEMMA ShownAt ==
  ASSUME NEW lib, NEW settings, NEW m \in Theming!Deduped(DOMAIN lib), NEW f \in Theming!Formats,
         NEW content \in Theming!Rendered(m, lib[m], settings)
  PROVE  /\ Theming!Target(m, f) \in Theming!Wanted(lib)
         /\ content \in Theming!Shows(Theming!Target(m, f), settings, lib)
  <1>1. Theming!Target(m, f)[1] = f
    BY DEF Theming!Target
  <1> QED BY <1>1 DEF Theming!Wanted, Theming!Shows

LEMMA ThemeInit == Theming!Init => ThemeInv
  <1>1. DOMAIN <<>> = {}
    OBVIOUS
  <1> QED BY <1>1 DEF Theming!Init, ThemeInv, Unedited, Rendering, Cached

LEMMA ThemeBegin ==
  ASSUME ThemeInv, NEW f \in IFlags, Theming!Begin(f)
  PROVE  ThemeInv'
  BY DEF Theming!Begin, ThemeInv, Unedited, Rendering, Cached, Theming!Mine

\* The steps before the rendering.
LEMMA ThemePrepare ==
  ASSUME ThemeInv,
         Theming!Look \/ Theming!Clear \/ Theming!ReadColors \/ Theming!Collect
  PROVE  ThemeInv'
  <1>1. CASE Theming!Look
    <2>1. /\ iPc = "stat" /\ iPc' \in {"walk", "clear"} /\ iSeen' = iMasters
          /\ UNCHANGED <<iConfig, iMasters, iCache, iWork, iLoaded, iColors, iRasters, iWriting,
                         iEdited>>
          /\ iPc' = "walk" => Theming!Mine' \in DOMAIN iCache
      BY <1>1 DEF Theming!Look, Theming!Mine
    <2> QED BY <2>1 DEF ThemeInv, Unedited, Rendering, Cached
  <1>2. CASE Theming!Clear
    BY <1>2 DEF Theming!Clear, ThemeInv, Unedited, Rendering, Cached
  <1>3. CASE Theming!ReadColors
    BY <1>3 DEF Theming!ReadColors, ThemeInv, Unedited, Rendering, Cached
  <1>4. CASE Theming!Collect
    <2>1. /\ iPc = "collect" /\ iPc' = "render" /\ iTodo' = Theming!Deduped(DOMAIN iMasters)
          /\ UNCHANGED <<iConfig, iMasters, iCache, iWork, iLoaded, iSeen, iColors, iRasters,
                         iWriting, iEdited>>
      BY <1>4 DEF Theming!Collect
    <2>2. Unedited' /\ Cached'
      BY <2>1 DEF ThemeInv, Unedited, Cached
    <2>3. DOMAIN iWork = {} /\ iRasters = {} /\ iWriting = {}
      BY <2>1 DEF ThemeInv
    <2>4. ~iEdited => iTodo' = Icons
      BY <2>1 DEF ThemeInv, Unedited, Icons
    <2>5. Contents' = {}
      BY <2>1, <2>3 DEF Contents
    <2>6. Rendering'
      BY <2>1, <2>3, <2>4, <2>5 DEF Rendering, Icons, OneEach
    <2> QED BY <2>1, <2>2, <2>6 DEF ThemeInv
  <1> QED BY <1>1, <1>2, <1>3, <1>4

\* A file that is opened is empty, and its writer is there.
LEMMA ThemeOpened ==
  ASSUME NEW c, NEW f, Piece(c), f \in Theming!Formats, Theming!Open(c, f),
         iRasters' \subseteq iRasters, \A w \in iWriting : WriteOf(w),
         \A t \in DOMAIN iWork : ShownIn(t) /\ Filled(t),
         UNCHANGED <<iSeen, iLoaded>>
  PROVE  /\ \A t \in DOMAIN iWork' : (ShownIn(t) /\ Filled(t))'
         /\ \A w \in iWriting' : WriteOf(w)'
         /\ Contents' \subseteq Contents \cup {c}
         /\ DOMAIN iWork \subseteq DOMAIN iWork' /\ Theming!Target(c[1], f) \in DOMAIN iWork'
  <1> DEFINE target == Theming!Target(c[1], f)
             v == <<c, f>>
  <1>1. /\ DOMAIN iWork' = DOMAIN iWork \cup {target}
        /\ \A t \in DOMAIN iWork' : iWork'[t] = IF t = target THEN {} ELSE iWork[t]
        /\ iWriting' = iWriting \cup {v}
    BY DEF Theming!Open
  <1>2. File(v) = target /\ v = <<v[1], v[2]>> /\ v[1] = c /\ v[2] = f
    BY DEF File
  <1>3. c[1] \in Theming!Deduped(DOMAIN iSeen) /\ c \in Theming!Rendered(c[1], iSeen[c[1]], iLoaded)
    BY DEF Piece, Icons
  <1>4. target \in Theming!Wanted(iSeen)
    BY <1>3, ShownAt
  <1> HIDE DEF target, v
  <1>5. \A d : Piece(d)' <=> Piece(d)
    BY DEF Piece, Icons
  <1>6. ASSUME NEW t \in DOMAIN iWork' PROVE (ShownIn(t) /\ Filled(t))'
    <2>1. CASE t = target
      BY <1>1, <1>2, <1>4, <2>1 DEF ShownIn, Filled, File
    <2>2. CASE t # target
      <3>1. t \in DOMAIN iWork /\ iWork'[t] = iWork[t] /\ ShownIn(t) /\ Filled(t)
        BY <1>1, <2>2
      <3> QED BY <1>1, <1>5, <3>1 DEF ShownIn, Filled, File
    <2> QED BY <2>1, <2>2
  <1>7. ASSUME NEW w \in iWriting' PROVE WriteOf(w)'
    <2>1. CASE w = v
      BY <1>1, <1>2, <1>5, <2>1 DEF WriteOf, File
    <2>2. CASE w # v
      <3>1. WriteOf(w)
        BY <1>1, <2>2
      <3> QED BY <1>1, <1>5, <3>1 DEF WriteOf, File
    <2> QED BY <2>1, <2>2
  <1>8. ASSUME NEW d \in Contents' PROVE d \in Contents \cup {c}
    <2>1. CASE d \in {r[1] : r \in iRasters'}
      BY <2>1 DEF Contents
    <2>2. CASE d \in {w[1] : w \in iWriting'}
      <3>1. PICK w \in iWriting' : d = w[1]
        BY <2>2
      <3> QED BY <1>1, <1>2, <3>1 DEF Contents
    <2>3. CASE \E t \in DOMAIN iWork' : d \in iWork'[t]
      <3>1. PICK t \in DOMAIN iWork' : d \in iWork'[t]
        BY <2>3
      <3>2. t \in DOMAIN iWork /\ d \in iWork[t]
        BY <1>1, <3>1
      <3> QED BY <3>2 DEF Contents
    <2> QED BY <1>8, <2>1, <2>2, <2>3 DEF Contents
  <1> QED BY <1>1, <1>6, <1>7, <1>8 DEF target

LEMMA ThemeRender ==
  ASSUME ThemeInv, NEW m \in iTodo, Theming!Render(m)
  PROVE  ThemeInv'
  <1>1. /\ iPc = "render" /\ m \in DOMAIN iMasters /\ iTodo' = iTodo \ {m}
        /\ UNCHANGED <<iConfig, iMasters, iCache, iPc, iLoaded, iSeen, iColors, iRasters, iFiles,
                       iEdited>>
    BY DEF Theming!Render
  <1>2. Unedited' /\ Cached'
    BY <1>1 DEF ThemeInv, Unedited, Cached
  <1>3. ASSUME ~iEdited PROVE Rendering'
    <2>1. iMasters = iSeen /\ iColors = iLoaded /\ Rendering
      BY <1>1, <1>3 DEF ThemeInv, Unedited
    <2>2. PICK c \in Theming!Rendered(m, iMasters[m],
                                  [palette |-> iColors.palette, rules |-> iLoaded.rules]) :
            Theming!Open(c, "scalable")
      BY DEF Theming!Render
    <2>3. c \in Theming!Rendered(m, iSeen[m], iLoaded) /\ c[1] = m
      BY <2>1, <2>2 DEF Theming!Rendered
    <2>4. m \in Icons /\ iTodo \subseteq Icons /\ OneEach
      BY <1>1, <1>3, <2>1 DEF Rendering
    <2>5. Piece(c) /\ "scalable" \in Theming!Formats
      BY <2>3, <2>4 DEF Piece, Theming!Formats
    <2>6. /\ \A t \in DOMAIN iWork' : (ShownIn(t) /\ Filled(t))'
          /\ \A w \in iWriting' : WriteOf(w)'
          /\ Contents' \subseteq Contents \cup {c}
          /\ DOMAIN iWork \subseteq DOMAIN iWork' /\ Theming!Target(m, "scalable") \in DOMAIN iWork'
      BY <1>1, <1>3, <2>1, <2>2, <2>3, <2>5, ThemeOpened DEF Rendering
    <2>7. \A r \in iRasters' : RasterOf(r)'
      BY <1>1, <1>3, <2>1 DEF Rendering, RasterOf, Piece, Icons
    <2>8. OneEach'
      <3>1. \A d \in Contents : d[1] # m
        BY <2>4 DEF OneEach
      <3> QED BY <1>1, <2>3, <2>4, <2>6, <3>1 DEF OneEach
    <2>9. iWriting' = iWriting \cup {<<c, "scalable">>}
      BY <2>2 DEF Theming!Open
    <2>10. ASSUME NEW n \in Icons \ iTodo' PROVE Written(n)'
      <3>1. CASE n = m
        <4>1. <<c, "scalable">> \in iWriting' /\ <<c, "scalable">>[1] = c
          BY <2>9
        <4>2. \E w \in iWriting' : w[1][1] = m /\ w[2] = "scalable"
          BY <2>3, <4>1
        <4> QED BY <2>6, <3>1, <4>2 DEF Written
      <3>2. CASE n # m
        <4>1. Written(n)
          BY <1>1, <1>3, <2>1, <2>10, <3>2 DEF Rendering
        <4> QED BY <1>1, <2>6, <2>9, <4>1 DEF Written
      <3> QED BY <3>1, <3>2
    <2> QED BY <1>1, <2>4, <2>6, <2>7, <2>8, <2>10 DEF Rendering, Icons
  <1>4. Rendering'
    BY <1>1, <1>3 DEF Rendering
  <1> QED BY <1>1, <1>2, <1>4 DEF ThemeInv

LEMMA ThemeRasterize ==
  ASSUME ThemeInv, NEW r \in iRasters, Theming!Rasterize(r[1], r[2])
  PROVE  ThemeInv'
  <1>1. /\ iPc = "render"
        /\ UNCHANGED <<iConfig, iMasters, iCache, iPc, iLoaded, iSeen, iColors, iTodo, iFiles,
                       iEdited>>
    BY DEF Theming!Rasterize
  <1>2. Unedited' /\ Cached'
    BY <1>1 DEF ThemeInv, Unedited, Cached
  <1>3. ASSUME ~iEdited PROVE Rendering'
    <2>1. Rendering
      BY DEF ThemeInv
    <2>2. RasterOf(r) /\ OneEach /\ iTodo \subseteq Icons
      BY <1>1, <1>3, <2>1 DEF Rendering
    <2>3. Theming!Open(r[1], r[2]) /\ iRasters' = iRasters \ {r}
      BY <2>2 DEF Theming!Rasterize, RasterOf
    <2>4. Piece(r[1]) /\ r[2] \in Theming!Formats /\ r[1] \in Contents
      BY <2>2 DEF RasterOf, Theming!Formats, Contents
    <2>5. /\ \A t \in DOMAIN iWork' : (ShownIn(t) /\ Filled(t))'
          /\ \A w \in iWriting' : WriteOf(w)'
          /\ Contents' \subseteq Contents \cup {r[1]}
          /\ DOMAIN iWork \subseteq DOMAIN iWork' /\ Theming!Target(r[1][1], r[2]) \in DOMAIN iWork'
      BY <1>1, <1>3, <2>1, <2>3, <2>4, ThemeOpened DEF Rendering
    <2>6. OneEach'
      BY <1>1, <2>2, <2>4, <2>5 DEF OneEach
    <2>7. \A q \in iRasters' : RasterOf(q)'
      BY <1>1, <1>3, <2>1, <2>3 DEF Rendering, RasterOf, Piece, Icons
    <2>8. ASSUME NEW n \in Icons \ iTodo PROVE Written(n)'
      <3>1. Written(n)
        BY <1>1, <1>3, <2>1, <2>8 DEF Rendering
      <3>2. ASSUME NEW s \in ISizes, NEW q \in iRasters, q[1][1] = n, q[2] = s
            PROVE  Theming!Target(n, s) \in DOMAIN iWork' \/ q \in iRasters'
        BY <2>3, <2>5, <3>2
      <3>3. iWriting \subseteq iWriting'
        BY <2>3 DEF Theming!Open
      <3> QED BY <2>5, <3>1, <3>2, <3>3 DEF Written
    <2> QED BY <1>1, <2>2, <2>5, <2>6, <2>7, <2>8 DEF Rendering, Icons
  <1>4. Rendering'
    BY <1>1, <1>3 DEF Rendering
  <1> QED BY <1>1, <1>2, <1>4 DEF ThemeInv

\* A write that ends leaves something of its content in the file.
LEMMA ThemeWrite ==
  ASSUME ThemeInv, NEW v \in iWriting, Theming!Write(v[1], v[2])
  PROVE  ThemeInv'
  <1>1. /\ iPc = "render"
        /\ UNCHANGED <<iConfig, iMasters, iCache, iPc, iLoaded, iSeen, iColors, iTodo, iFiles,
                       iEdited>>
    BY DEF Theming!Write
  <1>2. Unedited' /\ Cached'
    BY <1>1 DEF ThemeInv, Unedited, Cached
  <1>3. ASSUME ~iEdited PROVE Rendering'
    <2> DEFINE c == v[1]
               target == File(v)
    <2>1. Rendering
      BY DEF ThemeInv
    <2>2. /\ WriteOf(v) /\ OneEach /\ iTodo \subseteq Icons
          /\ \A t \in DOMAIN iWork : ShownIn(t) /\ Filled(t)
          /\ \A w \in iWriting : WriteOf(w)
          /\ \A q \in iRasters : RasterOf(q)
      BY <1>1, <1>3, <2>1 DEF Rendering
    <2>3. PICK left \in SUBSET iWork[target] : iWork' = [iWork EXCEPT ![target] = {c} \cup left]
      BY DEF Theming!Write, File
    <2>4. /\ iWriting' = iWriting \ {v}
          /\ iRasters' = IF v[2] = "scalable" THEN iRasters \cup ({c} \X ISizes) ELSE iRasters
      BY <2>2 DEF Theming!Write, WriteOf
    <2>5. /\ DOMAIN iWork' = DOMAIN iWork /\ target \in DOMAIN iWork
          /\ iWork'[target] = {c} \cup left
          /\ \A t \in DOMAIN iWork : t # target => iWork'[t] = iWork[t]
      BY <2>2, <2>3 DEF WriteOf
    <2>6. Piece(c) /\ v[2] \in Theming!Formats /\ c \in Contents
      BY <2>2 DEF WriteOf, Contents
    <2>7. Theming!Target(c[1], target[1]) = target
      BY DEF File, Theming!Target
    <2>8. \A d : Piece(d)' <=> Piece(d)
      BY <1>1 DEF Piece, Icons
    <2> HIDE DEF c, target
    <2>9. ASSUME NEW t \in DOMAIN iWork' PROVE (ShownIn(t) /\ Filled(t))'
      <3>1. ShownIn(t) /\ Filled(t)
        BY <2>2, <2>5
      <3>2. CASE t = target
        BY <1>1, <2>3, <2>5, <2>6, <2>7, <2>8, <3>1, <3>2 DEF ShownIn, Filled
      <3>3. CASE t # target
        <4>1. iWork'[t] = iWork[t]
          BY <2>5, <3>3
        <4>2. (\E w \in iWriting : File(w) = t) => \E w \in iWriting' : File(w) = t
          BY <2>4, <3>3 DEF target
        <4> QED BY <1>1, <2>8, <3>1, <4>1, <4>2 DEF ShownIn, Filled, File
      <3> QED BY <3>2, <3>3
    <2>10. \A w \in iWriting' : WriteOf(w)'
      BY <2>2, <2>4, <2>5, <2>8 DEF WriteOf, File
    <2>11. \A q \in iRasters' : RasterOf(q)'
      <3> SUFFICES ASSUME NEW q \in iRasters' PROVE RasterOf(q)'
        OBVIOUS
      <3>1. CASE q \in iRasters
        BY <2>2, <2>8, <3>1 DEF RasterOf
      <3>2. CASE q \in {c} \X ISizes
        BY <2>6, <2>8, <3>2 DEF RasterOf
      <3> QED BY <2>4, <3>1, <3>2
    <2>12. Contents' \subseteq Contents
      <3> SUFFICES ASSUME NEW d \in Contents' PROVE d \in Contents
        OBVIOUS
      <3>1. CASE d \in {q[1] : q \in iRasters'}
        <4>1. PICK q \in iRasters' : d = q[1]
          BY <3>1
        <4>2. q \in iRasters \/ d = c
          BY <2>4, <4>1
        <4> QED BY <2>6, <4>1, <4>2 DEF Contents
      <3>2. CASE d \in {w[1] : w \in iWriting'}
        BY <2>4, <3>2 DEF Contents
      <3>3. CASE \E t \in DOMAIN iWork' : d \in iWork'[t]
        <4>1. PICK t \in DOMAIN iWork' : d \in iWork'[t]
          BY <3>3
        <4>2. d = c \/ d \in iWork[t]
          BY <2>3, <2>5, <4>1
        <4> QED BY <2>5, <2>6, <4>1, <4>2 DEF Contents
      <3> QED BY <3>1, <3>2, <3>3 DEF Contents
    <2>13. OneEach'
      BY <1>1, <2>2, <2>12 DEF OneEach
    <2>14. ASSUME NEW n \in Icons \ iTodo PROVE Written(n)'
      <3>1. Written(n)
        BY <1>1, <1>3, <2>1, <2>14 DEF Rendering
      <3>2. ASSUME NEW s \in ISizes, NEW w \in iWriting, w[1][1] = n, w[2] = "scalable"
            PROVE  \/ \E q \in iRasters' : q[1][1] = n /\ q[2] = s
                   \/ \E u \in iWriting' : u[1][1] = n /\ u[2] = "scalable"
        <4>1. CASE w = v
          <5>1. <<c, s>> \in iRasters'
            BY <2>4, <3>2, <4>1
          <5> QED BY <3>2, <4>1, <5>1 DEF c
        <4>2. CASE w # v
          BY <2>4, <3>2, <4>2
        <4> QED BY <4>1, <4>2
      <3>3. iRasters \subseteq iRasters'
        BY <2>4
      <3> QED BY <2>5, <3>1, <3>2, <3>3 DEF Written
    <2> QED BY <1>1, <2>2, <2>9, <2>10, <2>11, <2>13, <2>14 DEF Rendering, Icons
  <1>4. Rendering'
    BY <1>1, <1>3 DEF Rendering
  <1> QED BY <1>1, <1>2, <1>4 DEF ThemeInv

\* When all is rendered the work directory has the theme, and only then.
LEMMA ThemeInstall ==
  ASSUME ThemeInv, Theming!Install
  PROVE  ThemeInv'
  <1>1. /\ iPc = "render" /\ iTodo = {} /\ iRasters = {} /\ iWriting = {} /\ iPc' = "walk"
        /\ UNCHANGED <<iConfig, iMasters, iLoaded, iSeen, iRasters, iWriting, iFiles, iEdited>>
    BY DEF Theming!Install, Theming!AllRendered, Theming!Finished
  <1>2. iCache' = [k \in DOMAIN iCache \cup {Theming!Mine} |->
                     IF k = Theming!Mine THEN [files |-> iWork, of |-> iSeen, edited |-> iEdited]
                     ELSE iCache[k]]
    BY DEF Theming!Install
  <1>3. Theming!Mine[1] = iLoaded
    BY DEF Theming!Mine, Theming!Fingerprint
  <1>4. ASSUME ~iEdited PROVE Whole(iWork, iLoaded, iSeen)
    <2>1. Rendering
      BY DEF ThemeInv
    <2>2. ASSUME NEW m \in Icons, NEW f \in Theming!Formats
          PROVE  Theming!Target(m, f) \in DOMAIN iWork
      <3>1. Written(m)
        BY <1>1, <1>4, <2>1 DEF Rendering
      <3> QED BY <1>1, <3>1 DEF Written, Theming!Formats
    <2>3. /\ \A t \in DOMAIN iWork : ShownIn(t) /\ Filled(t)
          /\ OneEach
      BY <1>1, <1>4, <2>1 DEF Rendering
    <2>4. DOMAIN iWork = Theming!Wanted(iSeen)
      <3>1. DOMAIN iWork \subseteq Theming!Wanted(iSeen)
        BY <2>3 DEF ShownIn
      <3>2. Theming!Wanted(iSeen) \subseteq DOMAIN iWork
        BY <2>2 DEF Theming!Wanted, Icons
      <3> QED BY <3>1, <3>2
    <2>5. ASSUME NEW t \in DOMAIN iWork
          PROVE  iWork[t] # {} /\ iWork[t] \subseteq Theming!Shows(t, iLoaded, iSeen)
      BY <1>1, <2>3 DEF Filled, ShownIn, Piece, Icons, Theming!Shows
    <2>6. ASSUME NEW m \in Icons, Theming!Alone(m, iSeen)
          PROVE  \E c \in Theming!Rendered(m, iSeen[m], iLoaded) :
                   \A f \in Theming!Formats : iWork[Theming!Target(m, f)] = {c}
      <3>1. ASSUME NEW f \in Theming!Formats, NEW d \in iWork[Theming!Target(m, f)]
            PROVE  d[1] = m /\ Piece(d) /\ d \in Contents
        <4>1. Theming!Target(m, f) \in DOMAIN iWork /\ Theming!Target(m, f)[1] = f
          BY <2>2 DEF Theming!Target
        <4>2. Piece(d) /\ Theming!Target(d[1], f) = Theming!Target(m, f)
          BY <2>3, <3>1, <4>1 DEF ShownIn
        <4>3. Theming!Target(d[1], "scalable") = Theming!Target(m, "scalable")
          BY <4>2 DEF Theming!Target
        <4> QED BY <2>6, <3>1, <4>1, <4>2, <4>3 DEF Theming!Alone, Piece, Icons, Contents
      <3>2. "scalable" \in Theming!Formats
        BY DEF Theming!Formats
      <3>3. PICK c : c \in iWork[Theming!Target(m, "scalable")]
        BY <2>2, <2>5, <3>2
      <3>4. c \in Theming!Rendered(m, iSeen[m], iLoaded)
        BY <3>1, <3>2, <3>3 DEF Piece
      <3>5. ASSUME NEW f \in Theming!Formats PROVE iWork[Theming!Target(m, f)] = {c}
        <4>1. iWork[Theming!Target(m, f)] # {}
          BY <2>2, <2>5
        <4>2. \A d \in iWork[Theming!Target(m, f)] : d = c
          BY <2>3, <3>1, <3>2, <3>3 DEF OneEach
        <4> QED BY <4>1, <4>2
      <3> QED BY <3>4, <3>5
    <2> QED BY <2>4, <2>5, <2>6 DEF Whole, Icons
  <1>5. ASSUME NEW k \in DOMAIN iCache', ~iCache'[k].edited
        PROVE  Whole(iCache'[k].files, k[1], iCache'[k].of)
    <2>1. CASE k = Theming!Mine
      <3>1. iCache'[k] = [files |-> iWork, of |-> iSeen, edited |-> iEdited]
        BY <1>2, <2>1
      <3> QED BY <1>3, <1>4, <1>5, <2>1, <3>1
    <2>2. CASE k # Theming!Mine
      <3>1. k \in DOMAIN iCache /\ iCache'[k] = iCache[k]
        BY <1>2, <2>2
      <3> QED BY <1>5, <3>1 DEF ThemeInv, Cached
    <2> QED BY <2>1, <2>2
  <1>6. Theming!Mine' \in DOMAIN iCache'
    BY <1>1, <1>2 DEF Theming!Mine
  <1>7. Cached'
    BY <1>1, <1>5, <1>6 DEF Cached, Whole
  <1> QED BY <1>1, <1>7 DEF ThemeInv, Unedited, Rendering

LEMMA RenderingStays ==
  ASSUME Rendering, ~iEdited' => ~iEdited,
         UNCHANGED <<iWork, iPc, iLoaded, iSeen, iTodo, iRasters, iWriting>>
  PROVE  Rendering'
  <1>1. /\ \A c : Piece(c)' = Piece(c)
        /\ Icons' = Icons
        /\ Contents' = Contents
    BY DEF Piece, Icons, Contents
  <1>2. /\ \A r : RasterOf(r)' = RasterOf(r)
        /\ \A w : WriteOf(w)' = WriteOf(w)
        /\ \A t : ShownIn(t)' = ShownIn(t) /\ Filled(t)' = Filled(t)
        /\ \A m : Written(m)' = Written(m)
    BY <1>1, Zenon DEF RasterOf, WriteOf, ShownIn, Filled, Written, File
  <1>3. OneEach' = OneEach
    BY <1>1 DEF OneEach
  <1> QED BY <1>1, <1>2, <1>3 DEF Rendering

\* Failures, the end, kills and edits.
LEMMA ThemeEnds ==
  ASSUME ThemeInv, \/ Theming!NoColors \/ Theming!NoMasters \/ Theming!RenderFails
                   \/ Theming!InstallFails \/ Theming!Walk \/ Theming!Kill \/ Theming!Edit
  PROVE  ThemeInv'
  <1>1. CASE Theming!Fail
    BY <1>1 DEF Theming!Fail, ThemeInv, Unedited, Rendering, Cached
  <1>2. CASE Theming!Walk
    <2>1. /\ iPc = "walk" /\ iPc' = "done" /\ iFiles' = iCache[Theming!Mine].files
          /\ UNCHANGED <<iConfig, iMasters, iCache, iLoaded, iSeen, iColors, iRasters, iWriting,
                         iEdited>>
      BY <1>2 DEF Theming!Walk
    <2>2. Theming!Mine' = Theming!Mine
      BY <2>1 DEF Theming!Mine
    <2> QED BY <2>1, <2>2 DEF ThemeInv, Unedited, Rendering, Cached
  <1>3. CASE Theming!Kill
    <2>1. /\ iPc' = "idle" /\ iRasters' = {} /\ iWriting' = {}
          /\ iCache' = iCache \/ iCache' = [k \in DOMAIN iCache \ {Theming!Mine} |-> iCache[k]]
      BY <1>3 DEF Theming!Kill
    <2>2. \A k \in DOMAIN iCache' : k \in DOMAIN iCache /\ iCache'[k] = iCache[k]
      BY <2>1
    <2> QED BY <2>1, <2>2 DEF ThemeInv, Unedited, Rendering, Cached, Whole
  <1>4. CASE Theming!Edit
    <2>1. UNCHANGED <<iCache, iWork, iPc, iLoaded, iSeen, iColors, iTodo, iRasters, iWriting,
                      iFiles>>
      BY <1>4 DEF Theming!Edit
    <2>2. \/ /\ UNCHANGED iMasters
             /\ iEdited' = (iEdited \/ iPc \in {"stat", "clear", "colors"})
          \/ /\ UNCHANGED iConfig
             /\ iEdited' = (iEdited \/ iPc \in {"clear", "colors", "collect", "render"})
      BY <1>4 DEF Theming!Edit
    <2>3. ~iEdited' => ~iEdited
      BY <2>2
    <2>4. Unedited'
      BY <2>1, <2>2 DEF ThemeInv, Unedited
    <2>5. Rendering'
      BY <2>1, <2>3, RenderingStays DEF ThemeInv
    <2>6. Cached'
      BY <2>1 DEF ThemeInv, Cached, Theming!Mine
    <2> QED BY <2>1, <2>4, <2>5, <2>6 DEF ThemeInv
  <1> QED BY <1>1, <1>2, <1>3, <1>4
          DEF Theming!NoColors, Theming!NoMasters, Theming!RenderFails, Theming!InstallFails

LEMMA ThemeNext == ThemeInv /\ [Theming!Next]_themeVars => ThemeInv'
  <1> SUFFICES ASSUME ThemeInv, [Theming!Next]_themeVars PROVE ThemeInv'
    OBVIOUS
  <1>0. Theming!Next \/ UNCHANGED themeVars
    OBVIOUS
  <1>1. CASE UNCHANGED themeVars
    <2>1. Rendering'
      BY <1>1, RenderingStays DEF themeVars, ThemeInv
    <2> QED BY <1>1, <2>1 DEF themeVars, ThemeInv, Unedited, Cached, Theming!Mine
  <1>2. CASE \E f \in IFlags : Theming!Begin(f)
    BY <1>2, ThemeBegin
  <1>3. CASE Theming!Kill \/ Theming!Edit
    BY <1>3, ThemeEnds
  <1>4. CASE Theming!Resolve
    BY <1>4, ThemePrepare, ThemeRender, ThemeRasterize, ThemeWrite, ThemeInstall, ThemeEnds
         DEF Theming!Resolve
  <1> QED BY <1>0, <1>1, <1>2, <1>3, <1>4 DEF Theming!Next

\* The files of a theme that the cache has are those of its fingerprint.
LEMMA ThemeMatched == ThemeInv => Theming!ThemeMatches
  <1>1. ASSUME ThemeInv, iPc = "done", iCache[Theming!Mine].of = iSeen,
               ~iCache[Theming!Mine].edited
        PROVE  Whole(iFiles, iLoaded, iSeen)
    <2>1. Theming!Mine[1] = iLoaded
      BY DEF Theming!Mine, Theming!Fingerprint
    <2> QED BY <1>1, <2>1 DEF ThemeInv, Cached
  <1> QED BY <1>1 DEF Theming!ThemeMatches, Whole

--------------------------------------------------------------------------------
(* Checks. *)

\* A reader of a diff: what it knows, and how lines change that.
Knows(f, n, S) == [file |-> f, at |-> n, set |-> S]
Follows(g, a, lines) == g[0] = a /\ \A n \in 1..Len(lines) : g[n] = Checking!ParseLine(g[n - 1], lines[n])
Reads(a, lines, b) == \E g : Follows(g, a, lines) /\ g[Len(lines)] = b

LEMMA ReadsNothing ==
  ASSUME NEW a
  PROVE  IsSequence(<<>>) /\ Reads(a, <<>>, a)
  <1>1. Follows([n \in 0..0 |-> a], a, <<>>)
    BY DEF Follows
  <1> QED BY <1>1 DEF Reads, IsSequence

LEMMA ReadsOne ==
  ASSUME NEW a, NEW l
  PROVE  IsSequence(<<l>>) /\ Reads(a, <<l>>, Checking!ParseLine(a, l))
  <1> DEFINE b == Checking!ParseLine(a, l)
             g == [n \in 0..1 |-> IF n = 0 THEN a ELSE b]
  <1> HIDE DEF b
  <1>1. g[0] = a /\ g[1] = b
    OBVIOUS
  <1>2. Len(<<l>>) = 1 /\ <<l>>[1] = l /\ <<l>> \in Seq({l})
    OBVIOUS
  <1>3. IsSequence(<<l>>)
    BY <1>2, SequenceOf
  <1> HIDE DEF g
  <1>4. Follows(g, a, <<l>>)
    <2> SUFFICES ASSUME NEW n \in 1..1 PROVE g[n] = Checking!ParseLine(g[n - 1], <<l>>[n])
      BY <1>1, <1>2 DEF Follows
    <2>1. n = 1 /\ n - 1 = 0
      OBVIOUS
    <2> QED BY <1>1, <1>2, <2>1 DEF b
  <1> QED BY <1>1, <1>2, <1>3, <1>4 DEF Reads, b

LEMMA ReadsBoth ==
  ASSUME NEW s, IsSequence(s), NEW t, IsSequence(t), NEW a, NEW b, NEW c, Reads(a, s, b), Reads(b, t, c)
  PROVE  IsSequence(s \o t) /\ Reads(a, s \o t, c)
  <1>1. /\ IsSequence(s \o t) /\ Len(s) \in Nat /\ Len(t) \in Nat /\ Len(s \o t) = Len(s) + Len(t)
        /\ \A n \in 1..Len(s) + Len(t) : (s \o t)[n] = IF n <= Len(s) THEN s[n] ELSE t[n - Len(s)]
    BY SequenceConcat
  <1>2. PICK f : Follows(f, a, s) /\ f[Len(s)] = b
    BY DEF Reads
  <1>3. PICK g : Follows(g, b, t) /\ g[Len(t)] = c
    BY DEF Reads
  <1> DEFINE h == [n \in 0..Len(s) + Len(t) |-> IF n <= Len(s) THEN f[n] ELSE g[n - Len(s)]]
  <1>4. /\ \A n \in 0..Len(s) : h[n] = f[n]
        /\ \A n \in 0..Len(t) : h[Len(s) + n] = g[n]
    <2>1. ASSUME NEW n \in 0..Len(s) PROVE h[n] = f[n]
      BY <1>1
    <2>2. ASSUME NEW n \in 0..Len(t) PROVE h[Len(s) + n] = g[n]
      <3>1. Len(s) + n \in 0..Len(s) + Len(t) /\ (Len(s) + n) - Len(s) = n /\ Len(s) + 0 = Len(s)
        BY <1>1
      <3>2. CASE n = 0
        BY <1>1, <1>2, <1>3, <3>1, <3>2 DEF Follows
      <3>3. CASE n # 0
        <4>1. ~(Len(s) + n <= Len(s))
          BY <1>1, <3>3
        <4> QED BY <3>1, <4>1
      <3> QED BY <3>2, <3>3
    <2> QED BY <2>1, <2>2
  <1> HIDE DEF h
  <1>5. Follows(h, a, s \o t)
    <2>1. h[0] = a
      BY <1>1, <1>2, <1>4 DEF Follows
    <2>2. ASSUME NEW n \in 1..Len(s) + Len(t) PROVE h[n] = Checking!ParseLine(h[n - 1], (s \o t)[n])
      <3>1. CASE n <= Len(s)
        <4>1. n \in 1..Len(s) /\ n \in 0..Len(s) /\ n - 1 \in 0..Len(s)
          BY <1>1, <3>1
        <4>2. f[n] = Checking!ParseLine(f[n - 1], s[n])
          BY <1>2, <4>1 DEF Follows
        <4> QED BY <1>1, <1>4, <3>1, <4>1, <4>2
      <3>2. CASE ~(n <= Len(s))
        <4> DEFINE m == n - Len(s)
        <4>1. /\ m \in 1..Len(t) /\ m \in 0..Len(t) /\ m - 1 \in 0..Len(t)
              /\ n = Len(s) + m /\ n - 1 = Len(s) + (m - 1)
          BY <1>1, <3>2
        <4>2. (s \o t)[n] = t[m]
          BY <1>1, <3>2
        <4> HIDE DEF m
        <4>3. g[m] = Checking!ParseLine(g[m - 1], t[m])
          BY <1>3, <4>1 DEF Follows
        <4>4. h[n] = g[m] /\ h[n - 1] = g[m - 1]
          BY <1>4, <4>1
        <4> QED BY <4>2, <4>3, <4>4
      <3> QED BY <3>1, <3>2
    <2> QED BY <1>1, <2>1, <2>2 DEF Follows
  <1>6. h[Len(s \o t)] = c
    <2>1. Len(t) \in 0..Len(t)
      BY <1>1
    <2> QED BY <1>1, <1>3, <1>4, <2>1
  <1> QED BY <1>1, <1>5, <1>6 DEF Reads

(***************************************************************************)
(* Sequences one after another: read from a state of the first set, they   *)
(* lead to one of the last.  The function that joins them exists, for the  *)
(* smallest number of them without one would have one.                     *)
(***************************************************************************)
Joins(f, parts, k) == f = [i \in 1..k |-> IF i = 1 THEN parts[i] ELSE f[i - 1] \o parts[i]]

LEMMA JoinMore ==
  ASSUME NEW parts, NEW k \in Nat, NEW f, Joins(f, parts, k)
  PROVE  \E g : Joins(g, parts, k + 1)
  <1> DEFINE Value(h, i) == IF i = 1 THEN parts[i] ELSE h[i - 1] \o parts[i]
             g == [i \in 1..k + 1 |-> IF i = k + 1 THEN Value(f, k + 1) ELSE f[i]]
  <1>1. ASSUME NEW i \in 1..k + 1 PROVE g[i] = Value(g, i)
    <2>1. i # 1 => i - 1 \in 1..k + 1 /\ i - 1 # k + 1
      OBVIOUS
    <2>2. CASE i = k + 1
      BY <2>1, <2>2
    <2>3. CASE i # k + 1
      <3>1. i \in 1..k
        BY <2>3
      <3>2. f[i] = Value(f, i)
        BY <3>1 DEF Joins
      <3> QED BY <2>1, <2>3, <3>2
    <2> QED BY <2>2, <2>3
  <1>2. g = [i \in 1..k + 1 |-> g[i]]
    OBVIOUS
  <1> HIDE DEF g
  <1>3. g = [i \in 1..k + 1 |-> Value(g, i)]
    BY <1>1, <1>2
  <1> QED BY <1>3 DEF Joins

LEMMA JoinExists ==
  ASSUME NEW parts, NEW k \in Nat
  PROVE  \E f : Joins(f, parts, k)
  <1> DEFINE Missing == {n \in Nat : ~ \E f : Joins(f, parts, n)}
  <1> SUFFICES ASSUME Missing # {} PROVE FALSE
    OBVIOUS
  <1>1. PICK n \in Missing : \A m \in Missing : n <= m
    <2>1. Missing \in SUBSET Nat
      OBVIOUS
    <2> HIDE DEF Missing
    <2> QED BY <2>1, SmallestOf
  <1>2. n \in Nat /\ ~ \E f : Joins(f, parts, n)
    OBVIOUS
  <1>3. CASE n = 0
    <2>1. Joins([i \in 1..0 |-> parts], parts, 0)
      BY DEF Joins
    <2> QED BY <1>2, <1>3, <2>1
  <1>4. CASE n # 0
    <2>1. n - 1 \in Nat /\ ~(n <= n - 1) /\ (n - 1) + 1 = n
      BY <1>2, <1>4
    <2>2. \E f : Joins(f, parts, n - 1)
      <3>1. n - 1 \notin Missing
        <4> HIDE DEF Missing
        <4> QED BY <1>1, <2>1
      <3> QED BY <2>1, <3>1
    <2>3. \E f : Joins(f, parts, n)
      BY <2>1, <2>2, JoinMore
    <2> QED BY <1>2, <2>3
  <1> QED BY <1>3, <1>4

LEMMA FlattenIs ==
  ASSUME NEW parts, IsSequence(parts)
  PROVE  \E f : /\ Joins(f, parts, Len(parts))
                /\ Checking!FlattenSeq(parts) = IF Len(parts) = 0 THEN <<>> ELSE f[Len(parts)]
  <1> DEFINE f == CHOOSE g : Joins(g, parts, Len(parts))
  <1>1. Len(parts) \in Nat /\ (Len(parts) = 0 => parts = <<>>)
    BY DEF IsSequence
  <1>2. Joins(f, parts, Len(parts))
    BY <1>1, JoinExists
  <1>3. Len(parts) # 0 => Checking!FlattenSeq(parts) = f[Len(parts)]
    BY DEF Checking!FlattenSeq, Joins
  <1>4. Len(parts) = 0 => Checking!FlattenSeq(parts) = <<>>
    BY <1>1 DEF Checking!FlattenSeq
  <1> HIDE DEF f
  <1> QED BY <1>2, <1>3, <1>4

LEMMA ReadsFlat ==
  ASSUME NEW parts, IsSequence(parts), NEW States, NEW a \in States[0],
         \A i \in 1..Len(parts) : IsSequence(parts[i]),
         \A i \in 1..Len(parts) : \A c \in States[i - 1] : \E b \in States[i] : Reads(c, parts[i], b)
  PROVE  /\ IsSequence(Checking!FlattenSeq(parts))
         /\ \E b \in States[Len(parts)] : Reads(a, Checking!FlattenSeq(parts), b)
  <1>1. Len(parts) \in Nat
    BY DEF IsSequence
  <1>2. PICK f : /\ Joins(f, parts, Len(parts))
                 /\ Checking!FlattenSeq(parts) = IF Len(parts) = 0 THEN <<>> ELSE f[Len(parts)]
    BY FlattenIs
  <1> DEFINE Right(n) == IsSequence(f[n]) /\ \E b \in States[n] : Reads(a, f[n], b)
             Wrong == {n \in 1..Len(parts) : ~Right(n)}
  <1>3. Wrong = {}
    <2> SUFFICES ASSUME Wrong # {} PROVE FALSE
      OBVIOUS
    <2>1. PICK n \in Wrong : \A m \in Wrong : n <= m
      <3>1. Wrong \in SUBSET Nat
        BY <1>1
      <3> HIDE DEF Wrong
      <3> QED BY <3>1, SmallestOf
    <2>2. n \in 1..Len(parts) /\ n \in Nat /\ ~Right(n)
      BY <1>1
    <2>3. IsSequence(parts[n])
      BY <2>2
    <2>4. CASE n = 1
      <3>1. f[n] = parts[n] /\ n - 1 = 0
        BY <1>2, <2>2, <2>4 DEF Joins
      <3>2. \E b \in States[n] : Reads(a, parts[n], b)
        BY <2>2, <3>1
      <3> QED BY <2>2, <2>3, <3>1, <3>2
    <2>5. CASE n # 1
      <3>1. n - 1 \in 1..Len(parts) /\ ~(n <= n - 1)
        BY <1>1, <2>2, <2>5
      <3>2. Right(n - 1)
        <4>1. n - 1 \notin Wrong
          <5> HIDE DEF Wrong
          <5> QED BY <2>1, <3>1
        <4> HIDE DEF Right
        <4> QED BY <3>1, <4>1
      <3>3. f[n] = f[n - 1] \o parts[n]
        BY Zenon, <1>2, <2>2, <2>5 DEF Joins
      <3>4. PICK c \in States[n - 1] : Reads(a, f[n - 1], c)
        BY <3>2
      <3>5. PICK b \in States[n] : Reads(c, parts[n], b)
        BY <2>2
      <3>6. IsSequence(f[n - 1] \o parts[n]) /\ Reads(a, f[n - 1] \o parts[n], b)
        BY <2>3, <3>2, <3>4, <3>5, ReadsBoth
      <3>7. Right(n)
        BY <3>3, <3>6
      <3> QED BY <2>2, <3>7
    <2> QED BY <2>4, <2>5
  <1>4. CASE Len(parts) = 0
    BY <1>2, <1>4, ReadsNothing
  <1>5. CASE Len(parts) # 0
    <2>1. Len(parts) \in 1..Len(parts)
      BY <1>1, <1>5
    <2>2. Right(Len(parts))
      <3> HIDE DEF Right
      <3> QED BY <1>3, <2>1
    <2> QED BY <1>2, <1>5, <2>2
  <1> QED BY <1>4, <1>5

Deleted(dels) == [j \in DOMAIN dels |-> [kind |-> "-", text |-> dels[j]]]
Places(f, n, adds) == {<<f, n + j - 1>> : j \in DOMAIN adds}
New(adds) == [j \in DOMAIN adds |-> [kind |-> "+", text |-> adds[j]]]

LEMMA MappedSequence ==
  ASSUME NEW s, IsSequence(s), NEW t, t = [j \in DOMAIN s |-> t[j]]
  PROVE  IsSequence(t) /\ Len(t) = Len(s) /\ Len(s) \in Nat /\ DOMAIN s = 1..Len(s)
  <1>1. Len(s) \in Nat /\ DOMAIN s = 1..Len(s)
    BY DEF IsSequence
  <1> DEFINE V == {t[j] : j \in DOMAIN s}
  <1>2. \A j \in 1..Len(s) : t[j] \in V
    BY <1>1
  <1> HIDE DEF V
  <1>3. t = [j \in 1..Len(s) |-> t[j]]
    BY <1>1
  <1>4. t \in Seq(V) /\ Len(t) = Len(s)
    BY <1>1, <1>2, <1>3
  <1>5. IsSequence(t)
    BY <1>4, SequenceOf
  <1> QED BY <1>1, <1>4, <1>5

LEMMA ReadsDeleted ==
  ASSUME NEW dels, IsSequence(dels), "dashes" \notin Checking!Range(dels), NEW f, NEW n \in Nat, NEW S
  PROVE  IsSequence(Deleted(dels)) /\ Reads(Knows(f, n, S), Deleted(dels), Knows(f, n, S))
  <1> DEFINE lines == Deleted(dels)
             a == Knows(f, n, S)
             g == [i \in 0..Len(dels) |-> a]
  <1>1. \A i \in DOMAIN dels : lines[i] = [kind |-> "-", text |-> dels[i]] /\ dels[i] # "dashes"
    BY DEF Deleted, Checking!Range
  <1>2. lines = [j \in DOMAIN dels |-> lines[j]]
    BY DEF Deleted
  <1> HIDE DEF lines
  <1>3. IsSequence(lines) /\ Len(lines) = Len(dels) /\ Len(dels) \in Nat /\ DOMAIN dels = 1..Len(dels)
    BY <1>2, MappedSequence
  <1>4. ASSUME NEW i \in 1..Len(dels) PROVE Checking!ParseLine(a, lines[i]) = a
    <2>1. lines[i] = [kind |-> "-", text |-> dels[i]] /\ dels[i] # "dashes"
      BY <1>1, <1>3
    <2> QED BY <2>1 DEF Checking!ParseLine, Knows
  <1> HIDE DEF a
  <1>5. Follows(g, a, lines)
    <2>1. ASSUME NEW i \in 1..Len(dels) PROVE g[i] = a /\ g[i - 1] = a
      BY <1>3
    <2>2. g[0] = a
      BY <1>3
    <2> HIDE DEF g
    <2> QED BY <1>3, <1>4, <2>1, <2>2 DEF Follows
  <1>6. g[Len(lines)] = a
    BY <1>3
  <1>7. Reads(a, lines, a)
    BY <1>5, <1>6 DEF Reads
  <1> QED BY <1>3, <1>7 DEF a, lines

LEMMA ReadsNew ==
  ASSUME NEW adds, IsSequence(adds), Checking!Range(adds) \subseteq {"plain"}, NEW f, NEW n \in Nat, NEW S,
         f = <<>> => adds = <<>>
  PROVE  /\ IsSequence(New(adds))
         /\ \E m \in Nat : Reads(Knows(f, n, S), New(adds), Knows(f, m, S \cup Places(f, n, adds)))
  <1> DEFINE lines == New(adds)
             Seen(i) == S \cup {<<f, n + j - 1>> : j \in 1..i}
             g == [i \in 0..Len(adds) |-> Knows(f, n + i, Seen(i))]
  <1>1. \A i \in DOMAIN adds : lines[i] = [kind |-> "+", text |-> "plain"]
    BY DEF New, Checking!Range
  <1>2. lines = [j \in DOMAIN adds |-> lines[j]]
    BY DEF New
  <1> HIDE DEF lines
  <1>3. IsSequence(lines) /\ Len(lines) = Len(adds) /\ Len(adds) \in Nat /\ DOMAIN adds = 1..Len(adds)
    BY <1>2, MappedSequence
  <1>4. ASSUME NEW i \in 1..Len(adds) PROVE g[i] = Checking!ParseLine(g[i - 1], lines[i])
    <2>1. i - 1 \in 0..Len(adds) /\ i \in 0..Len(adds) /\ n + (i - 1) \in Nat /\ (n + (i - 1)) + 1 = n + i
      BY <1>3
    <2>2. Seen(i) = Seen(i - 1) \cup {<<f, n + (i - 1)>>}
      <3>1. 1..i = (1..i - 1) \cup {i} /\ n + i - 1 = n + (i - 1)
        BY <1>3
      <3> QED BY <3>1
    <2>3. f # <<>>
      BY <1>3
    <2> HIDE DEF Seen
    <2>4. g[i] = Knows(f, n + i, Seen(i)) /\ g[i - 1] = Knows(f, n + (i - 1), Seen(i - 1))
      BY <2>1
    <2> HIDE DEF g
    <2>5. Checking!ParseLine(Knows(f, n + (i - 1), Seen(i - 1)), [kind |-> "+", text |-> "plain"])
            = Knows(f, (n + (i - 1)) + 1, Seen(i - 1) \cup {<<f, n + (i - 1)>>})
      BY <2>1, <2>3 DEF Checking!ParseLine, Knows
    <2> QED BY <1>1, <1>3, <2>1, <2>2, <2>4, <2>5
  <1>5. g[0] = Knows(f, n, S)
    <2>1. 0 \in 0..Len(adds) /\ n + 0 = n
      BY <1>3
    <2>2. Seen(0) = S
      OBVIOUS
    <2> QED BY <2>1, <2>2
  <1>6. g[Len(lines)] = Knows(f, n + Len(adds), Seen(Len(adds))) /\ n + Len(adds) \in Nat
    BY <1>3
  <1>7. Seen(Len(adds)) = S \cup Places(f, n, adds)
    BY <1>3 DEF Places
  <1> HIDE DEF g, Seen
  <1>8. Follows(g, Knows(f, n, S), lines)
    BY <1>3, <1>4, <1>5 DEF Follows
  <1>9. Reads(Knows(f, n, S), lines, Knows(f, n + Len(adds), S \cup Places(f, n, adds)))
    BY <1>6, <1>7, <1>8 DEF Reads
  <1> QED BY <1>3, <1>6, <1>9 DEF lines

\* The lines that a hunk, and a section, of a file adds.
AddedBy(f, k) == Places(f, k.at, k.adds)
AddedIn(s) == UNION {AddedBy(Checking!Header(s), k) : k \in Checking!Range(s.hunks)}
HunkLines(k) == <<[kind |-> "hunk", at |-> k.at]>> \o Deleted(k.dels) \o New(k.adds)
PlainHunk(f, k) ==
  /\ IsHunk(k) /\ (f = <<>> => k.adds = <<>>)
  /\ "dashes" \notin Checking!Range(k.dels) /\ Checking!Range(k.adds) \subseteq {"plain"}

LEMMA ReadsHunk ==
  ASSUME NEW f, NEW k, PlainHunk(f, k), NEW n \in Nat, NEW S
  PROVE  /\ IsSequence(HunkLines(k))
         /\ \E m \in Nat : Reads(Knows(f, n, S), HunkLines(k), Knows(f, m, S \cup AddedBy(f, k)))
  <1> DEFINE h == <<[kind |-> "hunk", at |-> k.at]>>
  <1>1. k.at \in Nat /\ IsSequence(k.dels) /\ IsSequence(k.adds)
    BY DEF PlainHunk, IsHunk
  <1>2. IsSequence(h) /\ Reads(Knows(f, n, S), h, Knows(f, k.at, S))
    <2>1. Checking!ParseLine(Knows(f, n, S), [kind |-> "hunk", at |-> k.at]) = Knows(f, k.at, S)
      BY DEF Checking!ParseLine, Knows
    <2>2. /\ IsSequence(h)
          /\ Reads(Knows(f, n, S), h, Checking!ParseLine(Knows(f, n, S), [kind |-> "hunk", at |-> k.at]))
      BY ReadsOne
    <2> QED BY <2>1, <2>2
  <1>3. IsSequence(Deleted(k.dels)) /\ Reads(Knows(f, k.at, S), Deleted(k.dels), Knows(f, k.at, S))
    <2>1. "dashes" \notin Checking!Range(k.dels)
      BY DEF PlainHunk
    <2> QED BY <1>1, <2>1, ReadsDeleted
  <1> HIDE DEF h
  <1>4. IsSequence(h \o Deleted(k.dels)) /\ Reads(Knows(f, n, S), h \o Deleted(k.dels), Knows(f, k.at, S))
    BY <1>2, <1>3, ReadsBoth
  <1>5. /\ IsSequence(New(k.adds))
        /\ \E m \in Nat : Reads(Knows(f, k.at, S), New(k.adds), Knows(f, m, S \cup AddedBy(f, k)))
    <2>1. Checking!Range(k.adds) \subseteq {"plain"} /\ (f = <<>> => k.adds = <<>>)
      BY DEF PlainHunk
    <2>2. \E m \in Nat :
            Reads(Knows(f, k.at, S), New(k.adds), Knows(f, m, S \cup Places(f, k.at, k.adds)))
      BY <1>1, <2>1, ReadsNew
    <2>3. IsSequence(New(k.adds))
      BY <1>1, <2>1, ReadsNew
    <2> QED BY <2>2, <2>3 DEF AddedBy
  <1>6. PICK m \in Nat : Reads(Knows(f, k.at, S), New(k.adds), Knows(f, m, S \cup AddedBy(f, k)))
    BY <1>5
  <1>7. /\ IsSequence(h \o Deleted(k.dels) \o New(k.adds))
        /\ Reads(Knows(f, n, S), h \o Deleted(k.dels) \o New(k.adds), Knows(f, m, S \cup AddedBy(f, k)))
    BY <1>4, <1>5, <1>6, ReadsBoth
  <1> QED BY <1>7 DEF h, HunkLines

Adds(s, f, n, S) ==
  \E m \in Nat : Reads(Knows(f, n, S), Checking!Section(s), Knows(Checking!Header(s), m, S \cup AddedIn(s)))

LEMMA ReadsSection ==
  ASSUME NEW s, IsSequence(s.hunks), \A i \in DOMAIN s.hunks : PlainHunk(Checking!Header(s), s.hunks[i]),
         NEW f, NEW n \in Nat, NEW S
  PROVE  IsSequence(Checking!Section(s)) /\ Adds(s, f, n, S)
  <1> DEFINE other == [kind |-> "other"]
             new == [kind |-> "new", file |-> Checking!Header(s)]
             parts == [i \in DOMAIN s.hunks |-> HunkLines(s.hunks[i])]
             Upto(i) == UNION {AddedBy(Checking!Header(s), s.hunks[j]) : j \in 1..i}
             States == [i \in 0..Len(s.hunks) |-> {Knows(Checking!Header(s), m, S \cup Upto(i)) : m \in Nat}]
  <1>1. PICK m \in Nat : IsSequence(<<other, other, new>>)
                         /\ Reads(Knows(f, n, S), <<other, other, new>>, Knows(Checking!Header(s), m, S))
    <2>1. \A i \in Nat : /\ \E j \in Nat : Reads(Knows(f, i, S), <<other>>, Knows(f, j, S))
                         /\ Reads(Knows(f, i, S), <<new>>, Knows(Checking!Header(s), i, S))
      <3> SUFFICES ASSUME NEW i \in Nat
                   PROVE  /\ \E j \in Nat : Reads(Knows(f, i, S), <<other>>, Knows(f, j, S))
                          /\ Reads(Knows(f, i, S), <<new>>, Knows(Checking!Header(s), i, S))
        OBVIOUS
      <3> DEFINE j == IF f = <<>> THEN i ELSE i + 1
      <3>0. Checking!ParseLine(Knows(f, i, S), other) = Knows(f, j, S) /\ j \in Nat
        BY DEF Checking!ParseLine, Knows
      <3>1. Checking!ParseLine(Knows(f, i, S), new) = Knows(Checking!Header(s), i, S)
        BY DEF Checking!ParseLine, Knows
      <3> HIDE DEF j, other, new
      <3>2. Reads(Knows(f, i, S), <<other>>, Checking!ParseLine(Knows(f, i, S), other))
        BY ReadsOne
      <3>3. Reads(Knows(f, i, S), <<new>>, Checking!ParseLine(Knows(f, i, S), new))
        BY ReadsOne
      <3> QED BY <3>0, <3>1, <3>2, <3>3
    <2>2. PICK i \in Nat : Reads(Knows(f, n, S), <<other>>, Knows(f, i, S))
      BY <2>1
    <2>3. PICK j \in Nat : Reads(Knows(f, i, S), <<other>>, Knows(f, j, S))
      BY <2>1
    <2>4. Reads(Knows(f, j, S), <<new>>, Knows(Checking!Header(s), j, S))
      BY <2>1
    <2>5. IsSequence(<<other>>) /\ IsSequence(<<new>>)
      BY ReadsOne
    <2>6. <<other, other, new>> = <<other>> \o <<other>> \o <<new>>
      OBVIOUS
    <2> HIDE DEF other, new
    <2>7. IsSequence(<<other>> \o <<other>>) /\ Reads(Knows(f, n, S), <<other>> \o <<other>>, Knows(f, j, S))
      BY <2>2, <2>3, <2>5, ReadsBoth
    <2>8. /\ IsSequence(<<other>> \o <<other>> \o <<new>>)
          /\ Reads(Knows(f, n, S), <<other>> \o <<other>> \o <<new>>, Knows(Checking!Header(s), j, S))
      BY <2>4, <2>5, <2>7, ReadsBoth
    <2> QED BY <2>6, <2>8
  <1>2. parts = [i \in DOMAIN s.hunks |-> parts[i]]
    OBVIOUS
  <1>3. /\ IsSequence(parts) /\ Len(parts) = Len(s.hunks)
        /\ Len(s.hunks) \in Nat /\ DOMAIN s.hunks = 1..Len(s.hunks)
    <2> HIDE DEF parts
    <2> QED BY <1>2, MappedSequence
  <1>4. ASSUME NEW i \in 1..Len(s.hunks)
        PROVE  /\ IsSequence(parts[i])
               /\ \A c \in States[i - 1] : \E b \in States[i] : Reads(c, parts[i], b)
    <2>1. parts[i] = HunkLines(s.hunks[i]) /\ PlainHunk(Checking!Header(s), s.hunks[i])
      BY <1>3
    <2>2. i - 1 \in 0..Len(s.hunks) /\ i \in 0..Len(s.hunks) /\ 1..i = (1..i - 1) \cup {i}
      BY <1>3
    <2>3. S \cup Upto(i) = (S \cup Upto(i - 1)) \cup AddedBy(Checking!Header(s), s.hunks[i])
      BY <2>2
    <2> HIDE DEF parts, Upto
    <2>4. IsSequence(HunkLines(s.hunks[i]))
      BY <2>1, ReadsHunk
    <2>5. ASSUME NEW c \in States[i - 1] PROVE \E b \in States[i] : Reads(c, parts[i], b)
      <3>1. PICK j \in Nat : c = Knows(Checking!Header(s), j, S \cup Upto(i - 1))
        BY <2>2
      <3>2. PICK q \in Nat : Reads(Knows(Checking!Header(s), j, S \cup Upto(i - 1)), HunkLines(s.hunks[i]),
                                   Knows(Checking!Header(s), q,
                                         (S \cup Upto(i - 1)) \cup AddedBy(Checking!Header(s), s.hunks[i])))
        BY <2>1, ReadsHunk
      <3>3. Knows(Checking!Header(s), q, S \cup Upto(i)) \in States[i]
        BY <2>2
      <3> HIDE DEF States
      <3> QED BY <2>1, <2>3, <3>1, <3>2, <3>3
    <2> HIDE DEF States
    <2> QED BY <2>1, <2>4, <2>5
  <1>5. Knows(Checking!Header(s), m, S) \in States[0]
    <2>1. Upto(0) = {}
      OBVIOUS
    <2>2. 0 \in 0..Len(s.hunks)
      BY <1>3
    <2> HIDE DEF Upto
    <2> QED BY <2>1, <2>2
  <1>6. \A b \in States[Len(s.hunks)] : \E q \in Nat : b = Knows(Checking!Header(s), q, S \cup AddedIn(s))
    <2>1. Upto(Len(s.hunks)) = AddedIn(s)
      BY <1>3 DEF AddedIn, Checking!Range
    <2>2. Len(s.hunks) \in 0..Len(s.hunks)
      BY <1>3
    <2> HIDE DEF Upto
    <2> QED BY <2>1, <2>2
  <1> HIDE DEF parts, States, other, new
  <1>7. /\ IsSequence(Checking!FlattenSeq(parts))
        /\ \E b \in States[Len(s.hunks)] : Reads(Knows(Checking!Header(s), m, S), Checking!FlattenSeq(parts), b)
    BY <1>3, <1>4, <1>5, ReadsFlat
  <1>8. PICK q \in Nat : Reads(Knows(Checking!Header(s), m, S), Checking!FlattenSeq(parts),
                               Knows(Checking!Header(s), q, S \cup AddedIn(s)))
    BY <1>6, <1>7
  <1>9. /\ IsSequence(<<other, other, new>> \o Checking!FlattenSeq(parts))
        /\ Reads(Knows(f, n, S), <<other, other, new>> \o Checking!FlattenSeq(parts),
                 Knows(Checking!Header(s), q, S \cup AddedIn(s)))
    BY <1>1, <1>7, <1>8, ReadsBoth
  <1>10. Checking!Section(s) = <<other, other, new>> \o Checking!FlattenSeq(parts)
    BY DEF Checking!Section, parts, HunkLines, Deleted, New, other, new
  <1> QED BY <1>9, <1>10 DEF Adds

LEMMA ReadsOnce ==
  ASSUME NEW diff, IsSequence(Checking!Lines(diff)), NEW b, Reads(Knows(<<>>, 0, {}), Checking!Lines(diff), b)
  PROVE  Checking!DiffLines(diff) = b.set
  <1> DEFINE lines == Checking!Lines(diff)
             Value(f, n) == IF n = 0 THEN [file |-> <<>>, at |-> 0, set |-> {}]
                            ELSE Checking!ParseLine(f[n - 1], lines[n])
             Parses(f) == f = [n \in 0..Len(lines) |-> Value(f, n)]
             r == CHOOSE f : Parses(f)
  <1>1. Checking!DiffLines(diff) = r[Len(lines)].set
    BY DEF Checking!DiffLines
  <1>2. PICK g : Follows(g, Knows(<<>>, 0, {}), lines) /\ g[Len(lines)] = b
    BY DEF Reads
  <1> HIDE DEF lines
  <1>3. Len(lines) \in Nat
    BY DEF lines, IsSequence
  <1> DEFINE h == [n \in 0..Len(lines) |-> g[n]]
  <1>4. ASSUME NEW n \in 0..Len(lines) PROVE g[n] = Value(h, n)
    <2>1. CASE n = 0
      BY <1>2, <2>1 DEF Follows, Knows
    <2>2. CASE n # 0
      <3>1. n \in 1..Len(lines) /\ n - 1 \in 0..Len(lines)
        BY <1>3, <2>2
      <3>2. g[n] = Checking!ParseLine(g[n - 1], lines[n])
        BY <1>2, <3>1 DEF Follows
      <3> QED BY <2>2, <3>1, <3>2
    <2> QED BY <2>1, <2>2
  <1>5. Parses(h)
    <2> HIDE DEF Value
    <2>1. h = [n \in 0..Len(lines) |-> Value(h, n)]
      BY <1>4
    <2> QED BY <2>1
  <1>6. r = [n \in 0..Len(lines) |-> Value(r, n)]
    <2> HIDE DEF h, Value
    <2> QED BY <1>5
  <1> DEFINE Wrong == {n \in 0..Len(lines) : r[n] # g[n]}
  <1> HIDE DEF r
  <1>7. Wrong = {}
    <2> SUFFICES ASSUME Wrong # {} PROVE FALSE
      OBVIOUS
    <2>1. PICK n \in Wrong : \A m \in Wrong : n <= m
      <3>1. Wrong \in SUBSET Nat
        BY <1>3
      <3> HIDE DEF Wrong
      <3> QED BY <3>1, SmallestOf
    <2>2. n \in 0..Len(lines) /\ n \in Nat /\ r[n] # g[n]
      BY <1>3
    <2>3. r[n] = Value(r, n)
      <3> HIDE DEF Value
      <3> QED BY <1>6, <2>2
    <2>4. g[n] = Value(h, n)
      <3> HIDE DEF Value, h
      <3> QED BY <1>4, <2>2
    <2>5. CASE n = 0
      BY <2>2, <2>3, <2>4, <2>5
    <2>6. CASE n # 0
      <3>1. n - 1 \in 0..Len(lines) /\ ~(n <= n - 1)
        BY <1>3, <2>2, <2>6
      <3>2. n - 1 \notin Wrong
        <4> HIDE DEF Wrong
        <4> QED BY <2>1, <3>1
      <3>3. r[n - 1] = g[n - 1] /\ h[n - 1] = g[n - 1]
        BY <3>1, <3>2
      <3> HIDE DEF h
      <3> QED BY <2>2, <2>3, <2>4, <2>6, <3>3
    <2> QED BY <2>5, <2>6
  <1>8. r[Len(lines)] = b
    <2>1. Len(lines) \in 0..Len(lines)
      BY <1>3
    <2> QED BY <1>2, <1>7, <2>1
  <1> QED BY <1>1, <1>8

(***************************************************************************)
(* In a change without lines that look like headers, what the parser reads *)
(* is what the change adds, below the names that it reads.                 *)
(***************************************************************************)
ReadIn(diff) == UNION {AddedIn(s) : s \in Checking!Range(diff)}
LEMMA DiffIsRead ==
  ASSUME NEW diff, IsChange(diff), ~Checking!Confusing(diff)
  PROVE  Checking!DiffLines(diff) = ReadIn(diff)
  <1> DEFINE parts == [i \in DOMAIN diff |-> Checking!Section(diff[i])]
             Upto(i) == UNION {AddedIn(diff[j]) : j \in 1..i}
             States == [i \in 0..Len(diff) |->
                          {Knows(f, m, Upto(i)) : f \in {Checking!Header(diff[i]), <<>>}, m \in Nat}]
  <1>1. IsSequence(diff)
    BY DEF IsChange
  <1>2. parts = [i \in DOMAIN diff |-> parts[i]]
    OBVIOUS
  <1>3. IsSequence(parts) /\ Len(parts) = Len(diff) /\ Len(diff) \in Nat /\ DOMAIN diff = 1..Len(diff)
    <2> HIDE DEF parts
    <2> QED BY <1>1, <1>2, MappedSequence
  <1>4. ASSUME NEW i \in 1..Len(diff)
        PROVE  /\ IsSequence(diff[i].hunks)
               /\ \A j \in DOMAIN diff[i].hunks : PlainHunk(Checking!Header(diff[i]), diff[i].hunks[j])
    <2>1. IsSequence(diff[i].hunks)
      BY <1>3 DEF IsChange
    <2>2. ASSUME NEW j \in DOMAIN diff[i].hunks PROVE PlainHunk(Checking!Header(diff[i]), diff[i].hunks[j])
      <3>1. IsHunk(diff[i].hunks[j]) /\ (Checking!Header(diff[i]) = <<>> => diff[i].hunks[j].adds = <<>>)
        BY <1>3 DEF IsChange, Checking!Header, Checking!Garbage
      <3>2. diff[i] \in Checking!Range(diff) /\ diff[i].hunks[j] \in Checking!Range(diff[i].hunks)
        BY <1>3 DEF Checking!Range
      <3>3. /\ "dashes" \notin Checking!Range(diff[i].hunks[j].dels)
            /\ Checking!Range(diff[i].hunks[j].adds) \subseteq {"plain"}
        BY <3>2 DEF Checking!Confusing
      <3> QED BY <3>1, <3>3 DEF PlainHunk
    <2> QED BY <2>1, <2>2
  <1>5. ASSUME NEW i \in 1..Len(diff)
        PROVE  /\ IsSequence(parts[i])
               /\ \A c \in States[i - 1] : \E b \in States[i] : Reads(c, parts[i], b)
    <2>1. parts[i] = Checking!Section(diff[i])
      BY <1>3
    <2>2. i - 1 \in 0..Len(diff) /\ i \in 0..Len(diff) /\ 1..i = (1..i - 1) \cup {i}
      BY <1>3
    <2>3. Upto(i) = Upto(i - 1) \cup AddedIn(diff[i])
      BY <2>2
    <2> HIDE DEF parts, Upto
    <2>4. IsSequence(Checking!Section(diff[i]))
      BY <1>4, ReadsSection
    <2>5. ASSUME NEW c \in States[i - 1] PROVE \E b \in States[i] : Reads(c, parts[i], b)
      <3>1. PICK f \in {Checking!Header(diff[i - 1]), <<>>}, m \in Nat : c = Knows(f, m, Upto(i - 1))
        BY <2>2
      <3>a. Adds(diff[i], f, m, Upto(i - 1))
        BY <1>4, ReadsSection
      <3>2. PICK q \in Nat : Reads(Knows(f, m, Upto(i - 1)), Checking!Section(diff[i]),
                                   Knows(Checking!Header(diff[i]), q, Upto(i - 1) \cup AddedIn(diff[i])))
        BY <3>a DEF Adds
      <3>3. Knows(Checking!Header(diff[i]), q, Upto(i)) \in States[i]
        BY <2>2
      <3> HIDE DEF States
      <3> QED BY <2>1, <2>3, <3>1, <3>2, <3>3
    <2> HIDE DEF States
    <2> QED BY <2>1, <2>4, <2>5
  <1>6. Knows(<<>>, 0, {}) \in States[0]
    <2>1. Upto(0) = {}
      OBVIOUS
    <2>2. 0 \in 0..Len(diff)
      BY <1>3
    <2> HIDE DEF Upto
    <2>3. Knows(<<>>, 0, Upto(0)) \in {Knows(f, m, Upto(0)) : f \in {Checking!Header(diff[0]), <<>>}, m \in Nat}
      OBVIOUS
    <2>4. States[0] = {Knows(f, m, Upto(0)) : f \in {Checking!Header(diff[0]), <<>>}, m \in Nat}
      BY <2>2
    <2> HIDE DEF States
    <2>5. Knows(<<>>, 0, Upto(0)) \in States[0]
      BY <2>3, <2>4
    <2> QED BY <2>1, <2>5
  <1>7. \A b \in States[Len(diff)] : b.set = ReadIn(diff)
    <2>1. Upto(Len(diff)) = UNION {AddedIn(s) : s \in Checking!Range(diff)}
      BY <1>3 DEF Checking!Range
    <2>2. UNION {AddedIn(s) : s \in Checking!Range(diff)} = ReadIn(diff)
      BY DEF ReadIn
    <2>3. Len(diff) \in 0..Len(diff)
      BY <1>3
    <2> HIDE DEF Upto
    <2>4. ASSUME NEW b \in States[Len(diff)] PROVE b.set = Upto(Len(diff))
      <3>1. PICK f \in {Checking!Header(diff[Len(diff)]), <<>>}, m \in Nat : b = Knows(f, m, Upto(Len(diff)))
        BY <2>3
      <3> QED BY <3>1 DEF Knows
    <2> QED BY <2>1, <2>2, <2>4
  <1> HIDE DEF parts, States
  <1>8. /\ IsSequence(Checking!FlattenSeq(parts))
        /\ \E b \in States[Len(diff)] : Reads(Knows(<<>>, 0, {}), Checking!FlattenSeq(parts), b)
    BY <1>3, <1>5, <1>6, ReadsFlat
  <1>9. Checking!FlattenSeq(parts) = Checking!Lines(diff)
    BY DEF Checking!Lines, parts
  <1>10. PICK b \in States[Len(diff)] : Reads(Knows(<<>>, 0, {}), Checking!Lines(diff), b)
    BY <1>8, <1>9
  <1>11. Checking!DiffLines(diff) = b.set
    BY <1>8, <1>9, <1>10, ReadsOnce
  <1> QED BY <1>7, <1>11

\* To a file that a finding can name it adds what it adds to files with plain names.
LEMMA ReadAdded ==
  ASSUME NEW diff, IsChange(diff), NEW f, f # Checking!Garbage, NEW l
  PROVE  <<f, l>> \in ReadIn(diff) <=> <<f, l>> \in Checking!AddedLines(diff)
  <1>1. ASSUME NEW s \in Checking!Range(diff)
        PROVE  <<f, l>> \in AddedIn(s) <=>
                 s.plain /\ \E k \in Checking!Range(s.hunks) : <<f, l>> \in Places(s.file, k.at, k.adds)
    <2>1. <<f, l>> \in AddedIn(s) <=>
            \E k \in Checking!Range(s.hunks) : <<f, l>> \in Places(Checking!Header(s), k.at, k.adds)
      BY Zenon DEF AddedIn, AddedBy
    <2>2. CASE s.plain
      BY <2>1, <2>2 DEF Checking!Header
    <2>3. CASE ~s.plain
      <3>1. ASSUME NEW k \in Checking!Range(s.hunks) PROVE <<f, l>> \notin Places(Checking!Header(s), k.at, k.adds)
        <4>1. CASE s.file = <<>>
          <5>1. k.adds = <<>>
            BY <4>1 DEF IsChange, Checking!Range
          <5>2. DOMAIN k.adds = {}
            BY <5>1
          <5> QED BY <5>2 DEF Places
        <4>2. CASE s.file # <<>>
          <5>1. Checking!Header(s) = Checking!Garbage
            BY <2>3, <4>2 DEF Checking!Header
          <5> QED BY <5>1 DEF Places
        <4> QED BY <4>1, <4>2
      <3> QED BY <2>1, <2>3, <3>1
    <2> QED BY <2>2, <2>3
  <1>2. <<f, l>> \in ReadIn(diff) <=> \E s \in Checking!Range(diff) : <<f, l>> \in AddedIn(s)
    BY DEF ReadIn
  <1>3. <<f, l>> \in Checking!AddedLines(diff) <=>
          \E s \in Checking!Range(diff) :
            s.plain /\ \E k \in Checking!Range(s.hunks) : <<f, l>> \in Places(s.file, k.at, k.adds)
    BY DEF Checking!AddedLines, Places
  <1> QED BY <1>1, <1>2, <1>3

\* What is read of an output, and what the linter found.
IsErrorOf(codec, v) == v = "error" \/ codec = "actionlint_json"
Same(codec, r, s) ==
  r[1] = s[1] /\ r[2] = s[2] /\ (Checking!WorkflowCommand(r[3]) = "error" <=> IsErrorOf(codec, s[3]))
WholeOutput(codec, o) ==
  /\ o.shape = "whole" \/ (o.shape = "noisy" /\ codec = "eslint_json")
  /\ codec = "sarif" => Len(o.runs) = 1
  /\ codec # "other"
Has(codec, read, found) == \A s \in found : \E r \in read : Same(codec, r, s)
Only(codec, read, found) == \A r \in read : \E s \in found : Same(codec, r, s)

Shapes == {"whole", "cut", "noisy", "bracketed", "masked", "empty"}

LEMMA RunsOf ==
  ASSUME NEW o \in Checking!Outputs
  PROVE  /\ o.shape \in Shapes
         /\ o.shape = "empty" => UNION Checking!Range(o.runs) = {}
         /\ o.shape # "empty" => /\ o.runs[1] \in KFound
                                 /\ o.runs[1] \subseteq UNION Checking!Range(o.runs)
                                 /\ Checking!Range(o.runs) \subseteq KFound
                                 /\ Len(o.runs) = 1 => UNION Checking!Range(o.runs) = o.runs[1]
  <1>1. CASE o.shape = "empty"
    <2>1. o.runs = <<{}>>
      BY <1>1 DEF Checking!Outputs
    <2>2. Checking!Range(<<{}>>) = {{}}
      BY DEF Checking!Range
    <2> QED BY <1>1, <2>1, <2>2 DEF Shapes
  <1>2. CASE o.shape # "empty"
    <2>1. o.shape \in Shapes \ {"empty"} /\ o.runs \in [1..1 -> KFound] \cup [1..2 -> KFound]
      BY <1>2 DEF Checking!Outputs, Shapes
    <2>2. \E k \in {1, 2} : o.runs \in [1..k -> KFound]
      BY <2>1
    <2>3. PICK k \in {1, 2} : o.runs \in [1..k -> KFound]
      BY <2>2
    <2>4. DOMAIN o.runs = 1..k /\ 1 \in 1..k /\ o.runs \in Seq(KFound) /\ Len(o.runs) = k
      BY <2>3
    <2>5. /\ o.runs[1] \in KFound /\ o.runs[1] \in Checking!Range(o.runs)
          /\ Checking!Range(o.runs) \subseteq KFound
      BY <2>3, <2>4 DEF Checking!Range
    <2>6. Len(o.runs) = 1 => Checking!Range(o.runs) = {o.runs[1]}
      BY <2>4 DEF Checking!Range
    <2> QED BY <1>2, <2>1, <2>5, <2>6
  <1> QED BY <1>1, <1>2

\* A codec changes how bad a finding is, and keeps whether it is an error.
Keeps(codec, read, found) == Has(codec, read, found) /\ Only(codec, read, found) /\ read # Checking!Failed
IsFound(found) == \A f \in found : f = <<f[1], f[2], f[3]>> /\ f[1] # Checking!Garbage

Understood(codec, o, read) ==
  /\ WholeOutput(codec, o) => Keeps(codec, read, UNION Checking!Range(o.runs))
  /\ read # Checking!Failed => Only(codec, read, UNION Checking!Range(o.runs))

LEMMA KeepsThem ==
  ASSUME NEW codec, NEW found, IsFound(found), NEW L, NEW read, read = {<<f[1], f[2], L[f]>> : f \in found},
         \A f \in found : Checking!WorkflowCommand(L[f]) = "error" <=> IsErrorOf(codec, f[3])
  PROVE  Keeps(codec, read, found)
  <1>1. ASSUME NEW f \in found PROVE Same(codec, <<f[1], f[2], L[f]>>, f)
    BY DEF Same
  <1>2. Has(codec, read, found)
    BY <1>1 DEF Has
  <1>3. Only(codec, read, found)
    BY <1>1 DEF Only
  <1>4. read # Checking!Failed
    <2>1. \A r \in read : r[1] # Checking!Garbage
      BY DEF IsFound
    <2>2. <<Checking!Garbage, 0, "">> \in Checking!Failed /\ <<Checking!Garbage, 0, "">>[1] = Checking!Garbage
      BY DEF Checking!Failed
    <2> QED BY <2>1, <2>2
  <1> QED BY <1>2, <1>3, <1>4 DEF Keeps

LEMMA Decoded ==
  ASSUME NEW codec \in {"sarif", "actionlint_json", "shellcheck_json", "eslint_json"},
         NEW o \in Checking!Outputs
  PROVE  Understood(codec, o, Checking!Decode(codec, o))
  <1> DEFINE decoded == Checking!Decode(codec, o)
             found == UNION Checking!Range(o.runs)
  <1>1. /\ o.shape \in Shapes
        /\ o.shape = "empty" => found = {}
        /\ o.shape # "empty" => /\ o.runs[1] \in KFound /\ o.runs[1] \subseteq found
                                /\ Checking!Range(o.runs) \subseteq KFound
                                /\ Len(o.runs) = 1 => found = o.runs[1]
    BY RunsOf
  <1>2. IsFound(found) /\ (o.shape # "empty" => IsFound(o.runs[1]))
    BY <1>1, RequestsAssumption DEF IsFound
  <1>3. SUFFICES /\ WholeOutput(codec, o) => Keeps(codec, decoded, found)
                 /\ decoded # Checking!Failed => Only(codec, decoded, found)
    BY <1>3 DEF Understood
  <1>4. CASE codec = "sarif"
    <2>1. decoded = IF o.shape = "whole" THEN o.runs[1] ELSE Checking!Failed
      BY <1>4 DEF Checking!Decode, Checking!FirstSARIFRun
    <2> DEFINE L == [f \in o.runs[1] |-> f[3]]
    <2>2. CASE o.shape = "whole"
      <3>0. \A f \in o.runs[1] : f = <<f[1], f[2], L[f]>>
        BY <1>2, <2>2 DEF IsFound
      <3>1. decoded = {<<f[1], f[2], L[f]>> : f \in o.runs[1]}
        <4>1. decoded = o.runs[1]
          BY <2>1, <2>2
        <4> HIDE DEF L, decoded
        <4> QED BY <3>0, <4>1
      <3>2. \A f \in o.runs[1] : Checking!WorkflowCommand(L[f]) = "error" <=> IsErrorOf(codec, f[3])
        BY <1>4 DEF Checking!WorkflowCommand, IsErrorOf
      <3> HIDE DEF L, decoded
      <3>3. Keeps(codec, decoded, o.runs[1])
        BY <1>2, <2>2, <3>1, <3>2, KeepsThem
      <3>4. Only(codec, decoded, found)
        BY <1>1, <2>2, <3>3 DEF Keeps, Only
      <3>5. WholeOutput(codec, o) => found = o.runs[1]
        BY <1>1, <1>4, <2>2 DEF WholeOutput
      <3> QED BY <3>3, <3>4, <3>5
    <2>3. CASE o.shape # "whole"
      BY <1>4, <2>1, <2>3 DEF WholeOutput
    <2> QED BY <2>2, <2>3
  <1>5. CASE codec = "actionlint_json"
    <2> DEFINE L == [f \in found |-> "error"]
    <2>1. decoded = IF Checking!Read(o) THEN {<<f[1], f[2], "error">> : f \in found} ELSE Checking!Failed
      BY <1>5 DEF Checking!Decode, Checking!DecodeActionlint, Checking!Leveled
    <2>2. CASE Checking!Read(o)
      <3>1. decoded = {<<f[1], f[2], L[f]>> : f \in found}
        BY <2>1, <2>2
      <3>2. \A f \in found : Checking!WorkflowCommand(L[f]) = "error" <=> IsErrorOf(codec, f[3])
        BY <1>5 DEF Checking!WorkflowCommand, IsErrorOf
      <3> HIDE DEF L, decoded, found
      <3>3. Keeps(codec, decoded, found)
        BY <1>2, <3>1, <3>2, KeepsThem
      <3> QED BY <3>3 DEF Keeps
    <2>3. CASE ~Checking!Read(o)
      BY <1>5, <2>1, <2>3 DEF WholeOutput, Checking!Read
    <2> QED BY <2>2, <2>3
  <1>6. CASE codec = "shellcheck_json"
    <2> DEFINE Level(v) == CASE v = "error" -> "error" [] v \in {"info", "style"} -> "note"
                          [] OTHER -> "warning"
               L == [f \in found |-> Level(f[3])]
    <2>1. decoded = IF Checking!Read(o) THEN {<<f[1], f[2], Level(f[3])>> : f \in found} ELSE Checking!Failed
      BY <1>6 DEF Checking!Decode, Checking!DecodeShellcheck, Checking!Leveled
    <2>2. CASE Checking!Read(o)
      <3>1. decoded = {<<f[1], f[2], L[f]>> : f \in found}
        BY <2>1, <2>2
      <3>2. \A f \in found : Checking!WorkflowCommand(L[f]) = "error" <=> IsErrorOf(codec, f[3])
        BY <1>6 DEF Checking!WorkflowCommand, IsErrorOf
      <3> HIDE DEF L, decoded, found
      <3>3. Keeps(codec, decoded, found)
        BY <1>2, <3>1, <3>2, KeepsThem
      <3> QED BY <3>3 DEF Keeps
    <2>3. CASE ~Checking!Read(o)
      BY <1>6, <2>1, <2>3 DEF WholeOutput, Checking!Read
    <2> QED BY <2>2, <2>3
  <1>7. CASE codec = "eslint_json"
    <2> DEFINE all == Checking!ParseESLintResults(o)
               L == [f \in all |-> IF f[3] = "error" THEN "error" ELSE "warning"]
    <2>1. decoded = IF all = Checking!Failed THEN Checking!Failed
                    ELSE {<<f[1], f[2], IF f[3] = "error" THEN "error" ELSE "warning">> : f \in all}
      BY <1>7 DEF Checking!Decode, Checking!DecodeESLint, Checking!Leveled
    <2>2. \/ all = found
          \/ o.shape = "cut" /\ all = o.runs[1]
          \/ o.shape = "masked" /\ all = {}
          \/ o.shape \in {"cut", "bracketed", "empty"} /\ all = Checking!Failed
      BY <1>1 DEF Checking!ParseESLintResults, Shapes
    <2>3. found # Checking!Failed
      <3>1. \A f \in found : f[1] # Checking!Garbage
        BY <1>2 DEF IsFound
      <3>2. /\ <<Checking!Garbage, 0, "">> \in Checking!Failed
            /\ <<Checking!Garbage, 0, "">>[1] = Checking!Garbage
        BY DEF Checking!Failed
      <3> HIDE DEF found
      <3> QED BY <3>1, <3>2
    <2>4. o.shape = "cut" => IsFound(o.runs[1]) /\ o.runs[1] \subseteq found
      BY <1>1, <1>2
    <2> HIDE DEF all, found
    <2>5. CASE all = Checking!Failed
      <3>1. ~WholeOutput(codec, o)
        BY <2>2, <2>3, <2>5 DEF WholeOutput
      <3> QED BY <2>1, <2>5, <3>1
    <2>6. CASE all # Checking!Failed
      <3>1. decoded = {<<f[1], f[2], L[f]>> : f \in all}
        BY <2>1, <2>6
      <3>2. \A f \in all : Checking!WorkflowCommand(L[f]) = "error" <=> IsErrorOf(codec, f[3])
        BY <1>7 DEF Checking!WorkflowCommand, IsErrorOf
      <3>3. IsFound(all) /\ all \subseteq found
        BY <1>2, <2>2, <2>4, <2>6 DEF IsFound
      <3> HIDE DEF L, decoded
      <3>4. Keeps(codec, decoded, all)
        BY <3>1, <3>2, <3>3, KeepsThem
      <3>5. Only(codec, decoded, found)
        BY <3>3, <3>4 DEF Keeps, Only
      <3>6. WholeOutput(codec, o) => all = found
        BY <2>2, <2>6 DEF WholeOutput
      <3> QED BY <3>4, <3>5, <3>6
    <2> QED BY <2>5, <2>6
  <1> QED BY <1>4, <1>5, <1>6, <1>7

LEMMA ReadsFindings ==
  ASSUME NEW codec \in {"sarif", "actionlint_json", "shellcheck_json", "eslint_json"},
         NEW o \in Checking!Outputs
  PROVE  Understood(codec, o, Checking!Findings(codec, o))
  <1>1. CASE ~o.ok /\ o.shape = "empty"
    <2>1. Checking!Findings(codec, o) = Checking!Failed /\ ~WholeOutput(codec, o)
      BY <1>1 DEF Checking!Findings, WholeOutput
    <2> QED BY <2>1 DEF Understood
  <1>2. CASE ~(~o.ok /\ o.shape = "empty")
    <2>1. Checking!Findings(codec, o) = Checking!Decode(codec, o)
      BY <1>2 DEF Checking!Findings
    <2> QED BY <2>1, Decoded
  <1> QED BY <1>1, <1>2

(***************************************************************************)
(* A linter that said something was applicable and is through, and what    *)
(* was read of it is what the codec makes of that; the annotations are     *)
(* those of what was read when the tools ended.                            *)
(***************************************************************************)
Lints(t) ==
  /\ kReq.what = "lint" /\ kReq.tools[t].codec # "" /\ kApplies[t] # Checking!Skip
  /\ kSaid[t] \in Checking!Outputs /\ kGot[t] = Checking!Findings(kReq.tools[t].codec, kSaid[t])
ToolInv(t) ==
  /\ kPc = "detect" => kSt[t] = "idle"
  /\ kApplies[t] # Checking!Skip => (kReq.what = "lint" => kReq.tools[t].codec # "")
  /\ kSt[t] # "idle" => kApplies[t] # Checking!Skip
  /\ kSaid[t] = Checking!Silent => kGot[t] \in {{}, Checking!Failed}
  /\ kSaid[t] # Checking!Silent => kSt[t] = "ended" /\ Lints(t)
ChecksInv ==
  /\ kReq \in KRequests
  /\ kApplies = [t \in Checking!Tools |-> kApplies[t]] /\ kSt = [t \in Checking!Tools |-> kSt[t]]
  /\ kSaid = [t \in Checking!Tools |-> kSaid[t]] /\ kGot = [t \in Checking!Tools |-> kGot[t]]
  /\ \A t \in Checking!Tools : ToolInv(t)
  /\ kPc = "done" /\ kReq.what = "lint" => kNotes = Checking!AnnotateIfApplicable

LEMMA ChecksInit == Checking!Init => ChecksInv
  <1> SUFFICES ASSUME Checking!Init PROVE ChecksInv
    OBVIOUS
  <1>1. \A t \in Checking!Tools : ToolInv(t)
    BY DEF Checking!Init, ToolInv
  <1>2. /\ kReq \in KRequests /\ kPc = "detect"
        /\ kApplies = [t \in Checking!Tools |-> kApplies[t]] /\ kSt = [t \in Checking!Tools |-> kSt[t]]
        /\ kSaid = [t \in Checking!Tools |-> kSaid[t]] /\ kGot = [t \in Checking!Tools |-> kGot[t]]
    BY DEF Checking!Init
  <1> QED BY <1>1, <1>2 DEF ChecksInv

LEMMA ChecksKept ==
  ASSUME ChecksInv, UNCHANGED checkVars
  PROVE  ChecksInv'
  <1>1. Checking!Tools' = Checking!Tools /\ Checking!AnnotateIfApplicable' = Checking!AnnotateIfApplicable
    BY DEF checkVars, Checking!Tools, Checking!AnnotateIfApplicable, Checking!BundleRuns, Checking!Applicable,
           Checking!Broken, Checking!Place, Checking!NormalizeRepoPath, Checking!Absolute,
           Checking!RelevantDiffLines
  <1>2. ASSUME NEW t \in Checking!Tools PROVE ToolInv(t)'
    BY DEF ChecksInv, checkVars, ToolInv, Lints
  <1> QED BY <1>1, <1>2 DEF ChecksInv, checkVars

\* A step of one tool, or of none, that ends nothing.
LEMMA ChecksStep ==
  ASSUME ChecksInv, kReq' = kReq, kPc' # "done" \/ kReq.what # "lint",
         kApplies' = [t \in Checking!Tools |-> kApplies'[t]], kSt' = [t \in Checking!Tools |-> kSt'[t]],
         kSaid' = [t \in Checking!Tools |-> kSaid'[t]], kGot' = [t \in Checking!Tools |-> kGot'[t]],
         \A t \in Checking!Tools : ToolInv(t)'
  PROVE  ChecksInv'
  BY DEF ChecksInv, Checking!Tools

LEMMA ToolKept ==
  ASSUME NEW t, ToolInv(t), kReq' = kReq, kPc' = "detect" => kPc = "detect",
         kApplies'[t] = kApplies[t], kSt'[t] = kSt[t], kSaid'[t] = kSaid[t], kGot'[t] = kGot[t]
  PROVE  ToolInv(t)'
  BY DEF ToolInv, Lints

LEMMA ChecksDetect == ChecksInv /\ Checking!Detect => ChecksInv'
  <1> SUFFICES ASSUME ChecksInv, Checking!Detect PROVE ChecksInv'
    OBVIOUS
  <1>1. /\ kPc = "detect" /\ kNext \in Checking!Tools
        /\ kReq' = kReq /\ kPc' = kPc /\ kSt' = kSt
        /\ kSaid' = kSaid /\ kGot' = kGot
    BY DEF Checking!Detect
  <1>2. \E g : /\ kApplies' = [kApplies EXCEPT ![kNext] = g]
               /\ g # Checking!Skip => (kReq.what = "lint" => kReq.tools[kNext].codec # "")
    BY DEF Checking!Detect, Checking!Usable
  <1>3. PICK g : /\ kApplies' = [kApplies EXCEPT ![kNext] = g]
                 /\ g # Checking!Skip => (kReq.what = "lint" => kReq.tools[kNext].codec # "")
    BY <1>2
  <1>4. ASSUME NEW t \in Checking!Tools PROVE ToolInv(t)'
    <2>1. ToolInv(t)
      BY DEF ChecksInv
    <2>2. CASE t = kNext
      <3>1. kApplies'[t] = g /\ kSt[t] = "idle" /\ kSaid[t] = Checking!Silent
        BY <1>1, <1>3, <2>1, <2>2 DEF ChecksInv, ToolInv
      <3> QED BY <1>1, <1>3, <2>1, <2>2, <3>1 DEF ToolInv
    <2>3. CASE t # kNext
      <3>1. kApplies'[t] = kApplies[t]
        BY <1>3, <2>3 DEF ChecksInv
      <3> QED BY <1>1, <2>1, <3>1, ToolKept
    <2> QED BY <2>2, <2>3
  <1>5. kApplies' = [t \in Checking!Tools |-> kApplies'[t]]
    BY <1>3 DEF ChecksInv
  <1>6. /\ kSt' = [t \in Checking!Tools |-> kSt'[t]] /\ kSaid' = [t \in Checking!Tools |-> kSaid'[t]]
        /\ kGot' = [t \in Checking!Tools |-> kGot'[t]]
    BY <1>1 DEF ChecksInv
  <1> QED BY <1>1, <1>4, <1>5, <1>6, ChecksStep

\* Steps after which the tools are as they were.
LEMMA ChecksPhase ==
  ASSUME ChecksInv, kReq' = kReq, kPc' # "detect", kPc' # "done" \/ kReq.what # "lint",
         UNCHANGED <<kApplies, kSt, kSaid, kGot>>
  PROVE  ChecksInv'
  <1>1. ASSUME NEW t \in Checking!Tools PROVE ToolInv(t)'
    <2>1. ToolInv(t)
      BY DEF ChecksInv
    <2> QED BY <2>1, ToolKept
  <1>2. /\ kApplies' = [t \in Checking!Tools |-> kApplies'[t]] /\ kSt' = [t \in Checking!Tools |-> kSt'[t]]
        /\ kSaid' = [t \in Checking!Tools |-> kSaid'[t]] /\ kGot' = [t \in Checking!Tools |-> kGot'[t]]
    BY DEF ChecksInv
  <1> QED BY <1>1, <1>2, ChecksStep

LEMMA ChecksEdit == ChecksInv /\ Checking!Edit => ChecksInv'
  <1> SUFFICES ASSUME ChecksInv, Checking!Edit PROVE ChecksInv'
    OBVIOUS
  <1>1. /\ kPc \in {"detect", "run"} /\ kReq' = kReq /\ kPc' = kPc
        /\ kApplies' = kApplies /\ kSt' = kSt
        /\ kSaid' = kSaid /\ kGot' = kGot
    BY DEF Checking!Edit
  <1>2. ASSUME NEW t \in Checking!Tools PROVE ToolInv(t)'
    <2>1. ToolInv(t)
      BY DEF ChecksInv
    <2> QED BY <1>1, <2>1, ToolKept
  <1>3. /\ kApplies' = [t \in Checking!Tools |-> kApplies'[t]] /\ kSt' = [t \in Checking!Tools |-> kSt'[t]]
        /\ kSaid' = [t \in Checking!Tools |-> kSaid'[t]] /\ kGot' = [t \in Checking!Tools |-> kGot'[t]]
    BY <1>1 DEF ChecksInv
  <1> QED BY <1>1, <1>2, <1>3, ChecksStep

LEMMA ChecksReport == ChecksInv /\ Checking!Report => ChecksInv'
  <1> SUFFICES ASSUME ChecksInv, Checking!Report PROVE ChecksInv'
    OBVIOUS
  <1>1. /\ kPc' = "done" /\ kReq' = kReq /\ kApplies' = kApplies /\ kSt' = kSt
        /\ kSaid' = kSaid /\ kGot' = kGot
        /\ kNotes' = Checking!AnnotateIfApplicable
    BY DEF Checking!Report
  <1>2. ASSUME NEW t \in Checking!Tools PROVE ToolInv(t)'
    <2>1. ToolInv(t)
      BY DEF ChecksInv
    <2> QED BY <1>1, <2>1, ToolKept
  <1>3. Checking!Tools' = Checking!Tools /\ Checking!AnnotateIfApplicable' = Checking!AnnotateIfApplicable
    BY <1>1 DEF Checking!Tools, Checking!AnnotateIfApplicable, Checking!BundleRuns, Checking!Applicable,
                Checking!Broken, Checking!Place, Checking!NormalizeRepoPath, Checking!Absolute,
                Checking!RelevantDiffLines
  <1> QED BY <1>1, <1>2, <1>3 DEF ChecksInv

\* One tool moves on; the others stay as they are.
LEMMA ChecksTool ==
  ASSUME ChecksInv, NEW t \in Checking!Tools, Checking!BuildCmd(t) \/ Checking!RunOne(t)
  PROVE  ChecksInv'
  <1>1. /\ kPc = "run" /\ kReq' = kReq /\ kPc' = kPc /\ kApplies' = kApplies
        /\ kApplies[t] # Checking!Skip
    BY DEF Checking!BuildCmd, Checking!RunOne, Checking!Applicable, ChecksInv, ToolInv
  <1>2. /\ \E s \in {"running", "ended"} : kSt' = [kSt EXCEPT ![t] = s]
        /\ kSaid' = kSaid \/ \E o \in Checking!Outputs : kSaid' = [kSaid EXCEPT ![t] = o]
        /\ kGot' = kGot \/ \E r : kGot' = [kGot EXCEPT ![t] = r]
    BY DEF Checking!BuildCmd, Checking!RunOne
  <1>3. /\ kSt' = [u \in Checking!Tools |-> kSt'[u]] /\ kSaid' = [u \in Checking!Tools |-> kSaid'[u]]
        /\ kGot' = [u \in Checking!Tools |-> kGot'[u]]
        /\ \A u \in Checking!Tools \ {t} : kSt'[u] = kSt[u] /\ kSaid'[u] = kSaid[u] /\ kGot'[u] = kGot[u]
    BY <1>2 DEF ChecksInv
  <1>4. ToolInv(t)'
    <2>0. ToolInv(t)
      BY DEF ChecksInv
    <2>1. CASE Checking!BuildCmd(t)
      <3>1. kSaid[t] = Checking!Silent /\ kSaid' = kSaid
        BY <2>0, <2>1 DEF Checking!BuildCmd, ToolInv
      <3>2. kGot'[t] \in {{}, Checking!Failed}
        BY <2>0, <2>1, <3>1 DEF Checking!BuildCmd, ToolInv, ChecksInv
      <3> QED BY <1>1, <2>0, <3>1, <3>2 DEF ToolInv
    <2>2. CASE Checking!RunOne(t)
      <3>0. kSaid[t] = Checking!Silent /\ kSt'[t] = "ended"
        BY <2>0, <2>2 DEF Checking!RunOne, ToolInv, ChecksInv
      <3>1. CASE kReq.what = "lint"
        <4>1. PICK o \in Checking!Outputs :
                /\ kSaid' = [kSaid EXCEPT ![t] = o]
                /\ kGot' = [kGot EXCEPT ![t] = Checking!Findings(kReq.tools[t].codec, o)]
          BY <2>2, <3>1 DEF Checking!RunOne
        <4>2. kSaid'[t] = o /\ kGot'[t] = Checking!Findings(kReq.tools[t].codec, o)
          BY <4>1 DEF ChecksInv
        <4>3. o # Checking!Silent
          BY RunsOf DEF Checking!Silent, Shapes
        <4>4. Lints(t)'
          BY <1>1, <2>0, <3>1, <4>2 DEF Lints, ToolInv, Checking!Outputs
        <4> QED BY <1>1, <2>0, <3>0, <4>2, <4>3, <4>4 DEF ToolInv
      <3>2. CASE kReq.what # "lint"
        <4>1. kSaid' = kSaid /\ kGot'[t] \in {{}, Checking!Failed}
          BY <2>2, <3>2 DEF Checking!RunOne, ChecksInv
        <4> QED BY <1>1, <2>0, <3>0, <3>2, <4>1 DEF ToolInv
      <3> QED BY <3>1, <3>2
    <2> QED BY <2>1, <2>2
  <1>5. ASSUME NEW u \in Checking!Tools PROVE ToolInv(u)'
    <2>1. CASE u = t
      BY <1>4, <2>1
    <2>2. CASE u # t
      <3>1. ToolInv(u)
        BY DEF ChecksInv
      <3> QED BY <1>1, <1>3, <2>2, <3>1, ToolKept
    <2> QED BY <2>1, <2>2
  <1>6. kApplies' = [u \in Checking!Tools |-> kApplies'[u]]
    BY <1>1 DEF ChecksInv
  <1> QED BY <1>1, <1>3, <1>5, <1>6, ChecksStep

LEMMA ChecksNext == ChecksInv /\ [Checking!Next]_checkVars => ChecksInv'
  <1> SUFFICES ASSUME ChecksInv, [Checking!Next]_checkVars PROVE ChecksInv'
    OBVIOUS
  <1>1. Checking!Next \/ UNCHANGED checkVars
    OBVIOUS
  <1>2. CASE UNCHANGED checkVars
    BY <1>2, ChecksKept
  <1>3. CASE Checking!StartTools
    BY <1>3, ChecksPhase DEF Checking!StartTools
  <1>4. CASE Checking!FormatEnds
    BY <1>4, ChecksPhase DEF Checking!FormatEnds
  <1>5. CASE Checking!Fail
    BY <1>5, ChecksPhase DEF Checking!Fail
  <1>6. CASE \E t \in Checking!Tools : Checking!BuildCmd(t) \/ Checking!RunOne(t)
    BY <1>6, ChecksTool
  <1> QED BY <1>1, <1>2, <1>3, <1>4, <1>5, <1>6, ChecksDetect, ChecksEdit, ChecksReport DEF Checking!Next

\* A linter that did not fail, and one that is compared, have a codec that finds.
LEMMA ToolSays ==
  ASSUME ChecksInv, NEW t \in Checking!Tools, kReq.what = "lint", kSaid[t] # Checking!Silent
  PROVE  \/ kReq.tools[t].codec = "other"
         \/ Understood(kReq.tools[t].codec, kSaid[t], kGot[t])
  <1> DEFINE codec == kReq.tools[t].codec
  <1>1. kSaid[t] \in Checking!Outputs /\ kGot[t] = Checking!Findings(codec, kSaid[t]) /\ codec # ""
    BY DEF ChecksInv, ToolInv, Lints
  <1>2. codec \in {"sarif", "actionlint_json", "shellcheck_json", "eslint_json", "other", ""}
    BY RequestsAssumption DEF ChecksInv, Checking!Tools
  <1> HIDE DEF codec
  <1>3. CASE codec = "other"
    BY <1>3 DEF codec
  <1>4. CASE codec # "other"
    <2>1. Understood(codec, kSaid[t], Checking!Findings(codec, kSaid[t]))
      BY <1>1, <1>2, <1>4, ReadsFindings
    <2> QED BY <1>1, <2>1 DEF codec
  <1> QED BY <1>3, <1>4

\* Of a codec that is none, everything fails.
LEMMA OtherFails ==
  ASSUME ChecksInv, NEW t \in Checking!Tools, kReq.what = "lint", kSaid[t] # Checking!Silent,
         kReq.tools[t].codec = "other"
  PROVE  kGot[t] = Checking!Failed
  <1>1. kGot[t] = Checking!Findings("other", kSaid[t])
    BY DEF ChecksInv, ToolInv, Lints
  <1> QED BY <1>1 DEF Checking!Findings, Checking!Decode

\* Where a finding is put.
LEMMA PlaceOf ==
  ASSUME ChecksInv, NEW t \in Checking!Tools, Checking!Placed(t), NEW f, IsSequence(f)
  PROVE  Checking!NormalizeRepoPath(t, f) = Checking!Absolute(f)
  <1>1. CASE kReq.tools[t].absolute
    BY <1>1 DEF Checking!NormalizeRepoPath
  <1>2. CASE ~kReq.tools[t].absolute
    <2>1. kReq.root = <<>>
      BY <1>2 DEF Checking!Placed
    <2>2. <<>> \o f = f
      BY DEF IsSequence
    <2> QED BY <1>2, <2>1, <2>2 DEF Checking!NormalizeRepoPath, Checking!Absolute
  <1> QED BY <1>1, <1>2

LEMMA FoundIn ==
  ASSUME ChecksInv, NEW t \in Checking!Tools, kSaid[t] # Checking!Silent,
         NEW s \in UNION Checking!Range(kSaid[t].runs)
  PROVE  IsSequence(s[1])
  <1>1. kSaid[t] \in Checking!Outputs
    BY DEF ChecksInv, ToolInv, Lints
  <1>2. kSaid[t].shape # "empty" /\ Checking!Range(kSaid[t].runs) \subseteq KFound
    BY <1>1, RunsOf
  <1> QED BY <1>2, RequestsAssumption

\* What is bundled is compared by the path of a finding, below the top or as it is.
LEMMA PathsNamed ==
  ASSUME ChecksInv, kReq.what = "lint", NEW r \in Checking!BundleRuns
  PROVE  Checking!NormalizeRepoPath(r[1], r[2][1]) # Checking!Garbage
  <1> DEFINE t == r[1]
             found == UNION Checking!Range(kSaid[t].runs)
  <1>1. t \in Checking!Tools /\ kGot[t] # Checking!Failed /\ r[2] \in kGot[t]
    BY DEF Checking!BundleRuns, Checking!Applicable, Checking!Broken
  <1> HIDE DEF t
  <1>2. kSaid[t] # Checking!Silent
    BY <1>1 DEF ChecksInv, ToolInv
  <1>3. Only(kReq.tools[t].codec, kGot[t], found)
    <2>1. kReq.tools[t].codec # "other"
      BY <1>1, <1>2, OtherFails
    <2> QED BY <1>1, <1>2, <2>1, ToolSays DEF Understood
  <1>4. PICK s \in found : r[2][1] = s[1]
    BY <1>1, <1>3 DEF Only, Same
  <1>5. PICK f \in KFound : s \in f
    <2>1. kSaid[t] \in Checking!Outputs
      BY <1>1, <1>2 DEF ChecksInv, ToolInv, Lints
    <2>2. kSaid[t].shape # "empty" /\ Checking!Range(kSaid[t].runs) \subseteq KFound
      BY <1>4, <2>1, RunsOf
    <2> QED BY <1>4, <2>2
  <1>6. s[1] # Checking!Garbage /\ kReq.root \o s[1] # Checking!Garbage
    BY <1>5, RequestsAssumption DEF ChecksInv
  <1>7. Checking!NormalizeRepoPath(t, s[1]) # Checking!Garbage
    BY <1>6 DEF Checking!NormalizeRepoPath, Checking!Absolute
  <1> QED BY <1>4, <1>7 DEF t

LEMMA NotesAre ==
  ASSUME ChecksInv, kPc = "done", kReq.what = "lint", kReq.env.actions,
         ~Checking!Confusing(kReq.diffs[Checking!DiffRange(kReq.env)])
  PROVE  kNotes = {<<Checking!NormalizeRepoPath(r[1], r[2][1]), r[2][2], Checking!WorkflowCommand(r[2][3])>> :
                     r \in {r \in Checking!BundleRuns :
                              Checking!Place(r[1], r[2])
                                \in Checking!AddedLines(kReq.diffs[Checking!DiffRange(kReq.env)])}}
  <1> DEFINE diff == kReq.diffs[Checking!DiffRange(kReq.env)]
  <1>1. Checking!DiffRange(kReq.env) \in {"review", "fork", "target", "pushed", "parent"}
    BY DEF Checking!DiffRange
  <1>2. IsChange(diff)
    BY <1>1, RequestsAssumption DEF ChecksInv
  <1> HIDE DEF diff
  <1>3. Checking!DiffLines(diff) = ReadIn(diff)
    <2>1. ~Checking!Confusing(diff)
      BY DEF diff
    <2> QED BY <1>2, <2>1, DiffIsRead
  <1>4. ASSUME NEW r \in Checking!BundleRuns
        PROVE  Checking!Place(r[1], r[2]) \in Checking!RelevantDiffLines <=>
                 Checking!Place(r[1], r[2]) \in Checking!AddedLines(diff)
    <2>1. Checking!NormalizeRepoPath(r[1], r[2][1]) # Checking!Garbage
      BY PathsNamed
    <2>2. Checking!RelevantDiffLines = ReadIn(diff)
      BY <1>3 DEF Checking!RelevantDiffLines, diff
    <2> QED BY <1>2, <2>1, <2>2, ReadAdded DEF Checking!Place
  <1>5. kNotes = Checking!AnnotateIfApplicable
    BY DEF ChecksInv
  <1>6. {r \in Checking!BundleRuns : kReq.env.actions /\ Checking!Place(r[1], r[2]) \in Checking!RelevantDiffLines}
          = {r \in Checking!BundleRuns : Checking!Place(r[1], r[2]) \in Checking!AddedLines(diff)}
    BY <1>4
  <1> QED BY <1>5, <1>6, Zenon DEF Checking!AnnotateIfApplicable, diff

LEMMA ChecksAnnotate == ChecksInv => Checking!Annotated
  <1> DEFINE diff == kReq.diffs[Checking!DiffRange(kReq.env)]
             posted == {<<n[1], n[2], n[3] = "error">> : n \in kNotes}
             added == Checking!AddedLines(diff)
  <1> SUFFICES ASSUME ChecksInv, kPc = "done", kReq.what = "lint", kReq.env.actions, ~Checking!Confusing(diff)
               PROVE  /\ \A t \in Checking!Tools : Checking!Complete(t) /\ Checking!Placed(t) =>
                           {m \in Checking!Meant(t) : <<m[1], m[2]>> \in added} \subseteq posted
                      /\ (\A t \in Checking!Applicable : Checking!Placed(t)) =>
                           posted \subseteq
                             {m \in UNION {Checking!Meant(t) :
                                             t \in {t \in Checking!Tools : kSaid[t] # Checking!Silent}} :
                                <<m[1], m[2]>> \in added}
    BY DEF Checking!Annotated
  <1>n. kNotes = {<<Checking!NormalizeRepoPath(r[1], r[2][1]), r[2][2], Checking!WorkflowCommand(r[2][3])>> :
                    r \in {r \in Checking!BundleRuns : Checking!Place(r[1], r[2]) \in added}}
    BY NotesAre
  <1> HIDE DEF diff, added
  <1>r. Checking!BundleRuns =
          {r \in (Checking!Applicable \ Checking!Broken) \X UNION Checking!Range(kGot) :
             r[2] \in kGot[r[1]]}
    BY DEF Checking!BundleRuns
  <1>1. ASSUME NEW t \in Checking!Tools, Checking!Complete(t), Checking!Placed(t),
               NEW m \in Checking!Meant(t), <<m[1], m[2]>> \in added
        PROVE  m \in posted
    <2> DEFINE codec == kReq.tools[t].codec
               found == UNION Checking!Range(kSaid[t].runs)
    <2>1. kSaid[t] # Checking!Silent /\ codec # "other" /\ WholeOutput(codec, kSaid[t])
      BY <1>1 DEF Checking!Complete, Checking!Silent, WholeOutput
    <2>2. Understood(codec, kSaid[t], kGot[t])
      BY <2>1, ToolSays
    <2>3. Has(codec, kGot[t], found) /\ kGot[t] # Checking!Failed
      BY <2>1, <2>2 DEF Understood, Keeps
    <2>4. PICK s \in found : m = <<Checking!Absolute(s[1]), s[2], Checking!IsError(t, s[3])>>
      BY <1>1 DEF Checking!Meant
    <2>5. PICK g \in kGot[t] : Same(codec, g, s)
      BY <2>3 DEF Has
    <2>6. IsSequence(s[1])
      BY <2>1, FoundIn
    <2>7. Checking!NormalizeRepoPath(t, g[1]) = Checking!Absolute(s[1]) /\ g[2] = s[2]
      <3>1. g[1] = s[1] /\ g[2] = s[2]
        BY <2>5 DEF Same
      <3> QED BY <1>1, <2>6, <3>1, PlaceOf
    <2>8. (Checking!WorkflowCommand(g[3]) = "error") = Checking!IsError(t, s[3])
      BY <2>5 DEF Same, IsErrorOf, Checking!IsError
    <2>9. <<t, g>> \in Checking!BundleRuns
      <3>1. t \in Checking!Applicable \ Checking!Broken
        BY <2>1, <2>3 DEF Checking!Applicable, Checking!Broken, ChecksInv, ToolInv, Lints
      <3>2. g \in UNION Checking!Range(kGot)
        BY DEF Checking!Range, ChecksInv
      <3> QED BY <1>r, <3>1, <3>2
    <2>10. Checking!Place(t, g) \in added
      <3>1. Checking!Place(t, g) = <<m[1], m[2]>>
        BY <2>4, <2>7 DEF Checking!Place
      <3> QED BY <1>1, <3>1
    <2> HIDE DEF codec, found
    <2>11. <<Checking!NormalizeRepoPath(t, g[1]), g[2], Checking!WorkflowCommand(g[3])>> \in kNotes
      <3>1. <<t, g>>[1] = t /\ <<t, g>>[2] = g
        OBVIOUS
      <3> QED BY <1>n, <2>9, <2>10, <3>1
    <2>12. <<Checking!NormalizeRepoPath(t, g[1]), g[2], Checking!WorkflowCommand(g[3]) = "error">> \in posted
      BY <2>11
    <2> QED BY <2>4, <2>7, <2>8, <2>12
  <1>2. ASSUME \A t \in Checking!Applicable : Checking!Placed(t), NEW p \in posted
        PROVE  /\ \E t \in Checking!Tools : kSaid[t] # Checking!Silent /\ p \in Checking!Meant(t)
               /\ <<p[1], p[2]>> \in added
    <2>1. PICK n \in kNotes : p = <<n[1], n[2], n[3] = "error">>
      OBVIOUS
    <2>2. PICK r \in Checking!BundleRuns :
            /\ Checking!Place(r[1], r[2]) \in added
            /\ n = <<Checking!NormalizeRepoPath(r[1], r[2][1]), r[2][2], Checking!WorkflowCommand(r[2][3])>>
      BY <1>n
    <2> DEFINE t == r[1]
               g == r[2]
               codec == kReq.tools[t].codec
               found == UNION Checking!Range(kSaid[t].runs)
    <2>3. t \in Checking!Tools /\ t \in Checking!Applicable /\ kGot[t] # Checking!Failed /\ g \in kGot[t]
      BY <1>r DEF Checking!Applicable, Checking!Broken
    <2>4. /\ Checking!Place(t, g) \in added
          /\ n = <<Checking!NormalizeRepoPath(t, g[1]), g[2], Checking!WorkflowCommand(g[3])>>
      BY <2>2
    <2> HIDE DEF t, g
    <2>5. kSaid[t] # Checking!Silent
      BY <2>3 DEF ChecksInv, ToolInv
    <2>6. Understood(codec, kSaid[t], kGot[t])
      <3>1. codec # "other"
        BY <2>3, <2>5, OtherFails
      <3> QED BY <2>3, <2>5, <3>1, ToolSays
    <2>7. Only(codec, kGot[t], found)
      BY <2>3, <2>6 DEF Understood
    <2>8. PICK s \in found : Same(codec, g, s)
      BY <2>3, <2>7 DEF Only
    <2>9. IsSequence(s[1])
      BY <2>3, <2>5, FoundIn
    <2>10. Checking!NormalizeRepoPath(t, g[1]) = Checking!Absolute(s[1]) /\ g[2] = s[2]
      <3>1. g[1] = s[1] /\ g[2] = s[2]
        BY <2>8 DEF Same
      <3> QED BY <1>2, <2>3, <2>9, <3>1, PlaceOf
    <2>11. (Checking!WorkflowCommand(g[3]) = "error") = Checking!IsError(t, s[3])
      BY <2>8 DEF Same, IsErrorOf, Checking!IsError
    <2>12. p = <<Checking!Absolute(s[1]), s[2], Checking!IsError(t, s[3])>>
      BY <2>1, <2>4, <2>10, <2>11
    <2>13. p \in Checking!Meant(t)
      BY <2>12 DEF Checking!Meant
    <2>14. <<p[1], p[2]>> \in added
      BY <2>4, <2>10, <2>12 DEF Checking!Place
    <2> QED BY <2>3, <2>5, <2>13, <2>14
  <1> QED BY <1>1, <1>2

--------------------------------------------------------------------------------
(* What sources are pinned to, see SourcePinsProofs: the actions of that module, instantiated *)
(* here, are those of Workspace. *)

PinningProofs ==
  INSTANCE SourcePinsProofs WITH
    Machines <- SMachines, Commits <- SCommits, Branches <- SBranches, Tags <- STags,
    HexTags <- SHexTags, Text <- SText, Accepts <- SAccepts, Groups <- SGroups, Starts <- SStarts,
    Versions <- SVersions, PageSize <- SPageSize, MaxPages <- SMaxPages, MaxRuns <- SMaxRuns,
    MaxMoves <- SMaxMoves,
    names <- sNames, head <- sHead, cue <- sCue, row <- sRow, cache <- sCache, cmd <- sCmd,
    moved <- sMoved, stayed <- sStayed, runs <- sRuns, moves <- sMoves

LEMMA SourcesAssumed == PinningProofs!Assumptions
  BY SourcesAssumption DEF Pinning!TagSet, PinningProofs!TagSet, Pinning!Range,
                           PinningProofs!Range, Pinning!Names, PinningProofs!Names, Pinning!Gone,
                           PinningProofs!Gone, Pinning!Nothing, PinningProofs!Nothing,
                           Pinning!HeadRef, PinningProofs!HeadRef, Pinning!Ref, PinningProofs!Ref,
                           Pinning!Sha, PinningProofs!Sha, Pinning!Pattern, PinningProofs!Pattern,
                           PinningProofs!Assumptions, PinningProofs!IsSequence, IsSequence

LEMMA SameChoice ==
  /\ \A p, listed : Pinning!SelectNewestTag(p, listed) = PinningProofs!SelectNewestTag(p, listed)
  /\ \A t : Pinning!ShaByName(t) = PinningProofs!ShaByName(t)
  <1>1. \A p, t : Pinning!RankTag(p, t) = PinningProofs!RankTag(p, t)
    BY Zenon DEF Pinning!RankTag, PinningProofs!RankTag, Pinning!VersionText,
               PinningProofs!VersionText
  <1>2. \A a, b : Pinning!NewerThan(a, b) = PinningProofs!NewerThan(a, b)
    BY Zenon DEF Pinning!NewerThan, PinningProofs!NewerThan, Pinning!Bigger, PinningProofs!Bigger,
               Pinning!PreNewer, PinningProofs!PreNewer, Pinning!At, PinningProofs!At,
               Pinning!ComparesAs, PinningProofs!ComparesAs
  <1>3. ASSUME NEW p PROVE Pinning!NewerTags(p) = PinningProofs!NewerTags(p)
    <2>1. Pinning!TagSet = PinningProofs!TagSet
      BY DEF Pinning!TagSet, PinningProofs!TagSet, Pinning!Range, PinningProofs!Range
    <2> QED BY <1>1, <1>2, <2>1 DEF Pinning!NewerTags, PinningProofs!NewerTags
  <1>4. \A p, newer, listed : Pinning!BestOf(p, newer, listed) = PinningProofs!BestOf(p, newer, listed)
    BY Zenon DEF Pinning!BestOf, PinningProofs!BestOf, Pinning!TagMatches, PinningProofs!TagMatches
  <1>5. \A p, listed : Pinning!SelectNewestTag(p, listed) = PinningProofs!SelectNewestTag(p, listed)
    BY <1>3, <1>4, Zenon DEF Pinning!SelectNewestTag, PinningProofs!SelectNewestTag
  <1>6. \A t : Pinning!ShaByName(t) = PinningProofs!ShaByName(t)
    BY Zenon DEF Pinning!ShaByName, PinningProofs!ShaByName, Pinning!FirstMention,
               PinningProofs!FirstMention
  <1> QED BY <1>5, <1>6

LEMMA SamePinned == PinningProofs!Pinned => Pinning!Pinned
  <1>1. \A p, t : Pinning!RankTag(p, t) = PinningProofs!RankTag(p, t)
    BY Zenon DEF Pinning!RankTag, PinningProofs!RankTag, Pinning!VersionText,
               PinningProofs!VersionText
  <1>2. ASSUME NEW p, NEW s, NEW t PROVE Pinning!Older(p, s, t) = PinningProofs!Older(p, s, t)
    BY Zenon DEF Pinning!Older, PinningProofs!Older, Pinning!Earlier, PinningProofs!Earlier,
               Pinning!Spelled, PinningProofs!Spelled, Pinning!Place, PinningProofs!Place,
               Pinning!VersionText, PinningProofs!VersionText
  <1>3. PinningProofs!NewestPinned => Pinning!NewestPinned
    <2>1. ASSUME NEW p, NEW t PROVE Pinning!IsNewest(p, t) = PinningProofs!IsNewest(p, t)
      BY <1>1, <1>2, Zenon DEF Pinning!IsNewest, PinningProofs!IsNewest
    <2> QED BY <2>1, Zenon DEF Pinning!NewestPinned, PinningProofs!NewestPinned, Pinning!TagMatches,
                               PinningProofs!TagMatches
  <1>4. PinningProofs!LockedReads => Pinning!LockedReads
    BY Zenon DEF Pinning!LockedReads, PinningProofs!LockedReads, Pinning!TagMatches,
               PinningProofs!TagMatches, Pinning!Nothing, PinningProofs!Nothing, Pinning!NoRow,
               PinningProofs!NoRow, Pinning!Gone, PinningProofs!Gone
  <1> QED BY <1>3, <1>4 DEF Pinning!Pinned, PinningProofs!Pinned

LEMMA PinSteps == [Pinning!Next]_pinVars => [PinningProofs!Next]_(PinningProofs!vars)
  <1>1. Pinning!Next => PinningProofs!Next
    <2>1. ASSUME NEW m, NEW job, NEW fresh, Pinning!Begin(m, job, fresh)
          PROVE  PinningProofs!Begin(m, job, fresh)
      <3>1. Pinning!Overlay(sCue, sRow) = PinningProofs!Overlay(sCue, sRow)
        BY Zenon DEF Pinning!Overlay, PinningProofs!Overlay, Pinning!Gone, PinningProofs!Gone,
               Pinning!Nothing, PinningProofs!Nothing, Pinning!NoRow, PinningProofs!NoRow,
               Pinning!Ref, PinningProofs!Ref, Pinning!TagMatches, PinningProofs!TagMatches
      <3>2. Pinning!LockReusable(sRow) = PinningProofs!LockReusable(sRow)
        BY DEF Pinning!LockReusable, PinningProofs!LockReusable, Pinning!NoRow,
               PinningProofs!NoRow, Pinning!Gone, PinningProofs!Gone
      <3>3. Pinning!LockMatchesDesired(sCue, sRow) = PinningProofs!LockMatchesDesired(sCue, sRow)
        BY Zenon DEF Pinning!LockMatchesDesired, PinningProofs!LockMatchesDesired,
               Pinning!TagMatches, PinningProofs!TagMatches
      <3>4. /\ Pinning!Idle = PinningProofs!Idle /\ Pinning!Gone = PinningProofs!Gone
            /\ Pinning!TagSet = PinningProofs!TagSet
        BY Zenon DEF Pinning!Idle, PinningProofs!Idle, Pinning!Gone, PinningProofs!Gone,
               Pinning!Nothing, PinningProofs!Nothing, Pinning!NoRow, PinningProofs!NoRow,
               Pinning!TagSet, PinningProofs!TagSet, Pinning!Range, PinningProofs!Range
      <3> QED BY <2>1, <3>1, <3>2, <3>3, <3>4 DEF Pinning!Begin, PinningProofs!Begin
    <2>2. Pinning!ListTags => PinningProofs!ListTags
      BY Zenon DEF Pinning!ListTags, PinningProofs!ListTags, Pinning!There, PinningProofs!There,
             Pinning!Gone, PinningProofs!Gone, Pinning!World, PinningProofs!World
    <2>3. Pinning!NewestTag => PinningProofs!NewestTag
      BY SameChoice, Zenon DEF Pinning!NewestTag, PinningProofs!NewestTag, Pinning!Ref, PinningProofs!Ref,
             Pinning!World, PinningProofs!World
    <2>4. Pinning!EnsureSource => PinningProofs!EnsureSource
      BY Zenon DEF Pinning!EnsureSource, PinningProofs!EnsureSource, Pinning!CacheKey,
             PinningProofs!CacheKey, Pinning!ResolvePinned, PinningProofs!ResolvePinned,
             Pinning!Gone, PinningProofs!Gone, Pinning!Nothing, PinningProofs!Nothing,
             Pinning!World, PinningProofs!World
    <2>5. Pinning!Pin => PinningProofs!Pin
      BY Zenon DEF Pinning!Pin, PinningProofs!Pin, Pinning!TrackingRef, PinningProofs!TrackingRef,
             Pinning!World, PinningProofs!World
    <2>6. Pinning!Fail => PinningProofs!Fail
      BY Zenon DEF Pinning!Fail, PinningProofs!Fail, Pinning!World, PinningProofs!World
    <2>7. \A n, c : Pinning!Point(n, c) => PinningProofs!Point(n, c)
      BY Zenon DEF Pinning!Point, PinningProofs!Point, Pinning!Move, PinningProofs!Move, Pinning!Gone,
             PinningProofs!Gone
    <2>8. \A b : Pinning!Rename(b) => PinningProofs!Rename(b)
      BY Zenon DEF Pinning!Rename, PinningProofs!Rename, Pinning!Move, PinningProofs!Move
    <2>9. \A v : Pinning!Edit(v) => PinningProofs!Edit(v)
      BY Zenon DEF Pinning!Edit, PinningProofs!Edit, Pinning!Move, PinningProofs!Move
    <2>10. PinningProofs!Names = Pinning!Names /\ PinningProofs!Gone = Pinning!Gone
      BY DEF Pinning!Names, PinningProofs!Names, Pinning!TagSet, PinningProofs!TagSet,
             Pinning!Range, PinningProofs!Range, Pinning!Gone, PinningProofs!Gone
    <2> SUFFICES ASSUME Pinning!Next PROVE PinningProofs!Next
      OBVIOUS
    <2>11. CASE \E m \in SMachines, job \in {"lock", "refresh", "read"}, fresh \in BOOLEAN :
                  Pinning!Begin(m, job, fresh)
      BY <2>1, <2>11, Zenon DEF PinningProofs!Next
    <2>12. CASE \/ Pinning!ListTags \/ Pinning!NewestTag \/ Pinning!EnsureSource \/ Pinning!Pin
                \/ Pinning!Fail
      BY <2>2, <2>3, <2>4, <2>5, <2>6, <2>12, Zenon DEF PinningProofs!Next
    <2>13. CASE \E n \in Pinning!Names, c \in SCommits \cup {Pinning!Gone} : Pinning!Point(n, c)
      BY <2>7, <2>10, <2>13, Zenon DEF PinningProofs!Next
    <2>14. CASE \E b \in SBranches : Pinning!Rename(b)
      BY <2>8, <2>14, Zenon DEF PinningProofs!Next
    <2>15. CASE \E v \in SVersions : Pinning!Edit(v)
      BY <2>9, <2>15, Zenon DEF PinningProofs!Next
    <2> QED BY <2>11, <2>12, <2>13, <2>14, <2>15, Zenon DEF Pinning!Next
  <1>2. UNCHANGED pinVars => UNCHANGED PinningProofs!vars
    BY DEF pinVars, PinningProofs!vars
  <1> QED BY <1>1, <1>2

LEMMA PinsInit == Pinning!Init => PinningProofs!PinsInv
  <1>1. Pinning!Init => PinningProofs!Init
    BY DEF Pinning!Init, PinningProofs!Init, Pinning!Idle, PinningProofs!Idle, Pinning!Keys,
           PinningProofs!Keys, Pinning!Names, PinningProofs!Names, Pinning!TagSet,
           PinningProofs!TagSet, Pinning!Range, PinningProofs!Range, Pinning!Gone,
           PinningProofs!Gone, Pinning!Nothing, PinningProofs!Nothing, Pinning!NoRow,
           PinningProofs!NoRow
  <1> QED BY <1>1, SourcesAssumed, PinningProofs!PinsInit

LEMMA PinsNext == PinningProofs!PinsInv /\ [Pinning!Next]_pinVars => PinningProofs!PinsInv'
  BY PinSteps, SourcesAssumed, PinningProofs!PinsNext

LEMMA PinsPinned == PinningProofs!PinsInv => Pinning!Pinned
  BY SourcesAssumed, PinningProofs!PinsHold, SamePinned
=============================================================================
