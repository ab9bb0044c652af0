-------------------------- MODULE SourcePinsProofs --------------------------
(***************************************************************************)
(* The lock pins the newest tag of a pattern, and readers read what is     *)
(* pinned: proof for any machines, names, commits, patterns and pages.     *)
(***************************************************************************)
EXTENDS SourcePins, WellFoundedInduction, SequenceTheorems, TLAPS

IsSequence(s) == s \in Seq({s[n] : n \in DOMAIN s})
(***************************************************************************)
(* No two of a tag, a branch and a commit have the same name, though a tag *)
(* may look like a commit (HexTags), and a pattern matches tags.  What     *)
(* looks like a commit in modot.cue is one.  The text of a tag is parts    *)
(* and a pre-release; there is a branch to start from.                     *)
(***************************************************************************)
Assumptions ==
  /\ IsSequence(Tags) /\ PageSize \in Nat \ {0} /\ Machines # {} /\ Gone \notin Commits
  /\ "HEAD" \notin TagSet /\ Branches \cap TagSet = {} /\ Commits \cap TagSet = {}
  /\ \A t \in TagSet :
       /\ Text[t] = [main |-> Text[t].main, pre |-> Text[t].pre, raw |-> Text[t].raw]
       /\ Text[t].main \in Seq({"n", "w"} \X Nat) /\ Text[t].pre \in Seq({"n", "w"} \X Nat)
  /\ \A p \in DOMAIN Accepts : Accepts[p] \subseteq TagSet
  /\ Starts \subseteq [Names -> Commits \cup {Gone}]
  /\ \A s \in Starts : \E b \in Branches : s[b] # Gone
  /\ Versions \subseteq {Nothing, HeadRef} \cup {Ref(n) : n \in Names \ HexTags}
                          \cup {Sha(c) : c \in Commits} \cup {Pattern(p) : p \in DOMAIN Accepts}

LEMMA SmallestOf ==
  ASSUME NEW T \in SUBSET Nat, T # {}
  PROVE  \E n \in T : \A m \in T : n <= m
  <1> DEFINE R == {p \in Nat \X Nat : p[1] < p[2]}
  <1>1. IsWellFoundedOn(R, Nat)
    BY NatLessThanWellFounded DEF OpToRel
  <1>2. PICK n \in T : \A m \in T : ~(<<m, n>> \in R)
    <2> HIDE DEF R
    <2> QED BY <1>1, WFMin
  <1>3. ASSUME NEW m \in T PROVE n <= m
    <2>1. <<m, n>> \in Nat \X Nat
      OBVIOUS
    <2>2. ~(m < n)
      BY <1>2, <2>1
    <2> QED BY <2>2
  <1> QED BY <1>3

LEMMA ElementsOf ==
  ASSUME NEW S, NEW a \in Seq(S)
  PROVE  /\ Len(a) \in Nat /\ DOMAIN a = 1..Len(a)
         /\ \A i \in DOMAIN a : i \in Nat /\ 1 <= i /\ i <= Len(a) /\ a[i] \in S
  <1>1. Len(a) \in Nat /\ DOMAIN a = 1..Len(a)
    OBVIOUS
  <1>2. ASSUME NEW i \in DOMAIN a PROVE a[i] \in S
    OBVIOUS
  <1>3. ASSUME NEW i \in DOMAIN a PROVE i \in Nat /\ 1 <= i /\ i <= Len(a)
    BY <1>1
  <1> QED BY <1>1, <1>2, <1>3

LEMMA InDomain ==
  ASSUME NEW S, NEW a \in Seq(S), NEW i \in DOMAIN a
  PROVE  1..i \subseteq DOMAIN a
  <1>1. i \in Nat /\ i <= Len(a) /\ Len(a) \in Nat /\ DOMAIN a = 1..Len(a)
    BY ElementsOf
  <1> QED BY <1>1

LEMMA PairNotEmpty ==
  ASSUME NEW S, NEW T, NEW x \in S \X T
  PROVE  x # <<>>
  <1>1. DOMAIN x = 1..2 /\ 1 \in 1..2
    OBVIOUS
  <1>2. DOMAIN <<>> = {}
    OBVIOUS
  <1> QED BY <1>1, <1>2

LEMMA RangeBelow ==
  ASSUME NEW i \in Nat, NEW k \in Nat, 1 <= i, i < k
  PROVE  i \in 1..k - 1 /\ \A j \in 1..i - 1 : j \in 1..k - 1
  OBVIOUS

LEMMA Apart ==
  ASSUME NEW i \in Nat, NEW k \in Nat, 1 <= i, 1 <= k
  PROVE  (i < k \/ k < i \/ i = k) /\ (i < k => i \in 1..k) /\ (k < i => k \in 1..i)
  OBVIOUS

--------------------------------------------------------------------------------
(* The order of versions: the newest of three is newer than the oldest. *)

Positions == Nat \ {0}
Identifiers(a) == a \in Seq({"n", "w"} \X Nat)

LEMMA BiggerAt ==
  ASSUME NEW a \in Seq(Nat), NEW b \in Seq(Nat)
  PROVE  /\ \A i \in Positions : At(a, i) \in Nat
         /\ Bigger(a, b) <=> \E i \in Positions : At(a, i) > At(b, i) /\ \A j \in 1..i - 1 :
              At(a, j) = At(b, j)
  <1>1. \A i \in DOMAIN a : i \in Positions /\ a[i] \in Nat
    BY ElementsOf DEF Positions
  <1>2. \A i \in DOMAIN b : i \in Positions /\ b[i] \in Nat
    BY ElementsOf DEF Positions
  <1>3. \A i : At(a, i) \in Nat /\ At(b, i) \in Nat
    BY <1>1, <1>2 DEF At
  <1>4. \A i : At(a, i) > At(b, i) => i \in DOMAIN a
    <2> SUFFICES ASSUME NEW i, i \notin DOMAIN a PROVE ~(At(a, i) > At(b, i))
      OBVIOUS
    <2>1. At(a, i) = 0
      BY DEF At
    <2>2. At(b, i) \in Nat
      BY <1>3
    <2> QED BY <2>1, <2>2
  <1>5. DOMAIN a \cup DOMAIN b \subseteq Positions
    BY <1>1, <1>2
  <1> QED BY <1>3, <1>4, <1>5 DEF Bigger

LEMMA BiggerTrans ==
  ASSUME NEW a \in Seq(Nat), NEW b \in Seq(Nat), NEW c \in Seq(Nat), Bigger(a, b), Bigger(b, c)
  PROVE  Bigger(a, c)
  <1>1. PICK i \in Positions : At(a, i) > At(b, i) /\ \A j \in 1..i - 1 : At(a, j) = At(b, j)
    BY BiggerAt
  <1>2. PICK k \in Positions : At(b, k) > At(c, k) /\ \A j \in 1..k - 1 : At(b, j) = At(c, j)
    BY BiggerAt
  <1>3. \A j \in Positions : At(a, j) \in Nat /\ At(b, j) \in Nat /\ At(c, j) \in Nat
    BY BiggerAt
  <1>4. CASE i <= k
    <2>1. \A j \in 1..i - 1 : At(a, j) = At(c, j)
      BY <1>1, <1>2, <1>4 DEF Positions
    <2>2. At(b, i) >= At(c, i)
      <3>1. i = k \/ i \in 1..k - 1
        BY <1>4 DEF Positions
      <3> QED BY <1>2, <1>3, <3>1
    <2>3. At(a, i) > At(c, i)
      BY <1>1, <1>3, <2>2
    <2> QED BY <2>1, <2>3, BiggerAt
  <1>5. CASE ~(i <= k)
    <2>1. At(a, k) > At(c, k) /\ \A j \in 1..k - 1 : At(a, j) = At(c, j)
      BY <1>1, <1>2, <1>3, <1>5 DEF Positions
    <2> QED BY <2>1, BiggerAt
  <1> QED BY <1>4, <1>5

LEMMA NeitherBigger ==
  ASSUME NEW a \in Seq(Nat), NEW b \in Seq(Nat), ~Bigger(a, b), ~Bigger(b, a)
  PROVE  \A i \in Positions : At(a, i) = At(b, i)
  <1> DEFINE T == {i \in Positions : At(a, i) # At(b, i)}
  <1> SUFFICES ASSUME T # {} PROVE FALSE
    OBVIOUS
  <1>1. T \in SUBSET Nat
    BY DEF Positions
  <1>2. PICK i \in T : \A m \in T : i <= m
    BY <1>1, SmallestOf
  <1>3. \A j \in 1..i - 1 : At(a, j) = At(b, j)
    BY <1>2 DEF Positions
  <1>4. At(a, i) > At(b, i) \/ At(b, i) > At(a, i)
    BY <1>2, BiggerAt
  <1> QED BY <1>2, <1>3, <1>4, BiggerAt

LEMMA BiggerAlike ==
  ASSUME NEW a \in Seq(Nat), NEW b \in Seq(Nat), NEW c \in Seq(Nat),
         \A i \in Positions : At(a, i) = At(b, i)
  PROVE  (Bigger(a, c) <=> Bigger(b, c)) /\ (Bigger(c, a) <=> Bigger(c, b))
  <1>1. \A i \in Positions : \A j \in 1..i - 1 : j \in Positions
    BY DEF Positions
  <1> QED BY <1>1, BiggerAt

LEMMA NotBigger ==
  ASSUME NEW a \in Seq(Nat), NEW b \in Seq(Nat), Bigger(a, b)
  PROVE  ~Bigger(b, a)
  <1>1. \A i \in Positions : ~(At(a, i) > At(a, i))
    BY BiggerAt
  <1>2. ~Bigger(a, a)
    BY <1>1, BiggerAt
  <1> QED BY <1>2, BiggerTrans

LEMMA ComparesTrans ==
  ASSUME NEW x \in {"n", "w"} \X Nat, NEW y \in {"n", "w"} \X Nat, NEW z \in {"n", "w"} \X Nat,
         ComparesAs(x, y), ComparesAs(y, z)
  PROVE  ComparesAs(x, z)
  <1>1. x[1] \in {"n", "w"} /\ y[1] \in {"n", "w"} /\ z[1] \in {"n", "w"}
    OBVIOUS
  <1>2. x[2] \in Nat /\ y[2] \in Nat /\ z[2] \in Nat
    OBVIOUS
  <1> QED BY <1>1, <1>2 DEF ComparesAs

LEMMA PreTrans ==
  ASSUME NEW a, NEW b, NEW c, Identifiers(a), Identifiers(b), Identifiers(c),
         PreNewer(a, b), PreNewer(b, c)
  PROVE  PreNewer(a, c)
  <1> USE DEF Identifiers
  <1>1. PICK i \in DOMAIN a : /\ \A j \in 1..i - 1 : j \in DOMAIN b /\ a[j] = b[j]
                              /\ i \in DOMAIN b => ComparesAs(a[i], b[i])
    BY DEF PreNewer
  <1>2. PICK k \in DOMAIN b : /\ \A j \in 1..k - 1 : j \in DOMAIN c /\ b[j] = c[j]
                              /\ k \in DOMAIN c => ComparesAs(b[k], c[k])
    BY DEF PreNewer
  <1>3. i \in Nat /\ k \in Nat /\ 1 <= i /\ 1 <= k
    BY ElementsOf
  <1>4. (i < k \/ k < i \/ i = k) /\ (i < k => i \in 1..k) /\ (k < i => k \in 1..i)
    BY <1>3, Apart
  <1>5. 1..k \subseteq DOMAIN b /\ 1..i \subseteq DOMAIN a
    BY InDomain
  <1>6. CASE i < k
    <2>0. i \in 1..k - 1 /\ \A j \in 1..i - 1 : j \in 1..k - 1
      BY <1>3, <1>6, RangeBelow
    <2>1. i \in DOMAIN b /\ i \in DOMAIN c /\ b[i] = c[i]
      BY <1>2, <1>6, <1>4, <1>5, <2>0
    <2>2. \A j \in 1..i - 1 : j \in DOMAIN c /\ a[j] = c[j]
      BY <1>1, <1>2, <2>0
    <2> QED BY <1>1, <2>1, <2>2 DEF PreNewer
  <1>7. CASE k < i
    <2>0. k \in 1..i - 1 /\ \A j \in 1..k - 1 : j \in 1..i - 1
      BY <1>3, <1>7, RangeBelow
    <2>1. k \in DOMAIN a /\ a[k] = b[k]
      BY <1>1, <1>7, <1>4, <1>5, <2>0
    <2>2. \A j \in 1..k - 1 : j \in DOMAIN c /\ a[j] = c[j]
      BY <1>1, <1>2, <2>0
    <2> QED BY <1>2, <2>1, <2>2 DEF PreNewer
  <1>8. CASE i = k
    <2>1. ComparesAs(a[i], b[i])
      BY <1>1, <1>2, <1>8
    <2>2. \A j \in 1..i - 1 : j \in DOMAIN c /\ a[j] = c[j]
      BY <1>1, <1>2, <1>8
    <2>3. i \in DOMAIN c => ComparesAs(a[i], c[i])
      <3> SUFFICES ASSUME i \in DOMAIN c PROVE ComparesAs(a[i], c[i])
        OBVIOUS
      <3>1. ComparesAs(b[i], c[i])
        BY <1>2, <1>8
      <3>2. a[i] \in {"n", "w"} \X Nat /\ b[i] \in {"n", "w"} \X Nat /\ c[i] \in {"n", "w"} \X Nat
        BY <1>2, <1>8, ElementsOf
      <3> QED BY <2>1, <3>1, <3>2, ComparesTrans
    <2> QED BY <2>2, <2>3 DEF PreNewer
  <1> QED BY <1>6, <1>7, <1>8, <1>4

LEMMA PreIrreflexive ==
  ASSUME NEW a, Identifiers(a)
  PROVE  ~PreNewer(a, a)
  <1> SUFFICES ASSUME NEW i \in DOMAIN a, ComparesAs(a[i], a[i]) PROVE FALSE
    BY DEF PreNewer
  <1>1. a[i] \in {"n", "w"} \X Nat
    BY DEF Identifiers
  <1> QED BY <1>1 DEF ComparesAs

Ranked(r) == ~r.lexical /\ r.nums \in Seq(Nat) /\ Identifiers(r.pre)

FinalOrPre(a, b) == IF a = <<>> \/ b = <<>> THEN a = <<>> /\ b # <<>> ELSE PreNewer(a, b)

LEMMA NewerIs ==
  ASSUME NEW a, NEW b, Ranked(a), Ranked(b)
  PROVE  NewerThan(a, b)
           <=> Bigger(a.nums, b.nums) \/ (~Bigger(b.nums, a.nums) /\ FinalOrPre(a.pre, b.pre))
  <1>1. CASE Bigger(a.nums, b.nums)
    <2>1. ~Bigger(b.nums, a.nums)
      BY <1>1, NotBigger DEF Ranked
    <2> QED BY <1>1, <2>1 DEF NewerThan, Ranked
  <1>2. CASE ~Bigger(a.nums, b.nums) /\ Bigger(b.nums, a.nums)
    BY <1>2 DEF NewerThan, Ranked
  <1>3. CASE ~Bigger(a.nums, b.nums) /\ ~Bigger(b.nums, a.nums)
    BY <1>3 DEF NewerThan, Ranked, FinalOrPre
  <1> QED BY <1>1, <1>2, <1>3

LEMMA FinalTrans ==
  ASSUME NEW a, NEW b, NEW c, Identifiers(a), Identifiers(b), Identifiers(c),
         FinalOrPre(a, b), FinalOrPre(b, c)
  PROVE  FinalOrPre(a, c)
  <1>1. b # <<>> /\ c # <<>> /\ PreNewer(b, c)
    BY DEF FinalOrPre
  <1> QED BY <1>1, PreTrans DEF FinalOrPre

LEMMA NewerTrans ==
  ASSUME NEW a, NEW b, NEW c, Ranked(a), Ranked(b), Ranked(c), NewerThan(a, b), NewerThan(b, c)
  PROVE  NewerThan(a, c)
  <1> DEFINE B(x, y) == Bigger(x.nums, y.nums)
  <1>1. /\ B(a, b) \/ (~B(b, a) /\ FinalOrPre(a.pre, b.pre))
        /\ B(b, c) \/ (~B(c, b) /\ FinalOrPre(b.pre, c.pre))
    BY NewerIs
  <1>2. /\ a.nums \in Seq(Nat) /\ b.nums \in Seq(Nat) /\ c.nums \in Seq(Nat)
        /\ Identifiers(a.pre) /\ Identifiers(b.pre) /\ Identifiers(c.pre)
    BY DEF Ranked
  <1>3. CASE B(a, b)
    <2>1. CASE B(b, c)
      <3>1. B(a, c)
        BY <1>2, <1>3, <2>1, BiggerTrans
      <3> QED BY <3>1, NewerIs
    <2>2. CASE ~B(b, c)
      <3>1. \A i \in Positions : At(b.nums, i) = At(c.nums, i)
        BY <1>1, <1>2, <2>2, NeitherBigger
      <3>2. B(b, a) <=> B(c, a)
        BY <1>2, <3>1, BiggerAlike
      <3>3. B(a, b) <=> B(a, c)
        BY <1>2, <3>1, BiggerAlike
      <3> QED BY <1>3, <3>3, NewerIs
    <2> QED BY <2>1, <2>2
  <1>4. CASE ~B(a, b)
    <2>1. \A i \in Positions : At(a.nums, i) = At(b.nums, i)
      BY <1>1, <1>2, <1>4, NeitherBigger
    <2>2. (B(a, c) <=> B(b, c)) /\ (B(c, a) <=> B(c, b))
      BY <1>2, <2>1, BiggerAlike
    <2>3. B(a, c) \/ (~B(c, a) /\ FinalOrPre(a.pre, c.pre))
      BY <1>1, <1>2, <1>4, <2>2, FinalTrans
    <2> QED BY <2>3, NewerIs
  <1> QED BY <1>3, <1>4

LEMMA NewerIrreflexive ==
  ASSUME NEW a, Ranked(a)
  PROVE  ~NewerThan(a, a)
  <1>1. ~Bigger(a.nums, a.nums)
    BY NotBigger DEF Ranked
  <1> QED BY <1>1, PreIrreflexive DEF NewerThan, Ranked
--------------------------------------------------------------------------------
(* A version that is spelled earlier is older. *)

LEMMA VersionTyped ==
  ASSUME Assumptions, NEW p, NEW t \in TagSet
  PROVE  /\ VersionText(p, t).main \in Seq({"n", "w"} \X Nat)
         /\ Identifiers(VersionText(p, t).pre)
  <1> DEFINE text == Text[t]
  <1>1. /\ text.main \in Seq({"n", "w"} \X Nat) /\ text.pre \in Seq({"n", "w"} \X Nat)
        /\ text = [main |-> text.main, pre |-> text.pre, raw |-> text.raw]
    BY DEF Assumptions
  <1>2. CASE Groups[p] = "version"
    BY <1>1, <1>2 DEF VersionText, Identifiers
  <1>3. CASE Groups[p] # "version"
    <2> DEFINE main == [i \in 1..3 |-> IF i \in DOMAIN text.main THEN text.main[i] ELSE <<"n", 0>>]
    <2>1. main \in Seq({"n", "w"} \X Nat)
      <3>1. \A i \in DOMAIN text.main : text.main[i] \in {"n", "w"} \X Nat
        BY <1>1, ElementsOf
      <3>2. <<"n", 0>> \in {"n", "w"} \X Nat
        OBVIOUS
      <3> QED BY <3>1, <3>2
    <2> HIDE DEF main
    <2>2. VersionText(p, t).main = main /\ VersionText(p, t).pre = <<>>
      BY <1>1, <1>3 DEF VersionText, main
    <2> QED BY <2>1, <2>2 DEF Identifiers
  <1> QED BY <1>2, <1>3

LEMMA RankIs ==
  ASSUME Assumptions, NEW p, NEW t \in TagSet, ~RankTag(p, t).lexical
  PROVE  LET text == VersionText(p, t)
             r == RankTag(p, t) IN
         /\ Ranked(r) /\ r.pre = text.pre
         /\ DOMAIN r.nums = DOMAIN text.main
         /\ \A i \in DOMAIN text.main : text.main[i] = <<"n", r.nums[i]>>
  <1> DEFINE text == VersionText(p, t)
             r == RankTag(p, t)
             lexical == text.main = <<>> \/ \E i \in DOMAIN text.main : text.main[i][1] = "w"
  <1>1. text.main \in Seq({"n", "w"} \X Nat) /\ Identifiers(text.pre)
    BY VersionTyped
  <1> HIDE DEF text
  <1>2. r.lexical = lexical /\ r.pre = text.pre
        /\ r.nums = IF lexical THEN <<>> ELSE [i \in DOMAIN text.main |-> text.main[i][2]]
    BY DEF RankTag, text
  <1>3. ~lexical /\ r.nums = [i \in DOMAIN text.main |-> text.main[i][2]]
    BY <1>2
  <1>4. \A i \in DOMAIN text.main : text.main[i] = <<"n", text.main[i][2]>> /\ text.main[i][2] \in Nat
    <2> SUFFICES ASSUME NEW i \in DOMAIN text.main
                 PROVE  text.main[i] = <<"n", text.main[i][2]>> /\ text.main[i][2] \in Nat
      OBVIOUS
    <2>1. text.main[i] \in {"n", "w"} \X Nat /\ text.main[i][1] # "w"
      BY <1>1, <1>3
    <2> QED BY <2>1
  <1>5. r.nums \in Seq(Nat)
    <2>1. Len(text.main) \in Nat /\ DOMAIN text.main = 1..Len(text.main)
      BY <1>1, ElementsOf
    <2>2. \A i \in 1..Len(text.main) : text.main[i][2] \in Nat
      BY <1>4, <2>1
    <2>3. [i \in 1..Len(text.main) |-> text.main[i][2]] \in Seq(Nat)
      BY <2>1, <2>2
    <2> QED BY <1>3, <2>1, <2>3
  <1> QED BY <1>1, <1>2, <1>3, <1>4, <1>5 DEF Ranked, text

\* Position i of a spelled version: a part, an identifier of the pre-release, or its end.
Mark(pre, k) ==
  IF pre = <<>> THEN <<"release", 0>> ELSE IF k \in DOMAIN pre THEN pre[k] ELSE <<"end", 0>>

LEMMA SpelledAt ==
  ASSUME Assumptions, NEW p, NEW t \in TagSet, NEW n \in Nat, ~RankTag(p, t).lexical,
         Len(VersionText(p, t).main) <= n
  PROVE  LET r == RankTag(p, t)
             s == Spelled(p, t, n) IN
         /\ DOMAIN s = 1..n + (IF r.pre = <<>> THEN 1 ELSE Len(r.pre) + 1)
         /\ \A i \in 1..n : s[i] = <<"n", At(r.nums, i)>>
         /\ \A k \in 1..(IF r.pre = <<>> THEN 1 ELSE Len(r.pre) + 1) : s[n + k] = Mark(r.pre, k)
  <1> DEFINE r == RankTag(p, t)
             text == VersionText(p, t)
             parts == [i \in 1..n |-> IF i \in DOMAIN text.main THEN text.main[i] ELSE <<"n", 0>>]
             rest == IF text.pre = <<>> THEN <<<<"release", 0>>>> ELSE text.pre \o <<<<"end", 0>>>>
             Elements == {"n", "w", "end", "release"} \X Nat
  <1>1. /\ Ranked(r) /\ r.pre = text.pre /\ DOMAIN r.nums = DOMAIN text.main
        /\ \A i \in DOMAIN text.main : text.main[i] = <<"n", r.nums[i]>>
    BY RankIs
  <1>2. r.pre \in Seq({"n", "w"} \X Nat) /\ r.nums \in Seq(Nat)
    BY <1>1 DEF Ranked, Identifiers
  <1>3. Spelled(p, t, n) = parts \o rest
    BY DEF Spelled
  <1> HIDE DEF r, text
  <1>4. \A i \in 1..n : parts[i] = <<"n", At(r.nums, i)>> /\ At(r.nums, i) \in Nat
    BY <1>1, <1>2 DEF At
  <1>5. parts \in Seq(Elements) /\ Len(parts) = n
    BY <1>4
  <1>6. rest \in Seq(Elements) /\ Len(rest) = IF r.pre = <<>> THEN 1 ELSE Len(r.pre) + 1
    <2>1. CASE text.pre = <<>>
      BY <1>1, <2>1
    <2>2. CASE text.pre # <<>>
      <3>1. text.pre \in Seq(Elements) /\ <<<<"end", 0>>>> \in Seq(Elements)
        BY <1>1, <1>2
      <3> QED BY <1>1, <2>2, <3>1
    <2> QED BY <2>1, <2>2
  <1>7. \A k \in 1..(IF r.pre = <<>> THEN 1 ELSE Len(r.pre) + 1) : rest[k] = Mark(r.pre, k)
    <2>1. CASE text.pre = <<>>
      BY <1>1, <2>1 DEF Mark
    <2>2. CASE text.pre # <<>>
      <3>1. text.pre \in Seq(Elements) /\ <<<<"end", 0>>>> \in Seq(Elements)
        BY <1>1, <1>2
      <3>2. Len(<<<<"end", 0>>>>) = 1 /\ <<<<"end", 0>>>>[1] = <<"end", 0>>
        OBVIOUS
      <3> QED BY <1>1, <2>2, <3>1, <3>2 DEF Mark
    <2> QED BY <2>1, <2>2
  <1> HIDE DEF parts, rest, Elements
  <1>8. DOMAIN (parts \o rest) = 1..n + Len(rest)
    <2>1. rest \in Seq(Elements)
      BY <1>6
    <2>2. parts \o rest \in Seq(Elements) /\ Len(parts \o rest) = Len(parts) + Len(rest)
      BY <1>5, <2>1
    <2> QED BY <1>5, <2>2
  <1>9. \A i \in 1..n : (parts \o rest)[i] = parts[i]
    BY <1>5, <1>6
  <1>10. \A k \in 1..Len(rest) : (parts \o rest)[n + k] = rest[k]
    BY <1>5, <1>6
  <1> QED BY <1>3, <1>4, <1>6, <1>7, <1>8, <1>9, <1>10 DEF r

LEMMA OlderIsNewer ==
  ASSUME Assumptions, NEW p, NEW s \in TagSet, NEW t \in TagSet,
         ~RankTag(p, s).lexical, ~RankTag(p, t).lexical, Older(p, s, t)
  PROVE  NewerThan(RankTag(p, t), RankTag(p, s))
  <1> DEFINE n == Len(VersionText(p, s).main) + Len(VersionText(p, t).main)
             a == Spelled(p, s, n)
             b == Spelled(p, t, n)
             x == RankTag(p, s)
             y == RankTag(p, t)
             Size(r) == IF r.pre = <<>> THEN 1 ELSE Len(r.pre) + 1
  <1>0. /\ n \in Nat /\ Len(VersionText(p, s).main) <= n /\ Len(VersionText(p, t).main) <= n
        /\ Len(VersionText(p, s).main) \in Nat /\ Len(VersionText(p, t).main) \in Nat
    <2> DEFINE l == Len(VersionText(p, s).main)
               m == Len(VersionText(p, t).main)
    <2>1. l \in Nat /\ m \in Nat
      BY VersionTyped
    <2>2. n = l + m
      OBVIOUS
    <2> HIDE DEF l, m, n
    <2>3. n \in Nat /\ l <= n /\ m <= n
      BY <2>1, <2>2
    <2> QED BY <2>1, <2>3 DEF l, m
  <1>1. /\ Ranked(x) /\ Ranked(y)
        /\ DOMAIN x.nums = DOMAIN VersionText(p, s).main
        /\ DOMAIN y.nums = DOMAIN VersionText(p, t).main
    BY RankIs
  <1>2. PICK i \in DOMAIN a \cap DOMAIN b :
          /\ \A j \in 1..i - 1 : a[j] = b[j]
          /\ Place(a[i]) < Place(b[i]) \/ (a[i][1] = b[i][1] /\ a[i][2] < b[i][2])
    BY DEF Older, Earlier
  <1> HIDE DEF n
  <1>3. /\ DOMAIN a = 1..n + Size(x) /\ DOMAIN b = 1..n + Size(y)
        /\ \A j \in 1..n : a[j] = <<"n", At(x.nums, j)>> /\ b[j] = <<"n", At(y.nums, j)>>
        /\ \A k \in 1..Size(x) : a[n + k] = Mark(x.pre, k)
        /\ \A k \in 1..Size(y) : b[n + k] = Mark(y.pre, k)
    BY <1>0, SpelledAt
  <1> HIDE DEF a, b, x, y
  <1>4. /\ x.nums \in Seq(Nat) /\ y.nums \in Seq(Nat)
        /\ x.pre \in Seq({"n", "w"} \X Nat) /\ y.pre \in Seq({"n", "w"} \X Nat)
        /\ ~x.lexical /\ ~y.lexical
    BY <1>1 DEF Ranked, Identifiers
  <1>5. Size(x) \in Nat /\ Size(y) \in Nat /\ i \in Nat /\ i > 0
    <2>1. Size(x) \in Nat /\ Size(y) \in Nat
      <3>1. Len(x.pre) \in Nat /\ Len(y.pre) \in Nat
        BY <1>4, ElementsOf
      <3> QED BY <3>1
    <2>2. i \in 1..n + Size(x)
      BY <1>2, <1>3
    <2> HIDE DEF Size
    <2> QED BY <1>0, <2>1, <2>2
  <1>6. CASE i <= n
    <2>1. /\ a[i] = <<"n", At(x.nums, i)>> /\ b[i] = <<"n", At(y.nums, i)>>
          /\ At(x.nums, i) \in Nat /\ At(y.nums, i) \in Nat
      <3>1. i \in 1..n /\ i \in Positions
        <4> HIDE DEF Size
        <4> QED BY <1>0, <1>5, <1>6 DEF Positions
      <3>2. At(x.nums, i) \in Nat /\ At(y.nums, i) \in Nat
        BY <1>4, <3>1, BiggerAt
      <3> QED BY <1>3, <3>1, <3>2
    <2>2. At(y.nums, i) > At(x.nums, i)
      BY <1>2, <2>1 DEF Place
    <2>3. \A j \in 1..i - 1 : At(y.nums, j) = At(x.nums, j)
      <3> SUFFICES ASSUME NEW j \in 1..i - 1 PROVE At(y.nums, j) = At(x.nums, j)
        OBVIOUS
      <3>1. a[j] = b[j]
        BY <1>2
      <3>2. j \in 1..n
        BY <1>0, <1>5, <1>6
      <3> QED BY <1>3, <3>1, <3>2
    <2>4. Bigger(y.nums, x.nums)
      BY <1>4, <1>5, <2>2, <2>3, BiggerAt DEF Positions
    <2> QED BY <1>1, <2>4, NewerIs DEF x, y
  <1>7. CASE ~(i <= n)
    <2>1. \A j \in Positions : At(x.nums, j) = At(y.nums, j)
      <3> SUFFICES ASSUME NEW j \in Positions PROVE At(x.nums, j) = At(y.nums, j)
        OBVIOUS
      <3>1. CASE j <= n
        <4>1. j \in 1..n /\ j \in 1..i - 1
          BY <1>0, <1>5, <1>7, <3>1 DEF Positions
        <4>2. a[j] = b[j]
          BY <1>2, <4>1
        <4> QED BY <1>3, <4>1, <4>2
      <3>2. CASE ~(j <= n)
        <4>1. j \notin DOMAIN x.nums /\ j \notin DOMAIN y.nums
          <5>1. DOMAIN x.nums \subseteq 1..n /\ DOMAIN y.nums \subseteq 1..n
            <6>1. /\ DOMAIN VersionText(p, s).main = 1..Len(VersionText(p, s).main)
                  /\ DOMAIN VersionText(p, t).main = 1..Len(VersionText(p, t).main)
              BY VersionTyped, ElementsOf
            <6> QED BY <1>0, <1>1, <6>1
          <5> QED BY <3>2, <5>1
        <4> QED BY <4>1 DEF At
      <3> QED BY <3>1, <3>2
    <2>2. ~Bigger(x.nums, y.nums) /\ ~Bigger(y.nums, x.nums)
      <3>1. Bigger(x.nums, y.nums) <=> Bigger(y.nums, y.nums)
        BY <1>4, <2>1, BiggerAlike
      <3>2. Bigger(y.nums, x.nums) <=> Bigger(y.nums, y.nums)
        BY <1>4, <2>1, BiggerAlike
      <3> QED BY <1>4, <3>1, <3>2, NotBigger
    <2> DEFINE k == i - n
    <2>3. k \in 1..Size(x) /\ k \in 1..Size(y) /\ i = n + k
      <3>1. i \in 1..n + Size(x) /\ i \in 1..n + Size(y)
        BY <1>2, <1>3
      <3> HIDE DEF Size
      <3> QED BY <1>0, <1>5, <1>7, <3>1
    <2>4. a[i] = Mark(x.pre, k) /\ b[i] = Mark(y.pre, k)
      BY <1>3, <2>3
    <2>5. \A j \in 1..k - 1 : Mark(x.pre, j) = Mark(y.pre, j)
      <3> SUFFICES ASSUME NEW j \in 1..k - 1 PROVE Mark(x.pre, j) = Mark(y.pre, j)
        OBVIOUS
      <3>1. j \in 1..Size(x) /\ j \in 1..Size(y) /\ n + j \in 1..i - 1
        <4> HIDE DEF Size
        <4> QED BY <1>0, <1>5, <2>3
      <3>2. a[n + j] = b[n + j]
        BY <1>2, <3>1
      <3> QED BY <1>3, <3>1, <3>2
    <2> HIDE DEF k
    <2>6. FinalOrPre(y.pre, x.pre)
      <3>1. CASE x.pre = <<>>
        <4>1. Mark(x.pre, k) = <<"release", 0>>
          BY <3>1 DEF Mark
        <4>2. Mark(y.pre, k)[1] \in {"release", "end", "n", "w"}
          BY <1>4, <2>3 DEF Mark
        <4>3. Mark(y.pre, k)[1] = "release" => Mark(y.pre, k) = <<"release", 0>>
          <5>1. k \in DOMAIN y.pre => y.pre[k] \in {"n", "w"} \X Nat
            BY <1>4
          <5> QED BY <5>1 DEF Mark
        <4> QED BY <1>2, <2>4, <4>1, <4>2, <4>3 DEF Place
      <3>2. CASE x.pre # <<>> /\ y.pre = <<>>
        BY <3>2 DEF FinalOrPre
      <3>3. CASE x.pre # <<>> /\ y.pre # <<>>
        <4>1. k \in 1..Len(x.pre) + 1 /\ k \in 1..Len(y.pre) + 1 /\ Len(x.pre) \in Nat
                /\ Len(y.pre) \in Nat
          BY <1>4, <2>3, <3>3
        <4>2. \A j \in 1..k - 1 : j \in DOMAIN x.pre /\ y.pre[j] = x.pre[j]
          <5> SUFFICES ASSUME NEW j \in 1..k - 1 PROVE j \in DOMAIN x.pre /\ y.pre[j] = x.pre[j]
            OBVIOUS
          <5>1. j \in 1..Len(x.pre) /\ j \in 1..Len(y.pre)
            BY <4>1
          <5>2. j \in DOMAIN x.pre /\ j \in DOMAIN y.pre
            BY <1>4, <5>1, ElementsOf
          <5> QED BY <2>5, <3>3, <5>2 DEF Mark
        <4>3. k \in DOMAIN y.pre
          <5> SUFFICES ASSUME k \notin DOMAIN y.pre PROVE FALSE
            OBVIOUS
          <5>1. Mark(y.pre, k) = <<"end", 0>>
            BY <3>3 DEF Mark
          <5>2. Mark(x.pre, k) = <<"end", 0>> \/ Mark(x.pre, k) \in {"n", "w"} \X Nat
            BY <1>4, <3>3 DEF Mark
          <5> QED BY <1>2, <2>4, <5>1, <5>2 DEF Place
        <4>4. k \in DOMAIN x.pre => ComparesAs(y.pre[k], x.pre[k])
          <5> SUFFICES ASSUME k \in DOMAIN x.pre PROVE ComparesAs(y.pre[k], x.pre[k])
            OBVIOUS
          <5>1. a[i] = x.pre[k] /\ b[i] = y.pre[k]
            BY <2>4, <3>3, <4>3 DEF Mark
          <5>2. x.pre[k] \in {"n", "w"} \X Nat /\ y.pre[k] \in {"n", "w"} \X Nat
            BY <1>4, <4>3
          <5>3. x.pre[k][1] \in {"n", "w"} /\ y.pre[k][1] \in {"n", "w"}
                /\ x.pre[k][2] \in Nat /\ y.pre[k][2] \in Nat
            BY <5>2
          <5> QED BY <1>2, <5>1, <5>3 DEF Place, ComparesAs
        <4>5. PreNewer(y.pre, x.pre)
          BY <4>2, <4>3, <4>4 DEF PreNewer
        <4> QED BY <3>3, <4>5 DEF FinalOrPre
      <3> QED BY <3>1, <3>2, <3>3
    <2> QED BY <1>1, <2>2, <2>6, NewerIs DEF x, y
  <1> QED BY <1>6, <1>7
--------------------------------------------------------------------------------
(* Recursive functions on 0..L, and induction over it. *)

LEMMA Upwards ==
  ASSUME NEW L \in Nat, NEW T, 0 \in T, \A n \in 1..L : n - 1 \in T => n \in T
  PROVE  0..L \subseteq T
  <1> DEFINE Missing == (0..L) \ T
  <1> SUFFICES ASSUME Missing # {} PROVE FALSE
    OBVIOUS
  <1>1. PICK n \in Missing : \A m \in Missing : n <= m
    <2>1. Missing \in SUBSET Nat
      OBVIOUS
    <2> HIDE DEF Missing
    <2> QED BY <2>1, SmallestOf
  <1>2. n \in 1..L /\ n - 1 \in 0..L /\ ~(n <= n - 1)
    BY <1>1
  <1>3. n - 1 \in T
    BY <1>1, <1>2
  <1> QED BY <1>1, <1>2, <1>3

Computed(f, L, S, start, step) ==
  f \in [0..L -> S] /\ f[0] = start /\ \A n \in 1..L : f[n] = step[<<n, f[n - 1]>>]

LEMMA Recursion ==
  ASSUME NEW L \in Nat, NEW S, NEW start \in S, NEW step \in [(1..L) \X S -> S]
  PROVE  \E f : Computed(f, L, S, start, step)
  <1> DEFINE Follows(f, n) == f[0] = start /\ \A i \in 1..n : f[i] = step[<<i, f[i - 1]>>]
             T == {n \in 0..L : \E f \in [0..n -> S] : Follows(f, n)}
  <1>1. 0 \in T
    <2> DEFINE f == [i \in 0..0 |-> start]
    <2>1. f \in [0..0 -> S] /\ f[0] = start
      OBVIOUS
    <2> HIDE DEF f
    <2>2. Follows(f, 0)
      BY <2>1
    <2> QED BY <2>1, <2>2
  <1>2. ASSUME NEW n \in 1..L, n - 1 \in T PROVE n \in T
    <2>0. n \in 0..L /\ n - 1 \in 0..L
      OBVIOUS
    <2>1. PICK f \in [0..n - 1 -> S] : Follows(f, n - 1)
      BY <1>2
    <2> DEFINE g == [i \in 0..n |-> IF i = n THEN step[<<n, f[n - 1]>>] ELSE f[i]]
    <2>2. g \in [0..n -> S]
      <3>1. step[<<n, f[n - 1]>>] \in S
        <4>1. f[n - 1] \in S
          BY <2>0
        <4> QED BY <4>1
      <3>2. \A i \in 0..n : i # n => i \in 0..n - 1
        OBVIOUS
      <3> QED BY <3>1, <3>2
    <2>3. \A i \in 1..n : g[i] = step[<<i, g[i - 1]>>]
      <3> SUFFICES ASSUME NEW i \in 1..n PROVE g[i] = step[<<i, g[i - 1]>>]
        OBVIOUS
      <3>1. i - 1 \in 0..n /\ i - 1 # n /\ i \in 0..n
        OBVIOUS
      <3>2. g[i - 1] = f[i - 1]
        BY <3>1
      <3>3. CASE i = n
        BY <3>1, <3>2, <3>3
      <3>4. CASE i # n
        <4>1. i \in 1..n - 1
          BY <3>4
        <4> QED BY <2>1, <3>1, <3>2, <3>4, <4>1
      <3> QED BY <3>3, <3>4
    <2>4. g[0] = start
      BY <2>0, <2>1
    <2> HIDE DEF g
    <2> QED BY <2>0, <2>2, <2>3, <2>4
  <1>3. 0..L \subseteq T
    <2> HIDE DEF T
    <2> QED BY <1>1, <1>2, Upwards
  <1>4. L \in T
    <2>1. L \in 0..L
      OBVIOUS
    <2> HIDE DEF T
    <2> QED BY <1>3, <2>1
  <1> QED BY <1>4 DEF Computed

Listing == Seq(TagSet \X Commits)

\* What is selected is one of the first that match, and none of them is newer.
LEMMA BestIs ==
  ASSUME NEW p, NEW listed \in Listing
  PROVE  LET best == BestOf(p, NewerTags(p), listed) IN
         \A n \in 0..Len(listed) :
           /\ best[n] = <<>> => \A i \in 1..n : ~TagMatches(p, listed[i][1])
           /\ best[n] # <<>> =>
                /\ \E i \in 1..n : best[n] = listed[i] /\ TagMatches(p, listed[i][1])
                /\ (\A i \in DOMAIN listed : TagMatches(p, listed[i][1])
                     => Ranked(RankTag(p, listed[i][1]))) =>
                     \A i \in 1..n : TagMatches(p, listed[i][1]) =>
                       ~NewerThan(RankTag(p, listed[i][1]), RankTag(p, best[n][1]))
  <1> DEFINE L == Len(listed)
             Better(n, b) == /\ TagMatches(p, listed[n][1])
                             /\ b = <<>> \/ <<listed[n][1], b[1]>> \in NewerTags(p)
             After(n, b) == IF Better(n, b) THEN listed[n] ELSE b
             S == {listed[n] : n \in 1..L} \cup {<<>>}
             step == [x \in (1..L) \X S |-> After(x[1], x[2])]
             Def(f) == f = [n \in 0..L |-> IF n = 0 THEN <<>> ELSE After(n, f[n - 1])]
  <1>1. L \in Nat /\ DOMAIN listed = 1..L
    BY DEF Listing
  <1>2. \E f : Def(f)
    <2>1. step \in [(1..L) \X S -> S]
      OBVIOUS
    <2>0. PICK f : Computed(f, L, S, <<>>, step)
      <3>1. <<>> \in S
        OBVIOUS
      <3> HIDE DEF step, L, S
      <3> QED BY <1>1, <2>1, <3>1, Recursion
    <2>2. f \in [0..L -> S] /\ f[0] = <<>> /\ \A n \in 1..L : f[n] = step[<<n, f[n - 1]>>]
      <3> HIDE DEF step, S
      <3> QED BY <2>0 DEF Computed
    <2>3. ASSUME NEW n \in 1..L PROVE f[n] = After(n, f[n - 1])
      <3>1. n - 1 \in 0..L
        BY <1>1
      <3>2. f[n - 1] \in S
        <4> HIDE DEF S, step
        <4> QED BY <2>2, <3>1
      <3> HIDE DEF After, S, L
      <3> QED BY <2>2, <3>2
    <2>4. f = [n \in 0..L |-> f[n]]
      <3> HIDE DEF S, step
      <3> QED BY <2>2
    <2>5. \A n \in 0..L : f[n] = IF n = 0 THEN <<>> ELSE After(n, f[n - 1])
      <3>1. \A n \in 0..L : n # 0 => n \in 1..L
        BY <1>1
      <3> HIDE DEF After
      <3> QED BY <2>2, <2>3, <3>1
    <2> QED BY <2>4, <2>5
  <1> DEFINE best == CHOOSE f : Def(f)
  <1>3. best = BestOf(p, NewerTags(p), listed)
    BY DEF BestOf
  <1>4. Def(best)
    <2> HIDE DEF Def
    <2> QED BY <1>2
  <1> HIDE DEF best
  <1> DEFINE M(i) == TagMatches(p, listed[i][1])
             R(i) == RankTag(p, listed[i][1])
             AllRanked == \A i \in 1..L : M(i) => Ranked(R(i))
             Right(n) ==
               /\ best[n] = <<>> => \A i \in 1..n : ~M(i)
               /\ best[n] # <<>> =>
                    /\ \E i \in 1..n : best[n] = listed[i] /\ M(i)
                    /\ AllRanked => \A i \in 1..n : M(i) => ~NewerThan(R(i), RankTag(p, best[n][1]))
             T == {n \in 0..L : Right(n)}
  <1>t. ASSUME NEW i \in 1..L, NEW j \in 1..L
        PROVE  <<listed[i][1], listed[j][1]>> \in NewerTags(p) <=> NewerThan(R(i), R(j))
    <2>1. listed[i] \in TagSet \X Commits /\ listed[j] \in TagSet \X Commits
      BY <1>1 DEF Listing
    <2>2. <<listed[i][1], listed[j][1]>> \in TagSet \X TagSet
      BY <2>1
    <2> QED BY <2>2 DEF NewerTags
  <1>5. 0 \in T
    <2>1. best[0] = <<>> /\ 0 \in 0..L
      BY <1>1, <1>4
    <2> QED BY <2>1
  <1>6. ASSUME NEW n \in 1..L, n - 1 \in T PROVE n \in T
    <2>1. n \in 0..L /\ n # 0 /\ n - 1 \in 0..L /\ n \in 1..n /\ 1..n = 1..n - 1 \cup {n}
            /\ n \notin 1..n - 1
      BY <1>1
    <2>2. best[n] = After(n, best[n - 1]) /\ Right(n - 1)
      <3> HIDE DEF After, Right
      <3> QED BY <1>4, <1>6, <2>1
    <2>3. listed[n] # <<>>
      <3>1. listed[n] \in TagSet \X Commits
        BY <1>1, ElementsOf DEF Listing
      <3> QED BY <3>1, PairNotEmpty
    <2>4. CASE ~Better(n, best[n - 1])
      <3>1. best[n] = best[n - 1]
        BY <2>2, <2>4
      <3>2. CASE best[n - 1] = <<>>
        BY <2>1, <2>2, <2>4, <3>1, <3>2
      <3>3. CASE best[n - 1] # <<>>
        <4>0. PICK j \in 1..n - 1 : best[n - 1] = listed[j]
          BY <2>2, <3>3
        <4>1. M(n) => ~NewerThan(R(n), RankTag(p, best[n][1]))
          <5>1. j \in 1..L
            BY <1>1
          <5>2. M(n) => <<listed[n][1], listed[j][1]>> \notin NewerTags(p)
            BY <2>4, <3>3, <4>0
          <5>3. M(n) => ~NewerThan(R(n), R(j))
            <6> HIDE DEF M, R
            <6> QED BY <1>t, <5>1, <5>2
          <5> QED BY <3>1, <4>0, <5>3
        <4>2. \E i \in 1..n : best[n] = listed[i] /\ M(i)
          BY <2>1, <2>2, <3>1, <3>3
        <4>3. AllRanked => \A i \in 1..n : M(i) => ~NewerThan(R(i), RankTag(p, best[n][1]))
          <5> HIDE DEF M, R, AllRanked
          <5> QED BY <2>1, <2>2, <3>1, <3>3, <4>1
        <4>4. Right(n)
          <5> HIDE DEF M, R, AllRanked
          <5> QED BY <3>1, <3>3, <4>2, <4>3
        <4> QED BY <2>1, <4>4
      <3> QED BY <3>2, <3>3
    <2>5. CASE Better(n, best[n - 1])
      <3>1. best[n] = listed[n] /\ M(n) /\ best[n] # <<>>
        BY <2>2, <2>3, <2>5
      <3>2. ASSUME AllRanked, NEW i \in 1..n, M(i)
            PROVE  ~NewerThan(R(i), R(n))
        <4>1. i \in 1..L /\ Ranked(R(i)) /\ Ranked(R(n))
          <5>1. i \in 1..L
            BY <1>1
          <5> HIDE DEF M, R
          <5> QED BY <3>1, <3>2, <5>1
        <4>2. CASE i = n
          <5> HIDE DEF R
          <5> QED BY <4>1, <4>2, NewerIrreflexive
        <4>3. CASE i # n
          <5>1. i \in 1..n - 1
            BY <2>1, <4>3
          <5>2. best[n - 1] # <<>>
            BY <2>2, <3>2, <5>1
          <5>3. NewerThan(R(n), RankTag(p, best[n - 1][1]))
                  /\ ~NewerThan(R(i), RankTag(p, best[n - 1][1]))
            <6>0. PICK j \in 1..n - 1 : best[n - 1] = listed[j]
              BY <2>2, <5>2
            <6>1. NewerThan(R(n), RankTag(p, best[n - 1][1]))
              <7>1. j \in 1..L
                BY <1>1
              <7>2. <<listed[n][1], listed[j][1]>> \in NewerTags(p)
                BY <2>5, <5>2, <6>0
              <7>3. NewerThan(R(n), R(j))
                <8> HIDE DEF R
                <8> QED BY <1>t, <7>1, <7>2
              <7> QED BY <6>0, <7>3
            <6> HIDE DEF M, R, AllRanked
            <6> QED BY <2>2, <3>2, <5>1, <5>2, <6>1
          <5>4. Ranked(RankTag(p, best[n - 1][1]))
            <6>1. PICK j \in 1..n - 1 : best[n - 1] = listed[j] /\ M(j)
              BY <2>2, <5>2
            <6>2. j \in 1..L
              BY <1>1
            <6>3. Ranked(R(j))
              <7> HIDE DEF M, R
              <7> QED BY <3>2, <6>1, <6>2
            <6> QED BY <6>1, <6>3
          <5> HIDE DEF R
          <5> QED BY <4>1, <5>3, <5>4, NewerTrans
        <4> QED BY <4>2, <4>3
      <3>3. RankTag(p, best[n][1]) = R(n)
        BY <3>1
      <3>4. Right(n)
        <4> HIDE DEF M, R, AllRanked
        <4> QED BY <2>1, <3>1, <3>2, <3>3
      <3> QED BY <2>1, <3>4
    <2> QED BY <2>4, <2>5
  <1>7. 0..L \subseteq T
    <2> HIDE DEF T
    <2> QED BY <1>1, <1>5, <1>6, Upwards
  <1> QED BY <1>1, <1>3, <1>7
\* The tags that are there, in the order of Tags: the first n of them, and where each of them is.
LEMMA ThereIs ==
  ASSUME Assumptions, NEW ns
  PROVE  LET there == There(ns)
             L == Len(Tags) IN
         /\ L \in Nat /\ DOMAIN Tags = 1..L
         /\ \A n \in 0..L : there[n] \in Seq(TagSet)
         /\ there[0] = <<>>
         /\ \A n \in 1..L :
              there[n] = IF ns[Tags[n]] = Gone THEN there[n - 1] ELSE Append(there[n - 1], Tags[n])
  <1> DEFINE L == Len(Tags)
             After(n, b) == IF ns[Tags[n]] = Gone THEN b ELSE Append(b, Tags[n])
             S == Seq(TagSet)
             step == [x \in (1..L) \X S |-> After(x[1], x[2])]
             Def(f) == f = [n \in 0..L |-> IF n = 0 THEN <<>> ELSE After(n, f[n - 1])]
  <1>1. L \in Nat /\ DOMAIN Tags = 1..L
    BY DEF Assumptions, IsSequence
  <1>2. \A n \in 1..L : Tags[n] \in TagSet
    BY <1>1 DEF TagSet, Range
  <1>3. PICK f : Computed(f, L, S, <<>>, step)
    <2>1. step \in [(1..L) \X S -> S]
      BY <1>2
    <2>2. <<>> \in S
      OBVIOUS
    <2> HIDE DEF step, L, S
    <2> QED BY <1>1, <2>1, <2>2, Recursion
  <1>4. f \in [0..L -> S] /\ f[0] = <<>> /\ \A n \in 1..L : f[n] = step[<<n, f[n - 1]>>]
    <2> HIDE DEF step, S
    <2> QED BY <1>3 DEF Computed
  <1>5. ASSUME NEW n \in 1..L PROVE f[n] = After(n, f[n - 1])
    <2>1. n - 1 \in 0..L
      BY <1>1
    <2>2. f[n - 1] \in S
      <3> HIDE DEF S, step
      <3> QED BY <1>4, <2>1
    <2> HIDE DEF After, S, L
    <2> QED BY <1>4, <2>2
  <1>6. Def(f)
    <2>1. f = [n \in 0..L |-> f[n]]
      <3> HIDE DEF S, step
      <3> QED BY <1>4
    <2>2. \A n \in 0..L : f[n] = IF n = 0 THEN <<>> ELSE After(n, f[n - 1])
      <3>1. \A n \in 0..L : n # 0 => n \in 1..L
        BY <1>1
      <3> HIDE DEF After
      <3> QED BY <1>4, <1>5, <3>1
    <2> QED BY <2>1, <2>2
  <1> DEFINE there == CHOOSE g : Def(g)
  <1>7. there = There(ns)
    BY DEF There
  <1>8. Def(there)
    <2> HIDE DEF Def
    <2> QED BY <1>6
  <1> HIDE DEF there
  <1>9. there[0] = <<>> /\ \A n \in 1..L : there[n] = After(n, there[n - 1])
    <2>1. \A n \in 1..L : n \in 0..L /\ n # 0
      BY <1>1
    <2>2. 0 \in 0..L
      BY <1>1
    <2> HIDE DEF After
    <2> QED BY <1>8, <2>1, <2>2
  <1> DEFINE T == {n \in 0..L : there[n] \in S}
  <1>10. 0..L \subseteq T
    <2>0. <<>> \in S /\ \A n \in 1..L, b \in S : After(n, b) \in S
      BY <1>2
    <2> HIDE DEF S, After, L
    <2>1. 0 \in T
      BY <1>1, <1>9, <2>0
    <2>2. ASSUME NEW n \in 1..L, n - 1 \in T PROVE n \in T
      <3>1. n \in 0..L /\ there[n - 1] \in S
        BY <1>1, <2>2
      <3> QED BY <1>9, <2>0, <3>1
    <2> HIDE DEF T
    <2> QED BY <1>1, <2>1, <2>2, Upwards
  <1> QED BY <1>1, <1>7, <1>9, <1>10

\* Where the tag Tags[i] is among those that are there.
Rank(ns, i) == Len(There(ns)[i])

\* Every tag of the list is there, and every tag that is there is in the list at its place.
LEMMA ListedThere ==
  ASSUME Assumptions, NEW ns
  PROVE  LET all == There(ns)[Len(Tags)] IN
         /\ all \in Seq(TagSet)
         /\ \A k \in DOMAIN all : ns[all[k]] # Gone
         /\ \A i \in DOMAIN Tags : ns[Tags[i]] # Gone =>
              Rank(ns, i) \in DOMAIN all /\ all[Rank(ns, i)] = Tags[i]
  <1> DEFINE there == There(ns)
             L == Len(Tags)
             Q(n) == /\ \A k \in DOMAIN there[n] : ns[there[n][k]] # Gone
                     /\ \A i \in 1..n : ns[Tags[i]] # Gone =>
                          Len(there[i]) \in DOMAIN there[n] /\ there[n][Len(there[i])] = Tags[i]
             T == {n \in 0..L : Q(n)}
  <1>1. /\ L \in Nat /\ DOMAIN Tags = 1..L /\ there[0] = <<>>
        /\ \A n \in 0..L : there[n] \in Seq(TagSet)
        /\ \A n \in 1..L : there[n] = IF ns[Tags[n]] = Gone THEN there[n - 1]
             ELSE Append(there[n - 1], Tags[n])
    BY ThereIs
  <1>2. \A n \in 1..L : Tags[n] \in TagSet
    BY <1>1 DEF TagSet, Range
  <1> HIDE DEF there, L
  <1>3. 0 \in T
    <2>1. Q(0)
      BY <1>1
    <2> QED BY <1>1, <2>1
  <1>4. ASSUME NEW n \in 1..L, n - 1 \in T PROVE n \in T
    <2>1. n \in 0..L /\ n - 1 \in 0..L /\ 1..n = 1..n - 1 \cup {n}
      BY <1>1
    <2>2. Q(n - 1) /\ there[n - 1] \in Seq(TagSet) /\ there[n] \in Seq(TagSet) /\ Tags[n] \in TagSet
      <3> HIDE DEF Q
      <3> QED BY <1>1, <1>2, <1>4, <2>1
    <2>3. CASE ns[Tags[n]] = Gone
      <3>1. there[n] = there[n - 1]
        BY <1>1, <2>3
      <3>2. Q(n)
        BY <2>1, <2>2, <2>3, <3>1
      <3> HIDE DEF Q
      <3> QED BY <2>1, <3>2
    <2>4. CASE ns[Tags[n]] # Gone
      <3> DEFINE a == there[n - 1]
                 b == there[n]
      <3>1. /\ b = Append(a, Tags[n]) /\ a \in Seq(TagSet)
        BY <1>1, <2>2, <2>4
      <3>2. /\ Len(a) \in Nat /\ DOMAIN a = 1..Len(a) /\ Len(b) = Len(a) + 1 /\ DOMAIN b = 1..Len(a) + 1
            /\ b[Len(a) + 1] = Tags[n] /\ \A k \in DOMAIN a : b[k] = a[k]
        <4> HIDE DEF a, b
        <4> QED BY <2>2, <3>1
      <3>3. ASSUME NEW k \in DOMAIN b PROVE ns[b[k]] # Gone
        <4>1. k \in DOMAIN a \/ k = Len(a) + 1
          BY <3>2, <3>3
        <4>2. \A j \in DOMAIN a : ns[a[j]] # Gone
          BY <2>2
        <4> HIDE DEF a, b
        <4> QED BY <2>4, <3>2, <4>1, <4>2
      <3>4. ASSUME NEW i \in 1..n, ns[Tags[i]] # Gone
            PROVE  Len(there[i]) \in DOMAIN b /\ b[Len(there[i])] = Tags[i]
        <4>1. CASE i = n
          <5>1. there[i] = b
            BY <4>1
          <5> HIDE DEF a, b
          <5> QED BY <3>2, <4>1, <5>1
        <4>2. CASE i # n
          <5>1. i \in 1..n - 1
            BY <2>1, <4>2
          <5>2. Len(there[i]) \in DOMAIN a /\ a[Len(there[i])] = Tags[i]
            BY <2>2, <3>4, <5>1
          <5>3. DOMAIN a \subseteq DOMAIN b
            <6> HIDE DEF a, b
            <6> QED BY <3>2
          <5> HIDE DEF a, b
          <5> QED BY <3>2, <5>2, <5>3
        <4> QED BY <4>1, <4>2
      <3>5. Q(n)
        BY <3>3, <3>4
      <3> HIDE DEF Q
      <3> QED BY <2>1, <3>5
    <2> QED BY <2>3, <2>4
  <1>5. L \in T
    <2> HIDE DEF T
    <2>1. 0..L \subseteq T
      BY <1>1, <1>3, <1>4, Upwards
    <2>2. L \in 0..L
      BY <1>1
    <2> QED BY <2>1, <2>2
  <1>6. Q(L) /\ there[L] \in Seq(TagSet)
    <2> HIDE DEF Q
    <2> QED BY <1>1, <1>5
  <1> QED BY <1>1, <1>6 DEF there, L, Rank

LEMMA InList ==
  ASSUME Assumptions, NEW ns, NEW i \in DOMAIN Tags, ns[Tags[i]] # Gone
  PROVE  LET all == There(ns)[Len(Tags)] IN
         /\ all \in Seq(TagSet) /\ Rank(ns, i) \in 1..Len(all) /\ Len(all) \in Nat
              /\ Rank(ns, i) \in Nat
         /\ Rank(ns, i) > 0 /\ all[Rank(ns, i)] = Tags[i]
  <1> DEFINE all == There(ns)[Len(Tags)]
  <1>1. all \in Seq(TagSet) /\ Rank(ns, i) \in DOMAIN all /\ all[Rank(ns, i)] = Tags[i]
    BY ListedThere
  <1> HIDE DEF all
  <1>2. DOMAIN all = 1..Len(all) /\ Len(all) \in Nat
    BY <1>1
  <1>3. Rank(ns, i) \in 1..Len(all)
    BY <1>1, <1>2
  <1>4. Rank(ns, i) \in Nat /\ Rank(ns, i) > 0
    BY <1>2, <1>3
  <1> QED BY <1>1, <1>2, <1>3, <1>4 DEF all

\* Where more tags are there, no tag comes earlier.
LEMMA RankGrows ==
  ASSUME Assumptions, NEW ns, NEW ms, \A t \in TagSet : ns[t] # Gone => ms[t] # Gone
  PROVE  \A i \in DOMAIN Tags : Rank(ns, i) \in Nat /\ Rank(ns, i) <= Rank(ms, i)
  <1> DEFINE a == There(ns)
             b == There(ms)
             L == Len(Tags)
             T == {n \in 0..L : Len(a[n]) <= Len(b[n])}
  <1>1. /\ L \in Nat /\ DOMAIN Tags = 1..L /\ a[0] = <<>>
        /\ \A n \in 0..L : a[n] \in Seq(TagSet)
        /\ \A n \in 1..L : a[n] = IF ns[Tags[n]] = Gone THEN a[n - 1] ELSE Append(a[n - 1], Tags[n])
    BY ThereIs
  <1>2. /\ b[0] = <<>>
        /\ \A n \in 0..L : b[n] \in Seq(TagSet)
        /\ \A n \in 1..L : b[n] = IF ms[Tags[n]] = Gone THEN b[n - 1] ELSE Append(b[n - 1], Tags[n])
    BY ThereIs
  <1>3. \A n \in 1..L : Tags[n] \in TagSet
    BY <1>1 DEF TagSet, Range
  <1>l. \A n \in 0..L : Len(a[n]) \in Nat /\ Len(b[n]) \in Nat
    <2> HIDE DEF a, b, L
    <2> QED BY <1>1, <1>2
  <1> HIDE DEF a, b, L
  <1>4. 0 \in T
    BY <1>1, <1>2
  <1>5. ASSUME NEW n \in 1..L, n - 1 \in T PROVE n \in T
    <2>1. n \in 0..L /\ n - 1 \in 0..L /\ Len(a[n - 1]) <= Len(b[n - 1]) /\ Tags[n] \in TagSet
      BY <1>1, <1>3, <1>5
    <2>2. Len(Append(a[n - 1], Tags[n])) = Len(a[n - 1]) + 1
            /\ Len(Append(b[n - 1], Tags[n])) = Len(b[n - 1]) + 1
      BY <1>1, <1>2, <2>1
    <2>3. Len(a[n - 1]) \in Nat /\ Len(b[n - 1]) \in Nat
      BY <1>l, <2>1
    <2>4. ns[Tags[n]] # Gone => ms[Tags[n]] # Gone
      BY <2>1
    <2>5. /\ a[n] = IF ns[Tags[n]] = Gone THEN a[n - 1] ELSE Append(a[n - 1], Tags[n])
          /\ b[n] = IF ms[Tags[n]] = Gone THEN b[n - 1] ELSE Append(b[n - 1], Tags[n])
      BY <1>1, <1>2
    <2>6. Len(a[n]) <= Len(b[n])
      BY <2>1, <2>2, <2>3, <2>4, <2>5
    <2> QED BY <2>1, <2>6
  <1>6. 0..L \subseteq T
    <2> HIDE DEF T
    <2> QED BY <1>1, <1>4, <1>5, Upwards
  <1>7. \A i \in DOMAIN Tags : i \in 0..L
    BY <1>1
  <1> QED BY <1>6, <1>7, <1>l DEF Rank, a, b
--------------------------------------------------------------------------------
(* The lock and the command at work. *)

\* Commands, rows and versions have their fields.
PinSources ==
  {Nothing, HeadRef} \cup {Ref(n) : n \in Names} \cup {Sha(c) : c \in Commits}
    \cup {Pattern(p) : p \in DOMAIN Accepts}
PinRow == {NoRow} \cup [ref : Names, commit : Commits]
PinCommand ==
  [pc : {"idle", "list", "select", "fetch", "pin", "done", "failed"},
   job : {"lock", "refresh", "read", "reuse"}, by : Machines, fresh : BOOLEAN,
   src : PinSources, url : Commits \cup {Gone}, want : PinSources, old : PinRow,
   page : Nat \ {0}, listed : Listing, got : Commits \cup {Gone}]
PinsTyped ==
  /\ names \in [Names -> Commits \cup {Gone}] /\ head \in Branches /\ cue \in PinSources
  /\ row \in PinRow /\ cmd \in PinCommand /\ stayed \subseteq TagSet
  /\ cache \in [Machines -> [Keys -> Commits \cup {Gone}]]

\* A tag that never moved is in no cache and in no row as anything but what it is.
Same(t, c) == t \in moved \/ c = names[t]
TagsCached ==
  \A m \in Machines :
    /\ \A c \in Commits : cache[m][<<"url", c>>] \in {Gone, c}
    /\ \A t \in TagSet : cache[m][<<"repo", t>>] # Gone => Same(t, cache[m][<<"repo", t>>])
RowKept == row # NoRow /\ row.ref \in TagSet => Same(row.ref, row.commit)
IsTag(v) == v.kind = "ref" /\ v.name \in TagSet
Pinner == cmd.job \in {"lock", "refresh"}
\* What is on its way to the lock, and to a reader.
ToPin ==
  /\ cmd.pc = "fetch" => cmd.job # "reuse" /\ (Pinner => cmd.src.kind # "tag")
  /\ cmd.pc = "pin" => Pinner /\ cmd.src.kind # "tag" /\ cmd.got # Gone
  /\ cmd.pc = "fetch" /\ Pinner /\ IsTag(cmd.src) /\ cmd.url # Gone => Same(cmd.src.name, cmd.url)
  /\ cmd.pc = "pin" /\ IsTag(cmd.src) => Same(cmd.src.name, cmd.got)
ToRead ==
  cmd.job = "read" /\ cmd.pc \in {"fetch", "done"} /\ cmd.old # NoRow =>
    /\ cmd.want = Nothing => cmd.url = cmd.old.commit /\ (cmd.pc = "done" => cmd.got = cmd.url)
    /\ cmd.want.kind = "tag" /\ TagMatches(cmd.want.name, cmd.old.ref) =>
         /\ cmd.src = Ref(cmd.old.ref) /\ cmd.url = Gone /\ cmd.old.ref \in TagSet
         /\ cmd.pc = "fetch" => Same(cmd.old.ref, cmd.old.commit)
         /\ cmd.pc = "done" => cmd.old.ref \in moved \/ cmd.got = cmd.old.commit

\* What was listed is what the tags were, and still are if they stayed; of those that stayed none
\* was passed over.
Entries ==
  \A k \in DOMAIN cmd.listed :
    LET e == cmd.listed[k] IN Same(e[1], e[2]) /\ (e[1] \in stayed => e[2] = names[e[1]])
Mentioned(i) == \E k \in DOMAIN cmd.listed : cmd.listed[k][1] = Tags[i]
ListedSoFar ==
  cmd.pc \in {"list", "select"} =>
    /\ Pinner /\ cmd.want.kind = "tag" /\ cmd.src = cmd.want /\ Entries
    /\ \A i \in DOMAIN Tags :
         Tags[i] \in stayed =>
           Mentioned(i) \/ (cmd.pc = "list" /\ Rank(names, i) > (cmd.page - 1) * PageSize)
TagsStayed == \A t \in stayed : names[t] # Gone
Newest(p, s) ==
  (\A t \in Accepts[p] : ~RankTag(p, t).lexical) => \A t \in stayed \cap Accepts[p] : ~Older(p, s, t)
\* A pattern has become the newest of the tags that stayed.
Selected ==
  Pinner /\ cmd.want.kind = "tag" /\ cmd.pc \in {"fetch", "pin", "done"} =>
    /\ cmd.src = Ref(cmd.src.name) /\ cmd.src.name \in Accepts[cmd.want.name]
    /\ cmd.url # Gone /\ (cmd.src.name \in stayed => cmd.url = names[cmd.src.name])
    /\ cmd.pc # "fetch" => cmd.got = cmd.url
    /\ Newest(cmd.want.name, cmd.src.name)

\* Once it is pinned, the row names it, unless it looks like a commit.
Recorded ==
  Pinner /\ cmd.want.kind = "tag" /\ cmd.pc = "done" =>
    IF cmd.src.name \in HexTags THEN row.ref \in Branches
    ELSE row = [ref |-> cmd.src.name, commit |-> cmd.got]

PinsInv ==
  /\ PinsTyped /\ TagsCached /\ RowKept /\ ToPin /\ ToRead /\ TagsStayed /\ ListedSoFar /\ Selected
  /\ Recorded

LEMMA SourceKinds ==
  ASSUME NEW v \in PinSources
  PROVE  \/ v = Nothing /\ v.kind = "none"
         \/ v = HeadRef /\ v.kind = "head" /\ v.name = "HEAD"
         \/ v = Ref(v.name) /\ v.kind = "ref" /\ v.name \in Names
         \/ v = Sha(v.name) /\ v.kind = "sha" /\ v.name \in Commits
         \/ v = Pattern(v.name) /\ v.kind = "tag" /\ v.name \in DOMAIN Accepts
  <1>1. CASE v \in {Nothing, HeadRef}
    <2>1. Nothing.kind = "none" /\ HeadRef.kind = "head" /\ HeadRef.name = "HEAD"
      BY DEF Nothing, HeadRef
    <2> QED BY <1>1, <2>1
  <1>2. ASSUME NEW n \in Names, v = Ref(n) PROVE v = Ref(v.name) /\ v.kind = "ref" /\ v.name \in Names
    <2>1. v.kind = "ref" /\ v.name = n
      BY <1>2 DEF Ref
    <2> QED BY <1>2, <2>1
  <1>3. ASSUME NEW c \in Commits, v = Sha(c) PROVE v = Sha(v.name) /\ v.kind = "sha"
                 /\ v.name \in Commits
    <2>1. v.kind = "sha" /\ v.name = c
      BY <1>3 DEF Sha
    <2> QED BY <1>3, <2>1
  <1>4. ASSUME NEW p \in DOMAIN Accepts, v = Pattern(p)
        PROVE  v = Pattern(v.name) /\ v.kind = "tag" /\ v.name \in DOMAIN Accepts
    <2>1. v.kind = "tag" /\ v.name = p
      BY <1>4 DEF Pattern
    <2> QED BY <1>4, <2>1
  <1> QED BY <1>1, <1>2, <1>3, <1>4 DEF PinSources

LEMMA RowKinds ==
  ASSUME Assumptions, NEW r \in PinRow, r # NoRow
  PROVE  r.ref \in Names /\ r.commit \in Commits /\ r.commit # Gone
  BY DEF Assumptions, PinRow

LEMMA PinsInit ==
  ASSUME Assumptions, Init
  PROVE  PinsInv
  <1>1. names \in [Names -> Commits \cup {Gone}] /\ head \in Branches
    BY DEF Assumptions, Init
  <1>2. cue \in PinSources /\ row \in PinRow /\ row = NoRow
    BY DEF Assumptions, Init, PinSources, PinRow
  <1>3. cmd \in PinCommand /\ cmd.pc = "idle"
    <2>1. (CHOOSE m \in Machines : TRUE) \in Machines
      BY DEF Assumptions
    <2> QED BY <2>1 DEF Init, Idle, PinCommand, PinSources, PinRow, Listing
  <1>4. cache \in [Machines -> [Keys -> Commits \cup {Gone}]] /\ \A m \in Machines, k \in Keys :
          cache[m][k] = Gone
    BY DEF Init
  <1>5. /\ \A c \in Commits : <<"url", c>> \in Keys
        /\ \A t \in TagSet : <<"repo", t>> \in Keys
    BY DEF Keys, Names
  <1>6. stayed = {}
    BY DEF Init
  <1>7. PinsTyped /\ TagsCached /\ RowKept
    BY <1>1, <1>2, <1>3, <1>4, <1>5, <1>6 DEF PinsTyped, TagsCached, RowKept
  <1>8. ToPin /\ ToRead /\ TagsStayed /\ ListedSoFar /\ Selected /\ Recorded
    BY <1>3, <1>6 DEF ToPin, ToRead, TagsStayed, ListedSoFar, Selected, Recorded
  <1> QED BY <1>7, <1>8 DEF PinsInv

LEMMA OverlayIs ==
  ASSUME Assumptions, NEW v \in PinSources, NEW r \in PinRow
  PROVE  /\ Overlay(v, r).src \in PinSources /\ Overlay(v, r).url \in Commits \cup {Gone}
         /\ r # NoRow /\ v = Nothing => Overlay(v, r).url = r.commit
         /\ r # NoRow /\ v.kind = "tag" /\ TagMatches(v.name, r.ref) =>
              Overlay(v, r).src = Ref(r.ref) /\ Overlay(v, r).url = Gone
  <1>1. v = Nothing => v.kind # "tag"
    <2>1. Nothing.kind = "none"
      BY DEF Nothing
    <2> QED BY <2>1
  <1>2. r # NoRow => Ref(r.ref) \in PinSources /\ r.commit \in Commits
    BY RowKinds DEF PinSources
  <1>3. CASE r # NoRow /\ v = Nothing
    BY <1>1, <1>2, <1>3 DEF Overlay
  <1>4. CASE r # NoRow /\ v.kind = "tag" /\ TagMatches(v.name, r.ref)
    BY <1>1, <1>2, <1>4 DEF Overlay
  <1>5. CASE ~(r # NoRow /\ v = Nothing) /\ ~(r # NoRow /\ v.kind = "tag" /\ TagMatches(v.name, r.ref))
    BY <1>1, <1>5 DEF Overlay
  <1> QED BY <1>3, <1>4, <1>5

LEMMA PinsBegin ==
  ASSUME Assumptions, PinsInv, NEW m \in Machines, NEW job \in {"lock", "refresh", "read"},
           NEW fresh \in BOOLEAN,
         Begin(m, job, fresh)
  PROVE  PinsInv'
  <1> DEFINE reuse == job = "refresh" /\ LockReusable(row) /\ LockMatchesDesired(cue, row)
             o == IF job = "read" THEN Overlay(cue, row) ELSE [src |-> cue, url |-> Gone]
             to == CASE reuse -> "done"
                     [] ~reuse /\ job # "read" /\ cue.kind = "tag" -> "list"
                     [] OTHER -> "fetch"
  <1>1. /\ cmd' = [Idle EXCEPT !.pc = to, !.job = IF reuse THEN "reuse" ELSE job, !.by = m,
             !.fresh = fresh,
                               !.src = o.src, !.url = o.url, !.want = cue, !.old = row]
        /\ stayed' = {t \in TagSet : names[t] # Gone}
        /\ UNCHANGED <<names, head, cue, row, cache, moved>>
    BY DEF Begin
  <1>2. o.src \in PinSources /\ o.url \in Commits \cup {Gone} /\ cue \in PinSources /\ row \in PinRow
    BY OverlayIs DEF PinsInv, PinsTyped
  <1>3. /\ reuse => to = "done"
        /\ ~reuse /\ job # "read" /\ cue.kind = "tag" => to = "list"
        /\ ~reuse /\ ~(job # "read" /\ cue.kind = "tag") => to = "fetch"
        /\ reuse => job # "read"
    OBVIOUS
  <1>4. /\ job # "read" => o.src = cue /\ o.url = Gone
        /\ job = "read" => o = Overlay(cue, row)
    OBVIOUS
  <1> HIDE DEF reuse, o, to
  <1>5. /\ cmd'.pc = to /\ cmd'.job = (IF reuse THEN "reuse" ELSE job) /\ cmd'.by = m
             /\ cmd'.src = o.src
        /\ cmd'.url = o.url /\ cmd'.want = cue /\ cmd'.old = row /\ cmd'.page = 1 /\ cmd'.listed = <<>>
    BY <1>1 DEF Idle
  <1>6. cmd' \in PinCommand
    <2>1. to \in {"done", "list", "fetch"}
      BY <1>3
    <2>2. <<>> \in Listing
      BY DEF Listing
    <2>3. cmd' = [pc |-> to, job |-> IF reuse THEN "reuse" ELSE job, by |-> m, fresh |-> fresh,
            src |-> o.src,
                  url |-> o.url, want |-> cue, old |-> row, page |-> 1, listed |-> <<>>, got |-> Gone]
      BY <1>1 DEF Idle
    <2>4. (IF reuse THEN "reuse" ELSE job) \in {"lock", "refresh", "read", "reuse"} /\ 1 \in Nat \ {0}
      OBVIOUS
    <2> QED BY <1>2, <2>1, <2>2, <2>3, <2>4 DEF PinCommand
  <1>7. PinsTyped'
    BY <1>1, <1>6 DEF PinsInv, PinsTyped, TagSet
  <1>8. TagsCached' /\ RowKept' /\ TagsStayed'
    BY <1>1 DEF PinsInv, TagsCached, RowKept, TagsStayed, Same
  <1>9. ToPin'
    BY <1>3, <1>4, <1>5 DEF ToPin, Pinner
  <1>10. ToRead'
    <2> SUFFICES ASSUME job = "read", ~reuse, row # NoRow, to = "fetch"
                 PROVE  /\ cue = Nothing => o.url = row.commit
                        /\ cue.kind = "tag" /\ TagMatches(cue.name, row.ref) =>
                             /\ o.src = Ref(row.ref) /\ o.url = Gone /\ row.ref \in TagSet
                             /\ Same(row.ref, row.commit)
      BY <1>1, <1>3, <1>5 DEF ToRead, Same
    <2>1. cue.kind = "tag" => cue.name \in DOMAIN Accepts
      BY <1>2, SourceKinds
    <2>2. cue.kind = "tag" /\ TagMatches(cue.name, row.ref) => row.ref \in TagSet
      BY <2>1 DEF Assumptions, TagMatches
    <2> QED BY <1>2, <1>4, <2>2, OverlayIs DEF PinsInv, RowKept
  <1>11. ListedSoFar'
    <2> SUFFICES ASSUME to = "list"
                 PROVE  ListedSoFar'
      BY <1>3, <1>5 DEF ListedSoFar
    <2>1. ~reuse /\ job # "read" /\ cue.kind = "tag"
      BY <1>3
    <2>2. Pinner' /\ cmd'.want.kind = "tag" /\ cmd'.src = cmd'.want /\ Entries'
      BY <1>4, <1>5, <2>1 DEF Pinner, Entries
    <2>3. ASSUME NEW i \in DOMAIN Tags, Tags[i] \in stayed'
          PROVE  Rank(names', i) > (cmd'.page - 1) * PageSize
      <3>1. names[Tags[i]] # Gone
        BY <1>1, <2>3
      <3>2. Rank(names, i) \in Nat /\ Rank(names, i) > 0
        BY <3>1, InList
      <3>3. (cmd'.page - 1) * PageSize = 0
        BY <1>5 DEF Assumptions
      <3> QED BY <1>1, <3>2, <3>3
    <2> QED BY <1>5, <2>2, <2>3 DEF ListedSoFar
  <1>12. Selected' /\ Recorded'
    BY <1>3, <1>5 DEF Selected, Recorded, Pinner
  <1> QED BY <1>7, <1>8, <1>9, <1>10, <1>11, <1>12 DEF PinsInv

LEMMA PageEnds ==
  ASSUME NEW l \in Nat, NEW base \in Nat, NEW P \in Nat \ {0}, NEW hi, hi = IF base + P < l
           THEN base + P ELSE l
  PROVE  /\ hi \in Nat /\ \A R \in 1..l : R > base /\ R <= base + P => R <= hi
              /\ R - base \in 1..hi - base
         /\ (\E R \in 1..l : ~(R <= base + P)) => hi - (base + 1) + 1 = P /\ base + 1 <= hi
         /\ \A j \in base + 1..hi : j \in 1..l
  OBVIOUS

\* What a page of the list is: names of the list, and all of those that are on the page.
IsPage(there, base, last, batch) ==
  /\ batch \in Seq(TagSet) /\ \A k \in DOMAIN batch : \E j \in DOMAIN there : batch[k] = there[j]
  /\ \A R \in 1..Len(there) :
       R > base => IF R <= last THEN \E k \in DOMAIN batch : batch[k] = there[R]
         ELSE Len(batch) = PageSize

LEMMA PageHas ==
  ASSUME NEW there \in Seq(TagSet), NEW base \in Nat, PageSize \in Nat \ {0},
         NEW last, last = base + PageSize,
         NEW batch,
         batch = SubSeq(there, last - PageSize + 1, IF last < Len(there) THEN last ELSE Len(there))
  PROVE  IsPage(there, base, last, batch)
  <1> DEFINE l == Len(there)
             hi == IF base + PageSize < l THEN base + PageSize ELSE l
  <1>1. last - PageSize + 1 = base + 1
    OBVIOUS
  <1>0. batch = SubSeq(there, base + 1, hi)
    BY <1>1
  <1>2. l \in Nat /\ DOMAIN there = 1..l /\ \A j \in 1..l : there[j] \in TagSet
    OBVIOUS
  <1> HIDE DEF l
  <1>3. /\ hi \in Nat /\ \A R \in 1..l : R > base /\ R <= base + PageSize => R <= hi
             /\ R - base \in 1..hi - base
        /\ (\E R \in 1..l : ~(R <= base + PageSize)) => hi - (base + 1) + 1 = PageSize /\ base + 1 <= hi
        /\ \A j \in base + 1..hi : j \in 1..l
    BY <1>2, PageEnds
  <1> HIDE DEF hi
  <1>4. base + 1 \in Int /\ hi \in Int /\ \A i \in base + 1..hi : there[i] \in TagSet
    BY <1>2, <1>3
  <1>5. /\ batch \in Seq(TagSet) /\ Len(batch) = IF base + 1 <= hi THEN hi - (base + 1) + 1 ELSE 0
        /\ \A k \in 1..hi - (base + 1) + 1 : batch[k] = there[(base + 1) + k - 1]
    BY <1>0, <1>4, SubSeqProperties
  <1>6. DOMAIN batch = 1..Len(batch)
    BY <1>5
  <1>7. hi - (base + 1) + 1 = hi - base /\ DOMAIN batch = 1..hi - base
    BY <1>3, <1>5, <1>6
  <1>8. \A k \in DOMAIN batch : batch[k] = there[base + k] /\ base + k \in DOMAIN there
    <2> SUFFICES ASSUME NEW k \in 1..hi - base PROVE batch[k] = there[base + k] /\ base + k \in 1..l
      BY <1>2, <1>7
    <2>1. k \in 1..hi - (base + 1) + 1 /\ (base + 1) + k - 1 = base + k
      BY <1>3, <1>7
    <2>2. base + k \in base + 1..hi
      BY <1>3
    <2> QED BY <1>3, <1>5, <2>1, <2>2
  <1>9. ASSUME NEW R \in 1..l, R > base
        PROVE  IF R <= base + PageSize THEN \E k \in DOMAIN batch : batch[k] = there[R] ELSE Len(batch) = PageSize
    <2>1. CASE R <= base + PageSize
      <3>1. R - base \in DOMAIN batch /\ base + (R - base) = R
        BY <1>3, <1>7, <1>9, <2>1
      <3> QED BY <1>8, <2>1, <3>1
    <2>2. CASE ~(R <= base + PageSize)
      BY <1>3, <1>5, <2>2
    <2> QED BY <2>1, <2>2
  <1> QED BY <1>5, <1>8, <1>9 DEF l, IsPage

LEMMA Pages ==
  ASSUME Assumptions, NEW g \in Nat \ {0}
  PROVE  (g - 1) * PageSize \in Nat /\ g * PageSize = (g - 1) * PageSize + PageSize /\ (g + 1) - 1 = g
  <1>1. PageSize \in Nat
    BY DEF Assumptions
  <1>2. g - 1 \in Nat /\ g = (g - 1) + 1 /\ (g + 1) - 1 = g
    OBVIOUS
  <1>3. ASSUME NEW x \in Nat, NEW y \in Nat PROVE x * y \in Nat /\ (x + 1) * y = x * y + y
    OBVIOUS
  <1> QED BY <1>1, <1>2, <1>3

LEMMA PinsListTags ==
  ASSUME Assumptions, PinsInv, ListTags
  PROVE  PinsInv'
  <1> DEFINE there == There(names)[Len(Tags)]
             last == cmd.page * PageSize
             base == (cmd.page - 1) * PageSize
             batch == SubSeq(there, last - PageSize + 1, IF last < Len(there) THEN last ELSE Len(there))
             more == [i \in DOMAIN batch |-> <<batch[i], names[batch[i]]>>]
             to == CASE Len(batch) < PageSize -> "select"
                     [] Len(batch) = PageSize /\ cmd.page = MaxPages -> "failed"
                     [] OTHER -> "list"
  <1>1. /\ cmd.pc = "list"
        /\ cmd' = [cmd EXCEPT !.listed = cmd.listed \o more, !.page = @ + 1, !.pc = to]
        /\ UNCHANGED <<names, head, cue, row, cache, moved, stayed>>
    BY DEF ListTags, World
  <1>2. /\ cmd \in PinCommand /\ cmd.page \in Nat \ {0} /\ cmd.listed \in Listing
        /\ names \in [Names -> Commits \cup {Gone}]
    BY DEF PinsInv, PinsTyped, PinCommand
  <1>3. /\ Pinner /\ cmd.want.kind = "tag" /\ cmd.src = cmd.want /\ Entries
        /\ \A i \in DOMAIN Tags : Tags[i] \in stayed => Mentioned(i) \/ Rank(names, i) > base
    BY <1>1 DEF PinsInv, ListedSoFar
  <1>4. base \in Nat /\ last = base + PageSize /\ ((cmd.page + 1) - 1) * PageSize = last
          /\ PageSize \in Nat \ {0}
    <2> DEFINE g == cmd.page
    <2>1. g \in Nat \ {0}
      BY <1>2
    <2> HIDE DEF g
    <2>2. (g - 1) * PageSize \in Nat /\ g * PageSize = (g - 1) * PageSize + PageSize /\ (g + 1) - 1 = g
      BY <2>1, Pages
    <2>3. ((g + 1) - 1) * PageSize = g * PageSize
      BY <2>2
    <2>4. PageSize \in Nat \ {0}
      BY DEF Assumptions
    <2>5. base = (g - 1) * PageSize /\ last = g * PageSize
      BY DEF g
    <2> QED BY <2>2, <2>3, <2>4, <2>5 DEF g
  <1>5. there \in Seq(TagSet) /\ \A k \in DOMAIN there : names[there[k]] # Gone
    BY ListedThere
  <1>t. to \in {"select", "failed", "list"} /\ (Len(batch) = PageSize => to # "select")
    BY <1>4
  <1> HIDE DEF there, last, base, to
  <1>6. /\ batch \in Seq(TagSet) /\ \A k \in DOMAIN batch : \E j \in DOMAIN there : batch[k] = there[j]
        /\ \A R \in 1..Len(there) :
             R > base => IF R <= last THEN \E k \in DOMAIN batch : batch[k] = there[R]
               ELSE Len(batch) = PageSize
    <2>1. /\ there \in Seq(TagSet) /\ base \in Nat /\ PageSize \in Nat \ {0}
          /\ last = base + PageSize
      BY <1>4, <1>5
    <2>2. batch = SubSeq(there, last - PageSize + 1, IF last < Len(there) THEN last ELSE Len(there))
      BY DEF batch
    <2> HIDE DEF batch
    <2>3. IsPage(there, base, last, batch)
      BY <2>1, <2>2, PageHas
    <2> QED BY <2>3 DEF IsPage
  <1> HIDE DEF batch
  <1>7. \A k \in DOMAIN batch : batch[k] \in TagSet /\ names[batch[k]] \in Commits
    <2>1. \A k \in DOMAIN batch : batch[k] \in TagSet /\ names[batch[k]] # Gone
      BY <1>5, <1>6
    <2>2. TagSet \subseteq Names
      BY DEF Names
    <2> QED BY <1>2, <2>1, <2>2
  <1>8. more \in Listing /\ DOMAIN more = DOMAIN batch
    <2>1. DOMAIN batch = 1..Len(batch) /\ Len(batch) \in Nat
      BY <1>6
    <2>2. more \in [1..Len(batch) -> TagSet \X Commits]
      BY <1>7, <2>1
    <2> QED BY <2>1, <2>2 DEF Listing
  <1>9. \A k \in DOMAIN more : more[k][1] = batch[k] /\ more[k][2] = names[batch[k]]
    BY <1>8
  <1> HIDE DEF more
  <1>10. /\ cmd.listed \o more \in Listing
         /\ \A k \in DOMAIN cmd.listed : k \in DOMAIN (cmd.listed \o more)
              /\ (cmd.listed \o more)[k] = cmd.listed[k]
         /\ \A k \in DOMAIN more : /\ Len(cmd.listed) + k \in DOMAIN (cmd.listed \o more)
                                   /\ (cmd.listed \o more)[Len(cmd.listed) + k] = more[k]
         /\ \A k \in DOMAIN (cmd.listed \o more) :
              k \in DOMAIN cmd.listed \/ \E j \in DOMAIN more : k = Len(cmd.listed) + j
    <2> DEFINE a == cmd.listed
    <2>1. a \in Listing
      BY <1>2
    <2> HIDE DEF a
    <2>2. /\ a \o more \in Listing /\ Len(a \o more) = Len(a) + Len(more) /\ Len(a) \in Nat
               /\ Len(more) \in Nat
          /\ DOMAIN a = 1..Len(a) /\ DOMAIN more = 1..Len(more)
               /\ DOMAIN (a \o more) = 1..Len(a) + Len(more)
      BY <1>8, <2>1 DEF Listing
    <2>3. /\ \A k \in 1..Len(a) : (a \o more)[k] = a[k]
          /\ \A k \in 1..Len(more) : (a \o more)[Len(a) + k] = more[k]
      BY <1>8, <2>1 DEF Listing
    <2>4. ASSUME NEW k \in 1..Len(a) + Len(more), ~(k \in 1..Len(a))
          PROVE  k - Len(a) \in 1..Len(more) /\ k = Len(a) + (k - Len(a))
      BY <2>2, <2>4
    <2>5. \A k \in 1..Len(more) : Len(a) + k \in 1..Len(a) + Len(more)
      BY <2>2
    <2>6. 1..Len(a) \subseteq 1..Len(a) + Len(more)
      BY <2>2
    <2> QED BY <2>2, <2>3, <2>4, <2>5, <2>6 DEF a
  <1> DEFINE all == cmd.listed \o more
  <1> HIDE DEF all
  <1>11. /\ cmd'.listed = all /\ cmd'.page = cmd.page + 1 /\ cmd'.pc = to /\ cmd'.job = cmd.job
         /\ cmd'.want = cmd.want /\ cmd'.src = cmd.src /\ cmd'.old = cmd.old
    BY <1>1, <1>2 DEF PinCommand, all
  <1>12. PinsTyped'
    <2>1. cmd' \in PinCommand
      <3>1. cmd.page + 1 \in Nat \ {0} /\ all \in Listing
        BY <1>2, <1>10 DEF all
      <3> QED BY <1>1, <1>2, <1>t, <3>1 DEF PinCommand, all
    <2> QED BY <1>1, <2>1 DEF PinsInv, PinsTyped, TagSet
  <1>13. TagsCached' /\ RowKept' /\ TagsStayed'
    BY <1>1 DEF PinsInv, TagsCached, RowKept, TagsStayed, Same
  <1>14. ToPin' /\ ToRead' /\ Selected' /\ Recorded'
    BY <1>3, <1>11, <1>t DEF ToPin, ToRead, Selected, Recorded, Pinner
  <1>15. Entries'
    <2> SUFFICES ASSUME NEW k \in DOMAIN all
                 PROVE  Same(all[k][1], all[k][2])
                          /\ (all[k][1] \in stayed => all[k][2] = names[all[k][1]])
      BY <1>1, <1>11 DEF Entries, Same
    <2>1. CASE k \in DOMAIN cmd.listed
      <3>1. all[k] = cmd.listed[k]
        BY <1>10, <2>1 DEF all
      <3> QED BY <1>3, <2>1, <3>1 DEF Entries
    <2>2. ASSUME NEW j \in DOMAIN more, k = Len(cmd.listed) + j
          PROVE  all[k][2] = names[all[k][1]]
      BY <1>8, <1>9, <1>10, <2>2 DEF all
    <2> QED BY <1>10, <2>1, <2>2 DEF Same, all
  <1>16. ASSUME NEW i \in DOMAIN Tags, Tags[i] \in stayed, to # "failed"
         PROVE  (\E k \in DOMAIN all : all[k][1] = Tags[i]) \/ (to = "list" /\ Rank(names, i) > last)
    <2>1. CASE Mentioned(i)
      <3>1. PICK k \in DOMAIN cmd.listed : cmd.listed[k][1] = Tags[i]
        BY <2>1 DEF Mentioned
      <3>2. k \in DOMAIN all /\ all[k][1] = Tags[i]
        BY <1>10, <3>1 DEF all
      <3> QED BY <3>2
    <2>2. CASE Rank(names, i) > base
      <3>1. names[Tags[i]] # Gone
        BY <1>16 DEF PinsInv, TagsStayed
      <3>2. Rank(names, i) \in 1..Len(there) /\ there[Rank(names, i)] = Tags[i]
              /\ Rank(names, i) \in Nat
        BY <3>1, InList DEF there
      <3>3. CASE Rank(names, i) <= last
        <4>1. PICK k \in DOMAIN batch : batch[k] = Tags[i]
          BY <1>6, <2>2, <3>2, <3>3
        <4>2. k \in DOMAIN more /\ more[k][1] = Tags[i]
          BY <1>8, <1>9, <4>1
        <4>3. Len(cmd.listed) + k \in DOMAIN all /\ all[Len(cmd.listed) + k][1] = Tags[i]
          BY <1>10, <4>2 DEF all
        <4> QED BY <4>3
      <3>4. CASE ~(Rank(names, i) <= last)
        <4>1. Len(batch) = PageSize
          BY <1>6, <2>2, <3>2, <3>4
        <4>2. last \in Nat
          BY <1>4
        <4> QED BY <1>t, <1>16, <3>2, <3>4, <4>1, <4>2
      <3> QED BY <3>3, <3>4
    <2> QED BY <1>3, <1>16, <2>1, <2>2
  <1>17. ListedSoFar'
    <2>1. (cmd'.page - 1) * PageSize = last
      <3>1. cmd'.page = cmd.page + 1
        BY <1>11
      <3> QED BY <1>4, <3>1, Zenon
    <2>2. Pinner' /\ cmd'.want.kind = "tag" /\ cmd'.src = cmd'.want
      BY <1>3, <1>11 DEF Pinner
    <2> QED BY <1>1, <1>11, <1>15, <1>16, <2>1, <2>2 DEF ListedSoFar, Mentioned
  <1> QED BY <1>12, <1>13, <1>14, <1>15, <1>17 DEF PinsInv

\* A tag that is listed has a first mention.
LEMMA MentionIs ==
  ASSUME NEW t, cmd.listed \in Listing, NEW i \in DOMAIN cmd.listed, cmd.listed[i][1] = t
  PROVE  FirstMention(t) \in DOMAIN cmd.listed /\ cmd.listed[FirstMention(t)][1] = t
  <1> DEFINE T == {k \in DOMAIN cmd.listed : cmd.listed[k][1] = t}
  <1>1. T \in SUBSET Nat /\ i \in T /\ DOMAIN cmd.listed = 1..Len(cmd.listed) /\ Len(cmd.listed) \in Nat
    BY DEF Listing
  <1>2. PICK n \in T : \A m \in T : n <= m
    <2> HIDE DEF T
    <2> QED BY <1>1, SmallestOf
  <1>3. \A j \in 1..n - 1 : cmd.listed[j][1] # t
    <2> SUFFICES ASSUME NEW j \in 1..n - 1, cmd.listed[j][1] = t PROVE FALSE
      OBVIOUS
    <2>1. j \in DOMAIN cmd.listed /\ ~(n <= j)
      BY <1>1, <1>2
    <2> QED BY <1>2, <2>1
  <1> QED BY <1>2, <1>3 DEF FirstMention

LEMMA PinsNewestTag ==
  ASSUME Assumptions, PinsInv, NewestTag
  PROVE  PinsInv'
  <1> DEFINE p == cmd.src.name
             best == SelectNewestTag(p, cmd.listed)
             t == best[1]
             sha == ShaByName(t)
  <1>1. /\ cmd.pc = "select"
        /\ cmd' = IF best = <<>> THEN [cmd EXCEPT !.pc = "failed"]
                  ELSE [cmd EXCEPT !.pc = "fetch", !.src = Ref(t), !.url = sha]
        /\ UNCHANGED <<names, head, cue, row, cache, moved, stayed>>
    BY DEF NewestTag, World
  <1>2. cmd \in PinCommand /\ cmd.listed \in Listing /\ names \in [Names -> Commits \cup {Gone}]
    BY DEF PinsInv, PinsTyped, PinCommand
  <1>3. /\ Pinner /\ cmd.want.kind = "tag" /\ cmd.src = cmd.want /\ Entries
        /\ \A i \in DOMAIN Tags : Tags[i] \in stayed => Mentioned(i)
    BY <1>1 DEF PinsInv, ListedSoFar
  <1>4. TagsCached' /\ RowKept' /\ TagsStayed'
    BY <1>1 DEF PinsInv, TagsCached, RowKept, TagsStayed, Same
  <1>5. CASE best = <<>>
    <2> HIDE DEF best, t, sha
    <2>1. cmd' = [cmd EXCEPT !.pc = "failed"]
      BY <1>1, <1>5
    <2>2. cmd'.pc = "failed" /\ cmd' \in PinCommand
      BY <1>2, <2>1 DEF PinCommand
    <2>3. PinsTyped'
      BY <1>1, <2>2 DEF PinsInv, PinsTyped, TagSet
    <2>4. ToPin' /\ ToRead' /\ ListedSoFar' /\ Selected' /\ Recorded'
      BY <2>2 DEF ToPin, ToRead, ListedSoFar, Selected, Recorded
    <2> QED BY <1>4, <2>3, <2>4 DEF PinsInv
  <1>6. CASE best # <<>>
    <2>1. best = BestOf(p, NewerTags(p), cmd.listed)[Len(cmd.listed)]
      BY DEF SelectNewestTag
    <2> HIDE DEF best, sha
    <2>2. Len(cmd.listed) \in 0..Len(cmd.listed) /\ DOMAIN cmd.listed = 1..Len(cmd.listed)
      BY <1>2 DEF Listing
    <2>3. /\ \E i \in 1..Len(cmd.listed) : best = cmd.listed[i] /\ TagMatches(p, cmd.listed[i][1])
          /\ (\A i \in DOMAIN cmd.listed : TagMatches(p, cmd.listed[i][1])
               => Ranked(RankTag(p, cmd.listed[i][1]))) =>
               \A i \in 1..Len(cmd.listed) : TagMatches(p, cmd.listed[i][1]) =>
                 ~NewerThan(RankTag(p, cmd.listed[i][1]), RankTag(p, t))
      <3> DEFINE listed == cmd.listed
                 chosen == BestOf(p, NewerTags(p), listed)
                 Right(n) ==
                   /\ chosen[n] = <<>> => \A i \in 1..n : ~TagMatches(p, listed[i][1])
                   /\ chosen[n] # <<>> =>
                        /\ \E i \in 1..n : chosen[n] = listed[i] /\ TagMatches(p, listed[i][1])
                        /\ (\A i \in DOMAIN listed : TagMatches(p, listed[i][1])
                             => Ranked(RankTag(p, listed[i][1]))) =>
                             \A i \in 1..n : TagMatches(p, listed[i][1]) =>
                               ~NewerThan(RankTag(p, listed[i][1]), RankTag(p, chosen[n][1]))
      <3>1. listed \in Listing /\ best = chosen[Len(listed)] /\ t = best[1]
        BY <1>2, <2>1
      <3> HIDE DEF listed, t, p
      <3>2. \A n \in 0..Len(listed) : Right(n)
        BY <3>1, BestIs
      <3> HIDE DEF Right, chosen
      <3>3. Right(Len(listed))
        BY <2>2, <3>2 DEF listed
      <3> QED BY <1>6, <3>1, <3>3 DEF Right, listed
    <2>4. PICK i \in DOMAIN cmd.listed : best = cmd.listed[i] /\ TagMatches(p, cmd.listed[i][1])
      BY <2>2, <2>3
    <2>5. t = cmd.listed[i][1] /\ t \in Accepts[p] /\ t \in TagSet
      <3>1. cmd.listed[i] \in TagSet \X Commits
        BY <1>2 DEF Listing
      <3> QED BY <2>4, <3>1 DEF TagMatches
    <2>6. FirstMention(t) \in DOMAIN cmd.listed /\ cmd.listed[FirstMention(t)][1] = t
      BY <1>2, <2>5, MentionIs
    <2>7. sha \in Commits /\ sha # Gone /\ Same(t, sha) /\ (t \in stayed => sha = names[t])
      <3>1. sha = cmd.listed[FirstMention(t)][2]
        BY DEF sha, ShaByName
      <3>2. cmd.listed[FirstMention(t)] \in TagSet \X Commits
        BY <1>2, <2>6 DEF Listing
      <3>3. sha \in Commits
        BY <3>1, <3>2
      <3> QED BY <1>3, <2>6, <3>1, <3>3 DEF Assumptions, Entries
    <2>8. cmd' = [cmd EXCEPT !.pc = "fetch", !.src = Ref(t), !.url = sha]
      BY <1>1, <1>6
    <2> HIDE DEF t
    <2>9. /\ cmd'.pc = "fetch" /\ cmd'.src = Ref(t) /\ cmd'.url = sha /\ cmd'.job = cmd.job
          /\ cmd'.want = cmd.want /\ cmd'.old = cmd.old /\ Pinner'
      BY <1>2, <1>3, <2>8 DEF PinCommand, Pinner
    <2>10. cmd'.src.kind = "ref" /\ cmd'.src.name = t /\ Ref(t) \in PinSources
      BY <2>5, <2>9 DEF Ref, PinSources, Names
    <2>11. PinsTyped'
      <3>1. cmd' \in PinCommand
        BY <1>2, <2>7, <2>8, <2>10 DEF PinCommand
      <3> QED BY <1>1, <3>1 DEF PinsInv, PinsTyped, TagSet
    <2>12. ToPin' /\ ToRead' /\ ListedSoFar' /\ Recorded'
      BY <1>1, <1>3, <2>7, <2>9, <2>10 DEF ToPin, ToRead, ListedSoFar, Pinner, Same, Recorded
    <2>13. Newest(p, t)
      <3> SUFFICES ASSUME \A s \in Accepts[p] : ~RankTag(p, s).lexical,
                          NEW s \in stayed \cap Accepts[p], Older(p, t, s)
                   PROVE  FALSE
        BY DEF Newest
      <3>1. s \in TagSet
        BY DEF PinsInv, PinsTyped
      <3>2. PICK n \in DOMAIN Tags : Tags[n] = s
        BY <3>1 DEF TagSet, Range
      <3>3. PICK k \in DOMAIN cmd.listed : cmd.listed[k][1] = s
        BY <1>3, <3>2 DEF Mentioned
      <3>4. \A j \in DOMAIN cmd.listed : TagMatches(p, cmd.listed[j][1])
              => Ranked(RankTag(p, cmd.listed[j][1]))
        <4> SUFFICES ASSUME NEW j \in DOMAIN cmd.listed, TagMatches(p, cmd.listed[j][1])
                     PROVE  Ranked(RankTag(p, cmd.listed[j][1]))
          OBVIOUS
        <4>1. cmd.listed[j][1] \in TagSet
          BY <1>2 DEF Listing
        <4>2. ~RankTag(p, cmd.listed[j][1]).lexical
          BY DEF TagMatches
        <4> QED BY <4>1, <4>2, RankIs
      <3>5. ~NewerThan(RankTag(p, s), RankTag(p, t))
        BY <2>2, <2>3, <3>3, <3>4 DEF TagMatches
      <3> QED BY <2>5, <3>1, <3>5, OlderIsNewer
    <2>14. Selected'
      <3>1. cmd'.want.name = p /\ cmd'.src.name = t
        BY <1>3, <2>9, <2>10
      <3> HIDE DEF p
      <3>2. (Newest(cmd.want.name, cmd.src.name))'
        BY <1>1, <2>13, <3>1 DEF Newest
      <3> QED BY <1>1, <2>5, <2>7, <2>9, <2>10, <3>1, <3>2 DEF Selected
    <2> QED BY <1>4, <2>11, <2>12, <2>14 DEF PinsInv
  <1> QED BY <1>5, <1>6

\* A command that fails leaves the lock and the caches as they are.
LEMMA PinsFail ==
  ASSUME PinsInv, Fail
  PROVE  PinsInv'
  <1>1. cmd' = [cmd EXCEPT !.pc = "failed"] /\ UNCHANGED <<names, head, cue, row, cache, moved, stayed>>
    BY DEF Fail, World
  <1>2. cmd \in PinCommand
    BY DEF PinsInv, PinsTyped
  <1>3. cmd'.pc = "failed" /\ cmd' \in PinCommand
    BY <1>1, <1>2 DEF PinCommand
  <1>4. PinsTyped'
    BY <1>1, <1>3 DEF PinsInv, PinsTyped, TagSet
  <1>5. TagsCached' /\ RowKept' /\ TagsStayed'
    BY <1>1 DEF PinsInv, TagsCached, RowKept, TagsStayed, Same
  <1>6. ToPin' /\ ToRead' /\ ListedSoFar' /\ Selected' /\ Recorded'
    BY <1>3 DEF ToPin, ToRead, ListedSoFar, Selected, Recorded
  <1> QED BY <1>4, <1>5, <1>6 DEF PinsInv

LEMMA PinsPin ==
  ASSUME Assumptions, PinsInv, Pin
  PROVE  PinsInv'
  <1>1. /\ cmd.pc = "pin" /\ cmd' = [cmd EXCEPT !.pc = "done"]
        /\ row' = [ref |-> TrackingRef(cmd.src), commit |-> cmd.got]
        /\ UNCHANGED <<names, head, cue, cache, moved, stayed>>
    BY DEF Pin, World
  <1>2. cmd \in PinCommand /\ cmd.src \in PinSources /\ cmd.got \in Commits \cup {Gone}
          /\ head \in Branches
    BY DEF PinsInv, PinsTyped, PinCommand
  <1>3. Pinner /\ cmd.src.kind # "tag" /\ cmd.got # Gone
          /\ (IsTag(cmd.src) => Same(cmd.src.name, cmd.got))
    BY <1>1 DEF PinsInv, ToPin
  <1>4. /\ cmd'.pc = "done" /\ cmd' \in PinCommand /\ cmd'.job = cmd.job /\ cmd'.src = cmd.src
        /\ cmd'.url = cmd.url /\ cmd'.want = cmd.want /\ cmd'.got = cmd.got
    BY <1>1, <1>2 DEF PinCommand
  <1>5. TrackingRef(cmd.src) \in Names
          /\ (TrackingRef(cmd.src) \in TagSet => IsTag(cmd.src) /\ TrackingRef(cmd.src) = cmd.src.name)
    <2>1. CASE cmd.src.kind = "ref" /\ cmd.src.name \notin HexTags
      <3>1. cmd.src.name \in Names
        BY <1>2, <2>1, SourceKinds
      <3> QED BY <2>1, <3>1 DEF TrackingRef, IsTag
    <2>2. CASE ~(cmd.src.kind = "ref" /\ cmd.src.name \notin HexTags)
      BY <1>2, <2>2 DEF Assumptions, TrackingRef, Names
    <2> QED BY <2>1, <2>2
  <1>6. row' \in PinRow /\ row'.ref = TrackingRef(cmd.src) /\ row'.commit = cmd.got
    BY <1>1, <1>2, <1>3, <1>5 DEF PinRow
  <1>7. PinsTyped'
    <2>1. row' \in PinRow
      BY <1>6
    <2> QED BY <1>1, <1>4, <2>1 DEF PinsInv, PinsTyped, TagSet, PinRow, Names
  <1>8. TagsCached' /\ TagsStayed'
    BY <1>1 DEF PinsInv, TagsCached, TagsStayed, Same
  <1>9. RowKept'
    BY <1>1, <1>3, <1>5, <1>6 DEF RowKept, Same, TagSet
  <1>10. ToPin' /\ ToRead' /\ ListedSoFar'
    BY <1>3, <1>4 DEF ToPin, ToRead, ListedSoFar, Pinner
  <1>11. Selected'
    BY <1>1, <1>3, <1>4 DEF PinsInv, Selected, Pinner, Newest
  <1>12. Recorded'
    <2> SUFFICES ASSUME cmd.want.kind = "tag"
                 PROVE  IF cmd.src.name \in HexTags THEN row'.ref \in Branches
                        ELSE row' = [ref |-> cmd.src.name, commit |-> cmd.got]
      BY <1>1, <1>4 DEF Recorded
    <2>1. cmd.src = Ref(cmd.src.name)
      BY <1>1, <1>3 DEF PinsInv, Selected
    <2>2. cmd.src.kind = "ref"
      BY <2>1 DEF Ref
    <2> QED BY <1>1, <1>2, <2>2 DEF TrackingRef
  <1> QED BY <1>7, <1>8, <1>9, <1>10, <1>11, <1>12 DEF PinsInv

\* What a source is read as: the commit that it names, a tag as what it is, or what the cache has.
LEMMA FetchedIs ==
  ASSUME Assumptions, PinsTyped, TagsCached, NEW m \in Machines, NEW v \in PinSources,
           NEW url \in Commits \cup {Gone},
         NEW fresh, NEW c,
         c = IF cache[m][CacheKey(v, url)] # Gone /\ ~fresh THEN cache[m][CacheKey(v, url)]
           ELSE ResolvePinned(v, url),
         c # Gone
  PROVE  /\ CacheKey(v, url) \in Keys /\ c \in Commits
         /\ url # Gone => CacheKey(v, url) = <<"url", url>> /\ c = url
         /\ url = Gone /\ IsTag(v) => CacheKey(v, url) = <<"repo", v.name>> /\ Same(v.name, c)
         /\ url = Gone /\ ~IsTag(v) =>
              /\ \A d \in Commits : CacheKey(v, url) # <<"url", d>>
              /\ \A t \in TagSet : CacheKey(v, url) = <<"repo", t>> => c = cache[m][CacheKey(v, url)]
  <1> DEFINE k == CacheKey(v, url)
  <1>0. cache \in [Machines -> [Keys -> Commits \cup {Gone}]]
          /\ names \in [Names -> Commits \cup {Gone}]
        /\ head \in Branches /\ Branches \subseteq Names
    BY DEF PinsTyped, Names
  <1>n. Nothing.kind = "none"
    BY DEF Nothing
  <1>1. CASE url # Gone
    <2>1. k = <<"url", url>> /\ ResolvePinned(v, url) = url /\ url \in Commits
      BY <1>1 DEF CacheKey, ResolvePinned
    <2>2. k \in Keys
      BY <2>1 DEF Keys
    <2>3. cache[m][k] \in {Gone, url}
      BY <2>1 DEF TagsCached
    <2> HIDE DEF k
    <2> QED BY <1>1, <2>1, <2>2, <2>3 DEF k
  <1>2. CASE url = Gone
    <2>1. CASE v.kind \in {"none", "head"}
      <3>1. k = <<"repo", "HEAD">> /\ ResolvePinned(v, url) = names[head] /\ ~IsTag(v)
        BY <1>2, <2>1, SourceKinds DEF CacheKey, ResolvePinned, IsTag
      <3>2. k \in Keys
        BY <3>1 DEF Keys
      <3>3. \A t \in TagSet : k # <<"repo", t>>
        BY <3>1 DEF Assumptions
      <3>4. names[head] \in Commits \cup {Gone} /\ cache[m][k] \in Commits \cup {Gone}
        BY <1>0, <3>2
      <3>5. \A d \in Commits : k # <<"url", d>>
        BY <3>1
      <3> HIDE DEF k
      <3> QED BY <1>2, <3>1, <3>2, <3>3, <3>4, <3>5 DEF k
    <2>2. CASE v.kind = "ref"
      <3>0. v # Nothing
        BY <1>n, <2>2
      <3>1. k = <<"repo", v.name>> /\ ResolvePinned(v, url) = names[v.name] /\ v.name \in Names
        BY <1>2, <2>2, <3>0, SourceKinds DEF CacheKey, ResolvePinned
      <3>2. k \in Keys
        BY <3>1 DEF Keys
      <3>3. names[v.name] \in Commits \cup {Gone} /\ cache[m][k] \in Commits \cup {Gone}
        BY <1>0, <3>1, <3>2
      <3>4. \A d \in Commits : k # <<"url", d>>
        BY <3>1
      <3>5. v.name \in TagSet => cache[m][k] = Gone \/ Same(v.name, cache[m][k])
        BY <3>1 DEF TagsCached
      <3>6. IsTag(v) <=> v.name \in TagSet
        BY <2>2 DEF IsTag
      <3>7. \A t \in TagSet : k = <<"repo", t>> => t = v.name
        BY <3>1
      <3> HIDE DEF k
      <3>8. c \in Commits
        BY <3>1, <3>3 DEF k
      <3>9. IsTag(v) => Same(v.name, c)
        BY <3>1, <3>5, <3>6 DEF k, Same
      <3> QED BY <1>2, <3>1, <3>2, <3>4, <3>6, <3>7, <3>8, <3>9 DEF k
    <2>3. CASE v.kind = "sha"
      <3>0. v # Nothing
        BY <1>n, <2>3
      <3>1. k = <<"repo", v.name>> /\ ResolvePinned(v, url) = v.name /\ v.name \in Commits /\ ~IsTag(v)
        BY <1>2, <2>3, <3>0, SourceKinds DEF CacheKey, ResolvePinned, IsTag
      <3>2. k \in Keys
        BY <3>1 DEF Keys
      <3>3. \A t \in TagSet : k # <<"repo", t>>
        BY <3>1 DEF Assumptions
      <3>4. cache[m][k] \in Commits \cup {Gone}
        BY <1>0, <3>2
      <3>5. \A d \in Commits : k # <<"url", d>>
        BY <3>1
      <3> HIDE DEF k
      <3> QED BY <1>2, <3>1, <3>2, <3>3, <3>4, <3>5 DEF k
    <2>4. CASE v.kind = "tag"
      <3>0. v # Nothing
        BY <1>n, <2>4
      <3>1. k = <<"repo", v.name>> /\ ResolvePinned(v, url) = Gone /\ v.name \in DOMAIN Accepts
              /\ ~IsTag(v)
        BY <1>2, <2>4, <3>0, SourceKinds DEF CacheKey, ResolvePinned, IsTag
      <3>2. k \in Keys
        BY <3>1 DEF Keys
      <3>4. cache[m][k] \in Commits \cup {Gone}
        BY <1>0, <3>2
      <3>5. \A d \in Commits : k # <<"url", d>>
        BY <3>1
      <3> HIDE DEF k
      <3> QED BY <1>2, <3>1, <3>2, <3>4, <3>5 DEF k
    <2> QED BY <2>1, <2>2, <2>3, <2>4, SourceKinds
  <1> QED BY <1>1, <1>2

LEMMA PinsEnsureSource ==
  ASSUME Assumptions, PinsInv, EnsureSource
  PROVE  PinsInv'
  <1> DEFINE m == cmd.by
             k == CacheKey(cmd.src, cmd.url)
             hit == cache[m][k] # Gone /\ ~cmd.fresh
             c == IF hit THEN cache[m][k] ELSE ResolvePinned(cmd.src, cmd.url)
             to == IF cmd.job = "read" THEN "done" ELSE "pin"
  <1>1. /\ cmd.pc = "fetch"
        /\ IF c = Gone THEN cmd' = [cmd EXCEPT !.pc = "failed"] /\ UNCHANGED cache
           ELSE /\ cmd' = [cmd EXCEPT !.got = c, !.pc = to]
                /\ cache' = [cache EXCEPT ![m][k] = c]
        /\ UNCHANGED <<names, head, cue, row, moved, stayed>>
    BY DEF EnsureSource, World
  <1>2. /\ cmd \in PinCommand /\ m \in Machines /\ cmd.src \in PinSources
             /\ cmd.url \in Commits \cup {Gone}
        /\ cmd.old \in PinRow /\ cache \in [Machines -> [Keys -> Commits \cup {Gone}]]
    BY DEF PinsInv, PinsTyped, PinCommand
  <1>3. RowKept' /\ TagsStayed'
    BY <1>1 DEF PinsInv, RowKept, TagsStayed, Same
  <1>4. CASE c = Gone
    <2> HIDE DEF c
    <2>1. cmd'.pc = "failed" /\ cmd' \in PinCommand /\ UNCHANGED cache
      BY <1>1, <1>2, <1>4 DEF PinCommand
    <2>2. PinsTyped' /\ TagsCached'
      BY <1>1, <2>1 DEF PinsInv, PinsTyped, TagsCached, Same, TagSet
    <2>3. ToPin' /\ ToRead' /\ ListedSoFar' /\ Selected' /\ Recorded'
      BY <2>1 DEF ToPin, ToRead, ListedSoFar, Selected, Recorded
    <2> QED BY <1>3, <2>2, <2>3 DEF PinsInv
  <1>5. CASE c # Gone
    <2>1. /\ k \in Keys /\ c \in Commits
          /\ cmd.url # Gone => k = <<"url", cmd.url>> /\ c = cmd.url
          /\ cmd.url = Gone /\ IsTag(cmd.src) => k = <<"repo", cmd.src.name>> /\ Same(cmd.src.name, c)
          /\ cmd.url = Gone /\ ~IsTag(cmd.src) =>
               /\ \A d \in Commits : k # <<"url", d>>
               /\ \A t \in TagSet : k = <<"repo", t>> => c = cache[m][k]
      BY <1>2, <1>5, FetchedIs DEF PinsInv
    <2> HIDE DEF c, k, m, to
    <2>2. cmd' = [cmd EXCEPT !.got = c, !.pc = to] /\ cache' = [cache EXCEPT ![m][k] = c]
      BY <1>1, <1>5
    <2>3. /\ cmd'.pc = to /\ cmd'.job = cmd.job /\ cmd'.src = cmd.src /\ cmd'.url = cmd.url
          /\ cmd'.want = cmd.want /\ cmd'.old = cmd.old /\ cmd'.got = c
      BY <1>2, <2>2 DEF PinCommand
    <2>4. to \in {"done", "pin"} /\ (cmd.job = "read" => to = "done")
            /\ (cmd.job # "read" => to = "pin")
      BY DEF to
    <2>5. PinsTyped'
      <3>1. cmd' \in PinCommand
        BY <1>2, <2>1, <2>2, <2>4 DEF PinCommand
      <3>2. cache' \in [Machines -> [Keys -> Commits \cup {Gone}]]
        BY <1>2, <2>1, <2>2
      <3> QED BY <1>1, <3>1, <3>2 DEF PinsInv, PinsTyped, TagSet
    <2>6. TagsCached'
      <3>1. ASSUME NEW n \in Machines, NEW x \in Keys
            PROVE  cache'[n][x] = IF n = m /\ x = k THEN c ELSE cache[n][x]
        BY <1>2, <2>1, <2>2
      <3>2. ASSUME NEW n \in Machines, NEW d \in Commits PROVE cache'[n][<<"url", d>>] \in {Gone, d}
        <4>1. <<"url", d>> \in Keys
          BY DEF Keys
        <4>2. cache[n][<<"url", d>>] \in {Gone, d}
          BY DEF PinsInv, TagsCached
        <4>3. <<"url", d>> = k => c = d
          BY <1>2, <2>1
        <4> QED BY <3>1, <4>1, <4>2, <4>3
      <3>3. ASSUME NEW n \in Machines, NEW t \in TagSet, cache'[n][<<"repo", t>>] # Gone
            PROVE  Same(t, cache'[n][<<"repo", t>>])
        <4>1. <<"repo", t>> \in Keys
          BY DEF Keys, Names
        <4>2. cache[n][<<"repo", t>>] # Gone => Same(t, cache[n][<<"repo", t>>])
          BY DEF PinsInv, TagsCached
        <4>3. n = m /\ <<"repo", t>> = k => Same(t, c)
          <5>1. CASE cmd.url = Gone /\ IsTag(cmd.src)
            BY <2>1, <5>1
          <5>2. CASE cmd.url = Gone /\ ~IsTag(cmd.src)
            BY <1>5, <2>1, <4>2, <5>2
          <5>3. CASE cmd.url # Gone
            BY <2>1, <5>3
          <5> QED BY <5>1, <5>2, <5>3
        <4> QED BY <3>1, <3>3, <4>1, <4>2, <4>3
      <3> QED BY <1>1, <3>2, <3>3 DEF TagsCached, Same, TagSet
    <2>7. ToPin'
      <3>1. cmd.job # "reuse" /\ (Pinner => cmd.src.kind # "tag")
            /\ (Pinner /\ IsTag(cmd.src) /\ cmd.url # Gone => Same(cmd.src.name, cmd.url))
        BY <1>1 DEF PinsInv, ToPin
      <3>2. cmd.job # "read" => Pinner
        BY <1>2, <3>1 DEF PinCommand, Pinner
      <3>3. cmd.job # "read" /\ IsTag(cmd.src) => Same(cmd.src.name, c)
        BY <2>1, <3>1, <3>2
      <3> QED BY <1>1, <1>5, <2>3, <2>4, <3>1, <3>2, <3>3 DEF ToPin, Pinner, IsTag, Same, TagSet
    <2>8. ToRead'
      <3> SUFFICES ASSUME cmd.job = "read", cmd.old # NoRow
                   PROVE  /\ cmd.want = Nothing => cmd.url = cmd.old.commit /\ c = cmd.url
                          /\ cmd.want.kind = "tag" /\ TagMatches(cmd.want.name, cmd.old.ref) =>
                               /\ cmd.src = Ref(cmd.old.ref) /\ cmd.url = Gone /\ cmd.old.ref \in TagSet
                               /\ cmd.old.ref \in moved \/ c = cmd.old.commit
        BY <1>1, <2>3, <2>4 DEF ToRead, TagSet
      <3>1. /\ cmd.want = Nothing => cmd.url = cmd.old.commit
            /\ cmd.want.kind = "tag" /\ TagMatches(cmd.want.name, cmd.old.ref) =>
                 /\ cmd.src = Ref(cmd.old.ref) /\ cmd.url = Gone /\ cmd.old.ref \in TagSet
                 /\ Same(cmd.old.ref, cmd.old.commit)
        BY <1>1 DEF PinsInv, ToRead
      <3>2. cmd.old.commit # Gone
        BY <1>2, RowKinds
      <3>3. \A t \in TagSet : IsTag(Ref(t)) /\ Ref(t).name = t
        BY DEF IsTag, Ref
      <3> QED BY <2>1, <3>1, <3>2, <3>3 DEF Same
    <2>9. ListedSoFar'
      BY <2>3, <2>4 DEF ListedSoFar
    <2>10. Selected'
      <3> SUFFICES ASSUME Pinner, cmd.want.kind = "tag"
                   PROVE  /\ cmd.src = Ref(cmd.src.name) /\ cmd.src.name \in Accepts[cmd.want.name]
                          /\ cmd.url # Gone /\ (cmd.src.name \in stayed
                               => cmd.url = names[cmd.src.name])
                          /\ c = cmd.url /\ Newest(cmd.want.name, cmd.src.name)
        BY <1>1, <2>3 DEF Selected, Pinner, Newest
      <3> QED BY <1>1, <2>1 DEF PinsInv, Selected
    <2>11. Recorded'
      <3>1. Pinner => to = "pin"
        BY <2>4 DEF Pinner
      <3> QED BY <2>3, <3>1 DEF Recorded, Pinner
    <2> QED BY <1>3, <2>5, <2>6, <2>7, <2>8, <2>9, <2>10, <2>11 DEF PinsInv
  <1> QED BY <1>4, <1>5

LEMMA PinsPoint ==
  ASSUME Assumptions, PinsInv, NEW n \in Names, NEW c \in Commits \cup {Gone}, Point(n, c)
  PROVE  PinsInv'
  <1>1. /\ names' = [names EXCEPT ![n] = c]
        /\ moved' = IF names[n] = Gone THEN moved ELSE moved \cup {n}
        /\ stayed' = IF c = Gone /\ cmd.pc = "list" THEN {} ELSE stayed \ {n}
        /\ UNCHANGED <<head, cue, row, cache, cmd>>
    BY DEF Point, Move
  <1>2. /\ names \in [Names -> Commits \cup {Gone}] /\ TagSet \subseteq Names /\ cmd \in PinCommand
        /\ row \in PinRow /\ stayed \subseteq TagSet
             /\ cache \in [Machines -> [Keys -> Commits \cup {Gone}]]
        /\ cmd.url \in Commits \cup {Gone} /\ cmd.old \in PinRow /\ cmd.listed \in Listing
    BY DEF PinsInv, PinsTyped, PinCommand, Names
  <1>3. moved \subseteq moved' /\ stayed' \subseteq stayed /\ \A t \in stayed' : names'[t] = names[t]
    BY <1>1, <1>2
  <1>4. ASSUME NEW t \in TagSet, NEW x, x # Gone, Same(t, x)
        PROVE  t \in moved' \/ x = names'[t]
    <2>1. CASE t = n
      BY <1>1, <1>3, <1>4, <2>1 DEF Same
    <2>2. CASE t # n
      <3>1. names'[t] = names[t]
        BY <1>1, <1>2, <2>2
      <3> QED BY <1>3, <1>4, <3>1 DEF Same
    <2> QED BY <2>1, <2>2
  <1>5. PinsTyped'
    <2>1. names' \in [Names -> Commits \cup {Gone}]
      BY <1>1, <1>2
    <2> QED BY <1>1, <1>3, <2>1 DEF PinsInv, PinsTyped, TagSet
  <1>6. TagsCached'
    <2>1. ASSUME NEW m \in Machines, NEW t \in TagSet, cache[m][<<"repo", t>>] # Gone
          PROVE  t \in moved' \/ cache[m][<<"repo", t>>] = names'[t]
      <3>1. Same(t, cache[m][<<"repo", t>>])
        BY <2>1 DEF PinsInv, TagsCached
      <3> QED BY <1>4, <2>1, <3>1
    <2>2. \A m \in Machines, d \in Commits : cache[m][<<"url", d>>] \in {Gone, d}
      BY DEF PinsInv, TagsCached
    <2> QED BY <1>1, <2>1, <2>2 DEF TagsCached, Same, TagSet
  <1>7. RowKept'
    <2> SUFFICES ASSUME row # NoRow, row.ref \in TagSet
                 PROVE  row.ref \in moved' \/ row.commit = names'[row.ref]
      BY <1>1 DEF RowKept, Same, TagSet
    <2>1. row.commit # Gone /\ Same(row.ref, row.commit)
      BY <1>2, RowKinds DEF PinsInv, RowKept
    <2> QED BY <1>4, <2>1
  <1>8. ToPin'
    <2>1. ASSUME cmd.pc = "fetch", Pinner, IsTag(cmd.src), cmd.url # Gone
          PROVE  cmd.src.name \in moved' \/ cmd.url = names'[cmd.src.name]
      <3>1. Same(cmd.src.name, cmd.url) /\ cmd.src.name \in TagSet
        BY <2>1 DEF PinsInv, ToPin, IsTag
      <3> QED BY <1>4, <2>1, <3>1
    <2>2. ASSUME cmd.pc = "pin", IsTag(cmd.src)
          PROVE  cmd.src.name \in moved' \/ cmd.got = names'[cmd.src.name]
      <3>1. Same(cmd.src.name, cmd.got) /\ cmd.src.name \in TagSet /\ cmd.got # Gone
        BY <2>2 DEF PinsInv, ToPin, IsTag
      <3> QED BY <1>4, <3>1
    <2>3. /\ cmd.pc = "fetch" => cmd.job # "reuse" /\ (Pinner => cmd.src.kind # "tag")
          /\ cmd.pc = "pin" => Pinner /\ cmd.src.kind # "tag" /\ cmd.got # Gone
      BY DEF PinsInv, ToPin
    <2> QED BY <1>1, <2>1, <2>2, <2>3 DEF ToPin, Pinner, IsTag, Same, TagSet
  <1>9. ToRead'
    <2> SUFFICES ASSUME cmd.job = "read", cmd.pc \in {"fetch", "done"}, cmd.old # NoRow
                 PROVE  /\ cmd.want = Nothing => cmd.url = cmd.old.commit
                             /\ (cmd.pc = "done" => cmd.got = cmd.url)
                        /\ cmd.want.kind = "tag" /\ TagMatches(cmd.want.name, cmd.old.ref) =>
                             /\ cmd.src = Ref(cmd.old.ref) /\ cmd.url = Gone /\ cmd.old.ref \in TagSet
                             /\ cmd.pc = "fetch" => cmd.old.ref \in moved'
                                  \/ cmd.old.commit = names'[cmd.old.ref]
                             /\ cmd.pc = "done" => cmd.old.ref \in moved' \/ cmd.got = cmd.old.commit
      BY <1>1 DEF ToRead, Same, TagSet
    <2>1. /\ cmd.want = Nothing => cmd.url = cmd.old.commit /\ (cmd.pc = "done" => cmd.got = cmd.url)
          /\ cmd.want.kind = "tag" /\ TagMatches(cmd.want.name, cmd.old.ref) =>
               /\ cmd.src = Ref(cmd.old.ref) /\ cmd.url = Gone /\ cmd.old.ref \in TagSet
               /\ cmd.pc = "fetch" => Same(cmd.old.ref, cmd.old.commit)
               /\ cmd.pc = "done" => cmd.old.ref \in moved \/ cmd.got = cmd.old.commit
      BY DEF PinsInv, ToRead
    <2>2. cmd.old.commit # Gone
      BY <1>2, RowKinds
    <2> QED BY <1>3, <1>4, <2>1, <2>2
  <1>10. TagsStayed'
    <2>1. \A t \in stayed : names[t] # Gone
      BY DEF PinsInv, TagsStayed
    <2> QED BY <1>3, <2>1 DEF TagsStayed
  <1>11. ListedSoFar'
    <2> SUFFICES ASSUME cmd.pc \in {"list", "select"} PROVE ListedSoFar'
      BY <1>1 DEF ListedSoFar
    <2>1. /\ Pinner /\ cmd.want.kind = "tag" /\ cmd.src = cmd.want /\ Entries
          /\ \A i \in DOMAIN Tags :
               Tags[i] \in stayed =>
                 Mentioned(i) \/ (cmd.pc = "list" /\ Rank(names, i) > (cmd.page - 1) * PageSize)
      BY DEF PinsInv, ListedSoFar
    <2>2. ASSUME NEW k \in DOMAIN cmd.listed
          PROVE  LET e == cmd.listed[k] IN
                 (e[1] \in moved' \/ e[2] = names'[e[1]]) /\ (e[1] \in stayed' => e[2] = names'[e[1]])
      <3> DEFINE e == cmd.listed[k]
      <3>1. e[1] \in TagSet /\ e[2] # Gone
        BY <1>2 DEF Assumptions, Listing
      <3>2. Same(e[1], e[2]) /\ (e[1] \in stayed => e[2] = names[e[1]])
        BY <2>1 DEF Entries
      <3> HIDE DEF e
      <3>3. (e[1] \in moved' \/ e[2] = names'[e[1]]) /\ (e[1] \in stayed' => e[2] = names'[e[1]])
        BY <1>3, <1>4, <3>1, <3>2
      <3> QED BY <3>3 DEF e
    <2>3. Entries'
      BY <1>1, <2>2 DEF Entries, Same
    <2>4. ASSUME NEW i \in DOMAIN Tags, Tags[i] \in stayed'
          PROVE  Mentioned(i) \/ (cmd.pc = "list" /\ Rank(names', i) > (cmd.page - 1) * PageSize)
      <3> SUFFICES ASSUME cmd.pc = "list", Rank(names, i) > (cmd.page - 1) * PageSize
                   PROVE  Rank(names', i) > (cmd.page - 1) * PageSize
        BY <1>3, <2>1, <2>4
      <3>1. c # Gone
        BY <1>1, <2>4
      <3>2. \A t \in TagSet : names[t] # Gone => names'[t] # Gone
        BY <1>1, <1>2, <3>1
      <3>3. Rank(names, i) \in Nat /\ Rank(names, i) <= Rank(names', i)
        BY <3>2, RankGrows
      <3>4. (\A t \in TagSet : names'[t] # Gone => names'[t] # Gone) => Rank(names', i) \in Nat
        BY RankGrows
      <3>5. (cmd.page - 1) * PageSize \in Nat
        <4>1. cmd.page \in Nat \ {0}
          BY <1>2 DEF PinCommand
        <4> QED BY <4>1, Pages
      <3> QED BY <3>3, <3>4, <3>5
    <2> QED BY <1>1, <2>1, <2>3, <2>4 DEF ListedSoFar, Pinner, Mentioned
  <1>12. Selected'
    <2> SUFFICES ASSUME Pinner, cmd.want.kind = "tag", cmd.pc \in {"fetch", "pin", "done"}
                 PROVE  Selected'
      BY <1>1 DEF Selected, Pinner
    <2>1. /\ cmd.src = Ref(cmd.src.name) /\ cmd.src.name \in Accepts[cmd.want.name]
          /\ cmd.url # Gone /\ (cmd.src.name \in stayed => cmd.url = names[cmd.src.name])
          /\ cmd.pc # "fetch" => cmd.got = cmd.url
          /\ Newest(cmd.want.name, cmd.src.name)
      BY DEF PinsInv, Selected
    <2>2. (Newest(cmd.want.name, cmd.src.name))'
      BY <1>1, <1>3, <2>1 DEF Newest
    <2>3. cmd.src.name \in stayed' => cmd.url = names'[cmd.src.name]
      BY <1>3, <2>1
    <2> QED BY <1>1, <2>1, <2>2, <2>3 DEF Selected
  <1>13. Recorded'
    BY <1>1 DEF PinsInv, Recorded, Pinner
  <1> QED BY <1>13, <1>5, <1>6, <1>7, <1>8, <1>9, <1>10, <1>11, <1>12 DEF PinsInv

\* The default branch and modot.cue change, or nothing does.
LEMMA PinsLeft ==
  ASSUME PinsInv, UNCHANGED <<names, row, cache, cmd, moved, stayed>>, head' \in Branches,
           cue' \in PinSources
  PROVE  PinsInv'
  <1>1. PinsTyped'
    BY DEF PinsInv, PinsTyped, TagSet
  <1>2. TagsCached' /\ RowKept' /\ TagsStayed'
    BY DEF PinsInv, TagsCached, RowKept, TagsStayed, Same, TagSet
  <1>3. ToPin' /\ ToRead'
    BY DEF PinsInv, ToPin, ToRead, Pinner, IsTag, Same, TagSet
  <1>4. ListedSoFar'
    BY DEF PinsInv, ListedSoFar, Pinner, Entries, Mentioned, Same
  <1>5. Selected'
    BY DEF PinsInv, Selected, Pinner, Newest
  <1>6. Recorded'
    BY DEF PinsInv, Recorded, Pinner
  <1> QED BY <1>1, <1>2, <1>3, <1>4, <1>5, <1>6 DEF PinsInv

LEMMA PinsNext ==
  ASSUME Assumptions, PinsInv, [Next]_vars
  PROVE  PinsInv'
  <1>0. head \in Branches /\ cue \in PinSources
    BY DEF PinsInv, PinsTyped
  <1>1. CASE \E m \in Machines, job \in {"lock", "refresh", "read"}, fresh \in BOOLEAN :
               Begin(m, job, fresh)
    BY <1>1, PinsBegin
  <1>2. CASE ListTags
    BY <1>2, PinsListTags
  <1>3. CASE NewestTag
    BY <1>3, PinsNewestTag
  <1>4. CASE EnsureSource
    BY <1>4, PinsEnsureSource
  <1>5. CASE Pin
    BY <1>5, PinsPin
  <1>6. CASE Fail
    BY <1>6, PinsFail
  <1>7. CASE \E n \in Names, c \in Commits \cup {Gone} : Point(n, c)
    BY <1>7, PinsPoint
  <1>8. ASSUME NEW b \in Branches, Rename(b) PROVE PinsInv'
    BY <1>0, <1>8, PinsLeft DEF Rename, Move
  <1>9. ASSUME NEW v \in Versions, Edit(v) PROVE PinsInv'
    <2>1. v \in PinSources
      BY DEF Assumptions, PinSources
    <2> QED BY <1>0, <1>9, <2>1, PinsLeft DEF Edit, Move
  <1>10. CASE UNCHANGED vars
    BY <1>0, <1>10, PinsLeft DEF vars
  <1> QED BY <1>1, <1>2, <1>3, <1>4, <1>5, <1>6, <1>7, <1>8, <1>9, <1>10 DEF Next

LEMMA PinsHold ==
  ASSUME Assumptions, PinsInv
  PROVE  Pinned
  <1> SUFFICES NewestPinned /\ LockedReads
    BY DEF Pinned
  <1>1. NewestPinned
    <2> DEFINE p == cmd.want.name
               t == cmd.src.name
    <2> SUFFICES ASSUME cmd.job \in {"lock", "refresh"}, cmd.want.kind = "tag", cmd.pc = "done"
                 PROVE  IF TagMatches(p, row.ref)
                        THEN /\ IsNewest(p, row.ref)
                             /\ row.ref \in stayed => row.commit = names[row.ref]
                        ELSE \E u \in Accepts[p] \cap HexTags : IsNewest(p, u)
      BY DEF NewestPinned
    <2>1. /\ t \in Accepts[p] /\ cmd.got = cmd.url /\ (t \in stayed => cmd.got = names[t])
          /\ IsNewest(p, t)
      BY DEF PinsInv, Selected, Pinner, Newest, IsNewest
    <2>2. IF t \in HexTags THEN row.ref \in Branches ELSE row = [ref |-> t, commit |-> cmd.got]
      BY DEF PinsInv, Recorded, Pinner
    <2>3. Accepts[p] \subseteq TagSet /\ Branches \cap TagSet = {}
      <3>1. p \in DOMAIN Accepts
        <4>1. cmd.want \in PinSources
          BY DEF PinsInv, PinsTyped, PinCommand
        <4> QED BY <4>1, SourceKinds
      <3> QED BY <3>1 DEF Assumptions
    <2> HIDE DEF p, t
    <2>4. CASE t \in HexTags
      BY <2>1, <2>2, <2>3, <2>4 DEF TagMatches
    <2>5. CASE t \notin HexTags
      <3>1. row.ref = t /\ row.commit = cmd.got
        BY <2>2, <2>5
      <3> QED BY <2>1, <3>1 DEF TagMatches
    <2> QED BY <2>4, <2>5
  <1>2. LockedReads
    BY DEF PinsInv, ToRead, LockedReads
  <1> QED BY <1>1, <1>2

(***************************************************************************)
(* The row of the lock names the newest tag of a pattern that was there    *)
(* all along, unless the newest looks like a commit (trackingGitRef), and  *)
(* a reader reads what is pinned, up to the cases that Pinned names        *)
(* (GenerateLockWithConfig, applySourceLockOverlay).                       *)
(***************************************************************************)
THEOREM LockPins == Assumptions => (Spec => []Pinned)
  <1> SUFFICES ASSUME Assumptions PROVE Spec => []Pinned
    OBVIOUS
  <1>1. Init => PinsInv
    BY PinsInit
  <1>2. PinsInv /\ [Next]_vars => PinsInv'
    BY PinsNext
  <1>3. PinsInv => Pinned
    BY PinsHold
  <1> QED BY <1>1, <1>2, <1>3, PTL DEF Spec
=============================================================================
