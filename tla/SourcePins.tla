----------------------------- MODULE SourcePins -----------------------------
(***************************************************************************)
(* What a GitHub source is pinned to (internal/modfile, its github         *)
(* provider): `modot mod lock` and the refresh of an apply turn what       *)
(* modot.cue says (nothing, HEAD, a branch or tag, a commit, or a pattern  *)
(* of tags) into a row of the lock, and every machine that has the lock    *)
(* reads the source through its own cache.  Names move upstream meanwhile. *)
(*                                                                         *)
(* One command runs at a time; SumLock has the races for the file, and     *)
(* SourceCache the steps of the cache.  A commit is a model value; a       *)
(* tarball of a commit is that commit.                                     *)
(***************************************************************************)
EXTENDS Naturals, FiniteSets, SequencesExt

CONSTANTS
  Machines, Commits,
  Branches, Tags,   \* Tags: all tags that may be, in the order in which they are listed
  HexTags,          \* tags whose names are 7 to 40 hexadecimal digits, as a commit's may be: 20240315
  Text,             \* tag |-> the version in it: its parts, its pre-release, its place among strings
  Accepts,          \* pattern |-> the tags it matches; of branches it matches none
  Groups,           \* pattern |-> "version" or "parts": what its groups capture
  Starts,           \* names upstream to start from: name |-> commit, or Gone
  Versions,         \* what modot.cue may say; a name that may be a commit's is one there
  PageSize, MaxPages,
  MaxRuns, MaxMoves \* bounds: commands; what happens upstream and to modot.cue

VARIABLES
  names, head,      \* name |-> commit or Gone; the default branch
  cue,              \* the version in modot.cue
  row,              \* the row of the lock, or NoRow
  cache,            \* machine |-> key |-> commit or Gone
  cmd,              \* the command and how far it is
  moved,            \* names that changed
  stayed,           \* tags that stayed as they are since the command began; none if one was removed
                    \* while they were listed, which shifts the pages
  runs, moves

vars == <<names, head, cue, row, cache, cmd, moved, stayed, runs, moves>>

Gone == "gone"
TagSet == Range(Tags)
Names == Branches \cup TagSet
Nothing == [kind |-> "none", name |-> ""]
HeadRef == [kind |-> "head", name |-> "HEAD"]
Ref(n) == [kind |-> "ref", name |-> n]
Sha(c) == [kind |-> "sha", name |-> c]
Pattern(p) == [kind |-> "tag", name |-> p]
NoRow == [ref |-> "", commit |-> Gone]
Idle == [pc |-> "idle", job |-> "read", by |-> CHOOSE m \in Machines : TRUE, fresh |-> FALSE,
         src |-> Nothing, url |-> Gone, want |-> Nothing, old |-> NoRow, page |-> 1, listed |-> <<>>, got |-> Gone]
Keys == {<<"url", c>> : c \in Commits}
          \cup {<<"repo", n>> : n \in Names \cup Commits \cup {"HEAD"} \cup DOMAIN Accepts}

Init ==
  /\ names \in Starts /\ head = CHOOSE b \in Branches : names[b] # Gone
  /\ cue \in Versions
  /\ row = NoRow /\ cmd = Idle
  /\ cache = [m \in Machines |-> [k \in Keys |-> Gone]]
  /\ moved = {} /\ stayed = {} /\ runs = 0 /\ moves = 0

----------------------------------------------------------------------------
(* Versions of tags.  A part or an identifier is <<"n", number>>, or <<"w", place>> for a word. *)

\* What the groups of a pattern capture: a version, or major, minor and patch, zero if absent.
VersionText(p, t) ==
  IF Groups[p] = "version" THEN Text[t]
  ELSE [Text[t] EXCEPT !.pre = <<>>,
          !.main = [i \in 1..3 |-> IF i \in DOMAIN @ THEN @[i] ELSE <<"n", 0>>]]

\* A version with a part that is no number has no numbers.
RankTag(p, t) ==
  LET text == VersionText(p, t)
      lexical == text.main = <<>> \/ \E i \in DOMAIN text.main : text.main[i][1] = "w" IN
  [nums |-> IF lexical THEN <<>> ELSE [i \in DOMAIN text.main |-> text.main[i][2]],
   pre |-> text.pre, raw |-> text.raw, lexical |-> lexical]

ComparesAs(a, b) == IF a[1] = b[1] THEN a[2] > b[2] ELSE a[1] = "w"
At(s, i) == IF i \in DOMAIN s THEN s[i] ELSE 0
Bigger(a, b) ==
  \E i \in DOMAIN a \cup DOMAIN b : At(a, i) > At(b, i) /\ \A j \in 1..i - 1 : At(a, j) = At(b, j)
PreNewer(a, b) ==
  \E i \in DOMAIN a :
    /\ \A j \in 1..i - 1 : j \in DOMAIN b /\ a[j] = b[j]
    /\ i \in DOMAIN b => ComparesAs(a[i], b[i])

\* Mistake: a pre-release is as new as its release.
NumbersOnly(a, b) == IF a.lexical \/ b.lexical THEN a.raw > b.raw ELSE Bigger(a.nums, b.nums)
NewerThan(a, b) ==
  CASE a.lexical \/ b.lexical -> a.raw > b.raw
    [] Bigger(a.nums, b.nums) -> TRUE
    [] Bigger(b.nums, a.nums) -> FALSE
    [] OTHER -> IF a.pre = <<>> \/ b.pre = <<>> THEN a.pre = <<>> /\ b.pre # <<>> ELSE PreNewer(a.pre, b.pre)

TagMatches(p, n) == n \in Accepts[p]
\* Pairs of tags, the first newer than the second.
NewerTags(p) == {st \in TagSet \X TagSet : NewerThan(RankTag(p, st[1]), RankTag(p, st[2]))}
\* The first of the listed tags that no later one is newer than: Best[n] of the first n.
BestOf(p, newer, listed) ==
  LET Best[n \in 0..Len(listed)] ==
        IF n = 0 THEN <<>>
        ELSE IF /\ TagMatches(p, listed[n][1])
                /\ Best[n - 1] = <<>> \/ <<listed[n][1], Best[n - 1][1]>> \in newer
             THEN listed[n] ELSE Best[n - 1]
  IN  Best
SelectNewestTag(p, listed) == BestOf(p, NewerTags(p), listed)[Len(listed)]

----------------------------------------------------------------------------
(* The lock. *)

LockReusable(r) == r # NoRow
LockMatchesDesired(v, r) ==
  CASE v.kind = "tag" -> TagMatches(v.name, r.ref)
    [] v.kind \in {"none", "head"} -> TRUE
    [] v.kind = "ref" -> v.name = r.ref
    [] v.kind = "sha" -> v.name = r.commit

\* What a reader takes from the lock: with no version the ref and the commit, with a pattern the
\* tag, whose commit is looked up again.
Overlay(v, r) ==
  CASE r # NoRow /\ v = Nothing -> [src |-> Ref(r.ref), url |-> r.commit]
    [] r # NoRow /\ v.kind = "tag" /\ TagMatches(v.name, r.ref) -> [src |-> Ref(r.ref), url |-> Gone]
    [] OTHER -> [src |-> v, url |-> Gone]

\* The key of the cache, and the commit that is downloaded on a miss.
CacheKey(v, url) ==
  CASE url # Gone -> <<"url", url>>
    [] url = Gone /\ v = Nothing -> <<"repo", "HEAD">>
    [] OTHER -> <<"repo", v.name>>
ResolvePinned(v, url) ==
  CASE url # Gone -> url
    [] url = Gone /\ v.kind \in {"none", "head"} -> names[head]
    [] url = Gone /\ v.kind = "ref" -> names[v.name]
    [] url = Gone /\ v.kind = "sha" -> v.name
    [] url = Gone /\ v.kind = "tag" -> Gone

----------------------------------------------------------------------------
(* The steps of a command. *)

World == UNCHANGED <<names, head, cue, runs, moves, moved>>

\* `mod lock`, the refresh of an apply, or a reader, with --no-cache or without.
Begin(m, job, fresh) ==
  LET reuse == job = "refresh" /\ LockReusable(row) /\ LockMatchesDesired(cue, row)
      o == IF job = "read" THEN Overlay(cue, row) ELSE [src |-> cue, url |-> Gone]
      to == CASE reuse -> "done"
              [] ~reuse /\ job # "read" /\ cue.kind = "tag" -> "list"
              [] OTHER -> "fetch" IN
  /\ cmd.pc \in {"idle", "done", "failed"} /\ runs < MaxRuns /\ runs' = runs + 1
  /\ cmd' = [Idle EXCEPT !.pc = to, !.job = IF reuse THEN "reuse" ELSE job, !.by = m, !.fresh = fresh,
                         !.src = o.src, !.url = o.url, !.want = cue, !.old = row]
  /\ stayed' = {t \in TagSet : names[t] # Gone}
  /\ UNCHANGED <<names, head, cue, row, cache, moved, moves>>

\* The tags that are there, of the first n.
There(ns) ==
  LET Upto[n \in 0..Len(Tags)] ==
        IF n = 0 THEN <<>>
        ELSE IF ns[Tags[n]] = Gone THEN Upto[n - 1] ELSE Append(Upto[n - 1], Tags[n])
  IN  Upto
\* A page of the tags, as they are when it is asked for; the last one is short.
ListTags ==
  LET there == There(names)[Len(Tags)]
      last == cmd.page * PageSize
      batch == SubSeq(there, last - PageSize + 1, IF last < Len(there) THEN last ELSE Len(there))
      all == cmd.listed \o [i \in DOMAIN batch |-> <<batch[i], names[batch[i]]>>] IN
  /\ cmd.pc = "list"
  /\ cmd' = [cmd EXCEPT !.listed = all, !.page = @ + 1,
                        !.pc = CASE Len(batch) < PageSize -> "select"
                                 [] Len(batch) = PageSize /\ cmd.page = MaxPages -> "failed"
                                 [] OTHER -> "list"]
  /\ World /\ UNCHANGED <<row, cache, stayed>>

\* The commit of a tag is that of its first mention.
FirstMention(t) ==
  CHOOSE i \in DOMAIN cmd.listed : cmd.listed[i][1] = t /\ \A j \in 1..i - 1 : cmd.listed[j][1] # t
ShaByName(t) == cmd.listed[FirstMention(t)][2]
NewestTag ==
  LET best == SelectNewestTag(cmd.src.name, cmd.listed) IN
  /\ cmd.pc = "select"
  /\ cmd' = IF best = <<>> THEN [cmd EXCEPT !.pc = "failed"]
            ELSE [cmd EXCEPT !.pc = "fetch", !.src = Ref(best[1]), !.url = ShaByName(best[1])]
  /\ World /\ UNCHANGED <<row, cache, stayed>>

\* The cache of the machine, or a download; it may fail, as it does for a name that is gone.
EnsureSource ==
  LET k == CacheKey(cmd.src, cmd.url)
      hit == cache[cmd.by][k] # Gone /\ ~cmd.fresh
      c == IF hit THEN cache[cmd.by][k] ELSE ResolvePinned(cmd.src, cmd.url) IN
  /\ cmd.pc = "fetch"
  /\ IF c = Gone THEN cmd' = [cmd EXCEPT !.pc = "failed"] /\ UNCHANGED cache
     ELSE /\ cmd' = [cmd EXCEPT !.got = c, !.pc = IF cmd.job = "read" THEN "done" ELSE "pin"]
          /\ cache' = [cache EXCEPT ![cmd.by][k] = c]
  /\ World /\ UNCHANGED <<row, stayed>>

\* The row follows a branch or tag; nothing, HEAD and what looks like a commit, which a tag chosen
\* for a pattern may, follow the default branch.
TrackingRef(v) == IF v.kind = "ref" /\ v.name \notin HexTags THEN v.name ELSE head
Pin ==
  /\ cmd.pc = "pin" /\ cmd' = [cmd EXCEPT !.pc = "done"]
  /\ row' = [ref |-> TrackingRef(cmd.src), commit |-> cmd.got]
  /\ World /\ UNCHANGED <<cache, stayed>>

Fail ==
  /\ cmd.pc \in {"list", "fetch", "pin"} /\ cmd' = [cmd EXCEPT !.pc = "failed"]
  /\ World /\ UNCHANGED <<row, cache, stayed>>

----------------------------------------------------------------------------
(* Upstream, and the operator. *)

Move == moves < MaxMoves /\ moves' = moves + 1 /\ UNCHANGED <<row, cache, cmd, runs>>
Point(n, c) ==
  /\ Move /\ c # names[n] /\ (n \in Branches => c # Gone)
  /\ names' = [names EXCEPT ![n] = c]
  /\ moved' = IF names[n] = Gone THEN moved ELSE moved \cup {n}
  /\ stayed' = IF c = Gone /\ cmd.pc = "list" THEN {} ELSE stayed \ {n}
  /\ UNCHANGED <<head, cue>>
Rename(b) == Move /\ b # head /\ head' = b /\ UNCHANGED <<names, cue, moved, stayed>>
\* modot.cue is edited between commands.
Edit(v) ==
  /\ Move /\ cmd.pc \in {"idle", "done", "failed"} /\ v # cue /\ cue' = v
  /\ UNCHANGED <<names, head, moved, stayed>>

Next ==
  \/ \E m \in Machines, job \in {"lock", "refresh", "read"}, fresh \in BOOLEAN : Begin(m, job, fresh)
  \/ ListTags \/ NewestTag \/ EnsureSource \/ Pin \/ Fail
  \/ \E n \in Names, c \in Commits \cup {Gone} : Point(n, c)
  \/ \E b \in Branches : Rename(b)
  \/ \E v \in Versions : Edit(v)

Spec == Init /\ [][Next]_vars

----------------------------------------------------------------------------

\* A version spelled out so that newer ones come later: n parts, then the pre-release, or its
\* absence.
Spelled(p, t, n) ==
  LET text == VersionText(p, t) IN
  [i \in 1..n |-> IF i \in DOMAIN text.main THEN text.main[i] ELSE <<"n", 0>>]
    \o (IF text.pre = <<>> THEN <<<<"release", 0>>>> ELSE text.pre \o <<<<"end", 0>>>>)
Place(x) == CASE x[1] = "end" -> 0 [] x[1] = "n" -> 1 [] x[1] = "w" -> 2 [] x[1] = "release" -> 3
Earlier(a, b) ==
  \E i \in DOMAIN a \cap DOMAIN b :
    /\ \A j \in 1..i - 1 : a[j] = b[j]
    /\ Place(a[i]) < Place(b[i]) \/ (a[i][1] = b[i][1] /\ a[i][2] < b[i][2])
Older(p, s, t) ==
  LET n == Len(VersionText(p, s).main) + Len(VersionText(p, t).main)
  IN  Earlier(Spelled(p, s, n), Spelled(p, t, n))

\* The row for a pattern of versions names a tag that matches, no tag that was there all along is
\* newer, however the pages shifted, and its commit is that of the tag; unless the newest one looks
\* like a commit, which the row does not name.  Patterns that match tags without a version
\* excepted: words and numbers are not ordered.
IsNewest(p, t) ==
  (\A u \in Accepts[p] : ~RankTag(p, u).lexical) => \A u \in stayed \cap Accepts[p] : ~Older(p, t, u)
NewestPinned ==
  LET p == cmd.want.name IN
  (cmd.job \in {"lock", "refresh"} /\ cmd.want.kind = "tag" /\ cmd.pc = "done") =>
    IF TagMatches(p, row.ref)
    THEN IsNewest(p, row.ref) /\ (row.ref \in stayed => row.commit = names[row.ref])
    ELSE \E t \in Accepts[p] \cap HexTags : IsNewest(p, t)

\* What a reader gets is what is locked, on every machine and whatever became of branches and tags.
\* With a pattern it is the tag that is locked: its commit is looked up again, and may have moved.
LockedReads ==
  (cmd.job = "read" /\ cmd.pc = "done" /\ cmd.old # NoRow) =>
    /\ cmd.want = Nothing => cmd.got = cmd.old.commit
    /\ (cmd.want.kind = "tag" /\ TagMatches(cmd.want.name, cmd.old.ref)) =>
         cmd.got = cmd.old.commit \/ cmd.old.ref \in moved

(***************************************************************************)
(* The lock pins the newest tag of a pattern, and readers read what is     *)
(* pinned (GenerateLockWithConfig, applySourceLockOverlay), up to the      *)
(* cases named above.                                                      *)
(***************************************************************************)
Pinned == NewestPinned /\ LockedReads
=============================================================================
