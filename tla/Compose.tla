------------------------------- MODULE Compose -------------------------------
(***************************************************************************)
(* The source pipeline (internal/source): the files that scanners and      *)
(* modules found are rendered if they are templates, mounts add the files  *)
(* of other trees, and all are composed with the files the configuration   *)
(* declares (cue) into the one tree the deployer receives.                 *)
(*                                                                         *)
(* A file in a directory `x.d.tmpl` is a fragment of file x; a file at, or *)
(* above, or below a path of the configuration is merged into it; all      *)
(* others are copied directly.  Mounts, recorded and direct files are Go   *)
(* maps, visited in any order.                                             *)
(*                                                                         *)
(* A path is a sequence of names below the profile directory.              *)
(***************************************************************************)
EXTENDS Naturals, Sequences, FiniteSets, SequencesExt

CONSTANTS
    Names,     \* file and directory names
    LinesOf,   \* [names x.d.tmpl -> x]
    StripOf,   \* [names of templates -> the name without .tmpl]
    Parts,     \* the names of the files a multi-file template makes
    Inputs     \* what there is to compose: found files, mounts, cue

Dotted == DOMAIN LinesOf
Templates == DOMAIN StripOf
Kinds == {"plain", "link", "found"}   \* found: a link that was listed as a file
Rendered == "rendered"                \* the source of a file not on disk
Empty == ""                           \* the body of an empty file
Outside == <<"..">>                   \* a target outside of the profile directory

VARIABLES
    pc,        \* "discover", "mount", "place", "merge"; "done", "refused" for a
               \* conflict, "failed" for any other error
    files,     \* the files found, rendered and mounted so far
    mounts,    \* mounts not expanded yet
    cue,       \* what the configuration declares
    recorded,  \* profileFiles.recorded: [paths to merge -> file]
    direct,    \* profileFiles.direct: [paths to copy -> file]
    todo,      \* files not placed yet
    out,       \* the composed tree: what is assigned to which path
    lost       \* bookkeeping: entries of a mount that no file came from and no
               \* warning named

vars == <<pc, files, mounts, cue, recorded, direct, todo, out, lost>>

Under(p, q) == Len(p) < Len(q) /\ SubSeq(q, 1, Len(p)) = p
Nested(p, q) == p = q \/ Under(p, q) \/ Under(q, p)
Base(p) == Last(p)
IsTemplate(p) == Base(p) \in Templates

Put(f, p, v) == [x \in DOMAIN f \cup {p} |-> IF x = p THEN v ELSE f[x]]
Drop(f, p) == [x \in DOMAIN f \ {p} |-> f[x]]
Nothing == [x \in {} |-> 0]

----------------------------------------------------------------------------
(* Templates. *)

\* stripTemplate
Strip(p) == [p EXCEPT ![Len(p)] = StripOf[@]]

\* What a template may render to: nothing (it skips itself), one file, or the
\* parts of a multi-file template, in a directory named after it.
Renderings(t) ==
    LET made(p) == [t EXCEPT !.rel = p, !.src = Rendered, !.kind = "plain", !.id = <<t.id, p>>]
    IN  {{}, {made(Strip(t.rel))}, {made(Append(Strip(t.rel), n)) : n \in Parts}}

Render(t) ==
    /\ pc = "discover" /\ t \in files /\ IsTemplate(t.rel)
    /\ \/ \E made \in Renderings(t) : files' = (files \ {t}) \cup made /\ UNCHANGED pc
       \/ pc' = "failed" /\ UNCHANGED files
    /\ UNCHANGED <<mounts, cue, recorded, direct, todo, out, lost>>

\* Every template is rendered: composeApply begins with the mounts.
Discovered ==
    /\ pc = "discover" /\ \A f \in files : ~IsTemplate(f.rel)
    /\ pc' = "mount"
    /\ UNCHANGED <<files, mounts, cue, recorded, direct, todo, out, lost>>

----------------------------------------------------------------------------
(* Mounts and their steps (internal/placestep). *)

Rewrite(p, from, to) == to \o SubSeq(p, Len(from) + 1, Len(p))

\* move: a path or a directory; what is in the way is replaced, with a warning.
Move(run, step) ==
    LET moving == {e \in run.entries : e.rel = step.from \/ Under(step.from, e.rel)}
        moved == {[e EXCEPT !.rel = Rewrite(e.rel, step.from, step.to)] : e \in moving}
        hit == {e \in run.entries \ moving : \E m \in moved : m.rel = e.rel}
    IN  [run EXCEPT !.entries = (@ \ (moving \cup hit)) \cup moved,
                    !.warned = @ \cup {e.src : e \in hit}]

\* require: every pattern, the set of paths it matches, must or must not hit.
Require(run, step) ==
    LET hit == \E e \in run.entries : e.rel \in step.match
    IN  IF hit = step.must THEN run ELSE [run EXCEPT !.ok = FALSE]

Step(run, step) ==
    CASE ~run.ok -> run
      [] run.ok /\ step.op = "move" -> Move(run, step)
      [] run.ok /\ step.op = "require" -> Require(run, step)

\* The steps in the order of their names.
Steps(m) ==
    LET Stepped[n \in 0 .. Len(m.steps)] ==
            IF n = 0 THEN [entries |-> m.entries, warned |-> {}, ok |-> TRUE]
            ELSE Step(Stepped[n - 1], m.steps[n])
    IN  Stepped[Len(m.steps)]

\* A file with no steps lands on the destination itself, all else below it.
Target(m, e) == IF m.file /\ m.steps = <<>> /\ m.dest # <<>> THEN m.dest ELSE m.dest \o e.rel

\* expandMount
Mount(m) ==
    /\ pc = "mount" /\ m \in mounts
    /\ mounts' = mounts \ {m}
    /\ LET run == Steps(m)
       IN  /\ files' = files \cup {[e EXCEPT !.rel = Target(m, e), !.id = <<@, m>>] : e \in run.entries}
           /\ lost' = lost \cup ({e.src : e \in m.entries} \ ({e.src : e \in run.entries} \cup run.warned))
           /\ pc' = IF run.ok THEN pc ELSE "failed"
    /\ UNCHANGED <<cue, recorded, direct, todo, out>>

Mounted ==
    /\ pc = "mount" /\ mounts = {}
    /\ pc' = "place" /\ todo' = files
    /\ UNCHANGED <<files, mounts, cue, recorded, direct, out, lost>>

----------------------------------------------------------------------------
(* Placing: merged or copied. *)

\* placeInProfile: what the target adds to the profile directory goes in front.
PathOf(f) == f.under \o f.rel

\* Mistake: a path is not compared with the paths below it.
OverlapsAbove(paths, p) == \E q \in paths : p = q \/ Under(q, p)

\* pathSet.overlaps
Overlaps(paths, p) == \E q \in paths : Nested(p, q)

InDotted(p) == \E i \in DOMAIN p : p[i] \in Dotted

CuePaths == {e.path : e \in cue}

\* Mistake: the paths of the configuration are not looked at.
FragmentsOnly(p) == InDotted(p)

NeedsMerge(p) == InDotted(p) \/ Overlaps(CuePaths, p)

\* fileMember: only a file that is not rebased is known by its path on disk,
\* and only then is a link kept as one.
Member(f) ==
    IF f.under = <<>> /\ f.src # Rendered
      THEN [f EXCEPT !.kind = IF @ = "found" THEN "link" ELSE @]
      ELSE [f EXCEPT !.kind = "plain", !.src = Rendered]

Same(f, g) == f.src = g.src /\ f.kind = g.kind /\ f.body = g.body

\* Mistake: a second file at the path replaces the first.
RecordLast(p, f) ==
    /\ recorded' = Put(recorded, p, Member(f))
    /\ UNCHANGED pc

\* add: two files at one path must be the same.
Record(p, f) ==
    IF p \in DOMAIN recorded
      THEN /\ pc' = IF Same(recorded[p], Member(f)) THEN pc ELSE "refused"
           /\ UNCHANGED recorded
      ELSE recorded' = Put(recorded, p, Member(f)) /\ UNCHANGED pc

\* markSymlink: the copy of a file found to be a link forgets its nesting.
Marked(f) == IF f.kind = "found" THEN [f EXCEPT !.kind = "link", !.under = <<>>] ELSE f

\* addDirect
AddDirect(p, f) ==
    IF Overlaps(DOMAIN direct, p)
      THEN pc' = "refused" /\ UNCHANGED direct
      ELSE direct' = Put(direct, p, Marked(f)) /\ UNCHANGED pc

Place(f) ==
    /\ pc = "place" /\ f \in todo
    /\ todo' = todo \ {f}
    /\ LET p == PathOf(f)
       IN  \/ f.under = Outside /\ pc' = "refused" /\ UNCHANGED <<recorded, direct>>
           \/ f.under # Outside /\ NeedsMerge(p) /\ Record(p, f) /\ UNCHANGED direct
           \/ f.under # Outside /\ ~NeedsMerge(p) /\ AddDirect(p, f) /\ UNCHANGED recorded
    /\ UNCHANGED <<files, mounts, cue, out, lost>>

\* A file that must be read cannot be.
ReadFails ==
    /\ pc \in {"mount", "place", "merge"}
    /\ pc' = "failed"
    /\ UNCHANGED <<files, mounts, cue, recorded, direct, todo, out, lost>>

----------------------------------------------------------------------------
(* Merging. *)

\* linesDest: the file a fragment belongs to; the innermost such directory counts.
Fragment(p) == \E i \in 1 .. Len(p) - 1 : p[i] \in Dotted
LinesDest(p) ==
    LET i == CHOOSE i \in 1 .. Len(p) - 1 :
                p[i] \in Dotted /\ \A j \in i + 1 .. Len(p) - 1 : p[j] \notin Dotted
    IN  [SubSeq(p, 1, i) EXCEPT ![i] = LinesOf[@]]

Fragments == {p \in DOMAIN recorded : Fragment(p)}
Absorbable == {LinesDest(p) : p \in Fragments} \cap DOMAIN direct

\* absorbLineTargets: a copy at the destination of fragments is to be merged
\* after all, under the path it goes by itself.
Absorb(p) ==
    /\ pc = "place" /\ todo = {} /\ p \in Absorbable
    /\ direct' = Drop(direct, p)
    /\ Record(PathOf(direct[p]), direct[p])
    /\ UNCHANGED <<files, mounts, cue, todo, out, lost>>

Absorbed ==
    /\ pc = "place" /\ todo = {} /\ Absorbable = {}
    /\ pc' = "merge"
    /\ UNCHANGED <<files, mounts, cue, recorded, direct, todo, out, lost>>

\* An assignment: a slot of the file at a path. The lines of a file are slots, and a link
\* among them is read from the copy that fileMember made of it, which is empty.
Whole(p, f) == [path |-> p, kind |-> f.kind, slot |-> "all", val |-> f.body]
Line(p, f) ==
    [path |-> LinesDest(p), kind |-> "lines", slot |-> Base(p),
     val |-> IF f.kind = "link" THEN Empty ELSE f.body]

\* A fragment is a file in the directory of its lines, and there is one such
\* directory above it.
WellPlaced(p) ==
    \A i \in DOMAIN p : p[i] \in Dotted => i = Len(p) - 1

\* squashContext and addDotDirectory; names ending in .tmpl are passed over.
Squashed ==
    {IF Fragment(p) THEN Line(p, recorded[p]) ELSE Whole(p, recorded[p]) :
        p \in {p \in DOMAIN recorded : ~IsTemplate(p)}}

\* Two assignments that fit in one tree.
Agree(a, b) ==
    /\ ~Under(a.path, b.path) /\ ~Under(b.path, a.path)
    /\ a.path = b.path => a.kind = b.kind /\ (a.slot = b.slot => a.val = b.val)
Fits(tree) == \A a, b \in tree : Agree(a, b)

Merge ==
    /\ pc = "merge"
    /\ LET tree == cue \cup Squashed
           fits == /\ \A p \in DOMAIN recorded : WellPlaced(p)
                   /\ \A p, q \in DOMAIN recorded : ~Under(p, q)
                   /\ Fits(tree)
           copies == {Whole(p, direct[p]) : p \in DOMAIN direct}
       IN  IF fits THEN pc' = "done" /\ out' = tree \cup copies
                   ELSE pc' = "refused" /\ UNCHANGED out
    /\ UNCHANGED <<files, mounts, cue, recorded, direct, todo, lost>>

----------------------------------------------------------------------------

Init ==
    /\ \E i \in Inputs : files = i.files /\ mounts = i.mounts /\ cue = i.cue
    /\ pc = "discover"
    /\ recorded = Nothing /\ direct = Nothing
    /\ todo = {} /\ out = {} /\ lost = {}

Next ==
    \/ \E t \in files : Render(t)
    \/ Discovered
    \/ \E m \in mounts : Mount(m)
    \/ Mounted
    \/ \E f \in todo : Place(f)
    \/ ReadFails
    \/ \E p \in DOMAIN direct : Absorb(p)
    \/ Absorbed
    \/ Merge

Spec == Init /\ [][Next]_vars

----------------------------------------------------------------------------
(* What the pipeline promises, whatever the order of its maps. *)

IsPath(p) == p # <<>> /\ \A i \in DOMAIN p : p[i] \in Names

\* Types: every file has a path of its own to go to (File, recordedFile,
\* compose.File).
TypeOK ==
    /\ pc \in {"discover", "mount", "place", "merge", "done", "refused", "failed"}
    /\ \A f \in files : IsPath(f.rel) /\ f.kind \in Kinds /\ (f.under # Outside => IsPath(PathOf(f)))
    /\ \A p \in DOMAIN recorded \cup DOMAIN direct : IsPath(p)
    /\ todo \subseteq files
    /\ \A a \in out \cup cue : IsPath(a.path) /\ a.kind \in Kinds \cup {"lines"}

\* The properties below leave out links aimed below the profile directory:
\* Member replaces them by what they point to, and Marked makes them forget
\* where they go, so that one that is absorbed can meet a copy.
NoNestedLink == \A f \in files : f.kind # "plain" => f.under = <<>>

\* What becomes part of a file that has other parts, or meets the configuration.
Joins(f) ==
    LET p == PathOf(f)
    IN  \/ \E i \in DOMAIN p : p[i] \in Dotted
        \/ \E a \in cue : Nested(p, a.path)

\* What is merged: these, and the copies at the destination of fragments.
Lines == {LinesDest(PathOf(f)) : f \in {f \in files : Fragment(PathOf(f))}}
Joined == {f \in files : Joins(f) \/ PathOf(f) \in Lines}

\* A file that ends in .tmpl only a mount can still have here: it is not
\* rendered and, where it is merged, left out without a word.
PassedOver(f) == f \in Joined /\ IsTemplate(PathOf(f))

Assigned(f) ==
    LET p == PathOf(f)
        g == [f EXCEPT !.kind = IF @ = "found" THEN "link" ELSE @]
    IN  IF Fragment(p) THEN Line(p, g) ELSE Whole(p, g)

\* The composed tree says what the configuration and the files say, all of it
\* and nothing else: no file is lost or misplaced, whatever the order it came
\* in (composeTracked, except PassedOver); only of a link among fragments there is
\* nothing but an empty line. The steps of a mount lose a file only with a warning
\* that names it, whatever they move onto each other.
SaysAll ==
    (pc = "done" /\ NoNestedLink) =>
        out = cue \cup {Assigned(f) : f \in {f \in files : ~PassedOver(f)}} /\ lost = {}

\* Two files that are copied must not meet; of two that are merged, none must be
\* in the way of the other, and they must be the same if they have one path;
\* fragments must be well placed; and what is merged must agree.
Compatible ==
    LET copied == {f \in files : ~Joins(f)}
    IN  /\ \A f \in files : f.under # Outside
        /\ \A f, g \in copied : f # g => ~Nested(PathOf(f), PathOf(g))
        /\ \A f, g \in Joined :
              /\ ~Under(PathOf(f), PathOf(g))
              /\ PathOf(f) = PathOf(g) => Same(Member(f), Member(g))
        /\ \A f \in Joined : WellPlaced(PathOf(f))
        /\ Fits(cue \cup {Assigned(f) : f \in {f \in Joined : ~PassedOver(f)}})

\* Whether a tree is composed is settled by the files and the configuration,
\* not by the order of the maps: nothing incompatible gets through, and nothing
\* is refused for the order it came in (addDirect, add, absorbLineTargets).
Settled ==
    NoNestedLink =>
        /\ pc = "done" => Compatible
        /\ pc = "refused" => ~Compatible

\* One file per path, and no file where another needs a directory: what the
\* deployer relies on. Fragments are compared with copies at their destination,
\* never with copies above or below it.
OneFilePerPath ==
    (pc = "done" /\ NoNestedLink) => \A a, b \in out :
        /\ a.path = b.path => a = b \/ (a.kind = "lines" /\ b.kind = "lines")
        /\ Under(a.path, b.path) =>
              \/ a.path \in DOMAIN direct /\ b.path \in Lines
              \/ b.path \in DOMAIN direct /\ a.path \in Lines

=============================================================================
