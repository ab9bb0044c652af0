------------------------------- MODULE Checks -------------------------------
(***************************************************************************)
(* `codebase lint` and `codebase format` (internal/checks): the tools that *)
(* the configuration names are detected one by one, linters run in         *)
(* parallel and formatters one after another, and a review annotates the   *)
(* findings on lines that the change under review added.                   *)
(*                                                                         *)
(* A path is a sequence of names below the top of the repository.  Of a    *)
(* line of text only how it begins is told apart: "plus" for a text that   *)
(* begins with ++ and a blank, "pluses" for another one with ++, "dashes"  *)
(* for one with --.  Of the name of a file in a change it is told apart    *)
(* whether git prints it as it is.                                         *)
(***************************************************************************)
EXTENDS Naturals, FiniteSets, SequencesExt

CONSTANTS
  Requests,  \* commands: what, root, tools, and the change: base |-> diff
  Trees,     \* sets of files that may be there
  Skipped,   \* names of directories that no glob looks into
  Found,     \* sets of findings: a file below the root of the command, a line, and how bad it is
  MaxEdits   \* bound: files that appear or go

VARIABLES
  req, present,
  pc,        \* detect, run, done, failed
  next,      \* the tool to detect
  applies,   \* tool |-> the glob of the rule that made it applicable, or Skip
  st,        \* tool |-> idle, running, ended
  said,      \* tool |-> what it printed
  got,       \* tool |-> the findings that were read from it, or Failed
  notes,     \* annotations
  edits

vars == <<req, present, pc, next, applies, st, said, got, notes, edits>>

Tools == DOMAIN req.tools
NoGlob == [kind |-> "none", name |-> ""]
Skip == [kind |-> "skip", name |-> ""]
Silent == [ok |-> TRUE, shape |-> "none", runs |-> <<>>]
Garbage == <<"garbage">>
Failed == {<<Garbage, 0, "">>}
Absolute(f) == req.root \o f          \* a path below the root of the command

Init ==
  /\ req \in Requests /\ present \in Trees
  /\ pc = "detect" /\ next = 1 /\ edits = 0
  /\ applies = [t \in Tools |-> Skip] /\ st = [t \in Tools |-> "idle"]
  /\ said = [t \in Tools |-> Silent] /\ got = [t \in Tools |-> {}] /\ notes = {}

\* Globs: a pattern that begins with **/ or one for the root only; one with ** elsewhere matches
\* nothing.
Visited(f) == \A i \in 1..Len(f) - 1 : f[i] \notin Skipped
Matches(g, f) ==
  \/ g.kind = "deep" /\ Last(f) = g.name
  \/ g.kind = "here" /\ f = <<g.name>>
CollectGlob(g) == {f \in {SubSeq(p, Len(req.root) + 1, Len(p)) : p \in {p \in present : IsStrictPrefix(req.root, p)}} :
                     Visited(f) /\ Matches(g, f)}
Exists(p) == \E f \in present : IsPrefix(Absolute(p), f)

\* With a path and a glob both have to match.
RuleMatches(r) ==
  /\ r.path # <<>> \/ r.glob # NoGlob
  /\ r.path # <<>> => Exists(r.path)
  /\ r.glob # NoGlob => CollectGlob(r.glob) # {}
\* Rules apply in the order of their keys, and the first that matches decides.
Deciding(rules) ==
  {i \in DOMAIN rules : RuleMatches(rules[i]) /\ \A j \in 1..i - 1 : ~RuleMatches(rules[j])}

\* Disabled tools, and linters without a codec, are left out.
Usable(t) == t.enable /\ (req.what = "lint" => t.codec # "")
Detect ==
  LET t == req.tools[next] IN
  /\ pc = "detect" /\ next \in Tools
  /\ next' = next + 1
  /\ applies' = [applies EXCEPT ![next] =
       IF Usable(t) /\ \E i \in Deciding(t.rules) : t.rules[i].enable
       THEN (t.rules[CHOOSE i \in Deciding(t.rules) : TRUE]).glob ELSE Skip]
  /\ UNCHANGED <<req, present, pc, st, said, got, notes, edits>>
StartTools ==
  /\ pc = "detect" /\ next \notin Tools /\ pc' = "run"
  /\ UNCHANGED <<req, present, next, applies, st, said, got, notes, edits>>

Applicable == {t \in Tools : applies[t] # Skip}

\* A tool is installed and its globs are looked up once more; either may fail, and with it only
\* this tool.
BuildCmd(t) ==
  /\ pc = "run" /\ t \in Applicable /\ st[t] = "idle"
  /\ req.what = "format" => \A u \in Applicable : u < t => st[u] = "ended"
  /\ \/ /\ req.tools[t].args => (applies[t] = NoGlob \/ CollectGlob(applies[t]) # {})
        /\ st' = [st EXCEPT ![t] = "running"] /\ UNCHANGED got
     \/ st' = [st EXCEPT ![t] = "ended"] /\ got' = [got EXCEPT ![t] = Failed]
  /\ UNCHANGED <<req, present, pc, next, applies, said, notes, edits>>

\* What a linter leaves: its exit and the runs of findings it printed, of eslint the files it got
\* to; an output that ends too early, or is none, is cut, and one that says something else first is
\* noisy, bracketed if a bracket or a brace is in the noise, and masked if that is an empty list.
Outputs ==
  [ok : BOOLEAN, shape : {"whole", "cut", "noisy", "bracketed", "masked"}, runs : [1..1 -> Found] \cup [1..2 -> Found]]
    \cup [ok : BOOLEAN, shape : {"empty"}, runs : {<<{}>>}]

\* The codecs.  The first run of SARIF counts.
FirstSARIFRun(o) == IF o.shape = "whole" THEN o.runs[1] ELSE Failed

\* A list of issues is read whole or not at all; nothing is no issues.
Read(o) == o.shape \in {"whole", "empty"}
Leveled(found, Level(_)) == {<<f[1], f[2], Level(f[3])>> : f \in found}
DecodeShellcheck(o) ==
  LET Level(v) == CASE v = "error" -> "error" [] v \in {"info", "style"} -> "note" [] OTHER -> "warning" IN
  IF Read(o) THEN Leveled(UNION Range(o.runs), Level) ELSE Failed
DecodeActionlint(o) == IF Read(o) THEN Leveled(UNION Range(o.runs), LAMBDA v : "error") ELSE Failed

\* Of eslint, what it wrote completely counts.  An output is looked for from the first bracket or
\* brace on: noise without one is passed over, and other noise is taken for the output.
ParseESLintResults(o) ==
  CASE o.shape \in {"whole", "noisy"} -> UNION Range(o.runs)
    [] o.shape = "masked" -> {}
    [] o.shape = "cut" /\ Len(o.runs) > 1 -> o.runs[1]
    [] OTHER -> Failed
DecodeESLint(o) ==
  IF ParseESLintResults(o) = Failed THEN Failed
  ELSE Leveled(ParseESLintResults(o), LAMBDA v : IF v = "error" THEN "error" ELSE "warning")

Decode(codec, o) ==
  CASE codec = "sarif" -> FirstSARIFRun(o)
    [] codec = "actionlint_json" -> DecodeActionlint(o)
    [] codec = "shellcheck_json" -> DecodeShellcheck(o)
    [] codec = "eslint_json" -> DecodeESLint(o)
    [] OTHER -> Failed

\* A linter that exits with an error and printed nothing failed; one that printed found something.
\* Mistake: an exit with an error is a failure.
ExitDecides(codec, o) == IF o.ok THEN Decode(codec, o) ELSE Failed
Findings(codec, o) == IF ~o.ok /\ o.shape = "empty" THEN Failed ELSE Decode(codec, o)
RunOne(t) ==
  /\ pc = "run" /\ st[t] = "running"
  /\ st' = [st EXCEPT ![t] = "ended"]
  /\ IF req.what = "lint"
     THEN \E o \in Outputs :
            /\ said' = [said EXCEPT ![t] = o]
            /\ got' = [got EXCEPT ![t] = Findings(req.tools[t].codec, o)]
     ELSE \E r \in {{}, Failed} : got' = [got EXCEPT ![t] = r] /\ UNCHANGED said
  /\ UNCHANGED <<req, present, pc, next, applies, notes, edits>>

Ended == pc = "run" /\ \A t \in Applicable : st[t] = "ended"
Broken == {t \in Applicable : got[t] = Failed}
FormatEnds ==
  /\ req.what = "format" /\ Ended
  /\ pc' = IF Broken = {} THEN "done" ELSE "failed"
  /\ UNCHANGED <<req, present, next, applies, st, said, got, notes, edits>>

\* The change under review: since the base that the workflow names, since the fork from the branch
\* that is merged into, since the commit before the push, or the last commit.
DiffRange(e) ==
  CASE e.review -> "review"
    [] ~e.review /\ e.target -> IF e.fork THEN "fork" ELSE "target"
    [] ~e.review /\ ~e.target /\ e.pushed -> "pushed"
    [] OTHER -> "parent"

\* The lines of a diff without context.  A name with a blank gets a tab after it, and one with other
\* characters than ASCII is quoted, which the parser takes for the name of another file.
Header(s) == IF s.file = <<>> \/ s.plain THEN s.file ELSE Garbage
Section(s) ==
  <<[kind |-> "other"], [kind |-> "other"], [kind |-> "new", file |-> Header(s)]>>
    \o FlattenSeq([i \in DOMAIN s.hunks |->
         <<[kind |-> "hunk", at |-> s.hunks[i].at]>>
           \o [j \in DOMAIN s.hunks[i].dels |-> [kind |-> "-", text |-> s.hunks[i].dels[j]]]
           \o [j \in DOMAIN s.hunks[i].adds |-> [kind |-> "+", text |-> s.hunks[i].adds[j]]]])
Lines(diff) == FlattenSeq([i \in DOMAIN diff |-> Section(diff[i])])

\* The parser sees how a line begins.  +++ and --- are headers to it wherever they are.
ParseLine(acc, l) ==
  CASE l.kind = "new" -> [acc EXCEPT !.file = l.file]
    [] l.kind = "+" /\ l.text = "plus" -> [acc EXCEPT !.file = Garbage]
    [] l.kind = "hunk" -> [acc EXCEPT !.at = l.at]
    [] acc.file # <<>> /\ l.kind = "+" /\ l.text \notin {"plus", "pluses"} ->
         [acc EXCEPT !.set = @ \cup {<<acc.file, acc.at>>}, !.at = @ + 1]
    [] l.kind = "-" /\ l.text # "dashes" -> acc
    [] OTHER -> IF acc.file = <<>> THEN acc ELSE [acc EXCEPT !.at = @ + 1]
DiffLines(diff) ==
  LET lines == Lines(diff)
      Parsed[n \in 0..Len(lines)] ==
        IF n = 0 THEN [file |-> <<>>, at |-> 0, set |-> {}] ELSE ParseLine(Parsed[n - 1], lines[n])
  IN  Parsed[Len(lines)].set

\* Absolute paths become relative to the top of the repository, others stay as they are.
NormalizeRepoPath(t, f) == IF req.tools[t].absolute THEN Absolute(f) ELSE f
Place(t, s) == <<NormalizeRepoPath(t, s[1]), s[2]>>
WorkflowCommand(level) ==
  CASE level = "error" -> "error" [] level = "note" -> "notice" [] OTHER -> "warning"

\* The report has the runs of the linters that did not fail.
BundleRuns == {r \in (Applicable \ Broken) \X UNION Range(got) : r[2] \in got[r[1]]}
RelevantDiffLines == DiffLines(req.diffs[DiffRange(req.env)])
\* Without a change to look at, nothing is annotated, and without --review nothing but in a workflow.
AnnotateIfApplicable ==
  {<<NormalizeRepoPath(r[1], r[2][1]), r[2][2], WorkflowCommand(r[2][3])>> :
     r \in {r \in BundleRuns : req.env.actions /\ Place(r[1], r[2]) \in RelevantDiffLines}}

\* After the tools the report is saved, which may fail, annotated and printed.
Report ==
  /\ req.what = "lint" /\ Ended /\ pc' = "done"
  /\ notes' = AnnotateIfApplicable
  /\ UNCHANGED <<req, present, next, applies, st, said, got, edits>>

\* The configuration is no configuration, or the command is interrupted.
Fail ==
  /\ pc \in {"detect", "run"} /\ pc' = "failed"
  /\ UNCHANGED <<req, present, next, applies, st, said, got, notes, edits>>

Edit ==
  /\ edits < MaxEdits /\ edits' = edits + 1 /\ pc \in {"detect", "run"}
  /\ present' \in Trees \ {present}
  /\ UNCHANGED <<req, pc, next, applies, st, said, got, notes>>

Next ==
  \/ Detect \/ StartTools \/ FormatEnds \/ Report \/ Fail \/ Edit
  \/ \E t \in Tools : BuildCmd(t) \/ RunOne(t)

Spec == Init /\ [][Next]_vars

\* The lines that a change adds to files whose names git prints as they are, and the changes in
\* which one begins like a header.
AddedLines(diff) ==
  UNION {UNION {{<<s.file, k.at + j - 1>> : j \in DOMAIN k.adds} : k \in Range(s.hunks)} :
           s \in {s \in Range(diff) : s.plain}}
Confusing(diff) ==
  \E s \in Range(diff) : \E k \in Range(s.hunks) : "dashes" \in Range(k.dels) \/ ~(Range(k.adds) \subseteq {"plain"})

\* Findings of tools that print paths from where they run, in a review of a part of the repository,
\* are compared with the paths of the whole.  Of an output of several runs of SARIF the first counts,
\* an output of eslint that was cut off counts as complete, and all that actionlint says is an error.
Placed(t) == req.tools[t].absolute \/ req.root = <<>>
Complete(t) ==
  /\ said[t].shape = "whole" \/ (said[t].shape = "noisy" /\ req.tools[t].codec = "eslint_json")
  /\ req.tools[t].codec = "sarif" => Len(said[t].runs) = 1
  /\ req.tools[t].codec # "other"
IsError(t, v) == v = "error" \/ req.tools[t].codec = "actionlint_json"
Meant(t) == {<<Absolute(s[1]), s[2], IsError(t, s[3])>> : s \in UNION Range(said[t].runs)}

(***************************************************************************)
(* A review annotates exactly the findings on lines that the change adds   *)
(* to files whose names git prints as they are (those in other files are   *)
(* never annotated), errors as errors and nothing else as one, of every    *)
(* linter that printed what it found, alone or, for eslint, after noise    *)
(* without brackets and braces, however it exited and whatever becomes of  *)
(* the other tools and of files meanwhile; findings of the linters named   *)
(* above, and changes with lines that look like headers, excepted.         *)
(***************************************************************************)
Annotated ==
  pc = "done" /\ req.what = "lint" /\ req.env.actions =>
    LET diff == req.diffs[DiffRange(req.env)]
        Added(found) == {m \in found : <<m[1], m[2]>> \in AddedLines(diff)}
        posted == {<<n[1], n[2], n[3] = "error">> : n \in notes} IN
    ~Confusing(diff) =>
      /\ \A t \in Tools : Complete(t) /\ Placed(t) => Added(Meant(t)) \subseteq posted
      /\ (\A t \in Applicable : Placed(t)) =>
           posted \subseteq Added(UNION {Meant(t) : t \in {t \in Tools : said[t] # Silent}})
=============================================================================
