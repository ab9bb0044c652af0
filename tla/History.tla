------------------------------ MODULE History ------------------------------
(***************************************************************************)
(* The history database (internal/db, cmd/modot/utils/history): every      *)
(* command of the shell records a row, `ingest bash` adds the lines of the *)
(* history file, `ingest workspaced` copies the rows of the program's old  *)
(* database, and `list` and `search` show what was recorded.               *)
(*                                                                         *)
(* A transaction of SQLite is modelled by what the code relies on: one     *)
(* that reads and then writes commits only if nothing was written since it *)
(* read, and otherwise fails as busy.                                      *)
(***************************************************************************)
EXTENDS Naturals, SequencesExt

CONSTANTS
  Names, Dirs,     \* commands and the directories they run in
  BashFiles,       \* the history files of bash: sequences of lines
  Limits,          \* values of --limit
  Importers,       \* processes of `ingest workspaced`
  MaxRows,         \* bound: rows that get recorded or ingested
  MaxOld,          \* bound: rows of the old database
  MaxTime          \* bound: seconds that pass

VARIABLES
  rows,      \* the table, in the order of its ids
  old,       \* the table of the old database, which the old program may still write
  bash,      \* the history file of bash
  now,
  pc,        \* importer |-> idle, copy
  seen,      \* importer |-> both tables as its transaction reads them
  loaded,    \* what an ingestion has read and not written yet
  copied     \* rows that the import copied

vars == <<rows, old, bash, now, pc, seen, loaded, copied>>

NoFile == "/dev/null"     \* the directory of rows that have none
Event(c, d, t, from) == [cmd |-> c, cwd |-> d, at |-> t, from |-> from]

Init ==
  /\ rows \in {<<>>, <<Event(CHOOSE c \in Names : TRUE, CHOOSE d \in Dirs : TRUE, 1, "record")>>}
  /\ old \in {<<>>, <<Event(CHOOSE c \in Names : TRUE, CHOOSE d \in Dirs : TRUE, 0, "old")>>}
  /\ bash \in BashFiles
  /\ now = 1
  /\ pc = [p \in Importers |-> "idle"]
  /\ seen = [p \in Importers |-> [rows |-> <<>>, old |-> <<>>]]
  /\ loaded = <<>> /\ copied = 0

\* The hook of the shell records a run in one insert.
Record ==
  /\ Len(rows) < MaxRows
  /\ \E c \in Names, d \in Dirs : rows' = Append(rows, Event(c, d, now, "record"))
  /\ UNCHANGED <<old, bash, now, pc, seen, loaded, copied>>

\* A line of the file is a time, for the commands below it, or a command.
ParseLine(acc, l) ==
  CASE l.kind = "time" -> [acc EXCEPT !.at = l.at]
    [] l.kind = "empty" -> acc
    [] l.kind = "command" -> [acc EXCEPT !.events = Append(@, Event(l.cmd, NoFile, acc.at, "bash"))]
IngestBash ==
  LET Parsed[n \in 0..Len(bash)] ==
        IF n = 0 THEN [at |-> 0, events |-> <<>>] ELSE ParseLine(Parsed[n - 1], bash[n])
  IN  Parsed[Len(bash)].events

\* The events are read first and written later, in one transaction.
LoadEvents ==
  /\ loaded = <<>> /\ IngestBash # <<>>
  /\ loaded' = IngestBash
  /\ UNCHANGED <<rows, old, bash, now, pc, seen, copied>>
BatchRecord ==
  /\ loaded # <<>> /\ Len(rows) + Len(loaded) <= MaxRows
  /\ rows' \in {rows \o loaded, rows}
  /\ loaded' = <<>>
  /\ UNCHANGED <<old, bash, now, pc, seen, copied>>

\* The transaction of an import: both tables are counted, and only an empty one is filled.
Wanted(r, o) == o # <<>> /\ r = <<>>
BeginImport(p) ==
  /\ pc[p] = "idle" /\ Wanted(rows, old)
  /\ pc' = [pc EXCEPT ![p] = "copy"]
  /\ seen' = [seen EXCEPT ![p] = [rows |-> rows, old |-> old]]
  /\ UNCHANGED <<rows, old, bash, now, loaded, copied>>

\* Mistake: the check is made before the transaction.
CheckedBefore(p) == TRUE
Isolated(p) == rows = seen[p].rows
Commit(p) ==
  /\ pc[p] = "copy" /\ Isolated(p)
  /\ rows' = rows \o seen[p].old
  /\ copied' = Len(seen[p].old)
  /\ pc' = [pc EXCEPT ![p] = "idle"]
  /\ UNCHANGED <<old, bash, now, seen, loaded>>

\* An error, an interruption and a busy database roll back.
Rollback(p) ==
  /\ pc[p] = "copy" /\ pc' = [pc EXCEPT ![p] = "idle"]
  /\ UNCHANGED <<rows, old, bash, now, seen, loaded, copied>>

\* The old program goes on recording; time passes.
OldRecord ==
  /\ Len(old) < MaxOld
  /\ \E c \in Names, d \in Dirs : old' = Append(old, Event(c, d, now, "old"))
  /\ UNCHANGED <<rows, bash, now, pc, seen, loaded, copied>>
Tick == now < MaxTime /\ now' = now + 1 /\ UNCHANGED <<rows, old, bash, pc, seen, loaded, copied>>

Next ==
  \/ Record \/ LoadEvents \/ BatchRecord \/ OldRecord \/ Tick
  \/ \E p \in Importers : BeginImport(p) \/ Commit(p) \/ Rollback(p)

Spec == Init /\ [][Next]_vars

\* ORDER BY timestamp DESC, id DESC LIMIT n, as ids.
Later(i, j) == rows[i].at > rows[j].at \/ (rows[i].at = rows[j].at /\ i > j)
Sorted(order) ==
  CHOOSE s \in [DOMAIN rows -> DOMAIN rows] :
    \A k, m \in DOMAIN rows : k < m => <<s[k], s[m]>> \in order
First(s, n) == SubSeq(s, 1, IF n < Len(s) THEN n ELSE Len(s))
ByTime == {p \in (DOMAIN rows) \X (DOMAIN rows) : Later(p[1], p[2])}
Recent(n) == First(Sorted(ByTime), n)
ByDirectory(d) ==
  {p \in (DOMAIN rows) \X (DOMAIN rows) :
     \/ rows[p[1]].cwd = d /\ rows[p[2]].cwd # d
     \/ (rows[p[1]].cwd = d <=> rows[p[2]].cwd = d) /\ Later(p[1], p[2])}
PreferCwd(d, n) == First(Sorted(ByDirectory(d)), n)

\* Runs of a command in a directory are one line, shown where its newest run is.
\* Mistake: runs in other directories are the same line.
ByCommand(e) == e.cmd
Key(e) == <<e.cmd, e.cwd>>
Collapse(acc, i) ==
  IF \E k \in DOMAIN acc : Key(rows[acc[k].id]) = Key(rows[i])
  THEN [k \in DOMAIN acc |-> IF Key(rows[acc[k].id]) = Key(rows[i])
                             THEN [acc[k] EXCEPT !.count = @ + 1] ELSE acc[k]]
  ELSE Append(acc, [id |-> i, count |-> 1])
List(n) ==
  LET ids == Recent(n)
      Collapsed[k \in 0..Len(ids)] ==
        IF k = 0 THEN <<>> ELSE Collapse(Collapsed[k - 1], ids[k])
  IN  Reverse(Collapsed[Len(ids)])

(***************************************************************************)
(* The rows of the old database come in once, all of those an import saw   *)
(* and in their order, and only into an empty history: in front of every   *)
(* row recorded or ingested, whatever runs at the same time.               *)
(***************************************************************************)
ImportedOnce ==
  /\ copied <= Len(old) /\ copied <= Len(rows)
  /\ \A i \in DOMAIN rows :
       IF i <= copied THEN rows[i] = old[i] ELSE rows[i].from # "old"

(***************************************************************************)
(* `list` shows every command and directory among the newest rows on one   *)
(* line, counts its runs there, says when the newest was and puts the      *)
(* newest line last.  `search` leaves no row of the current directory out  *)
(* for one of another.                                                     *)
(***************************************************************************)
Latest(n) == {i \in DOMAIN rows : Cardinality({j \in DOMAIN rows : Later(j, i)}) < n}
Runs(i, n) == {j \in Latest(n) : rows[j].cmd = rows[i].cmd /\ rows[j].cwd = rows[i].cwd}
LastRuns(n) == {i \in Latest(n) : \A j \in Runs(i, n) : ~Later(j, i)}
OneLineEach(n) ==
  {<<l.id, l.count>> : l \in Range(List(n))} = {<<i, Cardinality(Runs(i, n))>> : i \in LastRuns(n)}
NewestLast(n) ==
  LET lines == List(n) IN
  \A k, m \in DOMAIN lines : k < m => Later(lines[m].id, lines[k].id)
OwnFirst(d, n) ==
  LET found == Range(PreferCwd(d, n)) IN
  \A i \in DOMAIN rows : rows[i].cwd = d /\ i \notin found => \A j \in found : rows[j].cwd = d
Listed ==
  \A n \in Limits : OneLineEach(n) /\ NewestLast(n) /\ \A d \in Dirs : OwnFirst(d, n)
=============================================================================
