------------------------------- MODULE Backup -------------------------------
(***************************************************************************)
(* `home backup` (internal/backup): the configured actions run at the same *)
(* time, each in the pool of its kind, and the command reports those that  *)
(* failed.  An rsync action nests the transfer as a task of its own, and   *)
(* its output goes through a pipe to a goroutine that scans it for lines.  *)
(* What a git action does to the repository is GitSync.                    *)
(***************************************************************************)
EXTENDS Naturals, FiniteSets

CONSTANTS
  Actions,
  Kinds,       \* subset of {"git_repo_sync", "rsync", "archive"}
  IOSlots,     \* tasks that the IO pool runs at a time
  MaxLines     \* bound: lines of output of a transfer

VARIABLES
  kind,      \* action |-> its kind
  st,        \* action |-> waiting, running, ok, failed
  leaf,      \* the nested transfer: none, waiting, running, ok, failed
  scanner,   \* the goroutine at the other end of the pipe: off, reading, stopped
  lines,     \* lines a transfer has still to write
  result,    \* of the command: none, ok, failed
  cancelled

vars == <<kind, st, leaf, scanner, lines, result, cancelled>>

Ended == {"ok", "failed"}

Init ==
  /\ kind \in [Actions -> Kinds]
  /\ st = [a \in Actions |-> "waiting"]
  /\ leaf = [a \in Actions |-> "none"]
  /\ scanner = [a \in Actions |-> "off"]
  /\ lines = [a \in Actions |-> MaxLines]
  /\ result = "none" /\ cancelled = FALSE

\* An rsync action holds no slot itself, as its transfer takes one.
\* Mistake: every action takes a slot of the IO pool.
AllIO(a) == "io"
PoolFor(a) == CASE kind[a] = "git_repo_sync" -> "internet" [] kind[a] = "rsync" -> "control"
                [] kind[a] = "archive" -> "io"
Busy == {a \in Actions : st[a] = "running" /\ PoolFor(a) = "io"}
Transfers == {a \in Actions : leaf[a] = "running"}
FreeSlot == Cardinality(Busy) + Cardinality(Transfers) < IOSlots

Begin(a) ==
  /\ st[a] = "waiting" /\ ~cancelled
  /\ PoolFor(a) = "io" => FreeSlot
  /\ st' = [st EXCEPT ![a] = "running"]
  /\ leaf' = [leaf EXCEPT ![a] = IF kind[a] = "rsync" THEN "waiting" ELSE "none"]
  /\ scanner' = [scanner EXCEPT ![a] = IF kind[a] = "rsync" THEN "reading" ELSE "off"]
  /\ UNCHANGED <<kind, lines, result, cancelled>>

\* A git or archive action ends.
End(a) ==
  /\ st[a] = "running" /\ kind[a] # "rsync"
  /\ \E e \in Ended : st' = [st EXCEPT ![a] = e]
  /\ UNCHANGED <<kind, leaf, scanner, lines, result, cancelled>>

\* An rsync action without a source or a destination fails before anything starts.
Refuse(a) ==
  /\ st[a] = "waiting" /\ ~cancelled /\ kind[a] = "rsync"
  /\ st' = [st EXCEPT ![a] = "failed"]
  /\ UNCHANGED <<kind, leaf, scanner, lines, result, cancelled>>

Transfer(a) ==
  /\ leaf[a] = "waiting" /\ FreeSlot
  /\ leaf' = [leaf EXCEPT ![a] = "running"]
  /\ UNCHANGED <<kind, st, scanner, lines, result, cancelled>>

\* A write returns when the scanner took it.  A line that outgrows the buffer of the scanner
\* ends it, and what is written then is never taken.
Emit(a) ==
  /\ leaf[a] = "running" /\ lines[a] > 0 /\ scanner[a] = "reading"
  /\ lines' = [lines EXCEPT ![a] = @ - 1]
  /\ \E s \in {"reading", "stopped"} : scanner' = [scanner EXCEPT ![a] = s]
  /\ UNCHANGED <<kind, st, leaf, result, cancelled>>

TransferEnds(a) ==
  /\ leaf[a] = "running" /\ scanner[a] = "reading" /\ lines[a] = 0
  /\ \E e \in Ended : leaf' = [leaf EXCEPT ![a] = e]
  /\ UNCHANGED <<kind, st, scanner, lines, result, cancelled>>

\* The pipe is closed, which ends the scanner, and its error counts as one of the transfer.
Finish(a) ==
  /\ st[a] = "running" /\ leaf[a] \in Ended
  /\ st' = [st EXCEPT ![a] = leaf[a]]
  /\ scanner' = [scanner EXCEPT ![a] = "off"]
  /\ UNCHANGED <<kind, leaf, lines, result, cancelled>>

\* Cancelled by the user, an action waits for its transfer no longer; the closed pipe ends it.
Cancel ==
  /\ ~cancelled /\ result = "none" /\ cancelled' = TRUE
  /\ UNCHANGED <<kind, st, leaf, scanner, lines, result>>
Abandon(a) ==
  /\ cancelled /\ st[a] \notin Ended
  /\ st' = [st EXCEPT ![a] = "failed"]
  /\ leaf' = [leaf EXCEPT ![a] = IF kind[a] = "rsync" THEN "failed" ELSE "none"]
  /\ scanner' = [scanner EXCEPT ![a] = "off"]
  /\ UNCHANGED <<kind, lines, result, cancelled>>

Report ==
  /\ result = "none" /\ \A a \in Actions : st[a] \in Ended
  /\ result' = IF \E a \in Actions : st[a] = "failed" THEN "failed" ELSE "ok"
  /\ UNCHANGED <<kind, st, leaf, scanner, lines, cancelled>>

Work ==
  \/ Report
  \/ \E a \in Actions : \/ Begin(a) \/ Refuse(a) \/ End(a) \/ Transfer(a) \/ Emit(a) \/ TransferEnds(a)
                        \/ Finish(a) \/ Abandon(a)
Next == Cancel \/ Work

Spec == Init /\ [][Next]_vars

(***************************************************************************)
(* The command never gets stuck, with every action waiting for another     *)
(* one's slot or end, and it reports only when every action was tried to   *)
(* its end, as an error exactly if one had an error.  The one exception: a *)
(* transfer whose output has a line longer than the buffer of the scanner  *)
(* waits for ever in a write that nobody reads, and holds its slot.        *)
(***************************************************************************)
BackupReturns ==
  /\ result # "none" =>
       /\ \A a \in Actions : st[a] \in Ended
       /\ result = "failed" <=> \E a \in Actions : st[a] = "failed"
  /\ result = "none" /\ (\A a \in Actions : scanner[a] # "stopped") => ENABLED Work
=============================================================================
