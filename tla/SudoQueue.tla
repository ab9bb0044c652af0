----------------------------- MODULE SudoQueue -----------------------------
(***************************************************************************)
(* Commands that wait for an operator to run them as root (internal/sudo,  *)
(* cmd/modot/driver/sudo): one file per slug.  A rebuild or a collection   *)
(* of garbage by a user that is not root enqueues under a fixed slug, the  *)
(* operator under a slug of their own or a random one.                     *)
(***************************************************************************)
EXTENDS Naturals, FiniteSets

CONSTANTS
  Slugs,
  Operators,     \* processes of `driver sudo approve`
  MaxCommands,   \* bound: commands enqueued
  MaxKills       \* bound: approvals killed

VARIABLES
  queue,      \* slug |-> the number of the command in its file, 0 for no file
  last,       \* commands enqueued so far
  pc,         \* operator |-> idle, run, remove
  slug, cmd,  \* operator |-> what it approved and what it read there
  tried,      \* commands that an approval ran, whatever came of it
  rejected, replaced,
  hidden,     \* commands enqueued under a slug while an approval of it was at work
  kills

vars == <<queue, last, pc, slug, cmd, tried, rejected, replaced, hidden, kills>>

Init ==
  /\ queue = [s \in Slugs |-> 0] /\ last = 0
  /\ pc = [o \in Operators |-> "idle"]
  /\ slug \in [Operators -> {CHOOSE s \in Slugs : TRUE}] /\ cmd = [o \in Operators |-> 0]
  /\ tried = {} /\ rejected = {} /\ replaced = {} /\ hidden = {} /\ kills = 0

\* The file is renamed into place and replaces one with the same slug.
Enqueue(s) ==
  /\ last < MaxCommands
  /\ last' = last + 1
  /\ queue' = [queue EXCEPT ![s] = last + 1]
  /\ replaced' = replaced \cup ({queue[s]} \ {0})
  /\ hidden' = IF \E o \in Operators : pc[o] # "idle" /\ slug[o] = s
               THEN hidden \cup {last + 1} ELSE hidden
  /\ UNCHANGED <<pc, slug, cmd, tried, rejected, kills>>

\* Without a file the approval fails.  The file stays while the command runs.
\* Mistake: the command is taken off the queue before it runs.
TakenFirst(s) == [queue EXCEPT ![s] = 0]
AtApproval(s) == queue
Approve(o, s) ==
  /\ pc[o] = "idle" /\ queue[s] # 0
  /\ pc' = [pc EXCEPT ![o] = "run"]
  /\ slug' = [slug EXCEPT ![o] = s] /\ cmd' = [cmd EXCEPT ![o] = queue[s]]
  /\ queue' = AtApproval(s)
  /\ UNCHANGED <<last, tried, rejected, replaced, hidden, kills>>

RunCommand(o) ==
  /\ pc[o] = "run" /\ pc' = [pc EXCEPT ![o] = "remove"]
  /\ tried' = tried \cup {cmd[o]}
  /\ UNCHANGED <<queue, last, slug, cmd, rejected, replaced, hidden, kills>>

\* Deferred, so also after an error; it removes whatever has the slug by then.
Remove(o) ==
  /\ pc[o] = "remove" /\ pc' = [pc EXCEPT ![o] = "idle"]
  /\ queue' = [queue EXCEPT ![slug[o]] = 0]
  /\ UNCHANGED <<last, slug, cmd, tried, rejected, replaced, hidden, kills>>

Reject(s) ==
  /\ queue[s] # 0
  /\ queue' = [queue EXCEPT ![s] = 0]
  /\ rejected' = rejected \cup {queue[s]}
  /\ UNCHANGED <<last, pc, slug, cmd, tried, replaced, hidden, kills>>

Kill(o) ==
  /\ kills < MaxKills /\ pc[o] # "idle"
  /\ kills' = kills + 1 /\ pc' = [pc EXCEPT ![o] = "idle"]
  /\ UNCHANGED <<queue, last, slug, cmd, tried, rejected, replaced, hidden>>

Next ==
  \/ \E s \in Slugs : Enqueue(s) \/ Reject(s) \/ \E o \in Operators : Approve(o, s)
  \/ \E o \in Operators : RunCommand(o) \/ Remove(o) \/ Kill(o)

Spec == Init /\ [][Next]_vars

(***************************************************************************)
(* A command that was enqueued waits until an approval ran it, the         *)
(* operator rejected it or one with its slug replaced it; a killed         *)
(* approval leaves it waiting.  The one exception: enqueued under a slug   *)
(* whose approval is at work, it may be removed in place of the command    *)
(* that ran.                                                               *)
(***************************************************************************)
Waits ==
  \A c \in 1..last :
    c \in {queue[s] : s \in Slugs} \cup tried \cup rejected \cup replaced \cup hidden
=============================================================================
