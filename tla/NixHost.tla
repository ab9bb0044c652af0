------------------------------ MODULE NixHost ------------------------------
(***************************************************************************)
(* A NixOS machine whose user is not root: `system apply` builds the       *)
(* system, here or on another machine, and asks for the switch to it, and  *)
(* `utils nix gc` asks for the removal of old generations of profiles      *)
(* (internal/nix, cmd/modot/system).  What they ask for waits in the       *)
(* SudoQueue and is run as it was then.                                    *)
(*                                                                         *)
(* A system is the revision of the configuration it was built from.  A     *)
(* profile is the words of its name, a generation of it a number.  The     *)
(* profiles lie in one directory.                                          *)
(***************************************************************************)
EXTENDS Naturals, FiniteSets, SequencesExt

CONSTANTS
  Users, Operators,
  Actions,       \* what a system is asked for: switch, boot, test
  Profiles,      \* profiles, as sequences of words
  MaxCommands, MaxKills,  \* bounds of SudoQueue
  MaxGenerations,         \* bound: the number of a generation
  MaxMoves                \* bound: what the rest of the machine does

Rebuilds == "rebuild"
Cleanups == "nix-gc-cleanup"

VARIABLES
  queue, last, pc, slug, cmd, tried, rejected, replaced, hidden, kills,  \* of SudoQueue
  asked,            \* the commands, in the order they were enqueued
  rev,              \* the revision of the configuration
  remote,           \* is this machine one that builds on another?
  built, store,     \* the systems there and here
  running, boot,    \* the system that runs and the one that will be booted
  gens, current,    \* profile |-> its generations and the one it points to
  st, todo,         \* user |-> where its command is and what it will ask for
  dated, stale,     \* users with a command, and commands, that were outdated since
  moves             \* what the rest of the machine did

queueVars == <<queue, last, pc, slug, cmd, tried, rejected, replaced, hidden, kills>>
hostVars == <<rev, remote, built, store, running, boot, gens, current>>
vars == <<queueVars, asked, hostVars, st, todo, dated, stale, moves>>

Q == INSTANCE SudoQueue WITH Slugs <- {Rebuilds, Cleanups}

Nothing == [kind |-> "none"]
Switch(r, a) == [kind |-> "switch", system |-> r, action |-> a]
Removal(links) == [kind |-> "rm", links |-> links]
Goto(u, from, to) == st[u] = from /\ st' = [st EXCEPT ![u] = to]

Init ==
  /\ Q!Init /\ asked = <<>>
  /\ rev = 1 /\ remote \in BOOLEAN /\ built = {}
  /\ store = {0} /\ running = 0 /\ boot = 0
  /\ gens = [p \in Profiles |-> {1, 2}] /\ current = [p \in Profiles |-> 2]
  /\ st = [u \in Users |-> "idle"] /\ todo = [u \in Users |-> Nothing]
  /\ dated = {} /\ stale = {} /\ moves = 0

\* The flake is copied to the store as it is now; only then it is built.
ResolveFlakePath(u, a) ==
  /\ Goto(u, "idle", "build")
  /\ todo' = [todo EXCEPT ![u] = Switch(rev, a)]
  /\ UNCHANGED <<queueVars, asked, hostVars, dated, stale, moves>>

\* On the other machine the result stays there until it is copied back.
RemoteBuild(u) ==
  /\ remote /\ Goto(u, "build", "back")
  /\ built' = built \cup {todo[u].system}
  /\ UNCHANGED <<queueVars, asked, rev, remote, store, running, boot, gens, current, todo, dated, stale, moves>>
\* Mistake: the result is not copied.
Forgotten(u) == store
Copied(u) == store \cup {todo[u].system}
CopyBack(u) ==
  /\ Goto(u, "back", "ask") /\ todo[u].system \in built
  /\ store' = Copied(u)
  /\ UNCHANGED <<queueVars, asked, rev, remote, built, running, boot, gens, current, todo, dated, stale, moves>>
\* A result that is known from before is used only if it is still there.
Build(u) ==
  /\ ~remote /\ Goto(u, "build", "ask")
  /\ store' = store \cup {todo[u].system}
  /\ UNCHANGED <<queueVars, asked, rev, remote, built, running, boot, gens, current, todo, dated, stale, moves>>

\* Of every profile whose name is one word, the links that begin with that word and a hyphen, but
\* not the one it points to.
Begins(p, q) == IsPrefix(p, q)
OldLinks ==
  UNION {{l \in UNION {{q} \X gens[q] : q \in Profiles} :
            Begins(p, l[1]) /\ l # <<p, current[p]>>} : p \in {p \in Profiles : Len(p) = 1}}
CleanupProfiles(u) ==
  /\ OldLinks # {}
  /\ Goto(u, "idle", "ask")
  /\ todo' = [todo EXCEPT ![u] = Removal(OldLinks)]
  /\ UNCHANGED <<queueVars, asked, hostVars, dated, stale, moves>>

SlugOf(c) == IF c.kind = "switch" THEN Rebuilds ELSE Cleanups
Enqueue(u) ==
  /\ Q!Enqueue(SlugOf(todo[u])) /\ Goto(u, "ask", "idle")
  /\ asked' = Append(asked, todo[u])
  /\ todo' = [todo EXCEPT ![u] = Nothing]
  /\ dated' = dated \ {u} /\ stale' = IF u \in dated THEN stale \cup {last + 1} ELSE stale
  /\ UNCHANGED <<hostVars, moves>>

GiveUp(u) ==
  /\ st[u] # "idle" /\ Goto(u, st[u], "idle")
  /\ todo' = [todo EXCEPT ![u] = Nothing] /\ dated' = dated \ {u}
  /\ UNCHANGED <<queueVars, asked, hostVars, stale, moves>>

\* What a command does when it is run: a system that is gone cannot be switched to.
Does(c) ==
  /\ running' = IF c.kind = "switch" /\ c.action \in {"switch", "test"} /\ c.system \in store THEN c.system ELSE running
  /\ boot' = IF c.kind = "switch" /\ c.action \in {"switch", "boot"} /\ c.system \in store THEN c.system ELSE boot
  /\ gens' = IF c.kind = "rm" THEN [p \in Profiles |-> {g \in gens[p] : <<p, g>> \notin c.links}] ELSE gens
RunCommand(o) ==
  /\ Q!RunCommand(o) /\ Does(asked[cmd[o]])
  /\ UNCHANGED <<asked, rev, remote, built, store, current, st, todo, dated, stale, moves>>
Others(o) ==
  /\ Q!Remove(o) \/ Q!Kill(o) \/ \E s \in {Rebuilds, Cleanups} : Q!Approve(o, s) \/ Q!Reject(s)
  /\ UNCHANGED <<asked, hostVars, st, todo, dated, stale, moves>>

\* The rest of the machine: the configuration is edited, a profile gets a new generation or goes
\* back to an older one, garbage is collected, the machine restarts.
Move == moves < MaxMoves /\ moves' = moves + 1 /\ UNCHANGED <<queueVars, asked, remote, built, st, todo>>
Names(c, l) == c.kind = "rm" /\ l \in c.links
Outdate(Is(_)) ==
  /\ dated' = dated \cup {u \in Users : Is(todo[u])}
  /\ stale' = stale \cup {c \in 1..last : Is(asked[c])}
Edit == Move /\ rev' = rev + 1 /\ UNCHANGED <<store, running, boot, gens, current, dated, stale>>
\* The number is one more than the largest there is, which a removed one may have had before.
NewGeneration(p) ==
  LET g == 1 + Max(gens[p] \cup {current[p]}) IN
  /\ Move /\ g <= MaxGenerations
  /\ gens' = [gens EXCEPT ![p] = @ \cup {g}] /\ current' = [current EXCEPT ![p] = g]
  /\ Outdate(LAMBDA c : Names(c, <<p, g>>))
  /\ UNCHANGED <<rev, store, running, boot>>
Rollback(p) ==
  /\ Move
  /\ \E g \in gens[p] \ {current[p]} :
       /\ current' = [current EXCEPT ![p] = g]
       /\ Outdate(LAMBDA c : Names(c, <<p, g>>))
  /\ UNCHANGED <<rev, store, running, boot, gens>>
CollectGarbage ==
  /\ Move /\ store' = {running, boot}
  /\ Outdate(LAMBDA c : c.kind = "switch" /\ c.system \in store \ {running, boot})
  /\ UNCHANGED <<rev, running, boot, gens, current>>
Restart ==
  /\ Move /\ running # boot /\ running' = boot
  /\ UNCHANGED <<rev, store, boot, gens, current, dated, stale>>

Next ==
  \/ \E u \in Users :
       \/ \E a \in Actions : ResolveFlakePath(u, a)
       \/ RemoteBuild(u) \/ CopyBack(u) \/ Build(u) \/ CleanupProfiles(u) \/ Enqueue(u) \/ GiveUp(u)
  \/ \E o \in Operators : RunCommand(o) \/ Others(o)
  \/ Edit \/ CollectGarbage \/ Restart
  \/ \E p \in Profiles : NewGeneration(p) \/ Rollback(p)

Spec == Init /\ [][Next]_vars

\* A profile whose name is the first word of the name of another.
Shadowed(q) == \E p \in Profiles : Len(p) = 1 /\ IsStrictPrefix(p, q)

(***************************************************************************)
(* A command that waited for an operator is still meant when it runs: the  *)
(* system it switches to is in the store, and none of the links it removes *)
(* is one that a profile points to.  Exceptions: what a collection of      *)
(* garbage took away since, for nothing roots a system that waits; a       *)
(* rollback since, or a number used again; and profiles with a hyphen in a *)
(* name that begins with that of another.                                  *)
(***************************************************************************)
StillMeant ==
  \A o \in Operators : pc[o] = "run" /\ cmd[o] \notin stale =>
    LET c == asked[cmd[o]] IN
    /\ c.kind = "switch" => c.system \in store
    /\ c.kind = "rm" => \A p \in Profiles : <<p, current[p]>> \in c.links => Shadowed(p)

\* See SudoQueue.
Waits == Q!Waits
=============================================================================
