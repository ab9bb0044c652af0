------------------------------- MODULE Deploy -------------------------------
(***************************************************************************)
(* `utils nix deploy`: for each node at once, its configuration is built   *)
(* here, copied to it and switched to there (cmd/modot/utils/nix).  A node *)
(* may be deployed to by two commands, of two people, and it restarts.     *)
(*                                                                         *)
(* A system is the revision of the flake it was built from; NixpkgsOf is   *)
(* the nixpkgs that a revision pins.                                       *)
(***************************************************************************)
EXTENDS Naturals

CONSTANTS
  Tasks,         \* the tasks of the commands, for one node each
  NodeOf,        \* task |-> its node
  Actions,       \* the actions a command may be given: auto, switch, boot, test
  NixpkgsOf,     \* revision |-> its nixpkgs; the revisions are 1..MaxRevision
  MaxRevision, MaxRestarts   \* bounds

VARIABLES
  rev,            \* the revision of the flake
  nodes,          \* node |-> what it runs and what it boots
  pc,             \* task |-> build, copy, choose, look, switch, done, failed
  top,            \* task |-> the system it built
  asked, action,  \* task |-> what its command was given and the action it takes
  found,          \* task |-> the node when it was looked at last
  quiet,          \* tasks whose node nobody else touched since it was looked at
  restarts

vars == <<rev, nodes, pc, top, asked, action, found, quiet, restarts>>

Nodes == {NodeOf[t] : t \in Tasks}
Goto(t, from, to) == pc[t] = from /\ pc' = [pc EXCEPT ![t] = to]

Init ==
  /\ rev \in 1..MaxRevision
  /\ nodes \in [Nodes -> [run : 1..rev, boot : 1..rev]]
  /\ pc = [t \in Tasks |-> "build"] /\ top = [t \in Tasks |-> 0]
  /\ asked \in [Tasks -> Actions] /\ action = asked
  /\ found = [t \in Tasks |-> nodes[NodeOf[t]]]
  /\ quiet = {} /\ restarts = 0

GetFlakeOutput(t) ==
  /\ Goto(t, "build", "copy")
  /\ top' = [top EXCEPT ![t] = rev]
  /\ UNCHANGED <<rev, nodes, asked, action, found, quiet, restarts>>

CopyClosure(t) == Goto(t, "copy", "choose") /\ UNCHANGED <<rev, nodes, top, asked, action, found, quiet, restarts>>

\* Nothing was asked for: switch at once if the node runs the same nixpkgs, else wait for the next
\* boot, as when either of the two cannot be read.
\* Mistake: the nixpkgs of the system that will be booted is compared.
SameAsBooted(t) == NixpkgsOf[top[t]] = NixpkgsOf[nodes[NodeOf[t]].boot]
SameNixpkgs(t) == NixpkgsOf[top[t]] = NixpkgsOf[nodes[NodeOf[t]].run]
Choose(t) ==
  /\ Goto(t, "choose", "look")
  /\ \E readable \in BOOLEAN :
       action' = [action EXCEPT ![t] =
         IF @ # "auto" THEN @ ELSE IF readable /\ SameNixpkgs(t) THEN "switch" ELSE "boot"]
  /\ found' = [found EXCEPT ![t] = nodes[NodeOf[t]]] /\ quiet' = quiet \cup {t}
  /\ UNCHANGED <<rev, nodes, top, asked, restarts>>

\* A node that runs this system is left alone; one whose system cannot be read is not.
RunsIt(t) == nodes[NodeOf[t]].run = top[t]
Look(t) ==
  /\ \/ Goto(t, "look", "done") /\ RunsIt(t)
     \/ Goto(t, "look", "switch")
  /\ UNCHANGED <<rev, nodes, top, asked, action, found, quiet, restarts>>

\* External: what switch-to-configuration does.
After(node, s, a) ==
  [node EXCEPT !.run = IF a = "boot" THEN @ ELSE s, !.boot = IF a = "test" THEN @ ELSE s]
Switch(t) ==
  LET n == NodeOf[t] IN
  /\ Goto(t, "switch", "done")
  /\ nodes' = [nodes EXCEPT ![n] = After(@, top[t], action[t])]
  /\ quiet' = quiet \ {u \in Tasks \ {t} : NodeOf[u] = n}
  /\ UNCHANGED <<rev, top, asked, action, found, restarts>>

Fail(t) ==
  /\ pc[t] \in {"build", "copy", "switch"} /\ Goto(t, pc[t], "failed")
  /\ UNCHANGED <<rev, nodes, top, asked, action, found, quiet, restarts>>

Commit ==
  /\ rev < MaxRevision /\ rev' = rev + 1
  /\ UNCHANGED <<nodes, pc, top, asked, action, found, quiet, restarts>>
Restart(n) ==
  /\ restarts < MaxRestarts /\ restarts' = restarts + 1
  /\ nodes' = [nodes EXCEPT ![n].run = nodes[n].boot]
  /\ quiet' = quiet \ {t \in Tasks : NodeOf[t] = n}
  /\ UNCHANGED <<rev, pc, top, asked, action, found>>

Next ==
  \/ \E t \in Tasks :
       GetFlakeOutput(t) \/ CopyClosure(t) \/ Choose(t) \/ Look(t) \/ Switch(t) \/ Fail(t)
  \/ Commit \/ \E n \in Nodes : Restart(n)

Spec == Init /\ [][Next]_vars

(***************************************************************************)
(* A deploy that ends well, on a node that nobody else touched since it    *)
(* was looked at, leaves the node with what was asked for; by its own      *)
(* choice it leaves the node to boot the system and never changes the      *)
(* nixpkgs of what runs.  The exception: a node that ran the system        *)
(* already keeps what it boots, even where that is another system.         *)
(***************************************************************************)
Deployed ==
  \A t \in Tasks : pc[t] = "done" /\ t \in quiet =>
    LET node == nodes[NodeOf[t]] IN
    /\ asked[t] \in {"switch", "test"} => node.run = top[t]
    /\ asked[t] = "boot" => node.run = found[t].run
    /\ asked[t] = "auto" => NixpkgsOf[node.run] = NixpkgsOf[found[t].run]
    /\ asked[t] = "test" => node.boot = found[t].boot
    /\ asked[t] # "test" => node.boot = top[t] \/ (found[t].run = top[t] /\ node.boot = found[t].boot)
=============================================================================
