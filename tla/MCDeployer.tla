----------------------------- MODULE MCDeployer -----------------------------
(***************************************************************************)
(* Instances of Deployer for TLC.  Paths: a, ab (below a) and c.           *)
(***************************************************************************)
EXTENDS Deployer

CONSTANTS p1, p2, a, ab, c, d1, d2, u, l1, s1, s2, b1

MCBelow == [q \in Path |-> IF q = a THEN {ab} \cap Path ELSE {}]

Empty == [q \in Path |-> NoEntry]
E(v, s) == [val |-> v, src |-> s]
K(w, ign) == [want |-> [q \in Path |-> IF q \in DOMAIN w THEN w[q] ELSE NoEntry],
              ignored |-> ign]

On1(p, e) == [q \in {p} |-> e]
On2(p, e, r, f) == [q \in {p, r} |-> IF q = p THEN e ELSE f]

\* a file becomes a directory and back; c changes from file to link, is dropped, is ignored.
TreeConfigs ==
  { K(On2(a, E(d1, s1), c, E(l1, s2)), {}),
    K(On2(ab, E(d2, s2), c, E(d1, s1)), {c}),
    K(On1(ab, E(d2, s1)), {c}) }

\* codebase apply on paths that stay apart: a bundle, a link and an ignored file.
FlatConfigs ==
  { K(On2(a, E(d1, s1), c, E(l1, s2)), {}),
    K(On2(a, E(d2, s1), c, E(d1, b1)), {}),
    K(On1(c, E(d2, s2)), {c}) }

\* home apply: nothing is ignored, and c is the dconf marker, whose SourceInfo is
\* constant while its content follows the settings.
HomeConfigs ==
  { K(On2(a, E(d1, s1), c, E(d1, s2)), {}),
    K(On2(a, E(l1, b1), c, E(d2, s2)), {}),
    K(On1(a, E(d2, s1)), {}) }

\* Only the settings change.
DconfConfigs ==
  { K(On2(a, E(d1, s1), c, E(d1, s2)), {}),
    K(On2(a, E(d2, s1), c, E(d2, s2)), {}) }

\* A directory of deployed files becomes one executable.
ExecConfigs == { K(On1(ab, E(d1, s1)), {}), K(On1(a, E(d2, s1)), {}) }

Opt(dry, cold) == [dryRun |-> dry, noCache |-> cold]
AllOptions == {Opt(x, y) : x, y \in BOOLEAN}
OnlyApply == {Opt(FALSE, FALSE)}
ApplyOrPlan == {Opt(x, FALSE) : x \in BOOLEAN}
=============================================================================
