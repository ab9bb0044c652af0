------------------------------- MODULE MCLive -------------------------------
(***************************************************************************)
(* The two components whose liveness needs a small instance, side by side: *)
(* the deployer that keeps applying, and the source cache.  They share no  *)
(* state: a behavior is one of the part chosen at the start, and only that *)
(* part is scheduled.                                                      *)
(***************************************************************************)
EXTENDS MCSourceCache, Naturals

CONSTANTS a, c, d1, d2, u, l1, s1, s2, b1, p1, Absent, Directory, NoSrc, NoEntry, NoPath, NoSettings

VARIABLES part, fs, saved, config, dconf, state, cfg, opt, st, dropped, plan, task, quiet, disturbances

applyVars ==
  <<fs, saved, config, dconf, state, cfg, opt, st, dropped, plan, task, quiet, disturbances>>

Entries(first, second) ==
  [want |-> [q \in {a, c} |-> IF q = a THEN first ELSE second], ignored |-> {}]
E(v, s) == [val |-> v, src |-> s]

\* home apply: c is the dconf marker, whose SourceInfo is constant while its content
\* follows the settings.
Homes ==
  {Entries(E(d1, s1), E(d1, s2)), Entries(E(l1, b1), E(d2, s2)), Entries(E(d2, s1), NoEntry)}

Applying ==
  INSTANCE Deployer WITH
    Dir <- Directory, Below <- [q \in {a, c} |-> {}], Path <- {a, c}, Data <- {d1, d2, u},
    DirPerm <- {d2}, Link <- {l1}, Proc <- {p1}, Src <- {s1, s2, b1}, Bundle <- {b1},
    Configs <- Homes, Options <- {[dryRun |-> FALSE, noCache |-> FALSE]}, Marker <- c,
    Allowed <- {"task", "hook", "abort", "crash", "edit", "config", "reconfig"},
    UserNode <- {u, Absent}, MaxDisturbances <- 3, pc <- state

LiveInit ==
  /\ part \in {"apply", "cache"}
  /\ Init /\ (part = "apply" => flags = CHOOSE f \in [Process -> Flag] : TRUE)
  /\ Applying!Init /\ (part = "cache" => config = CHOOSE k \in Homes : TRUE)

LiveNext ==
  /\ UNCHANGED part
  /\ \/ part = "cache" /\ Next /\ UNCHANGED applyVars
     \/ part = "apply" /\ Applying!Next /\ UNCHANGED vars

LiveSpec ==
  /\ LiveInit /\ [][LiveNext]_<<part, vars, applyVars>>
  /\ part = "cache" => Fairness
  /\ part = "apply" => Applying!Fairness

\* Every call of the cache returns (CallsReturn of SourceCache).
EveryCallReturns == part = "cache" => CallsReturn

\* Repeated applies settle the targets and state.json (Settles of Deployer).
Settles == part = "apply" => Applying!Settles
=============================================================================
