--------------------------- MODULE IconThemeCases ---------------------------
(***************************************************************************)
(* Masters that meet on one icon, in every way the code tells apart, and   *)
(* rules of which one feeds another.                                       *)
(***************************************************************************)
EXTENDS TLC

Master(context, name, tmpl, rank, color) ==
  [context |-> context, name |-> name, tmpl |-> tmpl, rank |-> rank, color |-> color]

plain == Master("apps", "x", FALSE, 1, "red")
template == Master("apps", "x", TRUE, 2, "red")
larger == Master("apps", "x", TRUE, 3, "blue")
twin == Master("apps", "x", FALSE, 1, "blue")
root == Master(".", "x", FALSE, 4, "green")
other == Master("apps", "y", FALSE, 5, "blue")

MasterSets ==
  { <<>>, plain :> 2, other :> 2, twin :> 1 @@ root :> 2,
    plain :> 1 @@ template :> 1 @@ larger :> 2 }

ThemeSettings ==
  { [palette |-> "dark", rules |-> {}],
    [palette |-> "light", rules |-> {<<"red", "blue">>, <<"blue", "green">>}],
    [palette |-> "none", rules |-> {}] }

\* A plan alone generates like an apply.
ThemeFlags == { [dryRun |-> FALSE, noCache |-> FALSE], [dryRun |-> FALSE, noCache |-> TRUE],
          [dryRun |-> TRUE, noCache |-> TRUE] }
=============================================================================
