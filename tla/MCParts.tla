------------------------------ MODULE MCParts ------------------------------
(***************************************************************************)
(* Small instances of the parts: who acts in each, and what each is given, *)
(* as far as that is not in a module of cases.                             *)
(***************************************************************************)
EXTENDS Parts, ComposeCases, ConfigurationCases, IconThemeCases, GitSyncCases, ChecksCases,
  SourcePinsCases

\* A history file of bash with a time between two commands.
BashLine(k, t, c) == [kind |-> k, at |-> t, cmd |-> c]
BashLines ==
  <<BashLine("command", 0, "x"), BashLine("time", 2, ""), BashLine("empty", 0, ""), BashLine("command", 0, "y")>>
HistoryFiles == {<<>>, BashLines}

\* Two profiles, of which the name of one begins with that of the other.
HostProfiles == {<<"system">>, <<"system", "test">>}

\* Two tasks for one node; the last revision pins another nixpkgs.
BothToOne == <<"node", "node">>
PinnedNixpkgs == <<"old", "old", "new">>
=============================================================================
