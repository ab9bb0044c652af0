---------------------------- MODULE ChecksCases ----------------------------
(***************************************************************************)
(* Repositories, tools of every kind the code tells apart, and changes.    *)
(***************************************************************************)
EXTENDS Naturals, Sequences

CheckTool(codec, rules, args, absolute) ==
  [enable |-> TRUE, codec |-> codec, rules |-> rules, args |-> args, absolute |-> absolute]
Rule(path, glob, enable) == [path |-> path, glob |-> glob, enable |-> enable]
anywhere == [kind |-> "deep", name |-> "a"]
none == [kind |-> "none", name |-> ""]
atRoot == [kind |-> "here", name |-> "b"]

scripts == CheckTool("shellcheck_json", <<Rule(<<>>, anywhere, TRUE)>>, TRUE, FALSE)
modules == CheckTool("eslint_json", <<Rule(<<"b">>, none, TRUE)>>, FALSE, TRUE)
analysis == CheckTool("sarif", <<Rule(<<"b">>, anywhere, FALSE), Rule(<<>>, atRoot, TRUE)>>, TRUE, TRUE)
flows == CheckTool("actionlint_json", <<Rule(<<"a">>, none, TRUE)>>, FALSE, FALSE)
disabled == [scripts EXCEPT !.enable = FALSE]
uncoded == [scripts EXCEPT !.codec = ""]
unknown == CheckTool("other", <<Rule(<<>>, anywhere, TRUE)>>, FALSE, FALSE)

CheckTrees == { {<<"a">>, <<"b">>, <<"sub", "a">>}, {<<"b">>, <<"vendor", "a">>, <<"sub", "b">>} }
CheckFound ==
  { {}, {<<<<"a">>, 2, "info">>, <<<<"a">>, 3, "error">>, <<<<"a b">>, 1, "error">>, <<<<"b">>, 1, "warning">>} }

Hunk(at, dels, adds) == [at |-> at, dels |-> dels, adds |-> adds]
InFile(file, hunks) == [file |-> file, plain |-> file # <<"a b">>, hunks |-> hunks]
replaced == <<Hunk(2, <<"plain">>, <<"plain", "plain">>)>>
change ==
  <<InFile(<<"a">>, replaced),
    InFile(<<>>, <<Hunk(0, <<"plain">>, <<>>)>>),
    InFile(<<"a b">>, <<Hunk(1, <<>>, <<"plain">>)>>),
    InFile(<<"sub", "a">>, <<Hunk(1, <<>>, <<"plain">>), Hunk(3, <<>>, <<"plain">>)>>)>>
onlyB == <<InFile(<<"b">>, <<Hunk(1, <<>>, <<"plain">>)>>)>>
rule == <<InFile(<<"a">>, <<Hunk(2, <<"dashes">>, <<"plain">>)>>)>>
signs == <<InFile(<<"a">>, <<Hunk(1, <<>>, <<"pluses", "plain", "plus", "plain">>)>>)>>

Environment(actions, review, target, fork, pushed) ==
  [actions |-> actions, review |-> review, target |-> target, fork |-> fork, pushed |-> pushed]
Changes(parent, fork) ==
  [review |-> onlyB, target |-> rule, fork |-> fork, pushed |-> signs, parent |-> parent]

pull == Environment(TRUE, FALSE, TRUE, TRUE, TRUE)
Request(what, root, tools, env, diffs) ==
  [what |-> what, root |-> root, tools |-> tools, env |-> env, diffs |-> diffs]

CheckRequests ==
  { Request("lint", <<>>, <<scripts, modules>>, pull, Changes(<<>>, change)),
    Request("lint", <<>>, <<scripts, analysis>>, pull, Changes(<<>>, change)),
    Request("lint", <<"sub">>, <<scripts, modules>>, pull, Changes(<<>>, change)),
    Request("lint", <<>>, <<disabled, modules>>, Environment(TRUE, FALSE, FALSE, FALSE, FALSE), Changes(change, <<>>)),
    Request("lint", <<>>, <<uncoded, analysis>>, Environment(TRUE, TRUE, TRUE, TRUE, TRUE), Changes(<<>>, change)),
    Request("lint", <<>>, <<unknown, flows>>, Environment(TRUE, FALSE, FALSE, FALSE, FALSE), Changes(change, <<>>)),
    Request("lint", <<>>, <<scripts>>, Environment(TRUE, FALSE, TRUE, FALSE, TRUE), Changes(<<>>, <<>>)),
    Request("lint", <<>>, <<scripts>>, Environment(TRUE, FALSE, FALSE, TRUE, TRUE), Changes(<<>>, <<>>)),
    Request("lint", <<>>, <<scripts>>, Environment(FALSE, FALSE, FALSE, FALSE, FALSE), Changes(change, <<>>)),
    Request("format", <<>>, <<scripts, unknown, modules>>, pull, Changes(<<>>, <<>>)) }
=============================================================================
