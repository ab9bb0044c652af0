---------------------------- MODULE ComposeCases ----------------------------
(***************************************************************************)
(* What Compose is given: names a, b, c, a template s.t, directories a.d   *)
(* and b.d, up to three of a few files that meet in every way, and mounts  *)
(* that move.                                                              *)
(***************************************************************************)
EXTENDS Sequences

PathNames == {"a", "b", "c", "a.d", "b.d", "s.t", "s"}
DottedNames == [n \in {"a.d", "b.d"} |-> IF n = "a.d" THEN "a" ELSE "b"]
TemplateNames == [n \in {"s.t"} |-> "s"]
PartNames == {"a", "b"}

File(i, under, rel, kind, src, body) ==
    [id |-> <<i>>, under |-> under, rel |-> rel, kind |-> kind, src |-> src, body |-> body]
Plain(i, rel) == File(i, <<>>, rel, "plain", i, i)
At(i, under, rel, kind) == File(i, under, rel, kind, i, i)
Made(i, rel, body) == File(i, <<>>, rel, "plain", "rendered", body)

\* Copies that meet or are nested, links, one among fragments, fragments of a, of b and
\* of a/b, the same fragment from two templates, fragments out of place, a template.
Found == {
    Plain("1", <<"a">>), Plain("2", <<"a">>), Plain("3", <<"a", "b">>), Plain("4", <<"b">>),
    At("5", <<"a">>, <<"b">>, "plain"), At("6", <<"a">>, <<"c">>, "found"),
    At("7", <<>>, <<"c">>, "found"), At("8", <<>>, <<"a">>, "link"), At("9", <<"..">>, <<"c">>, "plain"),
    Made("10", <<"a.d", "c">>, "x"), Made("11", <<"a.d", "c">>, "x"), Made("12", <<"a.d", "c">>, "y"),
    Plain("13", <<"a.d", "b">>), At("14", <<>>, <<"a", "b.d", "c">>, "found"), Plain("15", <<"a.d", "b", "c">>),
    Plain("16", <<"a.d">>), Plain("17", <<"s.t">>), Plain("18", <<"a.d", "s.t">>), Plain("19", <<"s", "a">>)}

Says(p, kind, slot, val) == [path |-> p, kind |-> kind, slot |-> slot, val |-> val]
Cues == {{},
         {Says(<<"a">>, "lines", "b", "cue"), Says(<<"a">>, "lines", "s", "cue"),
          Says(<<"b">>, "plain", "all", "cue")},
         {Says(<<"c">>, "link", "all", "7"), Says(<<"a", "b">>, "lines", "a", "cue")}}

MoveStep(from, to) == [op |-> "move", from |-> from, to |-> to, must |-> TRUE, match |-> {}]
RequireStep(must, match) == [op |-> "require", from |-> <<>>, to |-> <<>>, must |-> must, match |-> match]
Tree == {Plain("m1", <<"a">>), Plain("m2", <<"b">>), Plain("m3", <<"c", "a">>)}
MountOf(dest, file, entries, steps) ==
    [dest |-> dest, file |-> file, entries |-> entries, steps |-> steps]
Mounts == {
    MountOf(<<>>, FALSE, Tree, <<>>),
    MountOf(<<"c">>, FALSE, Tree, <<MoveStep(<<"a">>, <<"b">>), MoveStep(<<"c">>, <<"a">>)>>),
    MountOf(<<"a">>, FALSE, Tree, <<MoveStep(<<"b">>, <<"a", "b">>)>>),
    MountOf(<<>>, FALSE, Tree, <<RequireStep(TRUE, {<<"b">>}), MoveStep(<<"b">>, <<"s">>), RequireStep(FALSE, {<<"b">>})>>),
    MountOf(<<>>, FALSE, Tree, <<RequireStep(FALSE, {<<"c", "a">>})>>),
    MountOf(<<"a">>, TRUE, {At("m4", <<>>, <<"c">>, "found")}, <<>>),
    MountOf(<<"a.d">>, FALSE, {Plain("m5", <<"s.t">>), Plain("m6", <<"c">>)}, <<>>),
    MountOf(<<"a", "b.d">>, FALSE, {Plain("m7", <<"s.t">>)}, <<>>)}

UpToThree == {{x, y, z} : x \in Found, y \in Found, z \in Found}
UpToTwo == {{m, n} : m \in Mounts, n \in Mounts}
Cases ==
    {[files |-> fs, mounts |-> {}, cue |-> c] : fs \in UpToThree, c \in Cues}
    \cup {[files |-> fs, mounts |-> ms, cue |-> c] :
            fs \in {{}} \cup {{x} : x \in Found}, ms \in UpToTwo, c \in Cues}
=============================================================================
