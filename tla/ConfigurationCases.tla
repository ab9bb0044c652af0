------------------------- MODULE ConfigurationCases -------------------------
(***************************************************************************)
(* What Configuration is given: a dotfiles repository, a project with a    *)
(* workspace below its root, a few texts of their modot.cue and modules.   *)
(***************************************************************************)
EXTENDS TLC, Sequences

Field(field, value) == [field |-> field, value |-> value]

h == <<"h">>
dots == <<"h", "dots">>
proj == <<"h", "proj">>
sub == proj \o <<"sub">>

Elsewhere == <<"h", "cfg">>
Repositories == {dots, proj}

A(root) == root \o <<"modules", "a">>
B(root) == root \o <<"modules", "b">>

Loads == {[mode |-> "home", root |-> dots], [mode |-> "codebase", root |-> dots],
          [mode |-> "codebase", root |-> proj], [mode |-> "codebase", root |-> sub],
          [mode |-> "codebase", root |-> h]}

Directories ==
  [d \in {h, dots, proj} |-> {}]
  @@ [d \in {A(h), A(dots), A(proj), B(dots)} |-> {"home", "codebase"}]
  @@ A(sub) :> {"codebase"} @@ B(proj) :> {"codebase", "stray"}
  @@ (proj \o <<"x">>) :> {"codebase"} @@ (proj \o <<"x", "y">>) :> {"codebase"} @@ <<"ext", "m">> :> {"codebase"}

LockedTags == <<"repo">> :> "v2"

M(name, key, value) == Field(<<"modules", name, key>>, value)
I(name, key, value) == Field(<<"inputs", name, key>>, value)

On(name) == M(name, "enable", <<"true">>)
Off(name) == M(name, "enable", <<"false">>)
General(value) == Field(<<"theme">>, value)
Github == I("gh", "from", <<"github", "repo">>)

Entries ==
  { {}, {On("a")}, {On("a"), Off("b")}, {On("a"), M("b", "path", <<"modules", "b">>)},
    {On("a"), On("b"), General(<<"dark">>)},
    {M("a", "from", <<"self", "x">>)},
    {M("a", "from", <<"self", "x">>), M("a", "path", <<"y">>)},
    {M("a", "input", <<"self", "x">>)},
    {M("a", "input", <<"self", "x">>), M("a", "path", <<"y">>)},
    {M("a", "from", <<"ext", "m">>), I("ext", "from", <<"local", "/", "ext">>)},
    {M("a", "input", <<"ext">>), I("ext", "from", <<"local", "/", "ext">>)},
    {M("a", "input", <<"dir">>), M("a", "path", <<"y">>), I("dir", "from", <<"self", "x">>)},
    {M("a", "input", <<"dir", "y">>), I("dir", "from", <<"self", "x">>)},
    {M("a", "path", <<"x">>), M("b", "path", <<"x">>)},
    {M("a", "from", <<"self", "/", "h", "proj", "x">>)},
    {Github, I("gh", "version", <<"runtime", "self">>)},
    {M("a", "input", <<"none">>)}, {I("bad", "from", <<"repo">>)},
    {M("a", "from", <<"core", "base16-icons-linux">>)},
    {On("a"), Github, General(<<"runtime", "gh">>)},
    {On("a"), Github, I("gh", "version", <<"v1">>), General(<<"runtime", "gh">>)},
    {Github, I("gh", "version", <<"tag", "v">>)},
    {I("dir", "from", <<"self", "x">>), General(<<"runtime", "dir">>)},
    {I("dir", "from", <<"self", "x">>), Field(<<"file", "codebase", "f">>, <<"place", "dir", "r">>)},
    {Field(<<"file", "home", "f">>, <<"place">>)}, {Field(<<"file", "etc", "f">>, <<"lines">>)} }

ModulesA == { {General(<<"light">>)}, {On("b")}, {Off("b")}, {I("gh", "version", <<"v1">>)} }

StartingDisks ==
  { root :> e @@ A(root) :> a @@ B(root) :> {General(<<"light">>)} : root \in {dots, proj}, e \in Entries, a \in ModulesA }
  \cup { root :> e @@ (proj \o <<"x">>) :> {On("b")} @@ (proj \o <<"x", "y">>) :> {}
             @@ <<"ext", "m">> :> {} @@ A(sub) :> {} @@ A(h) :> {} : root \in {h, proj, sub}, e \in Entries }
  \cup { dots :> {On("a")} @@ h :> e @@ A(dots) :> a : e \in Entries, a \in ModulesA }

SavedTexts ==
  {<<d, t>> : d \in {dots, proj}, t \in {{}, {On("a")}, {General(<<"light">>)}}}
  \cup {<<proj \o <<"x">>, {General(<<"light">>)}>>}
  \cup {<<A(dots), {General(<<"light">>)}>>, <<A(proj), {General(<<"light">>)}>>,
        <<A(proj), {On("b")}>>, <<h, {Off("a"), Off("b")}>>}
=============================================================================
