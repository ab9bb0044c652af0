-------------------------- MODULE SourcePinsCases --------------------------
(***************************************************************************)
(* A repository with two branches and five tags: 1.9, 1.10, a pre-release  *)
(* of it, one without a version, and a day that looks like a commit.       *)
(***************************************************************************)
EXTENDS Naturals, Sequences

Number(n) == <<"n", n>>
Word(w) == <<"w", w>>
TagText ==
  [t \in {"next", "20240315", "1.9", "1.10-rc", "1.10"} |->
     CASE t = "next" -> [main |-> <<Word(1)>>, pre |-> <<>>, raw |-> 5]
       [] t = "20240315" -> [main |-> <<Number(20240315)>>, pre |-> <<>>, raw |-> 4]
       [] t = "1.9" -> [main |-> <<Number(1), Number(9)>>, pre |-> <<>>, raw |-> 3]
       [] t = "1.10-rc" -> [main |-> <<Number(1), Number(10)>>, pre |-> <<Word(2)>>, raw |-> 2]
       [] t = "1.10" -> [main |-> <<Number(1), Number(10)>>, pre |-> <<>>, raw |-> 1]]
ListedTags == <<"next", "20240315", "1.9", "1.10-rc", "1.10">>

HexNames == {"20240315"}

Versioned == {"1.9", "1.10-rc", "1.10"}
Patterns ==
  [p \in {"semver", "parts", "days", "any"} |->
     CASE p = "any" -> DOMAIN TagText [] p = "days" -> {"1.9", "20240315"} [] OTHER -> Versioned]
PatternGroups == [p \in DOMAIN Patterns |-> IF p = "parts" THEN "parts" ELSE "version"]

UpstreamWith(tags) == [n \in {"main", "dev"} \cup DOMAIN TagText |->
               IF n \in tags \cup {"main"} THEN "a" ELSE IF n = "dev" THEN "b" ELSE "gone"]
PinStarts == {UpstreamWith(Versioned), UpstreamWith({"next", "20240315", "1.9"})}
SourceVersion(k, n) == [kind |-> k, name |-> n]
PinVersions ==
  {SourceVersion("none", ""), SourceVersion("head", "HEAD"), SourceVersion("ref", "dev"), SourceVersion("ref", "1.9"), SourceVersion("sha", "b"),
   SourceVersion("tag", "semver"), SourceVersion("tag", "parts"), SourceVersion("tag", "days"), SourceVersion("tag", "any")}
=============================================================================
