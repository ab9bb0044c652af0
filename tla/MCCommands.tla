----------------------------- MODULE MCCommands -----------------------------
(* Two clients; one tool and two aliases of one repository. *)
EXTENDS Commands

CONSTANTS c1, c2, t1, a1, a2, r

MCProcs == {c1, c2}
MCTools == {t1}
MCRepos == {r}
MCAliases == {a1, a2}
MCRepoOf == [a \in MCAliases |-> r]
Row(ref) == [ref |-> ref, pin |-> 1]
Full(ref) == [x \in Rows |-> IF x \in Tools THEN Row("release") ELSE Row(ref)]
Job(k, t) == [kind |-> k, tool |-> t, ws |-> "here"]
Run == Job("run", t1)
Refresh == Job("refresh", "all")
Relock == Job("lock", "all")
Pair(a, b) == [p \in MCProcs |-> IF p = c1 THEN a ELSE b]

Scenario(l, a, b, second) ==
    [files |-> [w \in Workspaces |-> l],
     config |-> [a_ \in MCAliases |-> IF a_ = a1 THEN "HEAD" ELSE "dev"],
     jobs |-> Pair(a, b),
     clients |-> Pair("start", second)]
Kinds == {Run, Refresh, Relock}
NoTool == [Full("dev") EXCEPT ![t1] = None]

\* Two clients of the daemon.
BothScenarios == {Scenario(Full("dev"), Run, Run, "start")}

\* One client asks the daemon and the other does not: every pair of commands
\* on a full lock, runs without a lock, a run and a refresh that both pin the
\* tool. Or both ask the daemon.
MCScenarios ==
    {Scenario(Full("dev"), a, b, "local") : a \in Kinds, b \in Kinds}
    \cup {Scenario(NoFile, Run, Run, "local"), Scenario(NoTool, Run, Refresh, "local")}
    \cup BothScenarios
=============================================================================
