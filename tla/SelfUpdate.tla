---------------------------- MODULE SelfUpdate ----------------------------
(***************************************************************************)
(* The commands that install modot itself: self-update from source, self-  *)
(* update from a GitHub release, and self-install.  They share one file,   *)
(* ~/.local/share/modot/bin/modot, and updates to the same release share   *)
(* the directory that they download to, .tmp-<version>.                    *)
(*                                                                         *)
(* A binary is a release, the processes that still have it open for        *)
(* writing, whether a writer stopped halfway, and its executable bit.      *)
(* Unique temporaries are private to a process and left out.               *)
(***************************************************************************)
EXTENDS Naturals

CONSTANTS Procs, MaxVersion, MaxStarts, MaxKills   \* the last three are bounds

VARIABLES
  bin,      \* the installed binary, or None
  tmp,      \* release |-> the download in .tmp-<release>, or None
  latest,   \* the newest release
  kind, force, own, want,  \* of each process: command, --force, its own release, the release it installs
  pc,
  shared,   \* releases that two updates downloaded at a time
  bare,     \* did an update stop between the rename and the chmod?
  starts, kills

vars ==
  <<bin, tmp, latest, kind, force, own, want, pc, shared, bare, starts, kills>>

None == [v |-> 0, open |-> {}, torn |-> FALSE, exec |-> FALSE]
Binary(v) == [v |-> v, open |-> {}, torn |-> FALSE, exec |-> TRUE]
Versions == 1..MaxVersion
Source == MaxVersion + 1       \* what a build of the source tree is
SelfUpdates == {"source", "github"}   \* which of the two findSourcePath decides
Commands == SelfUpdates \cup {"install"}
Resting == {"idle", "done", "failed"}
Downloading == {"fetch", "fetching", "install", "chmod", "shim", "clean", "cleanfail"}

Goto(p, to) == pc' = [pc EXCEPT ![p] = to]
Step(p, from, to) == pc[p] = from /\ Goto(p, to)
Same == UNCHANGED <<kind, force, own, starts, kills>>
Files == <<bin, tmp, bare>>
\* A temporary directory is cleaned up by every update that made it, also after an error.
FailAt(p) == IF kind[p] = "github" /\ pc[p] \in Downloading THEN "cleanfail" ELSE "failed"

Init ==
  /\ bin \in {None, Binary(1)}
  /\ tmp = [v \in Versions |-> None]
  /\ latest = 1
  /\ kind = [p \in Procs |-> "install"] /\ force = [p \in Procs |-> FALSE]
  /\ own = [p \in Procs |-> 1] /\ want = [p \in Procs |-> 1]
  /\ pc = [p \in Procs |-> "idle"]
  /\ shared = {} /\ bare = FALSE /\ starts = 0 /\ kills = 0

\* A source tree is found or not; any release may be the one that runs.
Start(p, k, f, v) ==
  /\ starts < MaxStarts /\ pc[p] \in Resting
  /\ starts' = starts + 1
  /\ kind' = [kind EXCEPT ![p] = k] /\ force' = [force EXCEPT ![p] = f] /\ own' = [own EXCEPT ![p] = v]
  /\ Goto(p, CASE k = "source" -> "build" [] k = "github" -> "list" [] k = "install" -> "stat")
  /\ UNCHANGED <<bin, tmp, latest, want, shared, bare, kills>>

\* The build, or the copy of the running binary, fills a private temporary and renames it.
Build(p) ==
  /\ Step(p, "build", "replace") /\ want' = [want EXCEPT ![p] = Source]
  /\ Same /\ UNCHANGED <<Files, latest, shared>>

Replaceable(p) == force[p] \/ bin = None
Stat(p) ==
  /\ \/ Replaceable(p) /\ Step(p, "stat", "replace")
     \/ ~Replaceable(p) /\ Step(p, "stat", "shim")
  /\ want' = [want EXCEPT ![p] = own[p]]
  /\ Same /\ UNCHANGED <<Files, latest, shared>>

\* A private temporary, complete and executable, is renamed over the binary.
Replace(p) ==
  /\ Step(p, "replace", "shim") /\ bin' = Binary(want[p]) /\ bare' = FALSE
  /\ Same /\ UNCHANGED <<tmp, latest, want, shared>>
InstallBuilt(p) == kind[p] = "source" /\ Replace(p)
CopyFile(p) == kind[p] = "install" /\ Replace(p)

\* The newest release against the release of the running process.
Already(p) == ~force[p] /\ own[p] = latest
List(p) ==
  /\ want' = [want EXCEPT ![p] = latest]
  /\ \/ Already(p) /\ Step(p, "list", "done")
     \/ ~Already(p) /\ Step(p, "list", "fetch")
  /\ Same /\ UNCHANGED <<Files, latest, shared>>

\* The download is created or truncated in place; its mode is the one of the release.
Fetch(p) ==
  LET v == want[p] IN
  /\ Step(p, "fetch", "fetching")
  /\ \E x \in BOOLEAN :
       tmp' = [tmp EXCEPT ![v] = [v |-> v, open |-> @.open \cup {p},
                                  torn |-> @.open # {} /\ @.torn, exec |-> x]]
  /\ shared' = IF \E q \in Procs \ {p} : kind[q] = "github" /\ want[q] = v /\ pc[q] \in Downloading
               THEN shared \cup {v} ELSE shared
  /\ Same /\ UNCHANGED <<bin, bare, latest, want>>

\* A writer lets go of its file, wherever that was moved meanwhile.
Close(p, f, torn) ==
  IF p \in f.open THEN [f EXCEPT !.open = @ \ {p}, !.torn = @ \/ torn] ELSE f
CloseAll(p, torn) ==
  /\ bin' = Close(p, bin, torn)
  /\ tmp' = [v \in Versions |-> Close(p, tmp[v], torn)]

\* Mistake: the binary is installed while the download goes on.
Eager(p) == tmp[want[p]] # None
Fetched(p) == pc[p] = "install"
EndFetch(p) ==
  /\ Step(p, "fetching", "install") /\ CloseAll(p, FALSE)
  /\ Same /\ UNCHANGED <<bare, latest, want, shared>>

FindBinary(p) == tmp[want[p]] # None
Move(p) ==
  /\ pc[p] \in {"fetching", "install"} /\ Fetched(p)
  /\ FindBinary(p)
  /\ Goto(p, "chmod")
  /\ bin' = tmp[want[p]] /\ bare' = FALSE /\ tmp' = [tmp EXCEPT ![want[p]] = None]
  /\ Same /\ UNCHANGED <<latest, want, shared>>

Chmod(p) ==
  /\ Step(p, "chmod", "shim") /\ bin' = [bin EXCEPT !.exec = TRUE]
  /\ Same /\ UNCHANGED <<tmp, bare, latest, want, shared>>

Shim(p) ==
  /\ Step(p, "shim", IF kind[p] = "github" THEN "clean" ELSE "done")
  /\ Same /\ UNCHANGED <<Files, latest, want, shared>>

\* The deferred RemoveAll of the shared directory.
Clean(p) ==
  /\ \/ Step(p, "clean", "done") \/ Step(p, "cleanfail", "failed")
  /\ tmp' = [tmp EXCEPT ![want[p]] = None]
  /\ Same /\ UNCHANGED <<bin, bare, latest, want, shared>>

\* An error at any step; at the download it leaves part of a file.
Fail(p) ==
  /\ pc[p] \notin Resting \cup {"clean", "cleanfail"}
  /\ Goto(p, FailAt(p)) /\ CloseAll(p, TRUE)
  /\ bare' = (bare \/ pc[p] = "chmod")
  /\ Same /\ UNCHANGED <<latest, want, shared>>

Kill(p) ==
  /\ kills < MaxKills /\ pc[p] \notin Resting
  /\ kills' = kills + 1
  /\ Goto(p, "failed") /\ CloseAll(p, TRUE)
  /\ bare' = (bare \/ pc[p] = "chmod")
  /\ UNCHANGED <<kind, force, own, starts, latest, want, shared>>

Publish ==
  /\ latest < MaxVersion /\ latest' = latest + 1
  /\ UNCHANGED <<Files, kind, force, own, want, pc, shared, starts, kills>>

Act(p) ==
  \/ \E k \in Commands, f \in BOOLEAN, v \in 1..latest : Start(p, k, f, v)
  \/ Build(p) \/ Stat(p) \/ InstallBuilt(p) \/ CopyFile(p) \/ List(p) \/ Fetch(p) \/ EndFetch(p)
  \/ Move(p) \/ Chmod(p) \/ Shim(p) \/ Clean(p) \/ Fail(p)

Next == Publish \/ \E p \in Procs : Act(p) \/ Kill(p)

Spec == Init /\ [][Next]_vars

(***************************************************************************)
(* The installed binary can always be run: no command, failure or kill     *)
(* leaves a part of one, or one without its executable bit.  The two       *)
(* exceptions: updates that downloaded the same release at a time shared   *)
(* their directory, and the bit of a release that lacks it is set after    *)
(* the rename.                                                             *)
(***************************************************************************)
Runnable ==
  bin # None =>
    /\ bin.v \in shared \/ (bin.open = {} /\ ~bin.torn)
    /\ bin.exec \/ bare \/ \E p \in Procs : pc[p] = "chmod"
=============================================================================
