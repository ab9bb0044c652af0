------------------------------ MODULE GitSync ------------------------------
(***************************************************************************)
(* The git_repo_sync action of a backup (internal/backup): on every host a *)
(* working tree is committed, rebased on the branch of a shared remote and *)
(* pushed.  A directory that is no repository yet is cloned first.  Users  *)
(* edit the trees at any moment and a sync may be interrupted.             *)
(*                                                                         *)
(* Files are told apart only by the edit that made them: a commit is the   *)
(* set of edits it adds and the set it takes away, and an edit comes once. *)
(* Two lines of commits that both change the same file may conflict when   *)
(* one is rebased on the other; which files an edit touches is left open.  *)
(***************************************************************************)
EXTENDS Naturals, FiniteSets, SequencesExt

CONSTANTS
  Hosts,
  Repositories,  \* what is found at the path of the repository of a host, and in the remote
  MaxEdits,      \* bound: files written by users
  MaxDeletes,    \* bound: files deleted by users
  MaxRuns,       \* bound: syncs started, all hosts together
  MaxInterrupts  \* bound: interruptions

VARIABLES
  repo,      \* host |-> what is at its path: at, commits, tree
  remote,    \* the commits of the branch of the remote
  symref,    \* does HEAD of the remote name that branch?
  pc,        \* host |-> the step its sync is at
  snap,      \* host |-> the files that `git add -A` of its last sync saw
  made,      \* host |-> the files its user wrote
  deleted,   \* the files users deleted
  late,      \* host |-> files written after the sync found the tree empty and before it wipes it
  wiped,     \* files that went with a wiped tree although the sync had not seen them
  missing,   \* files that an interrupted clone did not check out
  runs, interrupts

vars == <<repo, remote, symref, pc, snap, made, deleted, late, wiped, missing, runs, interrupts>>

\* What a line of commits adds, and the files of its last commit.
Added(cs) == UNION {c.adds : c \in Range(cs)}
Tree(cs) == Added(cs) \ UNION {c.dels : c \in Range(cs)}

Absent == [at |-> "absent", commits |-> <<>>, tree |-> {}]
Put(h, r) == repo' = [repo EXCEPT ![h] = r]
Step(h, from, to) == pc[h] = from /\ pc' = [pc EXCEPT ![h] = to]
Keep == UNCHANGED <<made, deleted, runs, interrupts, symref>>
Quiet == Keep /\ UNCHANGED <<late, wiped, missing>>

Init ==
  /\ \E i \in Repositories : repo = i.repo /\ remote = i.remote /\ symref = i.symref
  /\ pc = [h \in Hosts |-> "idle"]
  /\ snap = [h \in Hosts |-> {}]
  /\ made = [h \in Hosts |-> repo[h].tree \cup Added(repo[h].commits)]
  /\ late = [h \in Hosts |-> {}]
  /\ deleted = {} /\ wiped = {} /\ missing = {} /\ runs = 0 /\ interrupts = 0

Start(h) ==
  /\ runs < MaxRuns /\ pc[h] \in {"idle", "done", "failed"}
  /\ runs' = runs + 1
  /\ pc' = [pc EXCEPT ![h] = "look"]
  /\ late' = [late EXCEPT ![h] = {}]
  /\ UNCHANGED <<repo, remote, symref, snap, made, deleted, wiped, missing, interrupts>>

\* Any git command may fail, and the sync with it; what it did before stays.
Fail(h) ==
  /\ pc[h] \in {"clone", "head", "commit", "ask", "pull", "push"}
  /\ pc' = [pc EXCEPT ![h] = "failed"]
  /\ Quiet /\ UNCHANGED <<repo, remote, snap>>

\* Is the path a repository, and has it a commit?
MustClone(r) == r.at = "absent" \/ (r.at = "dir" /\ r.tree = {})
\* Mistake: a repository without HEAD is taken for one without work.
AnyUnborn(r) == TRUE
OnlyDotGit(r) == r.tree = {}
MustWipe(r) == r.at = "unborn" /\ OnlyDotGit(r)
Look(h) ==
  LET r == repo[h] IN
  /\ \/ MustClone(r) /\ Step(h, "look", "clone") /\ Put(h, Absent)
     \/ MustWipe(r) /\ Step(h, "look", "wipe") /\ UNCHANGED repo
     \/ r.at \in {"branch", "detached"} /\ Step(h, "look", "head") /\ UNCHANGED repo
     \/ /\ ~MustClone(r) /\ ~MustWipe(r) /\ r.at \notin {"branch", "detached"}
        /\ Step(h, "look", "failed") /\ UNCHANGED repo
  /\ Quiet /\ UNCHANGED <<remote, snap>>

Wipe(h) ==
  /\ Step(h, "wipe", "clone")
  /\ Put(h, Absent)
  /\ wiped' = wiped \cup late[h] \cup Added(repo[h].commits)
  /\ Keep /\ UNCHANGED <<remote, snap, late, missing>>

\* The branch is checked out only when HEAD of the remote names it.
Cloned == [at |-> IF symref /\ remote # <<>> THEN "branch" ELSE "unborn",
           commits |-> remote, tree |-> IF symref THEN Tree(remote) ELSE {}]
Clone(h) ==
  /\ repo[h].at = "absent"
  /\ Step(h, "clone", "head") /\ Put(h, Cloned)
  /\ Quiet /\ UNCHANGED <<remote, snap>>

\* Otherwise it is looked up among the branches that were fetched.
\* Mistake: HEAD is pointed at the branch and no file is checked out.
Pointed(r) == [r EXCEPT !.at = "branch"]
CheckedOut(r) == [r EXCEPT !.at = "branch", !.tree = @ \cup Tree(r.commits)]
EnsureHead(h) ==
  LET r == repo[h] IN
  /\ \/ r.at # "unborn" /\ Step(h, "head", "commit") /\ UNCHANGED repo
     \/ r.at = "unborn" /\ r.commits # <<>> /\ Step(h, "head", "commit") /\ Put(h, CheckedOut(r))
     \/ r.at = "unborn" /\ r.commits = <<>> /\ Step(h, "head", "failed") /\ UNCHANGED repo
  /\ Quiet /\ UNCHANGED <<remote, snap>>

\* `git add -A` and a commit when something differs.  A commit on no branch moves no branch.
Committed(r) ==
  IF r.at # "branch" \/ r.tree = Tree(r.commits) THEN r
  ELSE [r EXCEPT !.commits = Append(@, [adds |-> r.tree \ Added(@), dels |-> Tree(@) \ r.tree])]
CommitIfDirty(h) ==
  /\ Step(h, "commit", "ask")
  /\ snap' = [snap EXCEPT ![h] = repo[h].tree]
  /\ Put(h, Committed(repo[h]))
  /\ Quiet /\ UNCHANGED remote

\* The URL of the remote is set and the branch looked up there.  A remote that cannot be asked
\* counts as one without the branch.
RemoteHasBranch(h) ==
  /\ \/ remote # <<>> /\ repo[h].at = "branch" /\ Step(h, "ask", "pull")
     \/ Step(h, "ask", "push")
  /\ Quiet /\ UNCHANGED <<repo, remote, snap>>

\* The commits the remote lacks are put on top of it; what is not committed stays in the tree.
OnTop(cs) ==
  LET Replayed[n \in 0..Len(cs)] ==
        IF n = 0 THEN remote
        ELSE IF cs[n] \in Range(remote) THEN Replayed[n - 1] ELSE Append(Replayed[n - 1], cs[n])
  IN  Replayed[Len(cs)]
Rebased(r) ==
  LET cs == OnTop(r.commits) IN
  [r EXCEPT !.commits = cs,
            !.tree = (@ \ Tree(r.commits)) \cup (Tree(cs) \ (Tree(r.commits) \ @))]
PullRebase(h) ==
  /\ Step(h, "pull", "push") /\ Put(h, Rebased(repo[h]))
  /\ Quiet /\ UNCHANGED <<remote, snap>>

\* The remote takes only a line of commits that continues its own.
\* Mistake: the push is forced.
Forced(cs) == TRUE
Continues(cs) == IsPrefix(remote, cs)
Push(h) ==
  /\ \/ /\ repo[h].at = "branch" /\ Continues(repo[h].commits)
        /\ Step(h, "push", "done") /\ remote' = repo[h].commits
     \/ /\ ~(repo[h].at = "branch" /\ Continues(repo[h].commits))
        /\ Step(h, "push", "failed") /\ UNCHANGED remote
  /\ Quiet /\ UNCHANGED <<repo, snap>>

\* An interrupted clone leaves a branch whose files are partly checked out, an interrupted
\* rebase a HEAD on no branch; elsewhere a sync just ends.
Interrupt(h) ==
  /\ interrupts < MaxInterrupts /\ pc[h] \notin {"idle", "done", "failed"}
  /\ interrupts' = interrupts + 1
  /\ pc' = [pc EXCEPT ![h] = "failed"]
  /\ \/ UNCHANGED <<repo, missing>>
     \/ /\ pc[h] = "clone" /\ repo[h].at = "absent" /\ Cloned.at = "branch"
        /\ \E part \in SUBSET Tree(remote) :
             /\ Put(h, [Cloned EXCEPT !.tree = part])
             /\ missing' = missing \cup (Tree(remote) \ part)
     \/ /\ pc[h] = "pull" /\ Put(h, [repo[h] EXCEPT !.at = "detached"])
        /\ UNCHANGED missing
  /\ UNCHANGED <<remote, symref, snap, made, deleted, late, wiped, runs>>

\* A user writes a file, or deletes one.
Write(h) ==
  LET t == <<h, Cardinality(made[h])>> IN
  /\ Cardinality(UNION {made[g] : g \in Hosts}) < MaxEdits
  /\ repo[h].at # "file"
  /\ made' = [made EXCEPT ![h] = @ \cup {t}]
  /\ Put(h, [repo[h] EXCEPT !.at = IF @ = "absent" THEN "dir" ELSE @, !.tree = @ \cup {t}])
  /\ late' = [late EXCEPT ![h] = IF pc[h] = "wipe" THEN @ \cup {t} ELSE @]
  /\ UNCHANGED <<remote, symref, pc, snap, deleted, wiped, missing, runs, interrupts>>

Delete(h) ==
  /\ Cardinality(deleted) < MaxDeletes
  /\ \E t \in repo[h].tree :
       /\ deleted' = deleted \cup {t}
       /\ Put(h, [repo[h] EXCEPT !.tree = @ \ {t}])
  /\ UNCHANGED <<remote, symref, pc, snap, made, late, wiped, missing, runs, interrupts>>

Sync(h) ==
  \/ Start(h) \/ Look(h) \/ Wipe(h) \/ Clone(h) \/ EnsureHead(h) \/ CommitIfDirty(h)
  \/ RemoteHasBranch(h) \/ PullRebase(h) \/ Push(h) \/ Fail(h)

Next == \E h \in Hosts : Sync(h) \/ Interrupt(h) \/ Write(h) \/ Delete(h)

Spec == Init /\ [][Next]_vars

(***************************************************************************)
(* What a user wrote on a host stays there, in the tree or in a commit,    *)
(* until the user deletes it, whatever the syncs do: they wipe only trees  *)
(* they found empty.  The one exception is what the check cannot see: a    *)
(* file written between the check and the removal, and commits of branches *)
(* other than the one without commits that is checked out.                 *)
(***************************************************************************)
NothingLost ==
  \A h \in Hosts : made[h] \subseteq repo[h].tree \cup Added(repo[h].commits) \cup deleted \cup wiped

(***************************************************************************)
(* A host whose sync returned without an error has all the files that its  *)
(* commit saw in the history of the remote, for good: no sync of another   *)
(* host takes them out of that history again.                              *)
(***************************************************************************)
Saved == \A h \in Hosts : pc[h] = "done" => snap[h] \subseteq Added(remote)

(***************************************************************************)
(* Syncs delete nothing on their own: a commit in the remote takes away    *)
(* only what some user deleted.  The one exception is a clone that was     *)
(* interrupted between setting the branch and checking it out: the next    *)
(* sync commits the missing files as deletions and pushes that.            *)
(***************************************************************************)
OnlyUsersDelete == \A c \in Range(remote) : c.dels \subseteq deleted \cup missing
=============================================================================
