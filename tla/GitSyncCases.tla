---------------------------- MODULE GitSyncCases ----------------------------
(***************************************************************************)
(* The repositories GitSync starts from: every kind of path on one host, a *)
(* clone on the other, and a remote with or without a usable HEAD.         *)
(***************************************************************************)
EXTENDS Naturals, Sequences

SyncHosts == {"a", "b"}

OneCommit(t) == [adds |-> {t}, dels |-> {}]
Shared == <<"r", 0>>       \* a file of the remote
Here == <<"a", 0>>         \* a file that only the first host has

Holding(kind, commits, tree) == [at |-> kind, commits |-> commits, tree |-> tree]
Line == <<OneCommit(Shared)>>
Paths ==
  {Holding("absent", <<>>, {}), Holding("dir", <<>>, {}), Holding("dir", <<>>, {Here}), Holding("file", <<>>, {}),
   Holding("unborn", <<>>, {}), Holding("unborn", <<>>, {Here}), Holding("unborn", <<OneCommit(Here)>>, {}),
   Holding("branch", Line, {Shared}), Holding("detached", Line, {Shared}),
   Holding("branch", <<OneCommit(Here)>>, {Here})}

SyncCases ==
  {[repo |-> [h \in SyncHosts |-> IF h = "a" THEN p ELSE Holding("branch", Line, {Shared})],
    remote |-> Line, symref |-> s] : p \in Paths, s \in BOOLEAN}
  \cup {[repo |-> [h \in SyncHosts |-> IF h = "a" THEN p ELSE Holding("absent", <<>>, {})],
         remote |-> <<>>, symref |-> TRUE] :
        p \in {Holding("absent", <<>>, {}), Holding("branch", <<OneCommit(Here)>>, {Here})}}
=============================================================================
