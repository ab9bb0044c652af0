------------------------------ MODULE FileTree ------------------------------
(***************************************************************************)
(* The part of the file system that modot reads and writes: one node per   *)
(* target path, and the effect of the calls that the deployer makes (Lstat,*)
(* MkdirAll, Remove, RemoveAll, Symlink, and the rename that ends an       *)
(* atomicfile write).  Names and contents are abstract; what is kept is    *)
(* what the calls depend on: which path lies below which, and whether a    *)
(* node is a directory, a regular file or a symbolic link.                 *)
(***************************************************************************)

CONSTANTS
  Path,     \* the target paths an apply can name
  Below,    \* Below[p]: the paths strictly below p when p is a directory
  Absent,   \* no node at this path
  Dir,      \* a directory
  Data,     \* regular files: permission bits and content
  DirPerm,  \* the members of Data whose permission bits are those of a directory
  Link      \* symbolic links (to files), by their link target

Node == {Absent, Dir} \cup Data \cup Link

ASSUME BelowAssumption ==
  /\ Below \in [Path -> SUBSET Path]
  /\ \A p \in Path : p \notin Below[p]
  /\ \A p \in Path : \A q \in Below[p] : Below[q] \subseteq Below[p]

ASSUME NodeAssumption ==
  /\ Absent # Dir
  /\ {Absent, Dir} \cap (Data \cup Link) = {}
  /\ Data \cap Link = {}
  /\ DirPerm \subseteq Data

Above(p) == {q \in Path : p \in Below[q]}

ParentsPresent(t, p) == \A q \in Above(p) : t[q] = Dir
NothingBelow(t, p) == \A q \in Below[p] : t[q] = Absent

\* os.MkdirAll of the parent of p: it fails on an ancestor that is not a directory.
CanMkdir(t, p) == \A q \in Above(p) : t[q] \in {Absent, Dir}
MkdirAbove(t, p) == [q \in Path |-> IF q \in Above(p) THEN Dir ELSE t[q]]

\* os.Remove of p: it fails on a missing node and on a directory that is not empty.
CanRemove(t, p) == t[p] # Absent /\ NothingBelow(t, p)

\* os.RemoveAll of p.
Wiped(t, p) == [q \in Path |-> IF q = p \/ q \in Below[p] THEN Absent ELSE t[q]]

\* A rename of a regular file onto p fails on a directory and without parents.
CanInstallFile(t, p) == ParentsPresent(t, p) /\ t[p] # Dir
\* os.Symlink at p fails when anything is there, and without parents.
CanInstallLink(t, p) == ParentsPresent(t, p) /\ t[p] = Absent

Put(t, p, v) == [t EXCEPT ![p] = v]
=============================================================================
