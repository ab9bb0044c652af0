---------------------------- MODULE MCSourceCache ----------------------------
(***************************************************************************)
(* Instances of SourceCache: the calls of one process, or two processes.   *)
(***************************************************************************)
EXTENDS SourceCache

CONSTANTS m1, m2, t1, t2

InOne == [t \in Call |-> m1]
InTwo == [t \in Call |-> IF t = t1 THEN m1 ELSE m2]
=============================================================================
