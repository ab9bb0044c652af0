-------------------------------- MODULE Lists --------------------------------
(***************************************************************************)
(* What is a sequence, of whatever elements.                               *)
(***************************************************************************)
EXTENDS Naturals, Sequences

IsSequence(s) == s \in Seq({s[n] : n \in DOMAIN s})
=============================================================================
