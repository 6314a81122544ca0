---------------------------- MODULE MCEmailSend ----------------------------
(* Instances of EmailSend for TLC.                                         *)
EXTENDS EmailSend, TLC

Symmetry == Permutations(Workers) \cup Permutations(Teammates)
=============================================================================
