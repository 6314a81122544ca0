--------------------------- MODULE MCHeldReplies ---------------------------
(* Instances of HeldReplies for TLC.                                       *)
EXTENDS HeldReplies, TLC

Symmetry == Permutations(Reviewers) \cup Permutations(Teammates)
=============================================================================
