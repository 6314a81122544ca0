---------------------------- MODULE MCAutoTopUp ----------------------------
(* Instances of AutoTopUp for TLC.                                         *)
EXTENDS AutoTopUp, TLC

Symmetry == Permutations(Sweeps)
=============================================================================
