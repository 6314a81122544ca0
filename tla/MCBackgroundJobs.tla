------------------------- MODULE MCBackgroundJobs -------------------------
(* Instances of BackgroundJobs small enough for TLC.                       *)
EXTENDS BackgroundJobs, TLC

Symmetry == Permutations(Jobs) \cup Permutations(Drains) \cup Permutations(Producers)
=============================================================================
