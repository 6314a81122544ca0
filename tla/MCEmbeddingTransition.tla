----------------------- MODULE MCEmbeddingTransition -----------------------
(* Instances of EmbeddingTransition for TLC.                               *)
EXTENDS EmbeddingTransition, TLC

Symmetry == Permutations(Workers) \cup Permutations(Docs)
=============================================================================
