------------------------- MODULE MCInferenceNetwork -------------------------
(***************************************************************************)
(* InferenceNetwork for TLC: its threads are interchangeable.              *)
(***************************************************************************)
EXTENDS InferenceNetwork, TLC

Symmetry == Permutations(Threads)

=============================================================================
