------------------------------ MODULE MCEngine ------------------------------
(* Engine on small instances: two or three features, two embeddings. *)
EXTENDS Engine, TLC

Symmetry == Permutations(Feats) \cup Permutations(Vals)
=============================================================================
