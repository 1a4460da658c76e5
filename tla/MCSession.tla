----------------------------- MODULE MCSession -----------------------------
(* The connections of one phone and the other threads of the module. *)
EXTENDS SessionProofs, TLC

Symmetry == Permutations(Sessions) \cup Permutations(Callers)
=============================================================================
