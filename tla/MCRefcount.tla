----------------------------- MODULE MCRefcount -----------------------------
(***************************************************************************)
(* Model-checking instance of Refcount.  Objects, slots and threads are    *)
(* interchangeable.                                                        *)
(***************************************************************************)
EXTENDS RefcountProofs, TLC
Symmetry == Permutations(Objects) \cup Permutations(Slots) \cup Permutations(Threads)
=============================================================================
