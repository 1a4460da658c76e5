---------------------------- MODULE MCScheduling ----------------------------
(* One channel, the threads of its phone and of Asterisk, and the timer. *)
EXTENDS Scheduling, TLC

Symmetry == Permutations(Callers)
=============================================================================
