---------------------------- MODULE MCThreadPool ----------------------------
(***************************************************************************)
(* Model-checking instance of ThreadPool, with the inductive invariant of  *)
(* ThreadPoolProofs.                                                       *)
(***************************************************************************)
EXTENDS ThreadPoolProofs
=============================================================================
