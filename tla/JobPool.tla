------------------------------ MODULE JobPool ------------------------------
(***************************************************************************)
(* What a thread pool promises its callers, with no threads in it: a job   *)
(* is accepted while the pool is open or refused, an accepted job is       *)
(* executed once, and the pool goes away only after it closed and          *)
(* executed everything it accepted.                                        *)
(***************************************************************************)
CONSTANT Jobs

VARIABLES state, open, gone
vars == <<state, open, gone>>

Init ==
  /\ state = [j \in Jobs |-> "caller"]
  /\ open = TRUE
  /\ gone = FALSE

Accept(j) ==
  /\ open
  /\ state[j] = "caller"
  /\ state' = [state EXCEPT ![j] = "accepted"]
  /\ UNCHANGED <<open, gone>>

Refuse(j) ==
  /\ ~gone
  /\ state[j] = "caller"
  /\ state' = [state EXCEPT ![j] = "rejected"]
  /\ UNCHANGED <<open, gone>>

Execute(j) ==
  /\ ~gone
  /\ state[j] = "accepted"
  /\ state' = [state EXCEPT ![j] = "done"]
  /\ UNCHANGED <<open, gone>>

Close ==
  /\ open' = FALSE
  /\ UNCHANGED <<state, gone>>

Reclaim ==
  /\ ~open
  /\ \A j \in Jobs : state[j] # "accepted"
  /\ gone' = TRUE
  /\ UNCHANGED <<state, open>>

Next ==
  \/ \E j \in Jobs : Accept(j) \/ Refuse(j) \/ Execute(j)
  \/ Close
  \/ Reclaim

Spec == Init /\ [][Next]_vars
=============================================================================
