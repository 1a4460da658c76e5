----------------------------- MODULE PhoneFeatures -----------------------------
(***************************************************************************)
(* What a phone's keys switch and show: its features (Features), the       *)
(* parking lot that phones watch (ParkingLot) and the hints of other lines *)
(* (Hints).  They share no state; the one that is followed is chosen at    *)
(* the beginning, and nobody is registered in the hints when they are not. *)
(***************************************************************************)
EXTENDS Features, ParkingLot, Hints

VARIABLE part   \* what is followed

Init ==
  /\ part \in {"features", "parking", "hints"}
  /\ FeaturesInit /\ LotInit /\ HintsInit
  /\ part # "hints" => registered = {}

Next ==
  \/ part = "features" /\ FeaturesNext /\ UNCHANGED <<part, lotVars, hintVars>>
  \/ part = "parking" /\ LotNext /\ UNCHANGED <<part, featureVars, hintVars>>
  \/ part = "hints" /\ HintsNext /\ UNCHANGED <<part, featureVars, lotVars>>

Spec == Init /\ [][Next]_<<part, featureVars, lotVars, hintVars>>
=============================================================================
