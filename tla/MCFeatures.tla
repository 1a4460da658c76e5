----------------------------- MODULE MCFeatures -----------------------------
(* A phone of two lines, one of them with a mode of do not disturb of its own; *)
(* two phones that watch a lot of two places, one with RetrieveSingle; a line  *)
(* that two phones share and another one, a hint for the first and one for     *)
(* both, which one phone watches.                                              *)
EXTENDS PhoneFeatures

CONSTANTS a, b, one, two, first, both, away, t1, t2

MCMode == ("phone" :> "off") @@ (a :> "reject") @@ (b :> "off")

MCCovers == (first :> {a}) @@ (both :> {a, b})
MCWants == (one :> {}) @@ (two :> {first, both, away})
MCStarts ==
    {[phones |-> (a :> <<>>) @@ (b :> <<>>), busy |-> {}, watching |-> {}],
     [phones |-> (a :> <<two, one>>) @@ (b :> <<one>>), busy |-> {a}, watching |-> {two}]}

\* Nothing tells the threads of the pool apart
Threadlike == Permutations({t1, t2})
=============================================================================
