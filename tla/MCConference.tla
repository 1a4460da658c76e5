---------------------------- MODULE MCConference ----------------------------
(* The runs start from the first moments of a conference and from conferences *)
(* that were started, computed with the operators of Conference.              *)
EXTENDS Conference

\* Party p joined the bridge, as the owner of the conference or added by it.
InBridge(w, p) ==
    LET listed == [CreateParticipant(w, p) EXCEPT !.part[p].adding = "no",
                       !.part[p].thread = "in", !.roster = Append(@, p)]
    IN  IF p \in Phones
        THEN Retain([listed EXCEPT !.part[p].phone = TRUE, !.part[p].chan = TRUE])
        ELSE listed
Created ==
    LET made == [Nobody EXCEPT !.conf.setup = "done", !.conf.listed = TRUE, !.conf.refs = 2,
                               !.conf.bridge = TRUE, !.conf.mods = 1]
    IN  [InBridge(made, Owner) EXCEPT !.part[Owner].mod = TRUE, !.part[Owner].dev = TRUE]

Started == {FoldLeft(InBridge, Created, s) :
                s \in UNION {SetToSeqs(S) : S \in SUBSET (Parties \ {Owner})}}
Away(w) == [ConferenceHold(w) EXCEPT !.part[Owner].away = TRUE]
\* The parties in S hung up, all at once.
Leaving(w, S) ==
    [w EXCEPT !.conf.bridge = Range(w.roster) # S,
              !.part = [p \in Parties |-> IF p \in S THEN [w.part[p] EXCEPT
                            !.thread = "left", !.pending = TRUE, !.hung = TRUE] ELSE w.part[p]]]
\* Party p is not there to be added.
Without(p) == [Nobody EXCEPT !.part[p].life = "gone"]
Situations == {Without(p) : p \in Parties \ {Owner}} \cup Started \cup {Away(w) : w \in Started}
              \cup {Promote(w, p) : w \in {v \in Started : Len(v.roster) > 2},
                                    p \in Phones \ {Owner}}
              \cup UNION {{Leaving(w, S) : S \in {Q \in SUBSET Range(w.roster) : Cardinality(Q) > 1}}
                            : w \in Started}

MCInit ==
    \/ \E w \in Situations : StartFrom(w)
    \/ StartFrom(Nobody) /\ count.given
MCSpec == MCInit /\ [][Next]_vars
=============================================================================
