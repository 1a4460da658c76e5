------------------------------ MODULE MCCalls ------------------------------
(* The runs start from situations a few steps into a call, each computed with *)
(* the operators of Calls from the empty line, and explore what follows.      *)
EXTENDS Calls

\* Call x is placed by phone p and answered; the phone answers both requests.
Acked(w, x) ==
    LET received == RunStartCallback([w.call[x] EXCEPT !.rx = @ \cup {"active"}])
    IN  Set(w, x, [received EXCEPT !.tx = {"active"}])
Answered(w, x) ==
    Acked([Indicate(w, x, NoDevice, "connected") EXCEPT !.call[x].ast = "up"], x)

p1 == CHOOSE p \in VideoPhones : TRUE
p2 == CHOOSE p \in Phones : p # p1
Dialled(w, p) == NewCall(w, p, TRUE, "exists", TRUE).w
Talking(p) == Answered(Dialled(Fresh, p), 1)
OnHoldBy(p) == Hold(Talking(p), 1).w
Transferring(p) == Transfer(Talking(p), 1, p, TRUE, TRUE, TRUE)
Consulting(p) ==
    LET w == Transferring(p)
    IN  Answered(Softswitch([w EXCEPT !.call[2].dialed = TRUE], 2, "exists"), 2)
Ringing(w, x) ==
    [Indicate(Indicate(Allocate(w, x, NoDevice, "in", TRUE), x, p1, "ringing"), x, p2, "ringing")
        EXCEPT !.call[x].ast = "ringing", !.call[x].subs = 2]

Situations ==
    {Fresh, Dialled(Fresh, p2), Ringing(Fresh, 1)}
    \cup UNION {{Talking(p), Transferring(p), Consulting(p)} : p \in Phones}
    \cup {Ringing(Talking(p1), 2), Dialled(OnHoldBy(p1), p1), Dialled(Talking(p1), p2)}

MCInit == \E w \in Situations : StartFrom(w)
MCSpec == MCInit /\ [][Next]_vars
=============================================================================
