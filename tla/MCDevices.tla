------------------------------ MODULE MCDevices ------------------------------
(* Two phones that share a line; the configurations a reload may find. *)
EXTENDS Devices

CONSTANTS one, two, a, b

Both(v, w) == (one :> v) @@ (two :> w)
Of(v, w) == (a :> v) @@ (b :> w)

First == [buttons |-> Both(<<a, b>>, <<a>>), settings |-> Both(1, 1), lines |-> Of(1, 1)]
MCFiles ==
    {First,
     [First EXCEPT !.buttons[one] = <<a, NoLine, b>>, !.settings[two] = 2],
     [First EXCEPT !.lines[b] = 0, !.buttons[one] = <<a>>],
     [First EXCEPT !.lines = Of(2, 0)],
     [First EXCEPT !.settings[one] = 0, !.buttons[one] = <<>>]}
MCOrder == <<one, a, two, b>>

\* Phone w.phone[p] is registered and has its template
Up(w, p) ==
    LET s == First.buttons[p]
    IN  [w EXCEPT !.conn[p] = [@ EXCEPT !.at = "loop", !.bound = TRUE],
                  !.phone[p] = [@ EXCEPT !.session = TRUE, !.reg = "OK", !.built = TRUE,
                                  !.lines = TRUE, !.array = Range(s),
                                  !.buttons = [i \in DOMAIN s |-> [Button(s[i], i) EXCEPT !.inst = i]],
                                  !.template = [i \in DOMAIN s |-> [line |-> s[i], inst |-> i]]],
                  !.line = [x \in Lines |-> IF x \in Range(s) THEN [w.line[x] EXCEPT !.devices = @ \cup {p}]
                                                              ELSE w.line[x]],
                  !.count.connects[p] = 1]
Cold == [Loaded(First) EXCEPT !.count.connects[two] = 1]
Warm == [Up(Up(Loaded(First), one), two) EXCEPT !.count.connects[one] = 0]
MCInit == StartFrom(Cold) \/ StartFrom(Warm)
MCSpec == MCInit /\ [][Next]_vars /\ Fairness
=============================================================================
