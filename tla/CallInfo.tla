------------------------------- MODULE CallInfo -------------------------------
(***************************************************************************)
(* Who is talking to whom, as the phones of a line are told it             *)
(* (sccp_callinfo.c, the indications of sccp_indicate.c and the connected  *)
(* line updates of ast.c): one call of a shared line, its parties, what    *)
(* Asterisk and the phones write into them, and what each phone was last   *)
(* told.                                                                   *)
(*                                                                         *)
(* A handler is the sequence of steps it has left to do.  Asterisk's       *)
(* handlers run with the channel locked, a phone's run on its thread, with *)
(* the lock or without it.  A text is <<whose, what it is>>; mailboxes are *)
(* never set by the driver and left out.                                   *)
(***************************************************************************)
EXTENDS Naturals, Sequences, FiniteSets

CONSTANTS
    Screens,      \* the phones of the line, in the order of the line's list
    Version,      \* the form of the message its protocol gives each: 3, 7 or 16
    Callers,      \* the parties Asterisk names: records of a name and a number
    MaxHandlers   \* handlers that are started

Nobody == "nobody"
ASSUME ScreensAssumption ==
    /\ Screens # <<>> /\ Screens \in Seq({Screens[i] : i \in DOMAIN Screens})
    /\ \A i \in DOMAIN Screens : Screens[i] # Nobody
    /\ MaxHandlers \in Nat

VARIABLES
    info,    \* the call's parties (struct ci_content)
    talk,    \* the call itself
    told,    \* what each phone shows of it
    busy,    \* the phone's active call: none, another, one with this linked id
    todo,    \* the steps the handlers of Asterisk and of the phones have left
    started, \* handlers started
    ghost    \* what happened that the code does not keep

infoVars == <<info, talk, told, busy, todo, started, ghost>>

Lookers == {Screens[i] : i \in DOMAIN Screens}
Threads == {"pbx", "phone"}
Groups == {"called", "calling", "origCalled", "origCalling", "redirecting", "hunt"}

----------------------------------------------------------------------------
(* The parties *)

Blank == <<Nobody, "">>
Null == <<Nobody, "NULL">>
Keep == 9   \* no reason or presentation
Party(p) == [name |-> <<p, "name">>, number |-> <<p, "number">>]
NoParty == [name |-> Null, number |-> Null]
Us == Party("us")

Constructed ==
    [party |-> [g \in Groups |-> [name |-> Blank, number |-> Blank]],
     orig |-> 0, last |-> 0, open |-> 1, changed |-> TRUE]

\* Asterisk gives a number and, where it knows one, the name that goes with it.
ASSUME CallersAssumption ==
    \A c \in Callers : /\ c = [name |-> c.name, number |-> <<c.number[1], "number">>]
                       /\ c.name \in {<<c.number[1], "name">>, Null}

\* An update: the parties of some groups, the two reasons and the presentation.
Because(parties, orig, last) == [parties |-> parties, orig |-> orig, last |-> last, open |-> Keep]
Update(parties) == Because(parties, Keep, Keep)
Presentation(n) == [Update(<<>>) EXCEPT !.open = n]

Merge(old, new) == IF new = Null THEN old ELSE new
MergeNumber(old, new) == IF new = Keep THEN old ELSE new
Written(i, u) ==
    [i EXCEPT !.party = [g \in Groups |->
                IF g \notin DOMAIN u.parties THEN @[g]
                ELSE [name |-> Merge(@[g].name, u.parties[g].name),
                      number |-> Merge(@[g].number, u.parties[g].number)]],
              !.orig = MergeNumber(@, u.orig), !.last = MergeNumber(@, u.last),
              !.open = MergeNumber(@, u.open)]
MSetter(i, u) == [Written(i, u) EXCEPT !.changed = @ \/ Written(i, u).party # i.party]
Setter(i, u) == [Written(i, u) EXCEPT !.changed = @ \/ Written(i, u) # i]

\* What is read of the parties, and the messages of each protocol: the older
\* ones have fewer fields, and no name goes with the original caller's number.
Getter(i, groups) ==
    [party |-> [g \in groups |-> i.party[g]], orig |-> i.orig, last |-> i.last, open |-> i.open]
SendCallInfoV3(i) == Getter(i, {"called", "calling", "origCalled", "redirecting"})
SendCallInfoV7(i) == SendCallInfoV3(i)   \* the same, packed one after the other
SendCallInfoV16(i) == [Getter(i, Groups) EXCEPT !.party.origCalling.name = Blank]
Carried(p, i) ==
    CASE Version[p] = 3 -> SendCallInfoV3(i)
      [] Version[p] = 7 -> SendCallInfoV7(i)
      [] Version[p] = 16 -> SendCallInfoV16(i)

Dark == [state |-> "none", info |-> <<>>]

----------------------------------------------------------------------------
(* The steps of a handler *)

SetThen(u, then) == [do |-> "set", with |-> u, then |-> then]
Set(u) == SetThen(u, <<>>)
Be(fields) == [do |-> "be", fields |-> fields]
State(p, s, force) == [do |-> "state", on |-> p, state |-> s, force |-> force]
Show(p, s) == [do |-> "show", on |-> p, state |-> s]
Send(p, force) == [do |-> "send", on |-> p, force |-> force]
Tell(alert) == [do |-> "tell", alert |-> alert]   \* sccp_channel_send_callinfo2
Sent == [do |-> "sent"]
RingOn(p) == [do |-> "ring", on |-> p]
Rung == [do |-> "rung"]
OffExcept(p) == [do |-> "off", on |-> p]
Lock == [do |-> "lock"]   \* sccp_channel_lock_full, in the middle of a handler
OtherPhones(p, s, force) == [do |-> "others", on |-> p, state |-> s, force |-> force]

If(condition, seq) == IF condition THEN seq ELSE <<>>
\* P of the phones of the line, in order
OnEach(P(_)) == [i \in DOMAIN Screens |-> P(Screens[i])]

\* sccp_device_indicate_offhook, _onhook, _dialing, _proceed and _connected
Offhook(d) == <<Show(d, "offhook")>>
Onhook(d) == <<Show(d, "none")>>
Dialing(d) ==
    <<Set(Update([called |-> [name |-> Null, number |-> <<"dialled", "number">>]])),
      Send(d, FALSE), Show(d, "proceed")>>
Proceed(d) == <<Show(d, "proceed"), Send(d, FALSE)>>
Connected(d) == <<Show(d, "connected"), Send(d, TRUE)>>

(* What the phone of the call is sent as the call comes into a state; was:   *)
(* the state before.                                                         *)
SettingUpSteps(d, s, was) ==
    CASE s = "offhook" -> Offhook(d)
      [] s = "dialing" -> If(was # "dialing", Dialing(d))
      [] s = "ringout" -> <<Show(d, "proceed"), Send(d, FALSE)>>
      [] s = "alerting" -> <<Show(d, "ringout"), Send(d, TRUE)>>
      [] s = "ringing" -> <<Show(d, "ringin"), Send(d, TRUE)>>
      [] OTHER -> <<>>
TalkingSteps(d, s, was) ==
    CASE s = "progress" /\ was = "dialing" -> <<State(d, "ringout", FALSE)>>
      [] s = "progress" /\ was = "ringout" -> <<State(d, "alerting", FALSE)>>
      [] s = "proceed" -> If(was # "connected", Proceed(d))
      [] s \in {"connected", "conference"} -> Connected(d)
      [] OTHER -> <<>>
HeldSteps(d, s) ==
    CASE s = "hold" -> <<Show(d, "hold"), Send(d, TRUE)>>
      [] s = "waiting" -> If(busy[d] # "linked", <<Show(d, "ringin"), Send(d, TRUE)>>)
      [] s = "callpark" -> <<Show(d, "callpark")>>
      [] s = "calltransfer" -> <<Show(d, "calltransfer"), Send(d, FALSE)>>
      [] OTHER -> <<>>
EndingSteps(d, s) ==
    CASE s = "congestion" -> <<Send(d, FALSE)>>
      [] s = "onhook" -> If(talk.elsewhere, <<Send(d, TRUE)>>) \o Onhook(d)
      [] OTHER -> <<>>
StateSteps(d, s, was) ==
    SettingUpSteps(d, s, was) \o TalkingSteps(d, s, was) \o HeldSteps(d, s) \o EndingSteps(d, s)

(* __sccp_indicate_remote_device: what another phone of the line is shown,   *)
(* from a copy of the parties.                                               *)
Shared == {"offhook", "down", "connected", "conference", "hold", "callpark"}
ConnectedRemote(q) == [state |-> "remote", info |-> Carried(q, info)]
HoldRemote(q) == [state |-> "hold", info |-> Carried(q, info)]
RemoteState(q, s) ==
    CASE s = "onhook" -> Dark
      [] s \in {"connected", "conference"} -> ConnectedRemote(q)
      [] s \in {"hold", "callpark"} /\ talk.why = "normal" -> HoldRemote(q)
      [] OTHER -> told[q]
MRemote(q, s) == IF busy[q] = "linked" THEN told[q] ELSE RemoteState(q, s)
Remote(q, s) == IF s # "onhook" /\ busy[q] = "linked" THEN told[q] ELSE RemoteState(q, s)

----------------------------------------------------------------------------
(* Doing the steps *)

Idle(t) == todo[t] = <<>>
Next1(t) == Head(todo[t])
Does(t, what) == ~Idle(t) /\ Next1(t).do = what
\* The step is done; more takes its place.
Then(t, more) == todo' = [todo EXCEPT ![t] = more \o Tail(@)]

\* What another thread has sent, but not marked as sent, is marked after this.
DoSet(t) ==
    /\ Does(t, "set")
    /\ \E u \in {Next1(t).with} :
        /\ info' = Setter(info, u)
        /\ Then(t, If(Written(info, u) # info, Next1(t).then))
        /\ ghost' = [ghost EXCEPT !.late = @ \/ \E o \in Threads \ {t} : Does(o, "sent")]
    /\ UNCHANGED <<talk, told, busy, started>>

DoBe(t) ==
    /\ Does(t, "be")
    /\ talk' = [f \in DOMAIN talk |-> IF f \in DOMAIN Next1(t).fields THEN Next1(t).fields[f]
                                      ELSE talk[f]]
    /\ Then(t, <<>>)
    /\ UNCHANGED <<info, told, busy, started, ghost>>

DoLock(t) ==
    /\ Does(t, "lock")
    /\ ~talk.locked /\ \A o \in Threads \ {t} : Idle(o)
    /\ talk' = [talk EXCEPT !.locked = TRUE]
    /\ Then(t, <<>>)
    /\ UNCHANGED <<info, told, busy, started, ghost>>

\* __sccp_indicate: on the phone that is given, or the call's own
DoState(t) ==
    /\ Does(t, "state")
    /\ \E e \in {Next1(t)} : \E d \in {IF e.on # Nobody THEN e.on ELSE talk.dev} :
        IF d = Nobody THEN Then(t, <<>>) /\ UNCHANGED talk
        ELSE /\ talk' = [talk EXCEPT !.prev = talk.st,
                                     !.st = IF e.state = "onhook" THEN "down" ELSE e.state]
             /\ Then(t, Append(StateSteps(d, e.state, talk.st), OtherPhones(d, e.state, e.force)))
    /\ UNCHANGED <<info, told, busy, started, ghost>>

DoShow(t) ==
    /\ Does(t, "show")
    /\ told' = [told EXCEPT ![Next1(t).on] =
                   IF Next1(t).state = "none" THEN Dark ELSE [@ EXCEPT !.state = Next1(t).state]]
    /\ Then(t, <<>>)
    /\ UNCHANGED <<info, talk, busy, started, ghost>>

\* callinfo_Send reads and sends first, and takes the mark away after.
DoSend(t) ==
    /\ Does(t, "send")
    /\ IF info.changed \/ Next1(t).force
       THEN /\ told' = [told EXCEPT ![Next1(t).on].info = Carried(Next1(t).on, info)]
            /\ Then(t, <<Sent>>)
            /\ ghost' = [ghost EXCEPT !.late = @ /\ Next1(t).on # talk.dev]
       ELSE Then(t, <<>>) /\ UNCHANGED <<told, ghost>>
    /\ UNCHANGED <<info, talk, busy, started>>

DoSent(t) ==
    /\ Does(t, "sent")
    /\ info' = [info EXCEPT !.changed = FALSE]
    /\ Then(t, <<>>)
    /\ UNCHANGED <<talk, told, busy, started, ghost>>

(* To the call's own phone; to every phone of the line when it has none, and *)
(* then only the first of them is sent anything.                             *)
DoTell(t) ==
    /\ Does(t, "tell")
    /\ Then(t, (IF talk.dev # Nobody THEN <<Send(talk.dev, FALSE)>>
                ELSE OnEach(LAMBDA q : Send(q, FALSE)))
               \o If(Next1(t).alert /\ talk.type = "out" /\ talk.st = "ringout",
                     <<State(Nobody, "alerting", FALSE)>>))
    /\ UNCHANGED <<info, talk, told, busy, started, ghost>>

DoOthers(t) ==
    /\ Does(t, "others")
    /\ told' = IF /\ talk.st # talk.prev \/ Next1(t).force
                  /\ Len(Screens) > 1 /\ ~talk.conference /\ talk.st \in Shared
               THEN [q \in Lookers |-> IF q = Next1(t).on THEN told[q] ELSE Remote(q, Next1(t).state)]
               ELSE told
    /\ Then(t, <<>>)
    /\ UNCHANGED <<info, talk, busy, started, ghost>>

\* The loop of sccp_pbx_call: a phone with a call of the same linked id is left out.
DoRing(t) ==
    /\ Does(t, "ring")
    /\ \E q \in {Next1(t).on} :
        Then(t, CASE busy[q] = "no" -> <<State(q, "ringing", FALSE)>>
                  [] busy[q] = "other" -> <<State(q, "waiting", FALSE)>>
                  [] busy[q] = "linked" -> <<>>)
    /\ UNCHANGED <<info, talk, told, busy, started, ghost>>

\* Its end: the call rings if one of the phones does.  Asterisk calls it once.
DoRung(t) ==
    /\ Does(t, "rung")
    /\ talk' = IF talk.st \in {"ringing", "waiting"}
               THEN [talk EXCEPT !.called = TRUE, !.prev = talk.st, !.st = "ringing"]
               ELSE [talk EXCEPT !.called = TRUE]
    /\ Then(t, <<>>)
    /\ UNCHANGED <<info, told, busy, started, ghost>>

\* The loop of sccp_channel_answer, in which no other thread comes near the call.
DoOff(t) ==
    /\ Does(t, "off")
    /\ told' = [q \in Lookers |-> IF q = Next1(t).on THEN told[q] ELSE Dark]
    /\ Then(t, <<>>)
    /\ UNCHANGED <<info, talk, busy, started, ghost>>

Do(t) ==
    \/ DoRing(t) \/ DoRung(t) \/ DoOff(t) \/ DoSet(t) \/ DoBe(t) \/ DoLock(t) \/ DoState(t) \/ DoShow(t)
    \/ DoSend(t) \/ DoSent(t) \/ DoTell(t) \/ DoOthers(t)

----------------------------------------------------------------------------
(* The handlers.  Those that need the channel's lock wait for each other.    *)

Up == talk.stage = "live"
Starts(t, steps) ==
    /\ Up /\ Idle(t) /\ started < MaxHandlers
    /\ todo' = [todo EXCEPT ![t] = steps]
    /\ started' = started + 1
    /\ UNCHANGED <<info, told, busy>>

Pbx(steps) == talk.running /\ ~talk.locked /\ Starts("pbx", steps) /\ UNCHANGED talk
Phone(steps) == Starts("phone", steps) /\ UNCHANGED <<talk, ghost>>
Locked(steps) == \* sccp_channel_lock_full around the steps
    /\ Idle("pbx")
    /\ Starts("phone", Append(steps, Be([locked |-> FALSE])))
    /\ talk' = [talk EXCEPT !.locked = TRUE]

\* sccp_pbx_call
Ring(open) ==
    /\ talk.type = "in" /\ talk.st = "down" /\ ~talk.called
    /\ Pbx(<<Set(Presentation(open))>> \o OnEach(RingOn) \o <<Rung>>)
    /\ UNCHANGED ghost

\* sccp_astwrap_indicate
Indicated(s) ==
    /\ talk.dev # Nobody /\ talk.st \notin {"down", "offhook"} /\ talk.type = "out"
    /\ Pbx(<<State(talk.dev, s, FALSE)>>)
    /\ UNCHANGED ghost

\* sccp_astwrap_connectedline: what is written into a call that came in
Transferred(who) ==
    LET old == info.party["calling"]
    IN  Because([calling |-> who, origCalling |-> who, origCalled |-> old,
                 redirecting |-> [name |-> old.number, number |-> old.number]], info.orig, 4)
Answering(who, orig) ==
    Update(IF orig = NoParty THEN [calling |-> who]
           ELSE [calling |-> who, origCalled |-> [orig EXCEPT !.name = IF @ = Null THEN Blank ELSE @]])

\* and into one that was placed
Or(a, b) == IF a \notin {Null, Blank} THEN a ELSE b
MReached(who) ==
    LET called == info.party["called"]
    IN  Update([called |-> [name |-> Or(called.name, who.name),
                            number |-> Or(who.number, called.number)]])
Reached(who) ==
    LET called == info.party["called"]
        orig == info.party["origCalled"]
    IN  Update([called |-> [name |-> Or(who.name, called.name),
                            number |-> Or(who.number, called.number)],
                origCalled |-> [name |-> Or(orig.name, Or(called.name, who.name)),
                                number |-> Or(orig.number, Or(called.number, who.number))]])

\* parker: the call is parked, and this is the parking lot's own update.
ConnectedLine(who, orig, transfer, parker) ==
    LET parked == talk.st = "callpark"
        incoming == talk.type = "in" /\ ~parker
    IN  /\ parker => parked
        /\ transfer => incoming /\ orig = NoParty
        /\ incoming \/ (orig = NoParty /\ talk.st \notin {"down", "offhook"})
        /\ Pbx(If(parker, <<Be([type |-> "out", prev |-> talk.st, st |-> "ringout"])>>)
               \o <<SetThen(IF ~incoming THEN Reached(who) ELSE IF transfer THEN Transferred(who)
                            ELSE Answering(who, orig), <<Tell(TRUE)>>)>>
               \o If(incoming /\ ~transfer, <<State(Nobody, talk.st, FALSE)>>)
               \o If(parked /\ ~parker, <<State(Nobody, "connected", TRUE)>>))
        /\ ghost' = [ghost EXCEPT !.partial = @ \/ who.name = Null]

RedirectedUpdate(from) ==
    LET written == [from EXCEPT !.number = IF @ = Null THEN Blank ELSE @]
    IN  /\ Pbx(<<Set(Because([redirecting |-> written, origCalled |-> written], info.last, 4)),
                 Tell(FALSE)>>)
        /\ UNCHANGED ghost

\* Asterisk puts the channel of the other end in the place of this one (fixup).
AnsweredElsewhere(who) ==
    /\ talk.st = "ringing"
    /\ Pbx(<<Set(Because([hunt |-> who, redirecting |-> who], Keep, 5)), Be([elsewhere |-> TRUE])>>)
    /\ UNCHANGED ghost

CallPark == talk.st = "connected" /\ Pbx(<<State(Nobody, "callpark", FALSE)>>) /\ UNCHANGED ghost

(* sccp_pbx_hangup: a call without a phone is taken off the first one.  The  *)
(* phone's thread may be in the middle of a handler that takes no lock.      *)
PbxHangup ==
    /\ ~talk.locked
    /\ Starts("pbx", If(talk.st # "down",
                        <<State(IF talk.dev # Nobody THEN talk.dev ELSE Screens[1], "onhook", FALSE)>>))
    /\ talk' = [talk EXCEPT !.stage = "ended", !.conference = FALSE]
    /\ ghost' = [ghost EXCEPT !.crossed = ~Idle("phone")]

OffHook ==
    talk.type = "out" /\ talk.st = "down" /\ Phone(<<State(talk.dev, "offhook", FALSE)>>)
\* Asterisk's side of it runs once the number is dialled.
Dial(private) ==
    /\ talk.st = "offhook"
    /\ Phone(<<State(talk.dev, "dialing", FALSE)>> \o If(private, <<Set(Presentation(0))>>)
             \o <<Be([running |-> TRUE])>>)

\* sccp_channel_answer, and channel_answer_completion when the media run
Answer(p) ==
    /\ talk.type = "in" /\ talk.st = "ringing" /\ talk.dev = Nobody /\ told[p].state = "ringin"
    /\ Locked(<<Be([dev |-> p]), Show(p, "offhook"), Show(p, "connected"), OffExcept(p)>>)
    /\ UNCHANGED ghost
AnswerCompletion ==
    /\ talk.type = "in" /\ talk.st = "ringing" /\ talk.dev # Nobody
    /\ Locked(<<State(talk.dev, "connected", FALSE)>>)
    /\ UNCHANGED ghost

Hold ==
    /\ talk.dev # Nobody /\ talk.st \in {"connected", "conference", "proceed"}
    /\ Phone(<<Be([why |-> "normal"]), State(talk.dev, "hold", FALSE), Be([dev |-> Nobody])>>)

\* The name is passed where the number belongs, and the number for the name.
Resume(p) ==
    LET turned == [name |-> Us.number, number |-> Us.name]
        own == IF talk.type = "out" THEN [calling |-> turned] ELSE [called |-> turned]
    IN  /\ talk.st \in {"hold", "calltransfer"} /\ busy[p] # "linked"
        /\ Locked(<<Be([dev |-> p, st |-> "hold", why |-> "normal"]),
                    State(p, IF talk.conference THEN "conference" ELSE "connected", FALSE)>>
                  \o If(talk.type # "forward", <<Set(Update(own))>>))
        /\ UNCHANGED ghost

TransferKey ==
    /\ talk.dev # Nobody /\ talk.st = "connected"
    /\ Phone(<<Be([why |-> "transfer"]), State(talk.dev, "hold", FALSE), Be([dev |-> Nobody]),
               State(talk.dev, "calltransfer", FALSE)>>)

(* sccp_channel_transfer_complete, with this call as the one transferred or  *)
(* as the one it is transferred to.                                          *)
TransferSource ==
    talk.why = "transfer" /\ Phone(<<Be([why |-> "normal"]), Set(Update([redirecting |-> Us]))>>)
TransferDestination ==
    /\ talk.type = "out" /\ talk.st \in {"ringout", "connected"}
    /\ Phone(<<Set(Update([redirecting |-> info.party["calling"]])), Be([type |-> "forward"])>>)

SetPresentation(n) == talk.dev # Nobody /\ Phone(<<Set(Presentation(n))>>)

(* sccp_conference_update_callInfo: the moderator is shown in the place of   *)
(* the other party, who moves.                                               *)
JoinConference ==
    LET peer == info.party[IF talk.type = "in" THEN "calling" ELSE "called"]
        own == info.party[IF talk.type = "in" THEN "called" ELSE "calling"]
    IN  /\ talk.st = "connected" /\ ~talk.conference
        /\ Phone(<<Be([conference |-> TRUE]),
                   Set(Update(IF talk.type = "in" THEN [origCalling |-> peer, calling |-> own]
                              ELSE [origCalled |-> peer, called |-> own])),
                   State(Nobody, "conference", FALSE)>>)

\* sccp_feat_perform_pickup: the phone's own call becomes the one picked up.
PickUp(target, answer) ==
    LET called == info.party["called"]
        p == talk.dev
    IN  /\ talk.type = "out" /\ talk.st = "offhook"
        /\ Phone(<<Be([type |-> "in", st |-> "ringing", dev |-> Nobody, running |-> TRUE]),
                   Set(Because([called |-> called, origCalled |-> target, redirecting |-> called,
                                hunt |-> target], 5, 5))>>
                 \o IF answer THEN <<Show(p, "ringin"), Show(p, "offhook"), Lock, Be([dev |-> p]),
                                     Show(p, "connected"), Be([locked |-> FALSE])>>
                    ELSE <<State(p, "ringing", FALSE)>>)

\* A phone that is not the call's own takes up or leaves another call.
TakesCall(q, how) ==
    /\ Up /\ started < MaxHandlers /\ q # talk.dev /\ busy[q] # how
    /\ busy' = [busy EXCEPT ![q] = how] /\ started' = started + 1
    /\ UNCHANGED <<info, talk, told, todo, ghost>>

----------------------------------------------------------------------------
NewTalk ==
    [stage |-> "live", running |-> TRUE, type |-> "in", st |-> "down", prev |-> "down", dev |-> Nobody,
     called |-> FALSE, elsewhere |-> FALSE, conference |-> FALSE, why |-> "normal", locked |-> FALSE]

\* sccp_pbx_channel_allocate, and the request of a call that comes in
Allocated(type) ==
    Setter(Constructed,
           CASE type = "in" -> Update([called |-> Us])
             [] type = "out" -> Because([calling |-> Us, redirecting |-> Us], Keep, 0)
             [] type = "forward" -> Because([calling |-> Us, redirecting |-> Us], Keep, 4))
Requested(who, orig) == Setter(Allocated("in"), Update([calling |-> who, origCalled |-> orig]))

InfoStart ==
    /\ started = 0 /\ todo = [t \in Threads |-> <<>>]
    /\ ghost = [late |-> FALSE, crossed |-> FALSE, partial |-> FALSE]
Incoming(who, orig) ==
    /\ talk = NewTalk /\ info = Requested(who, orig)
    /\ busy \in [Lookers -> {"no", "other"}]
    /\ told = [q \in Lookers |-> Dark]
Outgoing(type, p) ==
    /\ talk = [NewTalk EXCEPT !.type = type, !.dev = p, !.running = FALSE]
    /\ info = Allocated(type)
    /\ busy = [q \in Lookers |-> "no"] /\ told = [q \in Lookers |-> Dark]
\* A call that came in and was answered on a phone.
Answered(who, p) ==
    /\ talk = [NewTalk EXCEPT !.st = "connected", !.prev = "ringing", !.dev = p, !.called = TRUE]
    /\ info = [Requested(who, NoParty) EXCEPT !.changed = FALSE]
    /\ busy = [q \in Lookers |-> "no"]
    /\ told = [q \in Lookers |->
                  IF q = p THEN [state |-> "connected", info |-> Carried(p, info)]
                  ELSE [state |-> "remote", info |-> Carried(q, info)]]
InfoInit ==
    /\ InfoStart
    /\ \/ \E who \in Callers \cup {NoParty}, orig \in Callers : Incoming(who, orig)
       \/ \E type \in {"out", "forward"}, p \in Lookers : Outgoing(type, p)
       \/ \E p \in Lookers : Answered(Party("them"), p)
InfoIdle == InfoStart /\ Incoming(NoParty, NoParty) /\ busy = [q \in Lookers |-> "no"]

InfoNext ==
    \/ \E t \in Threads : Do(t)
    \/ \E n \in {0, 1} : Ring(n) \/ SetPresentation(n)
    \/ \E s \in {"ringout", "proceed", "progress", "congestion", "connected"} : Indicated(s)
    \/ \E who \in Callers, orig \in Callers \cup {NoParty}, transfer, parker \in BOOLEAN :
          ConnectedLine(who, orig, transfer, parker)
    \/ \E who \in Callers \cup {NoParty} : RedirectedUpdate(who)
    \/ \E who \in Callers : AnsweredElsewhere(who)
    \/ \E who \in Callers, answer \in BOOLEAN : PickUp(who, answer)
    \/ \E p \in Lookers : Answer(p) \/ Resume(p)
    \/ \E q \in Lookers, how \in {"no", "linked"} : TakesCall(q, how)
    \/ \E private \in BOOLEAN : Dial(private)
    \/ CallPark \/ Hold \/ PbxHangup \/ OffHook \/ AnswerCompletion \/ TransferKey \/ JoinConference
    \/ TransferSource \/ TransferDestination

InfoSpec == InfoInit /\ [][InfoNext]_infoVars

----------------------------------------------------------------------------
(* Properties *)

Quiet == \A t \in Threads : Idle(t)

(* The call's own phone shows the parties as they are, whenever they are not *)
(* marked as changed: whoever wrote last, on whichever thread, and whatever  *)
(* the other phones were told meanwhile (callinfo_Setter, callinfo_Send).    *)
(* Only a write between the other thread's message and its mark escapes, and *)
(* a phone that has answered is told when its media run.                     *)
OwnPhoneKnows ==
    Quiet /\ Up /\ talk.st # "ringing" /\ talk.dev # Nobody /\ ~info.changed /\ ~ghost.late
        => told[talk.dev].info = Carried(talk.dev, info)

(* The name and the number of a party of the call are one person's, as long  *)
(* as every update of Asterisk's named both (sccp_astwrap_connectedline).    *)
OnePerson(party) == Blank \in {party.name, party.number} \/ party.name[1] = party.number[1]
PeerIsOnePerson ==
    ~ghost.partial => OnePerson(info.party["calling"]) /\ OnePerson(info.party["called"])

(* A call that has ended is shown on no phone of the line any more, unless   *)
(* it ended while a phone's handler was running (sccp_pbx_hangup).           *)
EndedIsGone ==
    Quiet /\ ~Up /\ ~ghost.crossed => \A q \in Lookers : told[q].state = "none"
=============================================================================
