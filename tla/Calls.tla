-------------------------------- MODULE Calls --------------------------------
(***************************************************************************)
(* The calls of one shared line (sccp_channel.c, sccp_pbx.c,               *)
(* sccp_indicate.c, the call handlers of sccp_actions.c and               *)
(* sccp_softkeys.c, and the channel driver in ast.c and ast120.c): a call  *)
(* is placed, rings, is answered, held, resumed, transferred, forwarded    *)
(* and hung up, by the phones and by Asterisk.                             *)
(*                                                                         *)
(* A function of the code is an operator on the world [call, phone, line], *)
(* because one handler changes all three on its way; an action applies the *)
(* operator of a handler.  A hangup by Asterisk is three actions: it waits *)
(* for the phone's answers in the middle, and nothing keeps the phone's    *)
(* own thread out between them.                                            *)
(***************************************************************************)
EXTENDS CallMedia, FiniteSets

CONSTANTS
    MaxCalls,        \* calls ever made
    MaxSteps,        \* steps explored
    EarlyPhones,     \* phones with early media (d->earlyrtp)
    HookFlashPhones, \* phones whose hold key ends a transfer (d->useHookFlash)
    TransferOnHangup \* GLOB(transfer_on_hangup)

ASSUME CallsAssumption ==
    /\ MaxCalls \in Nat \ {0} /\ MaxSteps \in Nat
    /\ EarlyPhones \subseteq Phones /\ HookFlashPhones \subseteq Phones
    /\ TransferOnHangup \in BOOLEAN

CallIds == 1..MaxCalls
NoCall == 0

VARIABLES
    call,   \* the record of every call: [CallIds -> call]
    phone,  \* [active, transferee, transferer, onLine] of every phone
    line,   \* numberOfHeldChannels and numberOfActiveChannels, uint8_t
    steps   \* steps taken

vars == <<call, phone, line, steps>>
World == [call |-> call, phone |-> phone, line |-> line]
Oldest(S) == CHOOSE x \in S : \A y \in S : x <= y

FreeCall ==
    [stage |-> "free", st |-> "down", prev |-> "down", dev |-> NoDevice, owner |-> FALSE,
     soft |-> FALSE, pbx |-> FALSE, ast |-> "down", hup |-> FALSE, answering |-> FALSE,
     calltype |-> "in", dialed |-> FALSE, ports |-> TRUE, rtp |-> FALSE, rx |-> {}, tx |-> {},
     cb |-> "none", vrtp |-> FALSE, vrx |-> {}, vtx |-> {}, vmode |-> LineVideoMode,
     punch |-> FALSE, early |-> FALSE, sent |-> FALSE, timer |-> FALSE, denied |-> FALSE,
     parent |-> NoCall, subs |-> 0, closing |-> NoDevice]

Fresh ==
    [call |-> [x \in CallIds |-> FreeCall],
     phone |-> [p \in Phones |-> [active |-> NoCall, transferee |-> NoCall,
                                  transferer |-> NoCall, onLine |-> FALSE]],
     line |-> [held |-> 0, active |-> 0]]

StartFrom(w) == call = w.call /\ phone = w.phone /\ line = w.line /\ steps = 0
Init == StartFrom(Fresh)

\* l->channels: the calls of the line that were not removed from it
Listed(w) == {x \in CallIds : w.call[x].stage \in {"live", "hanging"}}
InState(w, s) == {x \in Listed(w) : w.call[x].st = s}

Set(w, x, c) == [w EXCEPT !.call[x] = c]
Add(w, field, n) == [w EXCEPT !.line[field] = (@ + n + 256) % 256]

----------------------------------------------------------------------------
(* A phone and its active call *)

\* sccp_device_getActiveChannel: a call that is DOWN is as good as none
ActiveCall(w, p) ==
    LET x == w.phone[p].active
    IN  IF x # NoCall /\ w.call[x].st = "down" THEN NoCall ELSE x

SetActiveCall(w, p, x) ==
    LET old == w.phone[p].active
        change == (IF old # NoCall THEN 255 ELSE 0) + (IF x # NoCall THEN 1 ELSE 0)
    IN  IF old = x THEN w
        ELSE [Add(w, "active", change) EXCEPT !.phone[p].active = x, !.phone[p].onLine = x # NoCall]

\* sccp_channel_setDevice(channel, NULL) and (channel, device)
MLeaveDevice(w, x) == [w EXCEPT !.call[x].dev = NoDevice, !.call[x].early = FALSE]
LeaveDevice(w, x) ==
    LET d == w.call[x].dev
    IN  IF d = NoDevice THEN [w EXCEPT !.call[x].early = FALSE]
        ELSE [SetActiveCall(w, d, NoCall) EXCEPT !.call[x].dev = NoDevice, !.call[x].early = FALSE]
SetDevice(w, x, p) ==
    [SetActiveCall(w, p, x) EXCEPT !.call[x].dev = p, !.call[x].early = p \in EarlyPhones]

TransferRelease(w, p, x) ==
    IF x \in {w.phone[p].transferee, w.phone[p].transferer} \ {NoCall}
    THEN [w EXCEPT !.phone[p].transferee = NoCall, !.phone[p].transferer = NoCall]
    ELSE w

----------------------------------------------------------------------------
(* __sccp_indicate: the state of the call and the media that go with it.    *)
(* It needs a phone, given or the call's own.                               *)

ScheduleHangup(c) == IF c.denied THEN c ELSE [c EXCEPT !.timer = TRUE]

\* The call with its new state; the one before is in prev.
Indicated(c, d, s) ==
    CASE s = "progress" /\ ~c.early /\ c.prev = "dialing" -> [c EXCEPT !.prev = "progress", !.st = "ringout"]
      [] s = "progress" /\ ~c.early /\ c.prev = "ringout" -> [c EXCEPT !.prev = "progress", !.st = "alerting"]
      [] s = "progress" /\ c.early -> MakeProgress(c)
      [] s = "connected" -> ConnectMedia(c, d)
      [] s = "hold" -> CloseAllMedia(c)
      [] s = "invalid" -> ScheduleHangup(CloseAllMedia(c))
      [] s = "congestion" -> ScheduleHangup(c)
      [] s = "onhook" -> [c EXCEPT !.st = "down"]
      [] OTHER -> c

Indicate(w, x, given, s) ==
    LET d == IF given # NoDevice THEN given ELSE w.call[x].dev
    IN  IF d = NoDevice THEN w
        ELSE Set(w, x, Indicated([w.call[x] EXCEPT !.prev = w.call[x].st, !.st = s], d, s))

----------------------------------------------------------------------------
(* Ending a call *)

\* sccp_channel_stop_and_deny_scheduled_tasks
DenyTasks(w, x) == [w EXCEPT !.call[x].denied = TRUE, !.call[x].timer = FALSE]
Deny(w, x) == [DenyTasks(w, x) EXCEPT !.call[x].hup = TRUE]

(* A transfer the phone was in the middle of is given up: the call that was *)
(* to be transferred is on hold again.                                      *)
TransferCancel(w, p, x) ==
    LET t == w.phone[p].transferee
        closed == [Set(w, x, CloseAllMedia(w.call[x])) EXCEPT !.phone[p].onLine = FALSE]
    IN  IF t \in {NoCall, x} THEN w
        ELSE TransferRelease(LeaveDevice(Indicate(closed, t, p, "hold"), t), p, t)

\* Every phone of the line forgets a transfer the call is part of.
MReleaseEverywhere(w, x) ==
    IF w.call[x].closing = NoDevice THEN w ELSE TransferRelease(w, w.call[x].closing, x)
ReleaseEverywhere(w, x) ==
    [w EXCEPT !.phone = [p \in Phones |->
        IF x \in {w.phone[p].transferee, w.phone[p].transferer}
        THEN [w.phone[p] EXCEPT !.transferee = NoCall, !.transferer = NoCall]
        ELSE w.phone[p]]]

ClosesMedia(w, x) ==
    IF w.call[x].rtp \/ w.call[x].vrtp THEN Set(w, x, CloseAllMedia(w.call[x])) ELSE w
ShowsOnHook(w, x, d) == IF w.call[x].st \in Idling THEN w ELSE Indicate(w, x, d, "onhook")

(* sccp_pbx_hangup: closing is the phone it found before it waited; a call   *)
(* without one borrows a registered phone of the line for the indication.    *)
CancelsTransfer(w, d, x) == IF d # NoDevice THEN TransferCancel(w, d, x) ELSE w
RemoveChannel(w, x) ==
    [(IF w.call[x].st = "hold" THEN Add(w, "held", 255) ELSE w) EXCEPT !.call[x].stage = "unlisted"]
HangupUnlist(w, x) ==
    LET d == w.call[x].closing
    IN  ShowsOnHook(RemoveChannel(ReleaseEverywhere(
                        CancelsTransfer(ClosesMedia(w, x), d, x), x), x),
                    x, IF d # NoDevice THEN d ELSE CHOOSE p \in Phones : TRUE)

\* sccp_channel_clean
LosesActive(w, d, x) == IF w.phone[d].active = x THEN SetActiveCall(w, d, NoCall) ELSE w
CleanDevice(w, d, x) ==
    IF d = NoDevice THEN w
    ELSE LeaveDevice([TransferRelease(LosesActive(ClosesMedia(w, x), d, x), d, x)
                        EXCEPT !.phone[d].onLine = FALSE], x)
Clean(w, x) ==
    LET d == w.call[x].dev
    IN  [CleanDevice(ShowsOnHook([DenyTasks(w, x) EXCEPT !.call[x].ast = "down"], x, d), d, x)
            EXCEPT !.call[x].stage = "gone"]

HangupStart(w, x) == [w EXCEPT !.call[x].hup = TRUE, !.call[x].closing = w.call[x].dev,
                               !.call[x].stage = "hanging"]
HangupNow(w, x) == Clean(HangupUnlist(HangupStart(w, x), x), x)

(* sccp_astgenwrap_handleHangup: a call with a dialplan thread or a peer is  *)
(* asked to end, one that is still dialled or already failed ends at once.   *)
HandleHangup(w, x) ==
    LET c == w.call[x]
    IN  IF ~c.owner \/ c.soft THEN Indicate(w, x, NoDevice, "onhook")
        ELSE IF c.pbx \/ c.st \in SettingUp \cup Connected
        THEN [w EXCEPT !.call[x].soft = TRUE]
        ELSE HangupNow(w, x)
RequestHangup(w, x) == HandleHangup(Deny(w, x), x)

\* Calls forwarded for this one end with it; they forward none themselves.
EndForwarding(w, x) ==
    LET forwarded == {y \in Listed(w) : w.call[y].parent = x}
        ended[S \in SUBSET forwarded] ==
            IF S = {} THEN w
            ELSE LET y == Oldest(S)
                 IN  RequestHangup([ended[S \ {y}] EXCEPT !.call[y].parent = NoCall], y)
    IN  ended[forwarded]

CancelsOthers(w, x) ==
    LET d == w.call[x].dev
    IN  IF d # NoDevice /\ w.phone[d].transferee # x THEN TransferCancel(w, d, x) ELSE w
HangsUp(w, x) == IF w.call[x].owner THEN RequestHangup(w, x) ELSE w
Endcall(w, x) == HangsUp(CancelsOthers(EndForwarding(Deny(w, x), x), x), x)

----------------------------------------------------------------------------
(* Hold and resume.  Both may refuse: the result says whether they did.     *)

Result(ok, w) == [ok |-> ok, w |-> w]

HoldPlain(w, x) ==
    LET d == w.call[x].dev
    IN  IF d = NoDevice \/ w.call[x].st \notin {"connected", "proceed"} THEN Result(FALSE, w)
        ELSE Result(TRUE, Add(LeaveDevice(Indicate([w EXCEPT !.phone[d].onLine = FALSE],
                                                   x, d, "hold"), x), "held", 1))

\* channel_resume_locked once nothing else is active
ResumeVideo(c) ==
    IF ~c.vrtp \/ NoVideo(c) THEN c
    ELSE IF c.vrx = {} THEN OpenVideoReceive(c)
    ELSE SendsVideo(c)
Resumed(w, x) ==
    Add(Set(w, x, [ResumeVideo(w.call[x]) EXCEPT !.st = "connected"]), "held", 255)
ResumeHeld(w, p, x) ==
    LET released == IF w.phone[p].transferee # x THEN TransferRelease(w, p, x) ELSE w
    IN  IF ~w.call[x].owner \/ w.call[x].st \notin {"hold", "calltransfer"} THEN Result(FALSE, w)
        ELSE Result(TRUE, Resumed(Indicate([SetDevice(released, x, p) EXCEPT !.call[x].st = "hold"],
                                           x, p, "connected"), x))

ResumeAfter(held, p, x) == IF held.ok THEN ResumeHeld(held.w, p, x) ELSE held

ResumeHere(w, p, x) ==
    IF ~w.call[x].owner THEN Result(FALSE, w)
    ELSE ResumeAfter(IF w.call[x].st \in {"connected", "proceed"} THEN HoldPlain(w, x)
                     ELSE Result(TRUE, w), p, x)

Hold(w, x) ==
    LET d == w.call[x].dev
        t == w.phone[d].transferee
    IN  IF d \in HookFlashPhones /\ w.call[x].st \in {"connected", "proceed"}
              /\ w.phone[d].transferer = x
        THEN Result(TRUE, IF t = NoCall THEN w ELSE ResumeHere(Endcall(w, x), d, t).w)
        ELSE HoldPlain(w, x)

MResume(w, p, x, swap) == ResumeHere(w, p, x)
HoldsOther(w, p, x, swap) ==
    LET a == ActiveCall(w, p)
    IN  IF ~swap \/ a \in {NoCall, x} THEN Result(TRUE, w)
        ELSE IF w.call[a].st \in {"down", "onhook", "offhook"} THEN Result(TRUE, Endcall(w, a))
        ELSE Hold(w, a)
HoldsOwn(r, x) ==
    IF r.ok /\ r.w.call[x].st \in {"connected", "proceed"} THEN Hold(r.w, x) ELSE r
Resume(w, p, x, swap) ==
    IF ~w.call[x].owner THEN Result(FALSE, w)
    ELSE ResumeAfter(HoldsOwn(HoldsOther(w, p, x, swap), x), p, x)

----------------------------------------------------------------------------
(* Placing a call *)

Free(w) == {x \in CallIds : w.call[x].stage = "free"}

\* sccp_channel_allocate, then sccp_pbx_channel_allocate with Asterisk's part
Allocate(w, x, d, type, ports) ==
    LET made == [w EXCEPT !.call[x] = [FreeCall EXCEPT !.stage = "live", !.calltype = type,
                                                       !.owner = TRUE, !.ports = ports]]
    IN  IF d = NoDevice THEN made ELSE SetDevice(made, x, d)

WithServer(w, x, p, type, ports) ==
    IF type # "out" THEN Result(TRUE, w)
    ELSE IF ports THEN Result(TRUE, Set(w, x, CreateServer(w.call[x])))
    ELSE Result(FALSE, Endcall(Indicate(w, x, p, "congestion"), x))
AllocateForPhone(w, x, p, type, ports) ==
    WithServer(Allocate(w, x, p, type, ports), x, p, type, ports)

(* sccp_channel_getEmptyChannel: the call that is off hook with nothing      *)
(* dialled is used; any other active call is held first.                     *)
Made(r, x) == [ok |-> r.ok, w |-> r.w, x |-> x]
NewAfter(held, p, ports) ==
    IF ~held.ok \/ Free(held.w) = {} THEN Made(Result(FALSE, held.w), NoCall)
    ELSE LET x == Oldest(Free(held.w))
         IN  Made(AllocateForPhone(held.w, x, p, "out", ports), x)
EmptyCall(w, p, ports) ==
    LET a == ActiveCall(w, p)
    IN  IF a # NoCall /\ w.call[a].st = "offhook" /\ ~w.call[a].dialed
        THEN Made(Result(TRUE, [w EXCEPT !.call[a].calltype = "out"]), a)
        ELSE NewAfter(IF a # NoCall /\ w.call[a].dev = p THEN Hold(w, a) ELSE Result(TRUE, w), p, ports)

\* sccp_pbx_softswitch: what Asterisk makes of the number
Switched(w, x, answer) ==
    CASE answer = "exists" -> [w EXCEPT !.call[x].ast = "ring", !.call[x].pbx = TRUE]
      [] answer = "limit" -> Indicate([w EXCEPT !.call[x].ast = "ring"], x, w.call[x].dev, "congestion")
      [] OTHER -> Indicate(w, x, w.call[x].dev, "invalid")
Softswitch(w, x, answer) ==
    LET c == w.call[x]
    IN  IF c.pbx \/ ~c.owner \/ c.calltype # "out" \/ c.dev = NoDevice THEN w
        ELSE IF c.soft THEN Indicate(w, x, c.dev, "onhook")
        ELSE Switched(Indicate(w, x, c.dev, "dialing"), x, answer)

Goes(w, x, dials, answer) ==
    IF dials THEN Softswitch([w EXCEPT !.call[x].dialed = TRUE], x, answer) ELSE w
NewCallOn(e, p, dials, answer) ==
    IF ~e.ok THEN e
    ELSE Made(Result(TRUE, Goes([Indicate(e.w, e.x, p, "offhook") EXCEPT !.call[e.x].ast = "offhook"],
                                e.x, dials, answer)), e.x)
NewCall(w, p, dials, answer, ports) == NewCallOn(EmptyCall(w, p, ports), p, dials, answer)

----------------------------------------------------------------------------
(* Answering *)

\* channel_answer_completion, the reception callback of an answered call
AnswerVideo(c) == IF NoVideo(c) THEN c ELSE OpenVideoReceive(c)
AnswerCompletion(w, x) ==
    LET c == w.call[x]
    IN  IF c.dev = NoDevice \/ ~c.answering \/ ~c.owner \/ c.soft THEN w
        ELSE Indicate(Set(w, x, [AnswerVideo(StartTransmission(c)) EXCEPT !.subs = 1]), x, c.dev, "connected")

HoldsActive(w, p, x) ==
    LET a == ActiveCall(w, p)
    IN  IF a \in {NoCall, x} THEN Result(TRUE, w) ELSE Hold(w, a)
AskReceive(w, x) == Set(w, x, OpenReceive([w.call[x] EXCEPT !.ast = "offhook", !.cb = "answer"]))
AnswerAfter(held, p, x) ==
    LET c == held.w.call[x]
    IN  IF ~held.ok \/ ~c.owner \/ c.ast # "ringing" \/ c.soft \/ c.answering THEN held.w
        ELSE AskReceive(SetDevice([held.w EXCEPT !.call[x].answering = TRUE], x, p), x)
Answer(w, p, x) ==
    IF ~w.call[x].owner THEN w ELSE AnswerAfter(HoldsActive(EndForwarding(w, x), p, x), p, x)

----------------------------------------------------------------------------
(* Transfer *)

(* sccp_channel_transfer_complete for the call that was dialled last; peer:  *)
(* the other call has somebody to transfer; done: Asterisk did it.           *)
TransferComplete(w, x, peer, done) ==
    LET d == w.call[x].dev
        s == w.phone[d].transferee
        ready == /\ w.call[x].st \in {"ringout", "connected", "progress"}
                 /\ w.call[x].owner /\ s # NoCall /\ w.call[s].owner /\ peer
        released == TransferRelease([w EXCEPT !.call[x].calltype = "forward"], d, s)
        both == [released EXCEPT !.call[s].soft = TRUE, !.call[x].soft = TRUE]
    IN  IF d = NoDevice \/ ~ready THEN w
        ELSE IF done THEN Add(both, "held", 255) ELSE released

\* the phone a transfer is made on: the call's own, or the one the key was pressed on
TransferDevice(w, x, p) ==
    IF w.call[x].dev # NoDevice THEN w.call[x].dev
    ELSE IF (x = w.phone[p].transferee /\ w.phone[p].transferer # NoCall)
            \/ (w.call[x].st = "hold" /\ Cardinality(Phones) = 1)
    THEN p ELSE NoDevice

Consult(new, x, d, peer) ==
    IF new.ok /\ peer THEN [new.w EXCEPT !.phone[d].transferer = new.x]
    ELSE [Indicate(new.w, x, d, "congestion") EXCEPT !.phone[d].transferee = NoCall]
TransferAfter(held, x, d, was, peer, ports) ==
    IF ~held.ok THEN [held.w EXCEPT !.phone[d].transferee = NoCall]
    ELSE IF ~held.w.call[x].owner
    THEN [Indicate(held.w, x, d, was) EXCEPT !.phone[d].transferee = NoCall]
    ELSE Consult(NewCall(IF held.w.call[x].st = "calltransfer" THEN held.w
                         ELSE Indicate(held.w, x, d, "calltransfer"),
                         d, FALSE, "missing", ports), x, d, peer)
HoldsFirst(w, x) ==
    IF w.call[x].st \in {"offhook", "hold", "calltransfer"} THEN Result(TRUE, w) ELSE Hold(w, x)
Transfer(w, x, p, peer, done, ports) ==
    LET d == TransferDevice(w, x, p)
    IN  IF d = NoDevice THEN w
        ELSE IF w.phone[d].transferee # NoCall /\ w.phone[d].transferer # NoCall
        THEN TransferComplete(w, w.phone[d].transferer, peer, done)
        ELSE TransferAfter(HoldsFirst([w EXCEPT !.phone[d].transferee = x, !.phone[d].transferer = NoCall], x),
                           x, d, w.call[x].st, peer, ports)

----------------------------------------------------------------------------
(* What the phones do.  A handler leaves the world it computed. *)

Leave(w) ==
    /\ steps < MaxSteps /\ w # World
    /\ call' = w.call /\ phone' = w.phone /\ line' = w.line /\ steps' = steps + 1

Live == Listed(World)
Ports == BOOLEAN

OffHook(p, ports) ==
    LET ringing == InState(World, "ringing")
    IN  /\ ActiveCall(World, p) = NoCall
        /\ Leave(IF ringing # {} THEN Answer(World, p, Oldest(ringing))
                 ELSE NewCall(World, p, FALSE, "missing", ports).w)

TransfersOnHangup(p, x) ==
    /\ TransferOnHangup /\ x = phone[p].transferer /\ phone[p].transferee # NoCall
    /\ call[x].st \in SettingUp \cup Connected /\ call[x].ast \in {"up", "ring"}

OnHook(p, peer, done) ==
    LET x == ActiveCall(World, p)
    IN  /\ x # NoCall
        /\ Leave(IF TransfersOnHangup(call[x].dev, x) THEN TransferComplete(World, x, peer, done)
                 ELSE Endcall(World, x))

\* Speed dial, redial and the new call key
KeyNewCall(p, dials, answer, ports) == Leave(NewCall(World, p, dials, answer, ports).w)

KeyHold(p) ==
    \E x \in Live : call[x].dev = p /\ Leave(Hold(World, x).w)

KeyResume(p) ==
    \E x \in InState(World, "hold") \cup InState(World, "calltransfer") :
        Leave(Resume(World, p, x, TRUE).w)

KeyTransfer(p, peer, done, ports) ==
    \E x \in Live : call[x].dev \in {p, NoDevice} /\ Leave(Transfer(World, x, p, peer, done, ports))

(* The key of a call that rings on several phones silences only this one.    *)
(* The count of the phones is decremented in the condition, uint16_t.        *)
KeyEndCall(p) ==
    \E x \in Live :
        LET counted == [World EXCEPT !.call[x].subs = (@ + 65535) % 65536]
        IN  /\ call[x].dev \in {p, NoDevice}
            /\ Leave(IF call[x].calltype # "in" THEN Endcall(World, x)
                     ELSE IF call[x].subs > 1 THEN counted
                     ELSE Endcall(counted, x))

KeyAnswer(p) ==
    \E x \in InState(World, "ringing") : call[x].owner /\ Leave(Answer(World, p, x))

KeyDial(p, answer) ==
    \E x \in InState(World, "digitsfoll") :
        call[x].dev = p /\ ~call[x].pbx /\ Leave(Softswitch(World, x, answer))

\* The reception is asked for when there is one already: the test lacks its negation.
KeyVideo(p) ==
    \E x \in Live :
        LET c == call[x]
            opened == IF ~c.vrtp \/ c.vrx # {} THEN OpenVideoReceive(c) ELSE c
            started == IF "active" \in opened.vrx /\ opened.vtx = {} THEN StartVideo(opened) ELSE opened
        IN  c.dev = p /\ p \in VideoPhones /\ Leave(Set(World, x, SetVideoMode(started, "user")))

HandleDialtone(w, x, p) ==
    IF w.call[x].timer \/ w.call[x].st = "dialing" \/ ~w.call[x].dialed THEN w
    ELSE Indicate(w, x, p, "digitsfoll")

(* handle_keypad_button: the message names the call, or only the line: then  *)
(* the first call of the line that collects digits is taken, whoever's it is.*)
Digit(p, exact, answer) ==
    LET collecting == InState(World, "offhook") \cup InState(World, "digitsfoll")
        active == ActiveCall(World, p)
    IN  \E x \in (IF active = NoCall THEN {} ELSE {active})
                 \cup (IF collecting = {} THEN {} ELSE {Oldest(collecting)}) :
            LET c == call[x]
                dialed == [World EXCEPT !.call[x].dialed = TRUE]
            IN  /\ c.owner => ~c.timer /\ c.st \notin Terminating \cup {"connected", "proceed", "ringout"}
                /\ Leave(IF ~c.owner THEN Endcall(World, x)
                         ELSE IF c.st \in {"offhook", "digitsfoll"} /\ ~c.pbx
                         THEN HandleDialtone(IF exact THEN Softswitch(dialed, x, answer) ELSE dialed, x, p)
                         ELSE IF c.pbx \/ c.st = "dialing" THEN dialed ELSE World)

(* The line key.  An active call is held or ended, and the key ends there.   *)
(* Otherwise the key takes the line's calls in the order of the tests.       *)
SelectLine(w, p, on) == [w EXCEPT !.phone[p].onLine = on]
KeyLineHeld(w, p, x) ==
    LET t == w.phone[p].transferee
    IN  IF w.line.held = 1 THEN Resume(SelectLine(w, p, TRUE), p, x, FALSE).w
        ELSE IF p \in HookFlashPhones /\ w.phone[p].transferer = x
        THEN IF t = NoCall THEN w ELSE Resume(Endcall(w, x), p, t, FALSE).w
        ELSE SelectLine(w, p, TRUE)
KeyLineFor(w, p, ports) ==
    IF Listed(w) = {} THEN NewCall(SelectLine(w, p, TRUE), p, FALSE, "missing", ports).w
    ELSE IF InState(w, "ringing") # {} THEN Answer(w, p, Oldest(InState(w, "ringing")))
    ELSE IF w.line.held >= 1 /\ InState(w, "hold") # {} THEN KeyLineHeld(w, p, Oldest(InState(w, "hold")))
    ELSE SelectLine(w, p, InState(w, "connected") # {} => ~w.phone[p].onLine)
KeyLine(p, ports) ==
    LET a == ActiveCall(World, p)
    IN  IF a = NoCall \/ call[a].dev # p THEN Leave(KeyLineFor(World, p, ports))
        ELSE IF call[a].st \in Connected
        THEN LET held == Hold(World, a) IN held.ok /\ Leave(KeyLineFor(held.w, p, ports))
        ELSE Leave(Endcall(World, a))

KeyHoldLine(p) ==
    LET talking == InState(World, "connected")
        onHold == InState(World, "hold")
        a == ActiveCall(World, p)
        offhook == a # NoCall /\ call[a].st = "offhook"
    IN  IF talking # {} THEN Leave(Hold(World, Oldest(talking)).w)
        ELSE /\ onHold # {}
             /\ ~(offhook /\ call[a].calltype # "out")
             /\ Leave(Resume(IF offhook THEN Endcall(World, a) ELSE World, p, Oldest(onHold), TRUE).w)

(* Direct transfer of the two calls of the line.  The references a transfer  *)
(* in progress holds are overwritten.                                        *)
KeyDirectTransfer(p, peer, done) ==
    LET one == Oldest(Live)
        two == Oldest(Live \ {one})
        swapped == call[one].st = "connected" /\ call[two].st # "connected"
        source == IF swapped THEN two ELSE one
        dest == IF swapped THEN one ELSE two
        resumed == IF ~swapped /\ call[one].st = "hold" /\ call[two].st = "hold"
                   THEN Resume(World, p, two, TRUE).w ELSE World
    IN  /\ Cardinality(Live) = 2
        /\ Leave(TransferComplete([resumed EXCEPT !.phone[p].transferee = source,
                                                  !.phone[p].transferer = dest], dest, peer, done))

----------------------------------------------------------------------------
(* The phone's answers to the requests about media.  They name the call, so  *)
(* they find it after it left the phone, until it is taken off the line.     *)

Found(x) == x \in Live \/ \E p \in Phones : ActiveCall(World, p) = x

Failed(w, x, status) == IF status = "failed" THEN Endcall(w, x) ELSE w

ReceiveAck(x, status) ==
    LET c == call[x]
        open == [c EXCEPT !.rx = @ \cup {"active"}]
        called == IF ~c.owner \/ c.soft \/ c.cb = "none" THEN Set(World, x, open)
                  ELSE IF c.cb = "start" THEN Set(World, x, RunStartCallback(open))
                  ELSE AnswerCompletion(Set(World, x, [open EXCEPT !.cb = "none"]), x)
        closed == Set(World, x, CloseAllMedia(c))
    IN  /\ Found(x) /\ "progress" \in c.rx
        /\ Leave(IF status # "ok" THEN [Failed(closed, x, status) EXCEPT !.call[x].rx = {"error"}]
                 ELSE IF ~c.rtp THEN [Endcall(World, x) EXCEPT !.call[x].rx = {}]
                 ELSE IF Blocked(c) \/ c.st \in Idling \cup Terminating
                 THEN [World EXCEPT !.call[x].rx = {"active"}]
                 ELSE called)

TransmitAck(x, status) ==
    LET closed == Set(World, x, CloseAllMedia(call[x]))
    IN  /\ Found(x) /\ "progress" \in call[x].tx
        /\ Leave(IF status # "ok" THEN [Failed(closed, x, status) EXCEPT !.call[x].tx = {"error"}]
                 ELSE IF ~call[x].rtp THEN [Endcall(World, x) EXCEPT !.call[x].tx = {}]
                 ELSE [World EXCEPT !.call[x].tx = {"active"}])

VideoReceiveAck(x, status) ==
    LET c == call[x]
        closed == Set(World, x, StopVideo(CloseVideoReceive(c)))
        started == IF c.st = "connected" /\ "active" \notin c.vtx /\ c.vmode = "auto"
                   THEN StartVideo([c EXCEPT !.vrx = @ \cup {"active"}]) ELSE c
    IN  /\ Found(x) /\ "progress" \in c.vrx
        /\ Leave(IF status # "ok" THEN [Failed(closed, x, status) EXCEPT !.call[x].vrx = {"error"}]
                 ELSE Set(World, x, [(IF Blocked(c) THEN c ELSE started) EXCEPT !.vrx = {"active"}]))

VideoTransmitAck(x, status) ==
    LET closed == Set(World, x, StopVideo(CloseVideoReceive(call[x])))
    IN  /\ Found(x) /\ "progress" \in call[x].vtx
        /\ Leave(IF status # "ok" THEN [Failed(closed, x, status) EXCEPT !.call[x].vtx = {"error"}]
                 ELSE [World EXCEPT !.call[x].vtx = {"active"}])

----------------------------------------------------------------------------
(* What Asterisk does with a call that has its channel. *)

Driven(x) == x \in Live /\ call[x].owner /\ ~call[x].soft

Incoming(ports) ==
    /\ Free(World) # {}
    /\ Leave(Allocate(World, Oldest(Free(World)), NoDevice, "in", ports))

(* sccp_channel_forward: a call of the line's own that is dialled for the    *)
(* phone that forwards.                                                      *)
Forward(w, parent, exists) ==
    LET x == Oldest(Free(w))
        child == [Allocate(w, x, NoDevice, "forward", TRUE)
                    EXCEPT !.call[x].parent = parent, !.call[x].dialed = TRUE,
                           !.call[x].ast = "offhook"]
    IN  IF Free(w) = {} THEN [ok |-> FALSE, w |-> w]
        ELSE IF exists THEN Result(TRUE, [child EXCEPT !.call[x].ast = "ring", !.call[x].pbx = TRUE])
        ELSE Result(FALSE, Endcall([child EXCEPT !.call[x].parent = NoCall], x))

(* sccp_pbx_call: every phone of the line rings, waits, forwards or refuses. *)
(* The phone's own call and the state it is in decide; the answer names what *)
(* its settings do.                                                          *)
RingPhone(r, x, p, does, exists) ==
    LET a == ActiveCall(r.w, p)
        forwarded == Forward(r.w, x, exists)
        fewer == [r EXCEPT !.subs = @ - 1]
    IN  IF does = "forward" THEN
            IF Cardinality(Phones) = 1 THEN fewer
            ELSE [fewer EXCEPT !.w = forwarded.w, !.rings = @ \/ forwarded.ok]
        ELSE IF does = "refuse" THEN fewer
        ELSE [r EXCEPT !.w = Indicate(r.w, x, p, IF a = NoCall THEN "ringing" ELSE "callwaiting"),
                       !.rings = TRUE]

Ring(x, does, exists) ==
    LET rung[S \in SUBSET Phones] ==
            IF S = {} THEN [w |-> World, rings |-> FALSE, subs |-> Cardinality(Phones)]
            ELSE LET p == CHOOSE q \in S : TRUE
                 IN  RingPhone(rung[S \ {p}], x, p, does[p], exists)
        r == rung[Phones]
        counted == [r.w EXCEPT !.call[x].subs = r.subs]
    IN  /\ Driven(x) /\ call[x].calltype = "in" /\ call[x].st = "down"
        /\ Leave(IF r.rings THEN [counted EXCEPT !.call[x].st = "ringing", !.call[x].ast = "ringing"]
                 ELSE counted)

\* sccp_pbx_cfwdnoanswer_cb
ForwardNoAnswer(x, exists) ==
    /\ Driven(x) /\ call[x].st = "ringing" /\ ~call[x].answering /\ ~call[x].hup
    /\ Leave(IF Cardinality(Phones) = 1 THEN [World EXCEPT !.call[x].owner = FALSE]
             ELSE Forward(World, x, exists).w)

\* sccp_pbx_call_autoanswer_thread: after its sleep
AutoAnswer(x, p) == x \in InState(World, "ringing") /\ Leave(Answer(World, p, x))

(* sccp_astwrap_indicate, for the call of a phone. *)
AstState(x, s) == [World EXCEPT !.call[x].ast = s]

AstIndicate(x, ind) ==
    LET c == call[x]
        ringout == IF c.calltype # "out" THEN World
                   ELSE Indicate(AstState(x, IF c.ast = "up" THEN "ringing" ELSE "ring"), x, c.dev, "ringout")
        video == c.vrtp /\ ~NoVideo(c)
    IN  /\ Driven(x) /\ (c.pbx \/ c.ast = "up")
        /\ c.dev # NoDevice /\ c.st # "down"
        /\ Leave(CASE ind = "ringing" -> ringout
                   [] ind = "busy" -> [Indicate(World, x, c.dev, "busy") EXCEPT !.call[x].ast = "busy"]
                   [] ind \in {"congestion", "progress", "proceed"} -> Indicate(World, x, c.dev, ind)
                   [] ind = "hold" -> IF video THEN Set(World, x, StopVideo(c)) ELSE World
                   [] ind = "unhold" -> IF video THEN Set(World, x, VideoBothWays(c)) ELSE World
                   [] ind = "redirecting" -> Indicate(World, x, c.dev, c.st)
                   [] ind = "none" ->
                        IF c.st \notin Idling \cup Dialing /\ c.calltype = "out" /\ c.rx = {}
                        THEN Set(World, x, OpenReceive(c)) ELSE World)

(* sccp_astwrap_answer: the other side answered.  A forwarded call gives the *)
(* answer to the call it was made for and forgets it.                        *)
RemoteAnswer(x) ==
    LET c == call[x]
    IN  /\ Driven(x) /\ c.pbx /\ c.ast # "up" /\ c.st \notin Terminating
        /\ Leave(IF c.parent # NoCall THEN [World EXCEPT !.call[x].parent = NoCall]
                 ELSE IF c.dev = NoDevice THEN World
                 ELSE [Indicate(World, x, c.dev, "connected") EXCEPT !.call[x].ast = "up"])

\* An answered call is up once the bridge has it.
Bridged(x) == Driven(x) /\ call[x].answering /\ call[x].st = "connected" /\ Leave(AstState(x, "up"))

\* sccp_astwrap_rtp_read and _write
MediaRead(x) ==
    LET c == call[x]
    IN  /\ Driven(x) /\ c.rtp /\ c.calltype # "in" /\ c.ast # "up" /\ c.early /\ c.sent
        /\ Leave(Set(World, x, FinishHolePunch(c, FALSE)))

MediaWrite(x) ==
    LET c == call[x]
    IN  /\ Driven(x) /\ c.ast # "up" /\ c.st \notin Idling \cup Dialing
        /\ Leave(Set(World, x, MakeProgress(c)))

VideoWrite(x, h264) ==
    LET c == call[x]
        early == c.ast # "up" /\ c.st \notin Idling \cup Dialing
    IN  /\ Driven(x) /\ c.vmode # "off" /\ c.st # "hold"
        /\ Leave(Set(World, x,
                IF ~h264 THEN VideoOff(StopVideo(CloseVideoReceive(c)))
                ELSE IF early THEN MakeProgress(c)
                ELSE IF c.vrx = {} THEN OpenVideoReceive(c) ELSE c))

\* sccp_astwrap_update_rtp_peer
PeerMoved(x) ==
    /\ Driven(x) /\ call[x].rtp /\ call[x].st # "hold" /\ call[x].dev # NoDevice
    /\ Leave(Set(World, x, SetPeer(call[x])))

(* ast_hangup: the channel's thread, or Asterisk when the other side is gone.*)
HangupBegin(x) ==
    /\ x \in Live /\ call[x].stage = "live" /\ call[x].owner
    /\ Leave(HangupStart(World, x))

HangupUnlisted(x) == call[x].stage = "hanging" /\ Leave(HangupUnlist(EndForwarding(World, x), x))

HangupDone(x) == call[x].stage = "unlisted" /\ Leave(Clean(World, x))

\* _sccp_channel_sched_endcall and sccp_pbx_sched_dial
HangupTimer(x) ==
    /\ x \in Live /\ call[x].timer /\ ~call[x].denied
    /\ Leave(Endcall(DenyTasks(World, x), x))

DigitTimeout(x, answer) ==
    LET c == call[x]
        dials == c.owner /\ ~c.pbx /\ c.dialed
    IN  /\ x \in Live /\ ~c.denied /\ ~c.timer /\ c.st \in {"offhook", "digitsfoll"}
        /\ Leave(IF dials THEN Softswitch(World, x, answer)
                 ELSE Indicate([World EXCEPT !.call[x].dialed = FALSE], x, NoDevice, "invalid"))

----------------------------------------------------------------------------
Answers == {"exists", "limit", "missing"}
Statuses == {"ok", "onhook", "failed"}
Indications == {"ringing", "busy", "congestion", "progress", "proceed", "none",
                "hold", "unhold", "redirecting"}

PhoneNext ==
    \E p \in Phones :
        \/ \E ports \in Ports : OffHook(p, ports) \/ KeyLine(p, ports)
        \/ \E peer, done \in BOOLEAN : OnHook(p, peer, done) \/ KeyDirectTransfer(p, peer, done)
        \/ \E ports \in Ports, answer \in Answers : KeyNewCall(p, TRUE, answer, ports)
        \/ \E ports \in Ports : KeyNewCall(p, FALSE, "missing", ports)
        \/ KeyHold(p) \/ KeyResume(p) \/ KeyEndCall(p) \/ KeyAnswer(p) \/ KeyVideo(p) \/ KeyHoldLine(p)
        \/ \E peer, done, ports \in BOOLEAN : KeyTransfer(p, peer, done, ports)
        \/ \E answer \in Answers : KeyDial(p, answer)
        \/ \E exact \in BOOLEAN, answer \in Answers : Digit(p, exact, answer)

AckNext ==
    \E x \in CallIds, status \in Statuses :
        \/ ReceiveAck(x, status) \/ TransmitAck(x, status)
        \/ VideoReceiveAck(x, status) \/ VideoTransmitAck(x, status)

AsteriskNext ==
    \/ \E ports \in Ports : Incoming(ports)
    \/ \E x \in CallIds :
        \/ \E does \in [Phones -> {"ring", "forward", "refuse"}], exists \in BOOLEAN : Ring(x, does, exists)
        \/ \E exists \in BOOLEAN : ForwardNoAnswer(x, exists)
        \/ \E p \in Phones : AutoAnswer(x, p)
        \/ \E ind \in Indications : AstIndicate(x, ind)
        \/ RemoteAnswer(x) \/ Bridged(x) \/ MediaRead(x) \/ MediaWrite(x) \/ PeerMoved(x)
        \/ \E h264 \in BOOLEAN : VideoWrite(x, h264)
        \/ HangupBegin(x) \/ HangupUnlisted(x) \/ HangupDone(x) \/ HangupTimer(x)
        \/ \E answer \in Answers : DigitTimeout(x, answer)

Next == PhoneNext \/ AckNext \/ AsteriskNext
Spec == Init /\ [][Next]_vars

----------------------------------------------------------------------------
Bits == SUBSET {"progress", "active", "error"}

(* Every field keeps to the values the code gives it. *)
TypeOK ==
    /\ \A x \in CallIds :
        LET c == call[x]
        IN  /\ c.stage \in {"free", "live", "hanging", "unlisted", "gone"}
            /\ c.st \in ChannelStates /\ c.dev \in Phones \cup {NoDevice}
            /\ {c.rx, c.tx, c.vrx, c.vtx} \subseteq Bits
            /\ c.cb \in {"none", "start", "answer"} /\ c.vmode \in {"off", "auto", "user"}
            /\ c.ast \in {"down", "offhook", "ring", "ringing", "up", "busy"}
            /\ c.parent \in CallIds \cup {NoCall} /\ c.subs \in 0..65535
    /\ \A p \in Phones : {phone[p].active, phone[p].transferee, phone[p].transferer} \subseteq CallIds \cup {NoCall}
    /\ line.held \in 0..255 /\ line.active \in 0..255

(* The call a phone says it is on says it is on that phone: the two pointers  *)
(* sccp_channel_setDevice keeps are changed together by hold, resume, answer, *)
(* transfer and hangup, whatever the order in which phones and Asterisk act.  *)
ActiveIsHere == \A p \in Phones : phone[p].active # NoCall => call[phone[p].active].dev = p

Sending(c) == c.tx \cap {"progress", "active"} # {}
Receiving(c) == c.rx \cap {"progress", "active"} # {}

(* A held call has no audio open: a phone's late answer to a request, a frame *)
(* or an indication of Asterisk never opens one again until it is resumed.    *)
HeldIsQuiet ==
    \A x \in Live : call[x].st = "hold" => ~Sending(call[x]) /\ ~Receiving(call[x])

(* A phone sends for one of its calls: whoever is answered, resumed or dialled*)
(* next waits for the call before it to be held (sccp_channel.c:1382, 1560,   *)
(* 1693).  A call that is being hung up may overlap with its successor.       *)
OneTalker ==
    LET talks(x) == Sending(call[x]) /\ ~call[x].hup
    IN  \A x, y \in Live : talks(x) /\ talks(y) /\ call[x].dev = call[y].dev => x = y

(* A transfer never refers to a call that left the line: the phone that was   *)
(* making it has forgotten it, also when it is not the phone that hung up.    *)
TransferListed ==
    \A p \in Phones : {phone[p].transferee, phone[p].transferer} \subseteq Live \cup {NoCall}

=============================================================================
