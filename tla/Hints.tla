-------------------------------- MODULE Hints --------------------------------
(***************************************************************************)
(* What a phone shows of others: the lines behind the speed dials that have *)
(* a hint (sccp_hint.c), and the custom states behind feature buttons       *)
(* (sccp_devstate.c).  Events of calls, phones and features are handled by  *)
(* the threads of the pool, some at once by who fires them (sccp_event.c);  *)
(* Asterisk computes a hint from the states of its lines and calls back     *)
(* from a thread of its own.  None of them keeps another from the state of  *)
(* a hint: it is written first, and then whoever wrote it tells the         *)
(* subscribers what it is by then.                                          *)
(*                                                                         *)
(* A handler works on a list of lines: it brings the state of a line up to  *)
(* date, goes through the hints, and tells Asterisk about the line.         *)
(***************************************************************************)
EXTENDS Naturals, Sequences, FiniteSets, SequencesExt

CONSTANTS
    Phones,      \* the phones
    HintLines,       \* the lines
    Hints,       \* the extensions that have a hint
    Customs,     \* the custom states of Asterisk
    Covers,      \* [Hints -> SUBSET HintLines]: the lines named by the hint
    Wants,       \* [Phones -> SUBSET (Hints \cup Customs)]: what the buttons subscribe to
    Dynamic,     \* phones whose protocol has FeatureStatDynamic (version 15)
    RingsIn,     \* phones with allowRinginNotification
    CallStates,  \* the states of calls
    HintPool,        \* threads of the pool
    Starts,      \* [phones: of each line, busy: lines in a call, watching: phones with their buttons]
    MaxChanges     \* bound: changes of lines, phones, calls and custom states

ASSUME HintsAssumption ==
    /\ Covers \in [Hints -> SUBSET HintLines] /\ Wants \in [Phones -> SUBSET (Hints \cup Customs)]
    /\ Dynamic \subseteq Phones /\ RingsIn \subseteq Phones /\ Hints \cap Customs = {}
    /\ CallStates \subseteq {"offhook", "ringing", "ringout", "connected", "hold", "busy"}
    /\ HintPool \cap {"firer", "asterisk", "stasis"} = {}
    /\ Starts \subseteq [phones : [HintLines -> Seq(Phones)], busy : SUBSET HintLines,
                        watching : SUBSET Phones]
    /\ MaxChanges \in Nat

VARIABLES
    line,     \* [phones (the last first), calls (states), crossed]
    dnd,      \* the phones that reject calls
    shown,    \* lineStates: the state kept for a line, "none" without an entry
    hint,     \* the hints: [made, state, dnd]: the state and whether the party's name is DND
    custom,   \* the custom states: [made, state, crossed]
    subs,     \* the subscribers of a hint or a custom state
    told,     \* what a phone was last told of a hint or a custom state
    registered, \* the registered phones
    waiting,  \* jobs of the pool that wait
    working,  \* jobs that run: [thread |-> job]
    pbx,      \* Asterisk: [dev: a line's state, last: a hint's, dirty: hints to compute]
    changed   \* changes so far

hintVars == <<line, dnd, shown, hint, custom, subs, told, registered, waiting, working, pbx, changed>>
HintWorld ==
    [line |-> line, dnd |-> dnd, shown |-> shown, hint |-> hint, custom |-> custom,
     subs |-> subs, told |-> told, registered |-> registered, waiting |-> waiting, working |-> working,
     pbx |-> pbx, changed |-> changed]
Becomes(w) ==
    /\ line' = w.line /\ dnd' = w.dnd /\ shown' = w.shown /\ hint' = w.hint
    /\ custom' = w.custom /\ subs' = w.subs /\ told' = w.told /\ registered' = w.registered
    /\ waiting' = w.waiting /\ working' = w.working /\ pbx' = w.pbx /\ changed' = w.changed

\* Who runs a handler: the pool, who fires an event that is not for the pool, Asterisk,
\* and Asterisk's messages about custom states
Threads == HintPool \cup {"firer", "asterisk", "stasis"}

CustomStates == {"not in use", "in use"}

\* A job: the lines still to handle, each with the state of the event; the line at hand,
\* what Asterisk is to be told of it, the hints still to look at; and what is to be
\* subscribed to.  at: what is done next; leaves: the line that a phone is leaving
Job(at) == [at |-> at, lines |-> <<>>, line |-> "none", class |-> "none", todo |-> {},
            hint |-> "none", state |-> "none", named |-> FALSE, phone |-> "none",
            leaves |-> "none", next |-> "done"]
NoWork == Job("idle")
Everyone == Hints \cup Customs

\* Asterisk's state of an extension from those of its devices
Order == <<"UNAVAILABLE", "NOT_INUSE", "ONHOLD", "RINGING", "INUSE", "BUSY", "RINGINUSE">>
Aggregate(S) ==
    IF "RINGING" \in S /\ S \cap {"INUSE", "ONHOLD", "BUSY"} # {} THEN "RINGINUSE"
    ELSE Order[CHOOSE i \in DOMAIN Order : Order[i] \in S /\ \A j \in DOMAIN Order : j > i => Order[j] \notin S]

\* What sccp_hint_notifySubscribers sends to p about a hint in state s
Shows(p, s) ==
    IF p \in Dynamic
    THEN CASE s = "onhook" -> "idle" [] s = "dnd" -> "dnd" [] s = "congestion" -> "unknown"
           [] s = "ringing" -> "alerting" [] OTHER -> "in use"
    ELSE CASE s = "onhook" -> "lamp off" [] s = "congestion" -> "no state, lamp off"
           [] s = "ringing" /\ p \in RingsIn -> "blinks" [] OTHER -> "lamp on"

\* Nothing at all, or phones on lines, some of which have a call, and some phones watching
Starting(start) ==
    LET idle == {x \in HintLines : start.phones[x] # <<>>} \ start.busy
        dev == [x \in HintLines |-> IF x \in start.busy THEN "INUSE"
                                ELSE IF x \in idle THEN "NOT_INUSE" ELSE "UNAVAILABLE"]
        ext == [h \in Hints |-> Aggregate({dev[x] : x \in Covers[h]})]
        state == [h \in Hints |-> CASE ext[h] = "UNAVAILABLE" -> "congestion"
                                     [] ext[h] = "NOT_INUSE" -> "onhook" [] OTHER -> "connected"]
        watchers == [h \in Everyone |-> {p \in start.watching : h \in Wants[p]}]
    IN  /\ line = [x \in HintLines |-> [phones |-> start.phones[x], crossed |-> FALSE,
                                  calls |-> IF x \in start.busy THEN <<"connected">> ELSE <<>>]]
        /\ shown = [x \in HintLines |-> IF x \in start.busy THEN "connected"
                                    ELSE IF x \in idle THEN "onhook" ELSE "none"]
        /\ pbx = [dev |-> dev, last |-> ext, dirty |-> {}]
        /\ hint = [h \in Hints |-> IF watchers[h] = {}
                                   THEN [made |-> FALSE, state |-> "onhook", dnd |-> FALSE]
                                   ELSE [made |-> TRUE, state |-> state[h], dnd |-> FALSE]]
        /\ custom = [c \in Customs |-> [made |-> watchers[c] # {}, state |-> "not in use",
                                       crossed |-> FALSE]]
        /\ subs = watchers
        /\ told = [p \in Phones |-> [h \in Everyone |->
                     IF p \notin watchers[h] THEN "nothing"
                     ELSE IF h \in Hints THEN Shows(p, state[h]) ELSE "not in use"]]
        /\ registered = start.watching \cup UNION {Range(start.phones[x]) : x \in HintLines}
HintsInit ==
    /\ \E start \in Starts : Starting(start)
    /\ dnd = {} /\ changed = 0 /\ waiting = <<>> /\ working = [t \in Threads |-> NoWork]

----------------------------------------------------------------------------
(* States of lines, of Asterisk's devices and of hints *)

DeviceState(s) ==
    CASE s = "onhook" -> "NOT_INUSE"
      [] s = "ringout" -> "RINGINUSE"
      [] s = "ringing" -> "RINGING"
      [] s = "hold" -> "ONHOLD"
      [] s \in {"dnd", "busy"} -> "BUSY"
      [] s = "congestion" -> "UNAVAILABLE"
      [] OTHER -> "INUSE"

Extension(w, h) == Aggregate({w.pbx.dev[x] : x \in Covers[h]})

\* sccp_hint_devstate_cb
FromExtension(ext, h) ==
    CASE ext = "UNAVAILABLE" -> IF h.dnd THEN "dnd" ELSE "congestion"
      [] ext = "NOT_INUSE" -> "onhook"
      [] ext = "INUSE" -> IF h.state = "onhook" THEN "dialing" ELSE "connected"
      [] ext = "BUSY" -> IF h.dnd THEN "dnd" ELSE "busy"
      [] ext \in {"RINGING", "RINGINUSE"} -> "ringing"
      [] ext = "ONHOLD" -> "hold"

\* sccp_hint_updateLineState and what it calls: by the phones and calls there are, and by
\* the state of the event
AllReject(w, x) == \A p \in Range(w.line[x].phones) : p \in w.dnd
LineState(w, x, s) ==
    LET l == w.line[x]
    IN  IF l.phones = <<>> THEN "congestion"
        ELSE IF Len(l.calls) > 1 THEN s
        ELSE IF Len(l.calls) = 1 THEN IF Head(l.phones) \in w.dnd THEN "dnd" ELSE s
        ELSE IF AllReject(w, x) THEN "dnd" ELSE "onhook"

----------------------------------------------------------------------------
(* Events *)

\* A ghost: two events of one line are handled at once
LinesOf(job) == {e.line : e \in Range(job.lines)} \cup {job.line, job.leaves}
Cross(w, t) ==
    LET others == UNION {LinesOf(w.working[o]) : o \in Threads \ {t}}
    IN  [w EXCEPT !.line = [x \in HintLines |->
           [w.line[x] EXCEPT !.crossed = @ \/ x \in others \cap LinesOf(w.working[t])]]]

\* _sccp_event_fire: to the pool, or at once
Fire(w, job) == [w EXCEPT !.waiting = Append(@, job)]
StatusEvent(x, s) == [Job("line") EXCEPT !.lines = <<[line |-> x, state |-> s]>>]

TakesUp(t) ==
    /\ working[t].at = "idle" /\ waiting # <<>>
    /\ Becomes(Cross([HintWorld EXCEPT !.working[t] = Head(waiting), !.waiting = Tail(@)], t))

----------------------------------------------------------------------------
(* A handler, step by step *)

Goto(w, t, at) ==
    [w EXCEPT !.working[t] = IF at = "done" THEN NoWork ELSE [@ EXCEPT !.at = at]]

\* A ghost: the phone's event is handled between the end of a call and the call's leaving the
\* line, or the end of a call while two that ended are still there
EndsMeet(x, state) ==
    /\ Contains(line[x].calls, "onhook")
    /\ \/ state \in {"dnd", "congestion"}
       \/ state = "onhook" /\ line[x].calls = <<"onhook", "onhook">>

\* sccp_hint_lineStatusChanged: nothing to do for a line that has no entry; an event that
\* attaches the line makes one first
HandleLine(t) ==
    LET job == working[t]
        now == Head(job.lines)
        x == now.line
        s == LineState(HintWorld, x, IF now.state = "attached" THEN "onhook" ELSE now.state)
        taken == [HintWorld EXCEPT !.working[t].lines = Tail(@)]
    IN  /\ job.at = "line" /\ job.lines # <<>>
        /\ IF shown[x] = "none" /\ now.state # "attached" THEN Becomes(taken)
           ELSE Becomes([taken EXCEPT
                  !.shown[x] = s,
                  !.line[x].crossed = @ \/ EndsMeet(x, now.state),
                  !.working[t] = [@ EXCEPT !.at = "hint", !.line = x, !.todo = Hints,
                                    !.class = DeviceState(s),
                                    !.named = s = "dnd" /\ Len(line[x].calls) <= 1]])
LinesHandled(t) ==
    /\ working[t].at = "line" /\ working[t].lines = <<>>
    /\ Becomes(Goto(HintWorld, t, IF working[t].leaves = "none" THEN "done" ELSE "leave"))

\* Lists are gone through in an order that stays
Some(S) == CHOOSE h \in S : TRUE

\* A ghost: the name changes while Asterisk still has to compute the hint or to call back, from the
\* states before, and will find the name of after
Renames(h, named) ==
    /\ hint[h].dnd # named
    /\ h \in pbx.dirty \/ (working["asterisk"].at = "call back" /\ working["asterisk"].hint = h)

\* sccp_hint_notifyLineStateUpdate, hint by hint: one that is in the same state of
\* Asterisk's already changes here, another when Asterisk says so
MSameForAsterisk(h, class) == TRUE
SameForAsterisk(h, class) == DeviceState(hint[h].state) = class
LookAtHint(t) ==
    LET job == working[t]
        x == job.line
        h == Some(job.todo)
        s == IF shown[x] = "none" THEN hint[h].state ELSE shown[x]
        looked == [HintWorld EXCEPT !.working[t].todo = @ \ {h}]
        named == [looked EXCEPT !.hint[h].dnd = job.named, !.line[x].crossed = @ \/ Renames(h, job.named)]
    IN  /\ job.at = "hint" /\ job.todo # {}
        /\ Becomes(IF ~hint[h].made \/ x \notin Covers[h] THEN looked
                  ELSE IF ~SameForAsterisk(h, job.class) THEN named
                  ELSE [named EXCEPT !.hint[h].state = s,
                          !.working[t] = [@ EXCEPT !.at = "tell", !.hint = h, !.next = "hint"]])

Telling(w, h, S, what(_)) ==
    [w EXCEPT !.told = [p \in Phones |-> IF p \in S THEN [w.told[p] EXCEPT ![h] = what(p)] ELSE w.told[p]]]

\* sccp_hint_notifySubscribers: what the state is by now
Tell(t) ==
    LET h == working[t].hint
    IN  /\ working[t].at = "tell" /\ h \in Hints
        /\ Becomes(Goto(Telling(HintWorld, h, subs[h], LAMBDA p : Shows(p, hint[h].state)),
                       t, working[t].next))

\* notifySubscriber of sccp_devstate.c, under no lock: the state is read, and then told, to the
\* phone that registers or to all
ReadCustom(t) ==
    LET c == working[t].hint
    IN  /\ working[t].at = "tell" /\ c \in Customs
        /\ Becomes([HintWorld EXCEPT !.working[t] = [@ EXCEPT !.at = "send", !.state = custom[c].state]])
TellCustom(t) ==
    LET c == working[t].hint
        S == IF t = "stasis" THEN subs[c] ELSE {working[t].phone}
    IN  /\ working[t].at = "send"
        /\ Becomes(Goto(Telling(HintWorld, c, S, LAMBDA p : working[t].state), t, working[t].next))

\* pbx_devstate_changed_literal
TellAsterisk(t) ==
    LET x == working[t].line
    IN  /\ working[t].at = "hint" /\ working[t].todo = {}
        /\ Becomes([HintWorld EXCEPT !.working[t] = [@ EXCEPT !.at = "line", !.line = "none"],
                                !.pbx.dev[x] = working[t].class,
                                !.pbx.dirty = @ \cup {h \in Hints : x \in Covers[h]}])

\* Asterisk's thread: the hint's state is computed, and sccp_hint_devstate_cb called when it
\* is another one
Compute(h) ==
    LET ext == Extension(HintWorld, h)
        done == [HintWorld EXCEPT !.pbx.dirty = @ \ {h}, !.pbx.last[h] = ext]
    IN  /\ h \in pbx.dirty /\ working["asterisk"].at = "idle"
        /\ Becomes(IF ext = pbx.last[h] \/ ~hint[h].made THEN done
                  ELSE [done EXCEPT !.working["asterisk"] =
                          [Job("call back") EXCEPT !.hint = h, !.state = ext]])
CallBack ==
    LET job == working["asterisk"]
        h == job.hint
    IN  /\ job.at = "call back"
        /\ Becomes([HintWorld EXCEPT !.hint[h].state = FromExtension(job.state, hint[h]),
                                !.working["asterisk"].at = "tell"])

\* sccp_hint_deviceRegistered and the listener of sccp_devstate.c, button by button.  A hint
\* that nobody had asked for is made, with Asterisk's state of it
MakeHint(w, h) ==
    IF w.hint[h].made THEN w
    ELSE [w EXCEPT !.hint[h] = [made |-> TRUE, dnd |-> FALSE,
                                state |-> FromExtension(Extension(w, h), w.hint[h])]]
MSubscribe(t) ==
    LET p == working[t].phone
        h == Some(working[t].todo)
        made == IF h \in Hints THEN MakeHint(HintWorld, h) ELSE [HintWorld EXCEPT !.custom[h].made = TRUE]
    IN  /\ working[t].at = "subscribe" /\ working[t].todo # {}
        /\ Becomes([made EXCEPT !.subs[h] = @ \cup {p},
                               !.working[t].todo = @ \ {h}])
Subscribe(t) ==
    LET p == working[t].phone
        h == Some(working[t].todo)
        made == IF h \in Hints THEN MakeHint(HintWorld, h) ELSE [HintWorld EXCEPT !.custom[h].made = TRUE]
    IN  /\ working[t].at = "subscribe" /\ working[t].todo # {}
        /\ Becomes([made EXCEPT !.subs[h] = @ \cup {p},
                               !.working[t] = [@ EXCEPT !.at = "tell", !.hint = h,
                                                 !.next = "subscribe",
                                                 !.todo = working[t].todo \ {h}]])
Subscribed(t) ==
    /\ working[t].at = "subscribe" /\ working[t].todo = {}
    /\ Becomes(Goto(HintWorld, t, "done"))

----------------------------------------------------------------------------
(* What happens to lines, calls, phones and custom states *)

MayChange == changed < MaxChanges
WithOneMore(w) == [w EXCEPT !.changed = @ + 1]
FirerFree == working["firer"].at = "idle"

\* sccp_linedevice_create
Attach(p, x) ==
    /\ MayChange /\ p \notin Range(line[x].phones)
    /\ Becomes(WithOneMore(Fire([HintWorld EXCEPT !.line[x].phones = <<p>> \o @],
                           StatusEvent(x, "attached"))))
\* sccp_linedevice_remove: the event is handled at once.  The entry of a line without phones
\* goes when the handler is done with it
Detach(p, x) ==
    /\ MayChange /\ FirerFree /\ Contains(line[x].phones, p)
    /\ Becomes(WithOneMore(Cross([HintWorld EXCEPT !.line[x].phones = Remove(@, p),
                                          !.working["firer"] =
                                             [StatusEvent(x, "congestion") EXCEPT !.leaves = x]],
                            "firer")))
LeaveLine ==
    LET x == working["firer"].leaves
        w == Goto(HintWorld, "firer", "done")
    IN  /\ working["firer"].at = "leave"
        /\ Becomes(IF line[x].phones # <<>> THEN w ELSE [w EXCEPT !.shown[x] = "none"])

\* __sccp_indicate: a call of the line changes; its end is told before it leaves the line
Changed(w, x, s) == WithOneMore(Fire(w, StatusEvent(x, s)))
Ring(x, s) ==
    /\ MayChange /\ Len(line[x].calls) < 2 /\ line[x].phones # <<>>
    /\ Becomes(Changed([HintWorld EXCEPT !.line[x].calls = Append(@, s)], x, s))
CallChanges(x, i, s) ==
    /\ MayChange /\ i \in DOMAIN line[x].calls /\ line[x].calls[i] \notin {s, "onhook"}
    /\ Becomes(Changed([HintWorld EXCEPT !.line[x].calls[i] = s], x, s))
CallLeaves(x, i) ==
    /\ i \in DOMAIN line[x].calls /\ line[x].calls[i] = "onhook"
    /\ Becomes([HintWorld EXCEPT !.line[x].calls = RemoveAt(@, i)])

\* sccp_feat_changed for DND: every line of the phone's buttons
MDndChanges(p) ==
    /\ MayChange /\ p \in registered
    /\ Becomes(WithOneMore([HintWorld EXCEPT !.dnd = IF p \in dnd THEN @ \ {p} ELSE @ \cup {p}]))
DndChanges(p) ==
    /\ MayChange /\ p \in registered
    /\ Becomes(WithOneMore(Fire([HintWorld EXCEPT !.dnd = IF p \in dnd THEN @ \ {p} ELSE @ \cup {p}],
                           [Job("line") EXCEPT !.lines =
                              SetToSeq({[line |-> x, state |-> "dnd"] :
                                        x \in {y \in HintLines : Contains(line[y].phones, p)}})])))

RegisterPhone(p) ==
    /\ MayChange /\ p \notin registered
    /\ Becomes(WithOneMore(Fire([HintWorld EXCEPT !.registered = @ \cup {p},
                                         !.told[p] = [h \in Everyone |-> "nothing"]],
                           [Job("subscribe") EXCEPT !.phone = p, !.todo = Wants[p]])))
\* sccp_hint_deviceUnRegistered, at once
UnregisterPhone(p) ==
    /\ MayChange /\ p \in registered
    /\ Becomes(WithOneMore([HintWorld EXCEPT !.registered = @ \ {p},
                         !.subs = [h \in Everyone |-> subs[h] \ {p}]]))

\* changed_cb: Asterisk has a message about a custom state
CustomChanges(c, s) ==
    /\ MayChange /\ custom[c].made /\ working["stasis"].at = "idle"
    /\ Becomes(WithOneMore([HintWorld EXCEPT !.custom[c].state = s,
                                    !.custom[c].crossed = @ \/
                                        \E t \in HintPool : working[t].at = "send" /\ working[t].hint = c,
                                    !.working["stasis"] = [Job("tell") EXCEPT !.hint = c]]))

Handles(t) ==
    \/ HandleLine(t) \/ LinesHandled(t) \/ LookAtHint(t) \/ Tell(t) \/ ReadCustom(t) \/ TellCustom(t)
    \/ TellAsterisk(t)
    \/ Subscribe(t) \/ Subscribed(t)
HintsNext ==
    \/ \E t \in HintPool : TakesUp(t)
    \/ \E t \in Threads : Handles(t)
    \/ \E h \in Hints : Compute(h)
    \/ CallBack \/ LeaveLine
    \/ \E p \in Phones : RegisterPhone(p) \/ UnregisterPhone(p) \/ DndChanges(p)
    \/ \E p \in Phones, x \in HintLines : Attach(p, x) \/ Detach(p, x)
    \/ \E x \in HintLines :
        \/ \E s \in CallStates : Ring(x, s)
        \/ \E i \in 1..2, s \in CallStates \cup {"onhook"} : CallChanges(x, i, s)
        \/ \E i \in 1..2 : CallLeaves(x, i)
    \/ \E c \in Customs, s \in CustomStates : CustomChanges(c, s)
----------------------------------------------------------------------------
(* Properties *)

Rest == waiting = <<>> /\ pbx.dirty = {} /\ \A t \in Threads : working[t].at = "idle"

\* Whatever threads wrote a hint or a custom state, and in whatever order they told the
\* phones: once they are done, every subscriber shows the state it has, but for a custom state
\* that changed while a phone that registers was told of it
\* (sccp_hint_notifySubscribers, sccp_hint_devstate_cb, sccp_hint_addSubscription4Device,
\* changed_cb).
SubscribersTold ==
    Rest =>
        /\ \A h \in Hints : \A p \in subs[h] : told[p][h] = Shows(p, hint[h].state)
        /\ \A c \in Customs : \A p \in subs[c] :
              ~custom[c].crossed => told[p][c] = custom[c].state

\* A hint is in the state that Asterisk computes from the states of its lines, though some
\* of its changes come from a line and others from Asterisk, as long as no two events of
\* one line are handled at once and a line does not name a hint that Asterisk is still
\* computing (sccp_hint_notifyLineStateUpdate, sccp_hint_devstate_cb).
Ringing(s) == IF s = "RINGINUSE" THEN "RINGING" ELSE s
HintFollowsLines ==
    Rest => \A h \in Hints :
              hint[h].made /\ (\A x \in Covers[h] : ~line[x].crossed)
                => /\ Ringing(DeviceState(hint[h].state)) = Ringing(Extension(HintWorld, h))
                   /\ \A x \in Covers[h] : shown[x] # "none" => pbx.dev[x] = DeviceState(shown[x])

\* A line without calls is shown as idle, or as DND when all of its phones reject calls;
\* no event of a call or a phone leaves it otherwise, but for those that cross and for two
\* calls that end together
\* (sccp_hint_updateLineStateForSingleChannel, sccp_hint_checkForDND).
IdleIsShown ==
    Rest => \A x \in HintLines :
              shown[x] # "none" /\ line[x].calls = <<>> /\ line[x].phones # <<>>
                /\ ~line[x].crossed
                => /\ AllReject(HintWorld, x) => shown[x] = "dnd"
                   /\ Range(line[x].phones) \cap dnd = {} => shown[x] = "onhook"
=============================================================================
