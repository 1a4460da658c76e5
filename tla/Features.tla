------------------------------ MODULE Features ------------------------------
(***************************************************************************)
(* The features of a phone: do not disturb, privacy, monitoring and call    *)
(* forwards (sccp_feature.c, sccp_featureButton.c, sccp_softkeys.c), what   *)
(* Asterisk's database keeps of them (sccp_utils.c) and what the phone      *)
(* shows: the lamps of its feature buttons, and the prompt, which is the    *)
(* message of the highest priority of a stack (sccp_device.c).              *)
(*                                                                         *)
(* Keys, buttons and the console change the status of a feature and fire    *)
(* an event.  Threads of the pool take it from there, one for the display   *)
(* and one for the database, and neither keeps the status from changing:    *)
(* both read it as it is by then.  The database outlives the phone's        *)
(* connection and the module; a phone that registers gets its features back *)
(* from it.  The module is about one phone and its lines.                   *)
(***************************************************************************)
EXTENDS Naturals, Sequences, FiniteSets, SequencesExt

CONSTANTS
    Lines,      \* the phone's lines
    Types,      \* the forwards of a line there are
    Number,     \* the number that is entered
    Elsewhere,  \* the number of the phone's button for forwarding
    Buttons,    \* the phone's feature buttons, by feature and option
    Mode,       \* dndmode of the phone and of its lines
    Blinks,     \* whether the protocol is above 15
    Text,       \* the system message
    Pool,       \* threads of the pool
    MaxSteps    \* bound: changes of features, calls and registrations

ASSUME FeaturesAssumption ==
    /\ Types \subseteq {"all", "busy", "noanswer"} /\ Types # {}
    /\ Buttons \subseteq {"forward", "dnd", "busy", "silent", "callpresent", "monitor"}
    /\ Mode \in [Lines \cup {"phone"} -> {"off", "reject", "silent"}]
    /\ "off" \notin {Number, Elsewhere} /\ Blinks \in BOOLEAN /\ MaxSteps \in Nat

VARIABLES
    status,    \* [dnd, privacy, monitor] of the phone, the latter two sets of flags
    previous,  \* previousStatus: the status that was stored last
    cfwd,      \* the forwards of the line devices: a number or "off"
    button,    \* the feature buttons: [status, told]
    forwards,  \* the forwards the phone was told of, by line
    stack,     \* the messages, by priority
    prompt,    \* the message that is shown
    call,      \* the phone's call: [state, private]
    asks,      \* the call that a number to forward to is entered in: [line, type, private]
    up,        \* whether the phone is registered
    db,        \* Asterisk's database
    queue,     \* jobs of the pool that wait
    running,   \* jobs that run
    chosen,    \* ghost: what was last chosen: [dnd, cfwd]
    crossed,   \* ghost: features and lines two of whose changes met, see Touch, Take and Register
    steps      \* changes so far

featureVars ==
    <<status, previous, cfwd, button, forwards, stack, prompt, call, asks, up, db, queue, running,
      chosen, crossed, steps>>
World ==
    [status |-> status, previous |-> previous, cfwd |-> cfwd, button |-> button,
     forwards |-> forwards, stack |-> stack, prompt |-> prompt, call |-> call, asks |-> asks, up |-> up,
     db |-> db, queue |-> queue, running |-> running, chosen |-> chosen, crossed |-> crossed,
     steps |-> steps]
Become(w) ==
    /\ status' = w.status /\ previous' = w.previous /\ cfwd' = w.cfwd /\ button' = w.button
    /\ forwards' = w.forwards /\ stack' = w.stack /\ prompt' = w.prompt /\ call' = w.call /\ asks' = w.asks
    /\ up' = w.up /\ db' = w.db /\ queue' = w.queue /\ running' = w.running
    /\ chosen' = w.chosen /\ crossed' = w.crossed /\ steps' = w.steps

\* message_priority, the lowest first; the stack holds the text, and for the forwards the line
Priorities == <<"idle", "monitor", "privacy", "dnd", "cfwd">>
NoMessage == <<>>
NotForwarded == [t \in Types |-> "off"]
Off == [dnd |-> "off", privacy |-> {}, monitor |-> {}]
NoCall == [line |-> "none", type |-> "none", private |-> FALSE]
NoJob == [kind |-> "none", feature |-> "none", line |-> "none", at |-> "idle",
          read |-> NoMessage, of |-> NoMessage]

\* What is new with the module
Fresh(w) ==
    [w EXCEPT !.status = Off, !.previous = Off, !.cfwd = [x \in Lines |-> NotForwarded],
              !.button = [b \in Buttons |-> [status |-> "off", told |-> "unknown"]],
              !.forwards = [x \in Lines |-> <<>>],
              !.stack = [i \in 1..Len(Priorities) |-> NoMessage], !.prompt = NoMessage,
              !.call = [state |-> "none", private |-> FALSE], !.asks = NoCall, !.up = FALSE, !.queue = <<>>, !.running = [t \in Pool |-> NoJob]]

----------------------------------------------------------------------------
(* The display *)

At(priority) == CHOOSE i \in DOMAIN Priorities : Priorities[i] = priority

\* sccp_dev_check_displayprompt
Prompted(w) ==
    LET set == {i \in DOMAIN Priorities : w.stack[i] # NoMessage}
    IN  IF ~w.up THEN w
        ELSE [w EXCEPT !.prompt =
                IF set = {} THEN NoMessage
                ELSE w.stack[CHOOSE i \in set : \A j \in set : i >= j]]
AddMessage(w, priority, text) == Prompted([w EXCEPT !.stack[At(priority)] = text])
MClearMessage(w, priority) == [w EXCEPT !.stack[At(priority)] = NoMessage]
ClearMessage(w, priority) ==
    IF w.stack[At(priority)] = NoMessage THEN w
    ELSE Prompted([w EXCEPT !.stack[At(priority)] = NoMessage])

\* sccp_featButton_changed: the lamp of a button
FeatureOf(b) ==
    CASE b = "forward" -> "all" [] b = "callpresent" -> "privacy" [] b = "monitor" -> "monitor"
      [] OTHER -> "dnd"
OnOff(on) == IF on THEN "on" ELSE "off"
Lamp(w, b) ==
    CASE b = "forward" -> OnOff(w.up /\ \A x \in Lines : w.cfwd[x]["all"] # "off")
      [] b = "callpresent" -> OnOff("callpresent" \in w.status.privacy)
      [] b = "busy" -> OnOff(w.status.dnd = "reject")
      [] b = "silent" -> OnOff(w.status.dnd = "silent")
      [] b = "dnd" -> IF Blinks THEN w.status.dnd ELSE OnOff(w.status.dnd # "off")
      [] OTHER -> IF ~Blinks THEN OnOff(w.status.monitor # {})
                  ELSE CASE w.status.monitor = {} -> "off"
                         [] w.status.monitor = {"requested"} -> "requested"
                         [] w.status.monitor = {"active"} -> "recording"
                         [] OTHER -> "recording, requested"
ButtonChanged(w, feature) ==
    [w EXCEPT !.button = [b \in Buttons |->
        IF FeatureOf(b) # feature THEN @[b]
        ELSE [status |-> Lamp(w, b), told |-> IF w.up THEN Lamp(w, b) ELSE @[b].told]]]

----------------------------------------------------------------------------
(* Changes *)

\* A ghost: a change meets a job that has read the old status and not yet done with it
Key(job) == IF job.line = "none" THEN job.feature ELSE job.line
Touch(w, key) ==
    IF \E t \in Pool : Key(w.running[t]) = key /\ w.running[t].at = "write"
    THEN [w EXCEPT !.crossed = @ \cup {key}] ELSE w

\* sccp_feat_changed: the buttons at once, the display and the database later
FeatChanged(w, feature, x) ==
    LET job(kind) == [NoJob EXCEPT !.kind = kind, !.feature = feature, !.line = x, !.at = "start"]
    IN  [ButtonChanged(w, feature) EXCEPT !.queue = @ \o <<job("display"), job("store")>>]

\* sccp_dev_forward_status
ForwardStatus(w, x) == IF w.up THEN [w EXCEPT !.forwards[x] = w.cfwd[x]] ELSE w

\* sccp_linedevice_cfwd: "none" clears all
Forwarded(w, x, type, number) ==
    LET now == [Touch(w, x) EXCEPT
                  !.cfwd[x] = IF type = "none" THEN NotForwarded ELSE [@ EXCEPT ![type] = number],
                  !.chosen.cfwd[x] = IF type = "none" THEN NotForwarded ELSE [@ EXCEPT ![type] = number]]
    IN  ForwardStatus(FeatChanged(now, type, x), x)

DndSet(w, s) == [Touch(w, "dnd") EXCEPT !.status.dnd = s, !.chosen.dnd = s]
DndNext(s) == CASE s = "off" -> "reject" [] s = "reject" -> "silent" [] OTHER -> "off"

\* sccp_feat_monitor: without a call, asked for or not; with one, Asterisk starts or stops, and
\* says so before it answers, or fails
Monitored(w, of) ==
    FeatChanged([Touch(w, "monitor") EXCEPT !.status.monitor = of], "monitor", "none")
FeatMonitor(w, ok) ==
    LET now == w.status.monitor
        other(flag) == IF flag \in now THEN now \ {flag} ELSE now \cup {flag}
    IN  IF w.call.state # "up"
        THEN [Touch(w, "monitor") EXCEPT !.status.monitor = other("requested")]
        ELSE IF ok THEN Monitored(w, other("active"))
        ELSE [Touch(w, "monitor") EXCEPT !.status.monitor = {}]

\* The end of a call, any call: recording stops as far as the phone is concerned, and with a
\* private call the phone's privacy goes
Ended(w, private) ==
    LET stopped == IF "active" \in w.status.monitor
                   THEN Monitored(w, w.status.monitor \ {"active"}) ELSE w
        onhook == ClearMessage(stopped, "privacy")
    IN  IF ~private THEN onhook
        ELSE FeatChanged([Touch(onhook, "privacy") EXCEPT !.status.privacy = {}], "privacy", "none")

Happens == steps < MaxSteps
Counted(w) == [w EXCEPT !.steps = @ + 1]

\* sccp_sk_dnd: with a line its mode counts, without one the phone's
DndKey(of) ==
    /\ Happens /\ up
    /\ Become(Counted(Prompted(FeatChanged(
         DndSet(World, IF Mode[of] = "off" THEN DndNext(status.dnd)
                       ELSE IF status.dnd = "off" THEN Mode[of] ELSE "off"), "dnd", "none"))))

\* sccp_set_device: nothing is done when the status is so already.  A ghost: the phone has not
\* registered since the module was loaded, and what is taken to be stored is not
SetDnd(s) ==
    LET unknown == IF previous.dnd = db.dnd THEN {} ELSE {"dnd"}
    IN  /\ Happens /\ status.dnd # s
        /\ Become(Counted(Prompted(FeatChanged(
             DndSet([World EXCEPT !.crossed = @ \cup IF up THEN {} ELSE unknown], s), "dnd", "none"))))

\* handle_feature_action.  For the forwards the button is not looked at again: the loop over
\* the lines has used its variable
ForwardButton ==
    LET on == button["forward"].status = "off"
        pressed == [World EXCEPT !.button["forward"].status = OnOff(on)]
    IN  /\ Happens /\ up /\ "forward" \in Buttons
        /\ Become(Counted(FoldLeft(
             LAMBDA w, x : Forwarded(w, x, IF on THEN "all" ELSE "none", IF on THEN Elsewhere ELSE "off"),
             pressed, SetToSeq(Lines))))
DndButton(b) ==
    LET on == button[b].status = "off"
        s == CASE b = "silent" -> IF on THEN "silent" ELSE "off"
               [] b = "busy" -> IF on THEN "reject" ELSE "off"
               [] OTHER -> DndNext(status.dnd)
    IN  /\ Happens /\ up /\ b \in Buttons /\ FeatureOf(b) = "dnd"
        /\ Become(Counted(FeatChanged(Prompted(DndSet(World, s)), "dnd", "none")))
PrivacyButton ==
    LET flag == {"callpresent"}
    IN  /\ Happens /\ up /\ "callpresent" \in Buttons
        /\ Become(Counted(FeatChanged(
             [Touch(World, "privacy") EXCEPT !.status.privacy =
                IF flag \subseteq @ THEN @ \ flag ELSE @ \cup flag], "privacy", "none")))
MonitorButton(ok) ==
    /\ Happens /\ up /\ asks = NoCall /\ "monitor" \in Buttons
    /\ Become(Counted(FeatChanged(FeatMonitor(World, ok), "monitor", "none")))

\* sccp_sk_monitor: the change is not announced
MonitorKey(ok) ==
    /\ Happens /\ up /\ asks = NoCall
    /\ Become(Counted(FeatMonitor(World, ok)))

\* sccp_feat_handle_callforward: a call of its own, for which an established one is held; a
\* forward that is on goes with it at once, for another a number is asked for
ForwardKey(x, type) ==
    LET held == [World EXCEPT !.call.state = CASE @ = "up" -> "held" [] @ = "offhook" -> "none" [] OTHER -> @]
        private == call.state = "offhook" /\ call.private
        alone == IF private THEN [held EXCEPT !.call.private = FALSE] ELSE held
    IN  /\ Happens /\ up /\ asks = NoCall
        /\ IF cfwd[x][type] # "off" THEN Become(Counted(Ended(Forwarded(alone, x, type, "off"), private)))
           ELSE Become(Counted([alone EXCEPT !.asks = [line |-> x, type |-> type, private |-> private]]))

\* sccp_pbx_softswitch: the number, or none in time
NumberEntered ==
    LET over == [World EXCEPT !.asks = NoCall]
    IN  /\ asks # NoCall
        /\ \/ Become(Ended(Forwarded(over, asks.line, asks.type, Number), asks.private))
           \/ Become(Ended(over, asks.private))

\* sccp_set_line: the type, or "none"; without a number the type is cleared
SetForward(x, type, number) ==
    /\ Happens /\ up
    /\ Become(Counted(Forwarded(World, x, type, number)))

\* A call: answered, recorded when that was asked for; resumed; at its end
CallBegins(ok) ==
    LET begun == [World EXCEPT !.call.state = "up"]
    IN  /\ Happens /\ up /\ call.state \in {"none", "offhook"} /\ asks = NoCall
        /\ Become(Counted(IF status.monitor = {"requested"} THEN FeatMonitor(begun, ok) ELSE begun))
CallResumes ==
    /\ call.state = "held" /\ asks = NoCall
    /\ Become([World EXCEPT !.call.state = "up"])
CallEnds ==
    /\ call.state # "none"
    /\ Become(Ended([World EXCEPT !.call = [state |-> "none", private |-> FALSE]], call.private))

\* sccp_sk_private: of the call, or of a new one
PrivateKey ==
    LET now == [World EXCEPT !.call = [state |-> IF @.state = "none" THEN "offhook" ELSE @.state,
                                       private |-> ~@.private]]
    IN  /\ Happens /\ up /\ asks = NoCall
        /\ Become(Counted(IF call.private THEN ClearMessage(now, "privacy")
                          ELSE AddMessage(now, "privacy", <<"private">>)))

\* sccp_system_message
SystemMessage(timeout) ==
    LET stored == [World EXCEPT !.db.message = [text |-> Text, timeout |-> timeout]]
    IN  /\ Happens
        /\ Become(Counted(IF timeout THEN stored ELSE AddMessage(stored, "idle", <<Text>>)))
NoSystemMessage ==
    /\ Happens /\ db.message.text # "none"
    /\ Become(Counted(ClearMessage([World EXCEPT !.db.message = [text |-> "none", timeout |-> FALSE]], "idle")))

----------------------------------------------------------------------------
(* The jobs: each reads what has changed, and then does something about it *)

ReadForwards(job) == IF job.of # NoMessage THEN job.of ELSE cfwd[job.line]
SomeForward(of) == \E t \in Types : of[t] # "off"
Message(job) ==
    CASE job.feature = "dnd" -> IF status.dnd = "off" THEN NoMessage ELSE <<status.dnd>>
      [] job.feature \in {"privacy", "monitor", "none"} -> NoMessage
      [] job.line = "none" -> NoMessage
      [] OTHER -> IF SomeForward(ReadForwards(job)) THEN <<job.line, ReadForwards(job)>> ELSE NoMessage
Slot(feature) == IF feature \in {"dnd", "privacy", "monitor"} THEN feature ELSE "cfwd"

Done(w, t) == [w EXCEPT !.running[t] = NoJob]

\* sccp_device_featureChangedDisplay
Display(t) ==
    /\ running[t].kind = "display" /\ running[t].at = "start"
    /\ Become([World EXCEPT !.running[t] = [@ EXCEPT !.at = "write", !.read = Message(running[t])]])
Displayed(t) ==
    LET job == running[t]
        slot == Slot(job.feature)
    IN  /\ job.kind = "display" /\ job.at = "write"
        /\ Become(Done(CASE job.feature = "monitor" /\ status.monitor # {} -> World
                         [] job.read = NoMessage -> ClearMessage(World, slot)
                         [] OTHER -> AddMessage(World, slot, job.read), t))

\* sccp_util_featureStorageBackend: the status when it is not the one stored last; a forward
\* anew, without a forward only what was there goes
MStore(t) ==
    LET job == running[t]
        x == job.line
    IN  /\ job.kind = "store" /\ job.at = "start"
        /\ CASE x = "none" ->
                Become(IF job.feature \notin DOMAIN status THEN Done(World, t)
                       ELSE IF previous[job.feature] = status[job.feature] THEN Done(World, t)
                       ELSE [World EXCEPT !.running[t].at = "write",
                               !.db[job.feature] = IF job.feature # "monitor" THEN status[job.feature]
                                                   ELSE status.monitor \cap {"requested"}])
             [] job.feature = "none" ->
                Become(Done([World EXCEPT !.db.cfwd[x] = NotForwarded], t))
             [] OTHER ->
                LET removed == World
                IN  Become(IF ReadForwards(job)[job.feature] = "off" THEN Done(removed, t)
                           ELSE [removed EXCEPT !.running[t].at = "add"])
Store(t) ==
    LET job == running[t]
        x == job.line
    IN  /\ job.kind = "store" /\ job.at = "start"
        /\ CASE x = "none" ->
                Become(IF job.feature \notin DOMAIN status THEN Done(World, t)
                       ELSE IF previous[job.feature] = status[job.feature] THEN Done(World, t)
                       ELSE [World EXCEPT !.running[t].at = "write",
                               !.db[job.feature] = IF job.feature # "monitor" THEN status[job.feature]
                                                   ELSE status.monitor \cap {"requested"}])
             [] job.feature = "none" ->
                Become(Done([World EXCEPT !.db.cfwd[x] = NotForwarded], t))
             [] OTHER ->
                LET removed == [World EXCEPT !.db.cfwd[x][job.feature] = "off"]
                IN  Become(IF ReadForwards(job)[job.feature] = "off" THEN Done(removed, t)
                           ELSE [removed EXCEPT !.running[t].at = "add"])
Stored(t) ==
    LET job == running[t]
    IN  /\ job.kind = "store" /\ job.at \in {"write", "add"}
        /\ Become(Done(IF job.at = "write" THEN [World EXCEPT !.previous[job.feature] = status[job.feature]]
                       ELSE [World EXCEPT !.db.cfwd[job.line][job.feature] = ReadForwards(job)[job.feature]], t))

\* Jobs are taken in turn.  A ghost: one of a line meets one that clears all its forwards
Take(t) ==
    LET job == Head(queue)
        clears == \E o \in Pool : running[o].kind = "store" /\ running[o].feature = "none"
                                  /\ running[o].line = job.line
    IN  /\ running[t] = NoJob /\ queue # <<>>
        /\ Become([World EXCEPT !.running[t] = job, !.queue = Tail(@),
                                !.crossed = @ \cup IF clears /\ job.kind = "store" THEN {job.line} ELSE {}])

----------------------------------------------------------------------------
(* The phone comes and goes, and so does the module *)

Pending == {Key(job) : job \in Range(queue) \cup {running[t] : t \in Pool}} \ {"none"}

Register ==
    LET new == [World EXCEPT !.up = TRUE, !.steps = @ + 1, !.crossed = @ \cup Pending,
                             !.cfwd = db.cfwd]
        stored == SetToSeq({xt \in Lines \X Types : db.cfwd[xt[1]][xt[2]] # "off"})
        forwarded == FoldLeft(LAMBDA w, xt : FeatChanged(Touch(w, xt[1]), xt[2], xt[1]), new, stored)
        \* sccp_dev_set_message
        messaged == IF db.message.text = "none" \/ db.message.timeout THEN forwarded
                    ELSE AddMessage(forwarded, "idle", <<db.message.text>>)
        dnd == IF db.dnd = "off" THEN messaged
               ELSE FeatChanged([Touch(messaged, "dnd") EXCEPT !.status.dnd = db.dnd], "dnd", "none")
        private == IF db.privacy = {} THEN dnd
                   ELSE FeatChanged([Touch(dnd, "privacy") EXCEPT !.status.privacy = db.privacy], "privacy", "none")
        monitored == IF "requested" \notin db.monitor THEN private
                     ELSE FeatChanged(FeatMonitor(private, TRUE), "monitor", "none")
    IN  /\ ~up /\ Happens
        /\ Become(Prompted(monitored))

\* The connection ends: with it the calls, and the line devices, but for the jobs about them
Unregister ==
    LET kept(job) == IF job.line \in Lines /\ job.of = NoMessage
                     THEN [job EXCEPT !.of = cfwd[job.line]] ELSE job
    IN  /\ Happens /\ up /\ call.state = "none" /\ asks = NoCall
        /\ Become([World EXCEPT !.up = FALSE, !.steps = @ + 1,
                     !.cfwd = [x \in Lines |-> NotForwarded], !.prompt = NoMessage,
                     !.forwards = [x \in Lines |-> NotForwarded],
                     !.button = [b \in Buttons |-> [@[b] EXCEPT !.told = "unknown"]],
                     !.queue = [i \in DOMAIN @ |-> kept(@[i])],
                     !.running = [t \in Pool |-> kept(@[t])]])

\* Asterisk stops or dies: what is not stored by then is lost
Restart ==
    /\ Happens
    /\ Become([Fresh(World) EXCEPT !.steps = @ + 1, !.crossed = @ \cup Pending])

\* handle_feature_stat_req, handle_forward_stat_req: the phone asks
AsksFeature(b) ==
    /\ up /\ b \in Buttons /\ button[b].told = "unknown" /\ Happens
    /\ Become(Counted(FeatChanged(World, FeatureOf(b), "none")))
AsksForwards(x) ==
    /\ up /\ forwards[x] # cfwd[x]
    /\ Become(ForwardStatus(World, x))

----------------------------------------------------------------------------
FeaturesInit ==
    /\ status = Off /\ previous = Off /\ cfwd = [x \in Lines |-> NotForwarded]
    /\ button = [b \in Buttons |-> [status |-> "off", told |-> "off"]]
    /\ forwards = cfwd /\ stack = [i \in 1..Len(Priorities) |-> NoMessage] /\ prompt = NoMessage
    /\ call = [state |-> "none", private |-> FALSE] /\ asks = NoCall /\ up = TRUE
    /\ db = [dnd |-> "off", privacy |-> {}, monitor |-> {}, cfwd |-> cfwd,
             message |-> [text |-> "none", timeout |-> FALSE]]
    /\ queue = <<>> /\ running = [t \in Pool |-> NoJob]
    /\ chosen = [dnd |-> "off", cfwd |-> cfwd] /\ crossed = {} /\ steps = 0

FeaturesNext ==
    \/ \E of \in Lines \cup {"phone"} : DndKey(of)
    \/ \E s \in {"off", "reject", "silent"} : SetDnd(s)
    \/ ForwardButton \/ PrivacyButton \/ PrivateKey
    \/ \E b \in Buttons : DndButton(b) \/ AsksFeature(b)
    \/ \E ok \in BOOLEAN : MonitorButton(ok) \/ MonitorKey(ok) \/ CallBegins(ok)
    \/ \E x \in Lines, type \in Types : ForwardKey(x, type)
    \/ \E x \in Lines, type \in Types, number \in {Number, "off"} : SetForward(x, type, number)
    \/ \E x \in Lines : SetForward(x, "none", "off") \/ AsksForwards(x)
    \/ NumberEntered \/ CallResumes \/ CallEnds
    \/ \E timeout \in BOOLEAN : SystemMessage(timeout)
    \/ NoSystemMessage
    \/ \E t \in Pool : Take(t) \/ Display(t) \/ Displayed(t) \/ Store(t) \/ Stored(t)
    \/ Register \/ Unregister \/ Restart

----------------------------------------------------------------------------
(* Properties *)

Quiet == queue = <<>> /\ \A t \in Pool : running[t] = NoJob

\* Once the jobs are done, the database has what was last chosen of do not disturb and of every
\* line's forwards, whichever thread stored which change first and whatever the phone did
\* meanwhile; but for a change that came between a thread's reading and its remembering, and for
\* what was not stored when the phone registered or the module stopped.
\* (sccp_util_featureStorageBackend)
ChoicesStored ==
    Quiet => /\ "dnd" \notin crossed => db.dnd = chosen.dnd
             /\ \A x \in Lines \ crossed : db.cfwd[x] = chosen.cfwd[x]

\* A registered phone that has been told everything shows the message of the highest priority;
\* there is one of do not disturb exactly when it is on, and it says how; and if there is one of
\* a forward, that line forwards so.  (sccp_device_featureChangedDisplay)
ShownIsTrue ==
    up /\ Quiet =>
        /\ "dnd" \notin crossed =>
             stack[At("dnd")] = IF status.dnd = "off" THEN NoMessage ELSE <<status.dnd>>
        /\ LET m == stack[At("cfwd")]
           IN  m # NoMessage /\ m[1] \notin crossed => m[2] = cfwd[m[1]] /\ SomeForward(m[2])
        /\ prompt = NoMessage <=> \A i \in DOMAIN stack : stack[i] = NoMessage
        /\ \A i \in DOMAIN stack : stack[i] # NoMessage =>
             prompt = stack[i] \/ \E j \in DOMAIN stack : j > i /\ stack[j] # NoMessage
=============================================================================
