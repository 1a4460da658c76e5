------------------------------- MODULE Devices -------------------------------
(***************************************************************************)
(* Phones and lines: a phone registers, asks for its button template and   *)
(* is attached to the lines of its buttons (sccp_actions.c,                *)
(* sccp_linedevice.c); the configuration is read again, one section at a   *)
(* time, while phones register and are on calls (sccp_config.c,            *)
(* sccp_line.c); phones whose settings changed are taken down and restart, *)
(* at once or when their calls have ended (sccp_device.c).                 *)
(*                                                                         *)
(* Three kinds of threads meet here: the thread of each phone's session,   *)
(* one manager (the reload, or a command of the console) and the calls.    *)
(* A thread holds the lock of a phone's list of buttons while it attaches  *)
(* its lines and while it takes them down; everything else interleaves.    *)
(***************************************************************************)
EXTENDS Integers, Sequences, FiniteSets, SequencesExt

CONSTANTS
    Phones,        \* the phones (Devices in sccp.conf)
    Lines,         \* the lines
    NoLine,        \* no line
    NoPhone,       \* no phone
    Manager,       \* the thread of the reload and of the console
    Files,         \* what sccp.conf may say: [buttons, settings, lines], see FileType
    Order,         \* in which order the phones and lines are listed, in sccp.conf as in memory
    Realtime,      \* the phones that come from a database
    MaxChanges,    \* bound: reloads and commands of the console
    MaxConnects    \* bound: connections of each phone

\* buttons[p]: what the phone's buttons are, NoLine for one that is no line;
\* settings[p], lines[x]: the version of a section, 0 where there is none
FileType ==
    [buttons : [Phones -> Seq(Lines \cup {NoLine})], settings : [Phones -> Nat],
     lines : [Lines -> Nat]]

ASSUME DevicesAssumption ==
    /\ Files \subseteq FileType /\ Range(Order) = Phones \cup Lines /\ Realtime \subseteq Phones
    /\ NoLine \notin Lines /\ Manager \notin Phones /\ Phones \cap Lines = {}
    /\ MaxChanges \in Nat /\ MaxConnects \in Nat

VARIABLES
    phone,   \* the devices
    conn,    \* the thread of each phone's session
    line,    \* the lines
    calls,   \* the calls: pairs of a phone and a line
    mgr,     \* the manager: [op, file, todo]
    clean,   \* _sccp_dev_clean, by the thread that runs it: [phone, remove, at]
    count    \* [changes, connects]

vars == <<phone, conn, line, calls, mgr, clean, count>>
World == [phone |-> phone, conn |-> conn, line |-> line, calls |-> calls, mgr |-> mgr,
          clean |-> clean, count |-> count]
Become(w) ==
    /\ phone' = w.phone /\ conn' = w.conn /\ line' = w.line /\ calls' = w.calls
    /\ mgr' = w.mgr /\ clean' = w.clean /\ count' = w.count

Threads == Phones \cup {Manager}
NoClean == [phone |-> NoPhone, remove |-> FALSE, at |-> "no"]

\* idx: its place in the section; inst: its instance on the phone, 0 while it has none
Button(x, idx) == [line |-> x, idx |-> idx, gone |-> FALSE, inst |-> 0]
Buttons(s) == [i \in DOMAIN s |-> Button(s[i], i)]
\* known: the device is in the list of devices; update, delete: pendingUpdate,
\* pendingDelete; template: buttonTemplate, its keys [line, inst]; array: lineButtons,
\* the lines it points at; lines: linesRegistered; version: of the section that was read;
\* crossed: what a clean of the device took down another thread was just building, or nobody
\* took down
NewPhone ==
    [known |-> FALSE, reg |-> "NONE", session |-> FALSE, update |-> FALSE, delete |-> FALSE,
     buttons |-> <<>>, built |-> FALSE, template |-> <<>>, array |-> {}, lines |-> FALSE,
     version |-> 0, crossed |-> FALSE]
\* told: the phone was told to restart
NoThread ==
    [at |-> "none", stop |-> FALSE, bound |-> FALSE, told |-> FALSE, i |-> 1, keys |-> <<>>]
\* devices: who is attached: a phone's own thread attaches it, once, with its buttons locked
NewLine ==
    [known |-> FALSE, update |-> FALSE, delete |-> FALSE, devices |-> {}, version |-> 0]

\* What is read when the module is loaded.
Loaded(f) ==
    [phone |-> [p \in Phones |->
                  [NewPhone EXCEPT !.known = f.settings[p] > 0, !.version = f.settings[p],
                                   !.buttons = Buttons(f.buttons[p])]],
     conn |-> [p \in Phones |-> NoThread],
     line |-> [x \in Lines |-> [NewLine EXCEPT !.known = f.lines[x] > 0,
                                                   !.version = f.lines[x]]],
     calls |-> {}, mgr |-> [op |-> "idle", file |-> f, todo |-> {}],
     clean |-> [t \in Threads |-> NoClean],
     count |-> [changes |-> 0, connects |-> [p \in Phones |-> 0]]]

StartFrom(w) ==
    /\ phone = w.phone /\ conn = w.conn /\ line = w.line /\ calls = w.calls
    /\ mgr = w.mgr /\ clean = w.clean /\ count = w.count
Init == \E f \in Files : StartFrom(Loaded(f))

----------------------------------------------------------------------------
(* Helpers *)

Reloading == mgr.op \in {"read", "lines", "devices", "reload device"}
\* The list of the phone's buttons is locked while its template is made
Building(w, p) == w.conn[p].at \in {"template", "attach"}
Attached(w, p) == {x \in Lines : p \in w.line[x].devices}
OnCall(w, p) == \E x \in Lines : <<p, x>> \in w.calls

\* sccp_device_numberOfChannels looks at the lines of the buttons
NumberOfChannels(w, p) ==
    Cardinality({c \in w.calls : c[1] = p /\ w.line[c[2]].known
                                 /\ \E b \in Range(w.phone[p].buttons) : b.line = c[2]})

EndCalls(w, gone) == [w EXCEPT !.calls = @ \ gone]
Detach(l, p) == [l EXCEPT !.devices = @ \ {p}]
\* __sccp_session_stopthread
Stop(w, p, state) ==
    [w EXCEPT !.conn[p].stop = TRUE,
              !.phone[p].reg = IF w.conn[p].bound THEN state ELSE @]

----------------------------------------------------------------------------
(* _sccp_dev_clean, by thread t: the session's own at its end, one that finds *)
(* an update pending, or the manager                                          *)

CleanBegin(w, t, p, remove) ==
    [w EXCEPT !.phone[p] = [@ EXCEPT
                  !.reg = "CLEANING", !.known = w.phone[p].known /\ ~remove, !.lines = FALSE,
                  !.crossed = \/ w.conn[p].at \in {"register", "template", "attach", "array"}
                              \/ \E o \in Threads : w.clean[o].phone = p],
              !.clean[t] = [phone |-> p, remove |-> remove, at |-> "lines"]]

Keep(s) ==
    LET kept[i \in 0..Len(s)] ==
            IF i = 0 THEN <<>> ELSE IF s[i].gone THEN kept[i - 1] ELSE Append(kept[i - 1], s[i])
    IN  kept[Len(s)]
Unplaced(s) == [i \in DOMAIN s |-> [s[i] EXCEPT !.inst = 0]]
MLinesTakenDown(w, p) == {b.line : b \in Range(Keep(w.phone[p].buttons))} \ {NoLine}
LinesTakenDown(w, p) == {b.line : b \in Range(w.phone[p].buttons)} \ {NoLine}

\* The calls of the phone end and it is detached, line by line
TakeDown(w, p) ==
    LET found == {x \in LinesTakenDown(w, p) : w.line[x].known}
    IN  [w EXCEPT !.calls = @ \ {<<p, x>> : x \in found},
                  !.line = [x \in Lines |-> IF x \in found THEN Detach(w.line[x], p)
                                           ELSE w.line[x]],
                  !.phone[p].buttons = Unplaced(Keep(@))]

CleanLines(t) ==
    LET c == clean[t]
    IN  /\ c.at = "lines" /\ ~Building(World, c.phone)
        /\ Become([TakeDown(World, c.phone) EXCEPT !.clean[t].at = "template"])

CleanTemplate(t) ==
    /\ clean[t].at = "template"
    /\ Become([World EXCEPT !.clean[t].at = "session",
                            !.phone[clean[t].phone] = [@ EXCEPT !.built = FALSE, !.template = <<>>,
                                                               !.array = {}]])

\* The session lets go of the device and is told to stop; a session's thread that
\* cleaned up at its end is done
CleanSession(t) ==
    LET p == clean[t].phone
        freed == IF phone[p].session
                 THEN [World EXCEPT !.phone[p].session = FALSE, !.conn[p].bound = FALSE,
                                    !.conn[p].stop = TRUE]
                 ELSE World
        done == [freed EXCEPT !.phone[p].reg = "NONE", !.clean[t] = NoClean]
    IN  /\ clean[t].at = "session"
        /\ Become(IF t = p /\ conn[p].at = "exit" THEN [done EXCEPT !.conn[p] = NoThread] ELSE done)

\* sccp_device_check_update, when the device is pending
MCheckUpdate(w, t, p) == CleanBegin(w, t, p, w.phone[p].delete)
CheckUpdate(w, t, p) ==
    IF NumberOfChannels(w, p) > 0 THEN w
    ELSE CleanBegin([w EXCEPT !.phone[p].update = FALSE], t, p, w.phone[p].delete)

----------------------------------------------------------------------------
(* The session's thread *)

Loops(p) == conn[p].at = "loop" /\ ~conn[p].stop /\ clean[p].at = "no"

Connect(p) ==
    /\ conn[p].at = "none" /\ count.connects[p] < MaxConnects
    /\ Become([World EXCEPT !.conn[p].at = "loop", !.count.connects[p] = @ + 1])

\* handle_register finds the device: a device that is registered already is refused,
\* and so is its new session
RegisterBegin(p) ==
    /\ Loops(p)
    /\ Become(
        IF Reloading \/ ~phone[p].known THEN Stop(World, p, "FAILED")
        ELSE IF phone[p].reg \in {"PROGRESS", "OK"}
        THEN [Stop(World, p, "FAILED") EXCEPT
                !.phone[p] = [@ EXCEPT !.reg = "FAILED", !.session = FALSE, !.crossed = TRUE]]
        ELSE [World EXCEPT !.conn[p].at = "register"])

RegisterEnd(p) ==
    /\ conn[p].at = "register"
    /\ Become([World EXCEPT !.conn[p] = [@ EXCEPT !.at = "loop", !.bound = TRUE],
                            !.phone[p] = [@ EXCEPT !.session = TRUE, !.lines = FALSE,
                                                   !.reg = "PROGRESS",
                                                   !.crossed = \/ phone[p].crossed
                                                               \/ \E t \in Threads :
                                                                    clean[t].phone = p]])

\* The template is built once per registration
ButtonTemplateReq(p) ==
    /\ Loops(p) /\ conn[p].bound
    /\ IF phone[p].reg \notin {"PROGRESS", "OK"} THEN Become(Stop(World, p, "FAILED"))
       ELSE /\ ~phone[p].built /\ \A t \in Threads : ~(clean[t].phone = p /\ clean[t].at = "lines")
            /\ Become([World EXCEPT !.conn[p] = [@ EXCEPT !.at = "template", !.i = 1,
                                                          !.keys = <<>>]])

\* sccp_make_button_template, button by button: the line is looked up
NextInstance(p) == 1 + Cardinality({j \in DOMAIN conn[p].keys : conn[p].keys[j].line # NoLine})
PlaceButton(p) ==
    LET btn == phone[p].buttons[conn[p].i]
    IN  /\ conn[p].at = "template" /\ conn[p].i <= Len(phone[p].buttons)
        /\ Become(IF btn.inst = 0 /\ btn.line # NoLine /\ line[btn.line].known
                  THEN [World EXCEPT !.conn[p].at = "attach"]
                  ELSE [World EXCEPT !.conn[p].i = @ + 1])

Attach(w, p, x) == [w EXCEPT !.line[x].devices = @ \cup {p}]
AttachLine(p) ==
    LET i == conn[p].i
        x == phone[p].buttons[i].line
    IN  /\ conn[p].at = "attach"
        /\ Become([Attach(World, p, x) EXCEPT
             !.phone[p] = [@ EXCEPT !.buttons[i].inst = NextInstance(p),
                                    !.crossed = phone[p].crossed \/ ~line[x].known],
             !.conn[p] = [@ EXCEPT !.at = "template", !.i = i + 1,
                            !.keys = Append(conn[p].keys, [line |-> x, inst |-> NextInstance(p)])]])

TemplateMade(p) ==
    /\ conn[p].at = "template" /\ conn[p].i > Len(phone[p].buttons)
    /\ Become([World EXCEPT !.conn[p].at = "array"])
\* sccp_linedevice_createButtonsArray
CreateButtonsArray(p) ==
    /\ conn[p].at = "array"
    /\ Become([World EXCEPT !.conn[p] = [@ EXCEPT !.at = "loop", !.keys = <<>>],
                            !.phone[p] = [@ EXCEPT !.built = TRUE, !.template = conn[p].keys,
                                !.array = {k.line : k \in Range(conn[p].keys)} \cap Attached(World, p)]])

\* sccp_device_sendReset: the phone restarts, by itself
SendReset(w, p) == [w EXCEPT !.phone[p].update = FALSE, !.conn[p].told = TRUE]

\* The message that ends the registration: sccp_dev_set_registered.  A phone that did not
\* ask for a template is sent away
Registered(p) ==
    LET ok == [World EXCEPT !.phone[p] = [@ EXCEPT !.reg = "OK", !.lines = phone[p].built]]
    IN  /\ Loops(p) /\ conn[p].bound /\ phone[p].reg = "PROGRESS"
        /\ Become(IF phone[p].built THEN ok ELSE SendReset(ok, p))

Unregister(p) ==
    /\ Loops(p) /\ conn[p].bound /\ ~OnCall(World, p)
    /\ Become(Stop(World, p, "NONE"))

\* The connection ends: closed by the phone, broken, or nothing heard for too long
Disconnect(p) == Loops(p) /\ Become(Stop(World, p, "NONE"))

Loop(p) ==
    /\ Loops(p) /\ conn[p].bound /\ (phone[p].update \/ phone[p].delete) /\ ~Reloading
    /\ CheckUpdate(World, p, p) # World
    /\ Become(CheckUpdate(World, p, p))

\* destroy_session
ThreadExit(p) ==
    /\ conn[p].at = "loop" /\ conn[p].stop /\ clean[p].at = "no"
    /\ Become(IF conn[p].bound /\ phone[p].session
              THEN CleanBegin([World EXCEPT !.phone[p].session = FALSE,
                                            !.conn[p] = [@ EXCEPT !.at = "exit", !.bound = FALSE]],
                              p, p, p \in Realtime)
              ELSE [World EXCEPT !.conn[p] = NoThread])

StartCall(p, x) ==
    /\ phone[p].reg = "OK" /\ line[x].known /\ x \in Attached(World, p)
    /\ Cardinality(calls) < 2
    /\ Become([World EXCEPT !.calls = @ \cup {<<p, x>>}])
EndCall(c) == Become(EndCalls(World, {c}))

----------------------------------------------------------------------------
(* The reload: everything is marked, what the file still has is unmarked and *)
(* read, and what stays marked goes                                          *)

Marked(s) == [i \in DOMAIN s |-> [s[i] EXCEPT !.gone = TRUE]]
Turn(x) == /\ x \in mgr.todo
           /\ \A i, j \in DOMAIN Order : i < j /\ Order[j] = x => Order[i] \notin mgr.todo
MgrIdle == mgr.op = "idle" /\ clean[Manager].at = "no"

\* A name that once went does not come back: a bound, it would be another object
Returns(f) ==
    \/ \E p \in Phones : f.settings[p] > 0 /\ mgr.file.settings[p] = 0
    \/ \E x \in Lines : f.lines[x] > 0 /\ mgr.file.lines[x] = 0

ReloadBegin(f) ==
    /\ MgrIdle /\ count.changes < MaxChanges /\ f # mgr.file /\ ~Returns(f)
    /\ \A p \in Phones : ~Building(World, p)
    /\ Become([World EXCEPT
         !.mgr = [op |-> "read", file |-> f, todo |-> Phones \cup Lines],
         !.count.changes = @ + 1,
         !.phone = [p \in Phones |-> [phone[p] EXCEPT !.delete = @ \/ p \notin Realtime,
                                                      !.update = FALSE, !.buttons = Marked(@)]],
         !.line = [x \in Lines |-> [line[x] EXCEPT !.delete = TRUE, !.update = FALSE]]])

\* sccp_config_parse_button: the button of each index is the first one that has it
SameButtons(old, new) ==
    /\ Len(old) = Len(new)
    /\ \A i \in DOMAIN new : LET at == SelectInSeq(old, LAMBDA b : b.idx = i)
                             IN  at # 0 /\ old[at].line = new[i]
ParseButtons(old, new) ==
    IF SameButtons(old, new) THEN [i \in DOMAIN old |-> [old[i] EXCEPT !.gone = FALSE]]
    ELSE old \o Buttons(new)

\* sccp_config_buildDevice.  A section without a button has the list parsed as a
\* default, and what a default changes is not heard of
BuildDevice(w, p, f) ==
    LET old == w.phone[p].buttons
        heard == f.buttons[p] # <<>> /\ ~SameButtons(old, f.buttons[p])
    IN  [w EXCEPT !.phone[p] = [@ EXCEPT !.known = TRUE, !.delete = FALSE,
                                  !.update = heard \/ w.phone[p].version # f.settings[p],
                                  !.version = f.settings[p],
                                  !.buttons = ParseButtons(old, f.buttons[p])]]

ReadDevice(p) ==
    LET read == [World EXCEPT !.mgr.todo = @ \ {p}]
    IN  /\ mgr.op = "read" /\ Turn(p) /\ ~Building(World, p)
        /\ Become(IF mgr.file.settings[p] = 0 THEN [read EXCEPT !.phone[p].delete = phone[p].known]
                  ELSE BuildDevice(read, p, mgr.file))

\* sccp_config_buildLine
ReadLine(x) ==
    LET version == mgr.file.lines[x]
    IN  /\ mgr.op = "read" /\ Turn(x)
        /\ Become([World EXCEPT !.mgr.todo = @ \ {x},
              !.line[x] = IF version = 0 THEN @
                          ELSE [@ EXCEPT !.known = TRUE, !.delete = FALSE,
                                         !.update = line[x].version # version,
                                         !.version = version]])

Read ==
    /\ mgr.op = "read" /\ mgr.todo = {}
    /\ Become([World EXCEPT !.mgr = [@ EXCEPT !.op = "lines", !.todo = {x \in Lines : line[x].known}]])

\* sccp_line_clean: the calls of the line end and every phone is detached, at once
LineClean(w, x, remove) ==
    [w EXCEPT !.calls = {c \in @ : c[2] # x},
              !.line[x] = [@ EXCEPT !.devices = {}, !.known = ~remove]]
\* sccp_line_post_reload: the phones that have it are to be updated
MMarkPhones(w, x) == w
MarkPhones(w, x) ==
    [w EXCEPT !.phone = [p \in Phones |-> [w.phone[p] EXCEPT
                           !.update = @ \/ p \in w.line[x].devices]]]
LinePostReload(x) ==
    /\ mgr.op = "lines" /\ Turn(x)
    /\ LET done == [World EXCEPT !.mgr.todo = @ \ {x}]
       IN  Become(IF line[x].delete \/ line[x].update
                  THEN LineClean(MarkPhones(done, x), x, line[x].delete) ELSE done)
LinesDone ==
    /\ mgr.op = "lines" /\ mgr.todo = {}
    /\ Become([World EXCEPT !.mgr = [@ EXCEPT !.op = "devices",
                                              !.todo = {p \in Phones : phone[p].known}]])

DevicePostReload(p) ==
    /\ mgr.op = "devices" /\ Turn(p) /\ clean[Manager].at = "no"
    /\ LET done == [World EXCEPT !.mgr.todo = @ \ {p}]
       IN  Become(IF phone[p].delete \/ phone[p].update THEN CheckUpdate(done, Manager, p)
                  ELSE done)
ReloadEnd ==
    /\ mgr.op \in {"devices", "reload device"} /\ mgr.todo = {} /\ clean[Manager].at = "no"
    /\ Become([World EXCEPT !.mgr.op = "idle"])

----------------------------------------------------------------------------
(* Commands of the console *)

Command(w) == [w EXCEPT !.count.changes = @ + 1]
MayCommand == MgrIdle /\ count.changes < MaxChanges

\* sccp add line, sccp remove line: the phone restarts, if it has no call
OnPhone(p, x) == \E b \in Range(phone[p].buttons) : b.line = x /\ ~b.gone
NextIndex(s) == 1 + Max({0} \cup {b.idx : b \in Range(s)})
ChangeButtons(p, buttons) ==
    Become(CheckUpdate(Command([World EXCEPT !.phone[p] = [@ EXCEPT !.buttons = buttons,
                                                                    !.update = TRUE]]),
                       Manager, p))
AddLine(p, x) ==
    /\ MayCommand /\ phone[p].known /\ line[x].known /\ ~OnPhone(p, x) /\ ~Building(World, p)
    /\ ChangeButtons(p, Append(phone[p].buttons, Button(x, NextIndex(phone[p].buttons))))
RemoveLine(p, x) ==
    LET buttons == phone[p].buttons
    IN  /\ MayCommand /\ phone[p].known /\ line[x].known /\ OnPhone(p, x) /\ ~Building(World, p)
        /\ ChangeButtons(p, [i \in DOMAIN buttons |->
                               [buttons[i] EXCEPT !.gone = @ \/ buttons[i].line = x]])

\* sccp restart, sccp reset: the phone is told, and comes back by itself; one that cannot
\* be told is disconnected.  A call on hold does not prevent it
RestartDevice(p) ==
    LET told == Command(SendReset(World, p))
    IN  /\ MayCommand /\ phone[p].known /\ phone[p].session /\ phone[p].reg = "OK"
        /\ Become(told) \/ Become(Stop(told, p, "NONE"))

\* sccp reload device: one section of the file
ReloadDevice(p) ==
    LET f == mgr.file
        begun == Command([World EXCEPT !.mgr = [@ EXCEPT !.op = "reload device", !.todo = {}]])
        built == BuildDevice([begun EXCEPT !.phone[p].buttons = Marked(@)], p, f)
    IN  /\ MayCommand /\ phone[p].known /\ f.settings[p] > 0 /\ ~Building(World, p)
        /\ Become(IF built.phone[p].update THEN CheckUpdate(built, Manager, p)
                  ELSE [built EXCEPT !.phone[p].update = phone[p].update])

----------------------------------------------------------------------------
CleanStep(t) == CleanLines(t) \/ CleanTemplate(t) \/ CleanSession(t)
MakeTemplate(p) == PlaceButton(p) \/ AttachLine(p) \/ TemplateMade(p) \/ CreateButtonsArray(p)
\* What the thread of p does without being asked
Working(p) == RegisterEnd(p) \/ MakeTemplate(p) \/ Loop(p) \/ ThreadExit(p)
Asked(p) == Connect(p) \/ RegisterBegin(p) \/ ButtonTemplateReq(p) \/ Registered(p)
            \/ Unregister(p) \/ Disconnect(p)
ReloadStep ==
    \/ \E p \in Phones : ReadDevice(p) \/ DevicePostReload(p)
    \/ \E x \in Lines : ReadLine(x) \/ LinePostReload(x)
    \/ Read \/ LinesDone \/ ReloadEnd
Commands(p) == RestartDevice(p) \/ ReloadDevice(p)
               \/ \E x \in Lines : AddLine(p, x) \/ RemoveLine(p, x)

Next ==
    \/ \E p \in Phones : Working(p) \/ Asked(p) \/ Commands(p)
    \/ \E p \in Phones, x \in Lines : StartCall(p, x)
    \/ \E c \in calls : EndCall(c)
    \/ \E t \in Threads : CleanStep(t)
    \/ \E f \in Files : ReloadBegin(f)
    \/ ReloadStep

\* Threads that have something to do go on; nothing is asked of phones, of callers or of
\* who reads the configuration.
Fairness ==
    /\ \A p \in Phones : WF_vars(Working(p))
    /\ \A t \in Threads : WF_vars(CleanStep(t))
    /\ WF_vars(ReloadStep)
Spec == Init /\ [][Next]_vars /\ Fairness

----------------------------------------------------------------------------
(* Properties *)

RegStates == {"NONE", "PROGRESS", "OK", "FAILED", "CLEANING"}
\* The state has its type, and calls are calls of lines that exist.
TypeOK ==
    /\ \A p \in Phones :
        /\ phone[p].reg \in RegStates /\ phone[p].array \subseteq Lines
        /\ DOMAIN phone[p] = DOMAIN NewPhone /\ DOMAIN conn[p] = DOMAIN NoThread
        /\ conn[p].at \in {"none", "loop", "register", "template", "attach", "array", "exit"}
    /\ \A x \in Lines : line[x].devices \subseteq Phones
    /\ \A c \in calls : c \in Phones \X Lines /\ line[c[2]].known

Pending(p) == phone[p].update \/ phone[p].delete
Quiet(p) ==
    /\ conn[p].at \in {"none", "loop"} /\ ~conn[p].stop /\ mgr.op = "idle"
    /\ \A t \in Threads : clean[t].phone # p

\* Once no thread is busy with a registered phone and nothing is pending for it, its
\* template is that of the configuration: each line on a key is there, is attached, is
\* reachable by its instance and belongs to a button that stays; and a button that has an
\* instance has its key (sccp_make_button_template, sccp_linedevice_createButtonsArray,
\* sccp_config_parse_button, sccp_line_post_reload, _sccp_dev_clean).
TemplateFollows ==
    \A p \in Phones : LET d == phone[p] IN
        d.reg = "OK" /\ d.built /\ Quiet(p) /\ ~Pending(p) /\ ~d.crossed /\ ~conn[p].told
          => /\ \A k \in Range(d.template) :
                  /\ line[k.line].known /\ p \in line[k.line].devices /\ k.line \in d.array
                  /\ \E b \in Range(d.buttons) : ~b.gone /\ b.line = k.line /\ b.inst = k.inst
             /\ \A b \in Range(d.buttons) :
                  b.inst > 0 => [line |-> b.line, inst |-> b.inst] \in Range(d.template)

\* A phone that has no session and is not being taken down is attached to no line there is:
\* an incoming call would ring nothing (_sccp_dev_clean, sccp_linedevice_remove,
\* sccp_line_clean).
NoneLeftAttached ==
    \A p \in Phones : ~phone[p].session /\ Quiet(p) /\ ~phone[p].crossed
            => \A x \in Attached(World, p) : ~line[x].known

\* A reload or a command ends no call of a line that stays as it is: phones wait for their
\* calls to end (sccp_device_check_update, sccp_line_post_reload).
CallsSurvive ==
    [][(ReloadStep \/ CleanStep(Manager))
         => \A c \in calls \ calls' : line[c[2]].delete \/ line[c[2]].update
                                       \/ phone[c[1]].crossed]_vars

=============================================================================
