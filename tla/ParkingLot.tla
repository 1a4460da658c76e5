------------------------------ MODULE ParkingLot ------------------------------
(***************************************************************************)
(* One parking lot and the phones that watch it with a feature button      *)
(* (sccp_featureParkingLot.c): Asterisk's events of parked calls and the   *)
(* phones' own threads look the lot up, lock it, and let go of it in the   *)
(* middle to send; the last watcher that leaves destroys it.  And the      *)
(* parking of a phone's own call (ast120.c).                               *)
(*                                                                         *)
(* A handler is the sequence of steps it has left to do.  The list of lots *)
(* has a read-write lock, a lot a lock, and so has the list of a phone's   *)
(* buttons, which registration holds throughout.                           *)
(***************************************************************************)
EXTENDS Naturals, Sequences, SequencesExt, FiniteSets

CONSTANTS
    Watchers,   \* the phones with a button for the lot
    Spaces,     \* the places calls are parked in
    Single,     \* the phones whose button says RetrieveSingle
    MaxLots,    \* bound: lots made
    MaxMoves    \* bound: registrations, keys, calls and parked calls

ASSUME LotAssumption ==
    /\ Single \subseteq Watchers /\ MaxLots \in Nat /\ MaxMoves \in Nat
    /\ Watchers \cap {"events", "free", "all"} = {}

VARIABLES
    lot,     \* struct parkinglot, by the order of their making
    lots,    \* the list of them, the latest first
    reading, \* the threads that read the list
    left,    \* the steps each thread has left to do
    at,      \* the lot each thread has in hand
    keys,    \* the thread that holds the phone's list of buttons
    screen,  \* each phone: registered, its button's status, what it was told, the calls it shows
    talks,   \* each phone's call: none, talking, parking; and who listens to parking events
    parked,  \* the places that are taken, as Asterisk knows
    events,  \* Asterisk's events that were not handled yet
    moves,   \* moves so far
    lost     \* ghost: how the lot came to be out of step, see the properties

lotVars == <<lot, lots, reading, left, at, keys, screen, talks, parked, events, moves, lost>>

Events == "events"
Hands == Watchers \cup {Events}
Free == "free"
Away == [up |-> FALSE, status |-> FALSE, told |-> FALSE, shows |-> {}]
NewLot == [observers |-> <<>>, slots |-> <<>>, lock |-> Free, dead |-> FALSE]

Rests(t) == left[t] = <<>>
Turn(t, what) == ~Rests(t) /\ Head(left[t]).do = what
Now(t) == Head(left[t])
Next1Is(t, more) == left' = [left EXCEPT ![t] = more \o Tail(@)]
Mine(t) == lot[at[t]]
Calls(p) == talks.of[p] # "none"

Step(name) == [do |-> name]
Of(name, p) == [do |-> name, of |-> p]
Unlock == <<Step("unlock")>>
\* All of the watchers from the i-th on, or those of one phone.
Notify(i, whom) == <<[do |-> "notify", of |-> whom, i |-> i]>>
Send(i, what) == <<[do |-> "send", i |-> i, what |-> what]>>

----------------------------------------------------------------------------
(* The list of lots *)

\* What follows is done with the lot locked, or, without a lot, not at all.
Find(create, then) == <<[do |-> "find", create |-> create, then |-> then]>>
FindLot(t) ==
    /\ Turn(t, "find")
    /\ IF lots = <<>>
       THEN /\ Next1Is(t, IF Now(t).create THEN <<Step("add"), Step("lock")>> \o Now(t).then
                          ELSE <<>>)
            /\ UNCHANGED <<reading, at>>
       ELSE /\ reading' = reading \cup {t}
            /\ at' = [at EXCEPT ![t] = Head(lots)]
            /\ Next1Is(t, <<Step("lock")>> \o Now(t).then)
    /\ UNCHANGED <<lot, lots, keys, screen, talks, parked, events, moves, lost>>

AddParkinglot(t) ==
    /\ Turn(t, "add") /\ reading = {} /\ Len(lot) < MaxLots
    /\ lot' = Append(lot, NewLot)
    /\ lots' = <<Len(lot) + 1>> \o lots
    /\ at' = [at EXCEPT ![t] = Len(lot) + 1]
    /\ lost' = [lost EXCEPT !.twice = @ \/ lots # <<>>]
    /\ Next1Is(t, <<>>)
    /\ UNCHANGED <<reading, keys, screen, talks, parked, events, moves>>

\* A lot that was destroyed meanwhile is locked all the same.
LockLot(t) ==
    /\ Turn(t, "lock") /\ Mine(t).lock = Free
    /\ lot' = [lot EXCEPT ![at[t]].lock = t]
    /\ reading' = reading \ {t}
    /\ lost' = [lost EXCEPT !.freed = @ \/ Mine(t).dead]
    /\ Next1Is(t, <<>>)
    /\ UNCHANGED <<lots, at, keys, screen, talks, parked, events, moves>>

UnlockLot(t) ==
    /\ Turn(t, "unlock")
    /\ lot' = [lot EXCEPT ![at[t]].lock = Free]
    /\ Next1Is(t, <<>>)
    /\ UNCHANGED <<lots, reading, at, keys, screen, talks, parked, events, moves, lost>>

\* The lot is still locked while the list's lock is waited for.
RemoveParkinglot(t) ==
    /\ Turn(t, "remove") /\ reading = {}
    /\ lots' = RemoveFirst(lots, at[t])
    /\ lot' = [lot EXCEPT ![at[t]].lock = Free, ![at[t]].dead = TRUE]
    /\ lost' = [lost EXCEPT !.calls = @ \/ Mine(t).slots # <<>>]
    /\ Next1Is(t, <<>>)
    /\ UNCHANGED <<reading, at, keys, screen, talks, parked, events, moves>>

----------------------------------------------------------------------------
(* Watchers and slots *)

\* The last one takes the place of the one that goes.
Without(s, i) == IF i = Len(s) THEN Front(s) ELSE [Front(s) EXCEPT ![i] = Last(s)]
Unordered(s, Is(_)) ==
    IF \E i \in DOMAIN s : Is(s[i]) THEN Without(s, SelectInSeq(s, Is)) ELSE s
\* Somebody is sending on behalf of this lot, with the lot unlocked.
SentFor(n) == \E t \in Hands : at[t] = n /\ Turn(t, "back")

AttachObserver(t) ==
    /\ Turn(t, "attach")
    /\ lot' = [lot EXCEPT ![at[t]].observers = Append(@, [device |-> Now(t).of, open |-> FALSE])]
    /\ Next1Is(t, Unlock)
    /\ UNCHANGED <<lots, reading, at, keys, screen, talks, parked, events, moves, lost>>

DetachObserver(t) ==
    /\ Turn(t, "detach")
    /\ \E rest \in {Unordered(Mine(t).observers, LAMBDA o : o.device = Now(t).of)} :
        /\ lot' = [lot EXCEPT ![at[t]].observers = rest]
        /\ Next1Is(t, IF rest = <<>> THEN <<Step("remove")>> ELSE Unlock)
    /\ lost' = [lost EXCEPT !.moved = @ \/ SentFor(at[t])]
    /\ UNCHANGED <<lots, reading, at, keys, screen, talks, parked, events, moves>>

AddSlot(t) ==
    /\ Turn(t, "park")
    /\ lot' = [lot EXCEPT ![at[t]].slots =
                  IF \E i \in DOMAIN @ : @[i] = Now(t).of THEN @ ELSE Append(@, Now(t).of)]
    /\ Next1Is(t, Notify(1, "all"))
    /\ lost' = [lost EXCEPT !.stale = @ \/ SentFor(at[t])]
    /\ UNCHANGED <<lots, reading, at, keys, screen, talks, parked, events, moves>>

MDropped(slots, s) == IF slots = <<>> THEN slots ELSE Front(slots)
Dropped(slots, s) == Unordered(slots, LAMBDA x : x = s)
Told(slots, rest) == rest # slots
RemoveSlot(t) ==
    /\ Turn(t, "unpark")
    /\ \E rest \in {Dropped(Mine(t).slots, Now(t).of)} :
        /\ lot' = [lot EXCEPT ![at[t]].slots = rest]
        /\ Next1Is(t, IF Told(Mine(t).slots, rest) THEN Notify(1, "all") ELSE Unlock)
    /\ lost' = [lost EXCEPT !.stale = @ \/ SentFor(at[t])]
    /\ UNCHANGED <<lots, reading, at, keys, screen, talks, parked, events, moves>>

----------------------------------------------------------------------------
(* What the phones are told *)

\* _notifyHelper, for the i-th watcher: it needs the phone's list of buttons.
Lit(n) == lot[n].slots # <<>>
MRefresh(n, o) == o.open /\ ~Lit(n)
Refresh(n, o) == o.open
NotifyHelper(t) ==
    /\ Turn(t, "notify")
    /\ \E i \in {Now(t).i}, n \in {at[t]} :
        IF i > Len(lot[n].observers) THEN Next1Is(t, Unlock) /\ UNCHANGED screen
        ELSE \E o \in {lot[n].observers[i]} :
            IF Now(t).of \notin {"all", o.device}
            THEN Next1Is(t, Notify(i + 1, Now(t).of)) /\ UNCHANGED screen
            ELSE /\ keys[o.device] \in {Free, t}
                 /\ screen' = [screen EXCEPT ![o.device].status = Lit(n)]
                 /\ Next1Is(t, (IF ~Refresh(n, o) THEN <<>>
                                ELSE Send(i, IF Lit(n) /\ ~Calls(o.device) THEN "show" ELSE "hide"))
                               \o <<Of("tell", o.device)>> \o Notify(i + 1, Now(t).of))
    /\ UNCHANGED <<lot, lots, reading, at, keys, talks, parked, events, moves, lost>>

\* Somebody else is sending to the same watcher.
Meets(t) == \E o \in Hands \ {t} : at[o] = at[t] /\ Turn(o, "back") /\ Now(o).i = Now(t).i

\* __showVisualParkingLot and __hideVisualParkingLot: unlocked to send ...
SendMenu(t) ==
    /\ Turn(t, "send")
    /\ \E p \in {Mine(t).observers[Now(t).i].device} :
        screen' = [screen EXCEPT ![p].shows =
                     IF screen[p].up /\ Now(t).what = "show" THEN ToSet(Mine(t).slots) ELSE {}]
    /\ lot' = [lot EXCEPT ![at[t]].lock = Free]
    /\ lost' = [lost EXCEPT !.stale = @ \/ Meets(t)]
    /\ Next1Is(t, <<[Now(t) EXCEPT !.do = "back"]>>)
    /\ UNCHANGED <<lots, reading, at, keys, talks, parked, events, moves>>
\* ... and locked again; the watcher is written through the pointer from before.
BackFromSend(t) ==
    /\ Turn(t, "back") /\ Mine(t).lock = Free
    /\ lost' = [lost EXCEPT !.freed = @ \/ Mine(t).dead, !.moved = @ \/ Now(t).i > Len(Mine(t).observers)]
    /\ lot' = [lot EXCEPT ![at[t]].lock = t,
                 ![at[t]].observers = [i \in DOMAIN @ |->
                     IF i = Now(t).i THEN [@[i] EXCEPT !.open = Now(t).what = "show"] ELSE @[i]]]
    /\ Next1Is(t, <<>>)
    /\ UNCHANGED <<lots, reading, at, keys, screen, talks, parked, events, moves>>

\* sccp_feat_changed: the button as it is now, which needs the list of buttons again
TellButton(t) ==
    /\ Turn(t, "tell") /\ keys[Now(t).of] \in {Free, t}
    /\ screen' = [screen EXCEPT ![Now(t).of].told = screen[Now(t).of].status]
    /\ Next1Is(t, <<>>)
    /\ UNCHANGED <<lot, lots, reading, at, keys, talks, parked, events, moves, lost>>

\* The lot's menu on the watchers of a phone that pressed the key, or left the menu.
MenuFor(t) ==
    /\ Turn(t, "menu")
    /\ \E mine \in {{i \in DOMAIN Mine(t).observers : Mine(t).observers[i].device = t}} :
        Next1Is(t, (IF mine = {} THEN <<>> ELSE Send(CHOOSE i \in mine : TRUE, Now(t).of)) \o Unlock)
    /\ UNCHANGED <<lot, lots, reading, at, keys, screen, talks, parked, events, moves, lost>>

HandleButtonPress(t) ==
    /\ Turn(t, "press")
    /\ IF Mine(t).slots = <<>> THEN Next1Is(t, Unlock) /\ UNCHANGED talks
       ELSE IF t \in Single /\ Len(Mine(t).slots) = 1
       THEN Next1Is(t, Unlock) /\ talks' = [talks EXCEPT !.of[t] = "talking"]
       ELSE Next1Is(t, <<Of("menu", "show")>>) /\ UNCHANGED talks
    /\ UNCHANGED <<lot, lots, reading, at, keys, screen, parked, events, moves, lost>>

LetGo(t) ==
    /\ Turn(t, "let go")
    /\ keys' = [keys EXCEPT ![t] = Free]
    /\ Next1Is(t, <<>>)
    /\ UNCHANGED <<lot, lots, reading, at, screen, talks, parked, events, moves, lost>>

Works(t) ==
    \/ FindLot(t) \/ AddParkinglot(t) \/ LockLot(t) \/ UnlockLot(t) \/ RemoveParkinglot(t)
    \/ AttachObserver(t) \/ DetachObserver(t) \/ AddSlot(t) \/ RemoveSlot(t)
    \/ NotifyHelper(t) \/ SendMenu(t) \/ BackFromSend(t) \/ TellButton(t) \/ MenuFor(t)
    \/ HandleButtonPress(t) \/ LetGo(t)

----------------------------------------------------------------------------
(* The handlers *)

Begins(t, steps) ==
    /\ Rests(t) /\ moves < MaxMoves
    /\ left' = [left EXCEPT ![t] = steps] /\ moves' = moves + 1
    /\ UNCHANGED <<lot, lots, reading, at, lost>>

\* sccp_dev_postregistration, and _sccp_dev_clean
Registers(p) ==
    /\ ~screen[p].up /\ keys[p] = Free
    /\ Begins(p, Find(TRUE, <<Of("attach", p)>>) \o Find(TRUE, Notify(1, p)) \o <<Step("let go")>>)
    /\ keys' = [keys EXCEPT ![p] = p]
    /\ screen' = [screen EXCEPT ![p] = [Away EXCEPT !.up = TRUE]]
    /\ UNCHANGED <<talks, parked, events>>
Leaves(p) ==
    /\ screen[p].up /\ keys[p] = Free
    /\ Begins(p, Find(FALSE, <<Of("detach", p)>>) \o <<Step("let go")>>)
    /\ keys' = [keys EXCEPT ![p] = p]
    /\ screen' = [screen EXCEPT ![p] = Away]
    /\ talks' = [talks EXCEPT !.of[p] = "none", !.hears = @ \ {p}]
    /\ UNCHANGED <<parked, events>>

\* The key, on a phone without a call, and EXIT in its menu
Presses(p) ==
    /\ screen[p].up /\ ~Calls(p)
    /\ Begins(p, Find(TRUE, <<Step("press")>>))
    /\ UNCHANGED <<keys, screen, talks, parked, events>>
Exits(p) ==
    /\ screen[p].shows # {}
    /\ Begins(p, Find(TRUE, <<Of("menu", "hide")>>))
    /\ UNCHANGED <<keys, screen, talks, parked, events>>

Starts1(p) ==
    /\ screen[p].up /\ ~Calls(p) /\ Begins(p, <<>>)
    /\ talks' = [talks EXCEPT !.of[p] = "talking"]
    /\ UNCHANGED <<keys, screen, parked, events>>
\* The call ends; the one that is parked is ended by the scheduled hangup.
EndsCall(p) ==
    /\ Calls(p) /\ Rests(p)
    /\ talks' = [talks EXCEPT !.of[p] = "none", !.hears = @ \ {p}]
    /\ UNCHANGED <<lot, lots, reading, left, at, keys, screen, parked, events, moves, lost>>

(* sccp_astwrap_park: the call listens to all of Asterisk's parking events   *)
(* from the first attempt on, whether it succeeds or not.                    *)
Park(p, place, accepted) ==
    /\ talks.of[p] = "talking" /\ Begins(p, <<>>)
    /\ IF accepted
       THEN /\ place \notin parked
            /\ parked' = parked \cup {place}
            /\ events' = events \o <<[kind |-> "parked", place |-> place, of |-> p]>>
            /\ talks' = [of |-> [talks.of EXCEPT ![p] = "parking"], hears |-> talks.hears \cup {p}]
       ELSE talks' = [talks EXCEPT !.hears = @ \cup {p}] /\ UNCHANGED <<parked, events>>
    /\ UNCHANGED <<keys, screen>>

\* Somebody else parks a call, and one is retrieved or given up.
ParkedElsewhere(place) ==
    /\ place \notin parked /\ moves < MaxMoves /\ moves' = moves + 1
    /\ parked' = parked \cup {place}
    /\ events' = Append(events, [kind |-> "parked", place |-> place, of |-> "other"])
    /\ UNCHANGED <<lot, lots, reading, left, at, keys, screen, talks, lost>>
Retrieved(place) ==
    /\ place \in parked
    /\ parked' = parked \ {place}
    /\ events' = Append(events, [kind |-> "unparked", place |-> place, of |-> "other"])
    /\ UNCHANGED <<lot, lots, reading, left, at, keys, screen, talks, moves, lost>>

(* The manager's event, and parking_event_cb of every call that listens: it  *)
(* is hung up, whoever's call was parked.                                    *)
EventCb ==
    /\ events # <<>> /\ Rests(Events)
    /\ \E e \in {Head(events)} :
        /\ left' = [left EXCEPT ![Events] =
                       Find(TRUE, <<Of(IF e.kind = "parked" THEN "park" ELSE "unpark", e.place)>>)]
        /\ talks' = IF e.kind # "parked" THEN talks
                    ELSE [of |-> [p \in Watchers |-> IF p \in talks.hears THEN "none" ELSE talks.of[p]],
                          hears |-> {}]
    /\ events' = Tail(events)
    /\ UNCHANGED <<lot, lots, reading, at, keys, screen, parked, moves, lost>>

----------------------------------------------------------------------------
LotInit ==
    /\ lot = <<>> /\ lots = <<>> /\ reading = {} /\ left = [t \in Hands |-> <<>>]
    /\ at = [t \in Hands |-> 0] /\ keys = [p \in Watchers |-> Free]
    /\ screen = [p \in Watchers |-> Away]
    /\ talks = [of |-> [p \in Watchers |-> "none"], hears |-> {}]
    /\ parked = {} /\ events = <<>> /\ moves = 0
    /\ lost = [twice |-> FALSE, freed |-> FALSE, moved |-> FALSE, stale |-> FALSE, calls |-> FALSE]

LotNext ==
    \/ \E t \in Hands : Works(t)
    \/ \E p \in Watchers :
        \/ Registers(p) \/ Leaves(p) \/ Presses(p) \/ Exits(p) \/ Starts1(p) \/ EndsCall(p)
        \/ \E place \in Spaces, accepted \in BOOLEAN : Park(p, place, accepted)
    \/ \E place \in Spaces : ParkedElsewhere(place) \/ Retrieved(place)
    \/ EventCb

----------------------------------------------------------------------------
(* Properties *)

Settled == events = <<>> /\ \A t \in Hands : Rests(t)
\* Nothing of what the locks do not prevent has happened.
Listed == IF lots = <<>> THEN {} ELSE ToSet(lot[Head(lots)].slots)
Sound == ~lost.twice /\ ~lost.freed /\ ~lost.moved

(* The lot lists the calls that are parked, as long as its last watcher did  *)
(* not leave while there were any (detachObserver destroys them with it).    *)
ListsTheParked ==
    Settled /\ Sound /\ ~lost.calls => Listed = parked

(* A menu that is open lists the calls that are parked now, or the phone has *)
(* taken up a call since; unless the calls changed while a menu was on its   *)
(* way or two threads sent to the phone at once (_notifyHelper,              *)
(* __showVisualParkingLot, __hideVisualParkingLot).                          *)
MenuIsCurrent ==
    Settled /\ Sound /\ ~lost.stale => \A p \in Watchers : screen[p].shows \in {{}, Listed}
=============================================================================
