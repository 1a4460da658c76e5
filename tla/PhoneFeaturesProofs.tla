------------------------- MODULE PhoneFeaturesProofs -------------------------
(***************************************************************************)
(* Proofs about PhoneFeatures: once nothing is under way, the phones that  *)
(* subscribed to a hint show its state (Hints), and the parking lot lists  *)
(* the calls that are parked, and so do the menus that are open            *)
(* (ParkingLot).                                                           *)
(*                                                                         *)
(* Who has changed the state of a hint owes it to the subscribers to tell  *)
(* them, and so does who subscribes a phone.  The invariant says that a    *)
(* subscriber shows the state or is owed it: by a job in the middle of it, *)
(* or by one that has its subscription still before it.                    *)
(*                                                                         *)
(* A thread that works on the parking lot has it locked between the steps  *)
(* that need it.  The invariant says where it is inside, what it has still *)
(* to do, that the lot lists what is parked but for what Asterisk's events *)
(* still have to say, and that a phone with an open menu shows that list   *)
(* or comes later in the round of those who are told.                      *)
(***************************************************************************)
EXTENDS PhoneFeatures, WellFoundedInduction, TLAPS

(* Jobs *)

JobStates == {"idle", "line", "hint", "tell", "send", "subscribe", "call back", "leave"}
IsJob(j) ==
    /\ DOMAIN j = DOMAIN NoWork /\ j.at \in JobStates
    /\ j.next \in {"done", "hint", "subscribe"}

\* The job subscribes a phone to what its buttons want, one after the other.
Subscribing(j) == j.at = "subscribe" \/ (j.at \in {"tell", "send"} /\ j.next = "subscribe")
JobFact(j) ==
    /\ Subscribing(j) => j.phone \in Phones /\ j.todo \subseteq Everyone
    /\ j.at = "hint" \/ (j.at = "tell" /\ j.next = "hint") => j.todo \subseteq Hints
    /\ j.at = "tell" => j.hint \in Everyone
    /\ j.at = "call back" => j.hint \in Hints /\ j.next = "done"
    /\ j.at = "send" => j.hint \in Customs

\* A custom state is told by Asterisk's messages, or to the phone that subscribes.
ThreadFact(t, j) ==
    /\ Subscribing(j) => t \in HintPool
    /\ j.at = "call back" => t = "asterisk"
    /\ j.at \in {"tell", "send"} /\ j.hint \in Customs /\ ~Subscribing(j) =>
           t = "stasis" /\ j.next = "done"

IsQueue(s) ==
    \E n \in Nat : /\ s = [i \in 1..n |-> s[i]]
                   /\ \A i \in 1..n : IsJob(s[i]) /\ s[i].at \in {"line", "subscribe"} /\ JobFact(s[i])

(* The invariant *)

HintsTyped ==
    /\ hint = [h \in Hints |-> hint[h]]
    /\ \A h \in Hints : DOMAIN hint[h] = {"made", "state", "dnd"}
    /\ custom = [c \in Customs |-> custom[c]]
    /\ \A c \in Customs : DOMAIN custom[c] = {"made", "state", "crossed"} /\ custom[c].crossed \in BOOLEAN
    /\ subs \in [Everyone -> SUBSET Phones]
    /\ told = [p \in Phones |-> [h \in Everyone |-> told[p][h]]]
    /\ working = [t \in Threads |-> working[t]]
    /\ \A t \in Threads : IsJob(working[t]) /\ JobFact(working[t]) /\ ThreadFact(t, working[t])
    /\ IsQueue(waiting)

\* What a thread is about to send of a custom state is what it is.
ReadFact ==
    \A t \in Threads : working[t].at = "send" /\ ~custom[working[t].hint].crossed
        => working[t].state = custom[working[t].hint].state

\* p will be subscribed to h.
Subscribes(j, p, h) == Subscribing(j) /\ j.phone = p /\ h \in j.todo
Coming(wk, wt, p, h) ==
    \/ \E t \in Threads : Subscribes(wk[t], p, h)
    \/ \E i \in DOMAIN wt : Subscribes(wt[i], p, h)
\* Somebody is about to tell p of h.
Tells(t, j, p, h) ==
    /\ j.at \in {"tell", "send"} /\ j.hint = h
    /\ h \in Hints \/ t = "stasis" \/ j.phone = p
Owed(wk, wt, p, h) == Coming(wk, wt, p, h) \/ \E t \in Threads : Tells(t, wk[t], p, h)
Shown(h, p) ==
    IF h \in Hints THEN told[p][h] = Shows(p, hint[h].state)
    ELSE custom[h].crossed \/ told[p][h] = custom[h].state

WantsFact ==
    /\ \A h \in Everyone : \A p \in subs[h] : h \in Wants[p]
    /\ \A t \in Threads : Subscribing(working[t]) => working[t].todo \subseteq Wants[working[t].phone]
    /\ \A i \in DOMAIN waiting :
          Subscribing(waiting[i]) => waiting[i].todo \subseteq Wants[waiting[i].phone]
ToldFact == \A h \in Everyone : \A p \in subs[h] : Shown(h, p) \/ Owed(working, waiting, p, h)

HintsInv == HintsTyped /\ ReadFact /\ WantsFact /\ ToldFact

(* Queues and who owes what *)

LEMMA SequenceIsFunction ==
    ASSUME NEW S, NEW q \in Seq(S)
    PROVE  q = [i \in 1..Len(q) |-> q[i]]
OBVIOUS

LEMMA QueueAppend ==
    ASSUME NEW s, IsQueue(s), NEW j, IsJob(j), j.at \in {"line", "subscribe"}, JobFact(j)
    PROVE  /\ IsQueue(Append(s, j)) /\ Len(s) \in Nat
           /\ DOMAIN Append(s, j) = DOMAIN s \cup {Len(s) + 1}
           /\ \A i \in DOMAIN s : Append(s, j)[i] = s[i]
           /\ Append(s, j)[Len(s) + 1] = j
<1>1. PICK n \in Nat : /\ s = [i \in 1..n |-> s[i]]
                       /\ \A i \in 1..n : IsJob(s[i]) /\ s[i].at \in {"line", "subscribe"} /\ JobFact(s[i])
  BY DEF IsQueue
<1> DEFINE S == {s[i] : i \in 1..n} \cup {j}
<1>2. s \in [1..n -> S]
  BY <1>1
<1>3. s \in Seq(S) /\ Len(s) = n /\ j \in S
  <2> HIDE DEF S
  <2>1. s \in Seq(S) /\ Len(s) = n
    BY <1>2
  <2> QED
    BY <2>1 DEF S
<1> HIDE DEF S
<1>4. /\ Append(s, j) \in Seq(S) /\ Len(Append(s, j)) = n + 1 /\ DOMAIN s = 1..n
      /\ \A i \in 1..n : Append(s, j)[i] = s[i]
      /\ Append(s, j)[n + 1] = j
  BY <1>3
<1>5. DOMAIN Append(s, j) = 1..(n + 1) /\ 1..(n + 1) = 1..n \cup {n + 1}
  BY <1>4
<1>6. Append(s, j) = [i \in 1..(n + 1) |-> Append(s, j)[i]]
  BY <1>4, SequenceIsFunction
<1>7. \A i \in 1..(n + 1) : /\ IsJob(Append(s, j)[i]) /\ JobFact(Append(s, j)[i])
                            /\ Append(s, j)[i].at \in {"line", "subscribe"}
  BY <1>1, <1>4, <1>5
<1>8. IsQueue(Append(s, j))
  <2> DEFINE q == Append(s, j)
  <2> SUFFICES IsQueue(q)
    OBVIOUS
  <2>1. n + 1 \in Nat
    OBVIOUS
  <2>2. /\ q = [i \in 1..(n + 1) |-> q[i]]
        /\ \A i \in 1..(n + 1) : IsJob(q[i]) /\ q[i].at \in {"line", "subscribe"} /\ JobFact(q[i])
    BY <1>6, <1>7
  <2> HIDE DEF q
  <2> QED
    BY ONLY <2>1, <2>2 DEF IsQueue
<1> QED
  BY <1>3, <1>4, <1>5, <1>8

LEMMA QueueTail ==
    ASSUME NEW s, IsQueue(s), s # <<>>
    PROVE  /\ IsQueue(Tail(s)) /\ 1 \in DOMAIN s /\ Head(s) = s[1]
           /\ IsJob(Head(s)) /\ Head(s).at \in {"line", "subscribe"} /\ JobFact(Head(s))
           /\ \A i \in DOMAIN s : i = 1 \/ (i - 1 \in DOMAIN Tail(s) /\ Tail(s)[i - 1] = s[i])
           /\ \A i \in DOMAIN Tail(s) : i + 1 \in DOMAIN s /\ Tail(s)[i] = s[i + 1]
<1>1. PICK n \in Nat : /\ s = [i \in 1..n |-> s[i]]
                       /\ \A i \in 1..n : IsJob(s[i]) /\ s[i].at \in {"line", "subscribe"} /\ JobFact(s[i])
  BY DEF IsQueue
<1> DEFINE S == {s[i] : i \in 1..n}
<1>2. s \in [1..n -> S]
  BY <1>1
<1> HIDE DEF S
<1>3. s \in Seq(S) /\ Len(s) = n /\ DOMAIN s = 1..n
  BY <1>2
<1>4. n \in Nat /\ n # 0
  BY <1>3
<1>5. /\ Head(s) = s[1] /\ 1 \in 1..n
      /\ Tail(s) \in Seq(S) /\ Len(Tail(s)) = n - 1
      /\ \A i \in 1..(n - 1) : Tail(s)[i] = s[i + 1]
  BY <1>3, <1>4
<1>6. DOMAIN Tail(s) = 1..(n - 1) /\ n - 1 \in Nat
  BY <1>4, <1>5
<1>7. Tail(s) = [i \in 1..(n - 1) |-> Tail(s)[i]]
  BY <1>5, SequenceIsFunction
<1>8. \A i \in 1..(n - 1) : i + 1 \in 1..n
  BY <1>4
<1>9. \A i \in 1..(n - 1) : /\ IsJob(Tail(s)[i]) /\ JobFact(Tail(s)[i])
                            /\ Tail(s)[i].at \in {"line", "subscribe"}
  BY <1>1, <1>5, <1>8
<1>10. IsQueue(Tail(s))
  BY <1>6, <1>7, <1>9 DEF IsQueue
<1>11. ASSUME NEW i \in 1..n, i # 1 PROVE i - 1 \in 1..(n - 1) /\ Tail(s)[i - 1] = s[i]
  <2>1. i - 1 \in 1..(n - 1) /\ (i - 1) + 1 = i
    BY <1>4, <1>11
  <2> QED
    BY <2>1, <1>5
<1> QED
  BY <1>1, <1>3, <1>5, <1>6, <1>8, <1>10, <1>11

\* What one thread does next leaves what the others owe.
LEMMA StillOwed ==
    ASSUME NEW wk, wk = [x \in Threads |-> wk[x]], NEW t \in Threads, NEW j, NEW wt, NEW p, NEW h,
           Owed(wk, wt, p, h),
           Subscribes(wk[t], p, h) => Subscribes(j, p, h) \/ Tells(t, j, p, h),
           Tells(t, wk[t], p, h) => Tells(t, j, p, h)
    PROVE  Owed([wk EXCEPT ![t] = j], wt, p, h)
<1> DEFINE new == [wk EXCEPT ![t] = j]
<1>1. new[t] = j /\ \A x \in Threads \ {t} : new[x] = wk[x]
  OBVIOUS
<1> SUFFICES Owed(new, wt, p, h)
  BY DEF new
<1> HIDE DEF new
<1>2. CASE \E x \in Threads : Subscribes(wk[x], p, h)
  BY <1>1, <1>2 DEF Owed, Coming
<1>3. CASE \E i \in DOMAIN wt : Subscribes(wt[i], p, h)
  BY <1>3 DEF Owed, Coming
<1>4. CASE \E x \in Threads : Tells(x, wk[x], p, h)
  BY <1>1, <1>4 DEF Owed
<1> QED
  BY <1>2, <1>3, <1>4 DEF Owed, Coming

\* A job that waits besides the others owes what it owes.
LEMMA OwedBesides ==
    ASSUME NEW s, IsQueue(s), NEW j, IsJob(j), j.at \in {"line", "subscribe"}, JobFact(j),
           NEW wk, NEW p, NEW h, Owed(wk, s, p, h) \/ Subscribes(j, p, h)
    PROVE  Owed(wk, Append(s, j), p, h)
BY QueueAppend DEF Owed, Coming

----------------------------------------------------------------------------
(* The steps *)

SameStates ==
    /\ hint' = [h \in Hints |-> hint'[h]]
    /\ \A h \in Hints : /\ DOMAIN hint'[h] = {"made", "state", "dnd"}
                        /\ hint'[h].state = hint[h].state

\* A thread goes on with its job and changes nothing the phones are told of.
LEMMA JobKeeps ==
    ASSUME HintsInv, NEW t \in Threads, NEW j, IsJob(j), JobFact(j), ThreadFact(t, j),
           j.at = "send" /\ ~custom[j.hint].crossed => j.state = custom[j.hint].state,
           Subscribing(j) => j.todo \subseteq Wants[j.phone],
           \A p \in Phones : \A h \in Everyone :
               /\ Subscribes(working[t], p, h) => Subscribes(j, p, h) \/ Tells(t, j, p, h)
               /\ Tells(t, working[t], p, h) => Tells(t, j, p, h),
           working' = [working EXCEPT ![t] = j],
           SameStates, UNCHANGED <<custom, subs, told, waiting>>
    PROVE  HintsInv'
<1>1. working = [x \in Threads |-> working[x]]
  BY DEF HintsInv, HintsTyped
<1>2. /\ working' = [x \in Threads |-> working'[x]] /\ working'[t] = j
      /\ \A x \in Threads \ {t} : working'[x] = working[x]
  BY <1>1
<1>3. HintsTyped'
  BY <1>2 DEF HintsInv, HintsTyped, SameStates
<1>4. ReadFact'
  BY <1>2 DEF HintsInv, ReadFact
<1>5. WantsFact'
  BY <1>2 DEF HintsInv, WantsFact
<1>6. ToldFact'
  <2> SUFFICES ASSUME NEW h \in Everyone, NEW p \in subs[h]
               PROVE  Shown(h, p)' \/ Owed(working', waiting', p, h)
    BY DEF ToldFact
  <2>1. p \in Phones
    BY DEF HintsInv, HintsTyped
  <2>2. CASE Shown(h, p)
    BY <2>2 DEF Shown, SameStates
  <2>3. CASE Owed(working, waiting, p, h)
    BY <1>1, <2>1, <2>3, StillOwed
  <2> QED
    BY <2>2, <2>3 DEF HintsInv, ToldFact
<1> QED
  BY <1>3, <1>4, <1>5, <1>6 DEF HintsInv

\* Nothing is changed that the phones are told of.
LEMMA OthersKeep ==
    ASSUME HintsInv, UNCHANGED <<hint, custom, subs, told, waiting, working>>
    PROVE  HintsInv'
BY DEF HintsInv, HintsTyped, ReadFact, WantsFact, ToldFact, Shown

\* A job waits besides the others.
LEMMA EventKeeps ==
    ASSUME HintsInv, NEW j, IsJob(j), j.at = "line", waiting' = Append(waiting, j),
           UNCHANGED <<hint, custom, subs, told, working>>
    PROVE  HintsInv'
<1>1. JobFact(j)
  BY DEF JobFact, Subscribing
<1>2. IsQueue(waiting)
  BY DEF HintsInv, HintsTyped
<1>3. IsQueue(waiting')
  BY <1>1, <1>2, QueueAppend
<1>4. HintsTyped'
  BY <1>3 DEF HintsInv, HintsTyped
<1>5. ReadFact' /\ WantsFact'
  <2>1. ReadFact'
    BY DEF HintsInv, ReadFact
  <2>2. ~Subscribing(j)
    BY DEF Subscribing
  <2>3. \A i \in DOMAIN waiting' : waiting'[i] = j \/ (i \in DOMAIN waiting /\ waiting'[i] = waiting[i])
    BY <1>1, <1>2, QueueAppend
  <2>4. WantsFact'
    BY <2>2, <2>3 DEF HintsInv, WantsFact
  <2> QED
    BY <2>1, <2>4
<1>6. ASSUME NEW p, NEW h, Owed(working, waiting, p, h)
      PROVE  Owed(working', waiting', p, h)
  BY <1>1, <1>2, <1>6, OwedBesides
<1>7. ToldFact'
  BY <1>6 DEF HintsInv, ToldFact, Shown
<1> QED
  BY <1>4, <1>5, <1>7 DEF HintsInv

\* A thread of the pool takes up the first job, and owes from then on what it owed.
LEMMA TakesUpKeeps ==
    ASSUME HintsInv, NEW t \in HintPool, TakesUp(t)
    PROVE  HintsInv'
<1> DEFINE j == Head(waiting)
<1>1. /\ working[t].at = "idle" /\ waiting # <<>> /\ t \in Threads
      /\ working' = [working EXCEPT ![t] = j] /\ waiting' = Tail(waiting)
      /\ UNCHANGED <<hint, custom, subs, told>>
  BY DEF TakesUp, Becomes, Cross, HintWorld, Threads
<1>2. /\ IsQueue(waiting') /\ 1 \in DOMAIN waiting /\ j = waiting[1]
      /\ IsJob(j) /\ j.at \in {"line", "subscribe"} /\ JobFact(j)
      /\ \A i \in DOMAIN waiting : i = 1 \/ (i - 1 \in DOMAIN waiting' /\ waiting'[i - 1] = waiting[i])
  BY <1>1, QueueTail DEF HintsInv, HintsTyped
<1> HIDE DEF j
<1>3. working = [x \in Threads |-> working[x]]
  BY DEF HintsInv, HintsTyped
<1>4. /\ working' = [x \in Threads |-> working'[x]] /\ working'[t] = j
      /\ \A x \in Threads \ {t} : working'[x] = working[x]
  BY <1>1, <1>3
<1>5. ThreadFact(t, j)
  BY <1>2 DEF ThreadFact, Subscribing
<1>6. HintsTyped'
  BY <1>1, <1>2, <1>4, <1>5 DEF HintsInv, HintsTyped
<1>7. ReadFact'
  BY <1>1, <1>2, <1>4 DEF HintsInv, ReadFact
<1>8. WantsFact'
  <2>1. j.todo \subseteq Wants[j.phone] \/ ~Subscribing(j)
    BY <1>2 DEF HintsInv, WantsFact
  <2>2. \A i \in DOMAIN waiting' : i + 1 \in DOMAIN waiting /\ waiting'[i] = waiting[i + 1]
    BY <1>1, QueueTail DEF HintsInv, HintsTyped
  <2> QED
    BY <1>1, <1>4, <2>1, <2>2 DEF HintsInv, WantsFact
<1>9. ASSUME NEW p, NEW h, Owed(working, waiting, p, h)
      PROVE  Owed(working', waiting', p, h)
  <2>1. ~(\E q \in {p} : Subscribes(working[t], q, h) \/ Tells(t, working[t], q, h))
    BY <1>1 DEF Subscribes, Subscribing, Tells
  <2>2. CASE \E x \in Threads : Subscribes(working[x], p, h)
    BY <1>4, <2>1, <2>2 DEF Owed, Coming
  <2>3. CASE \E x \in Threads : Tells(x, working[x], p, h)
    BY <1>4, <2>1, <2>3 DEF Owed
  <2>4. CASE \E i \in DOMAIN waiting : Subscribes(waiting[i], p, h)
    <3> PICK i \in DOMAIN waiting : Subscribes(waiting[i], p, h)
      BY <2>4
    <3>1. CASE i = 1
      BY <1>1, <1>2, <1>4, <3>1 DEF Owed, Coming
    <3>2. CASE i # 1
      BY <1>2, <3>2 DEF Owed, Coming
    <3> QED
      BY <3>1, <3>2
  <2> QED
    BY <1>9, <2>2, <2>3, <2>4 DEF Owed, Coming
<1>10. ToldFact'
  BY <1>1, <1>9 DEF HintsInv, ToldFact, Shown
<1> QED
  BY <1>6, <1>7, <1>8, <1>10 DEF HintsInv

\* A thread goes on without having anything to tell, now or then.
LEMMA PlainJobKeeps ==
    ASSUME HintsInv, NEW t \in Threads, NEW j, IsJob(j), j.at \in {"idle", "line", "hint", "leave"},
           j.at = "hint" => j.todo \subseteq Hints,
           working[t].at \in {"idle", "line", "hint", "leave"}
               \/ (working[t].at = "subscribe" /\ working[t].todo = {}),
           working' = [working EXCEPT ![t] = j],
           SameStates, UNCHANGED <<custom, subs, told, waiting>>
    PROVE  HintsInv'
<1>1. JobFact(j) /\ ThreadFact(t, j) /\ ~Subscribing(j)
  BY DEF JobFact, ThreadFact, Subscribing
<1>2. \A p \in Phones : \A h \in Everyone :
         ~Subscribes(working[t], p, h) /\ ~Tells(t, working[t], p, h)
  BY DEF Subscribes, Subscribing, Tells
<1> QED
  BY <1>1, <1>2, JobKeeps

LEMMA UnchangedStates == ASSUME HintsInv, UNCHANGED hint PROVE SameStates
BY DEF HintsInv, HintsTyped, SameStates

LEMMA NoWorkIsJob == IsJob(NoWork) /\ NoWork.at = "idle" /\ NoWork.leaves = "none" /\ NoWork.todo = {}
BY DEF IsJob, NoWork, Job, JobStates

LEMMA HandleLineKeeps ==
    ASSUME HintsInv, NEW t \in Threads, HandleLine(t)
    PROVE  HintsInv'
<1> DEFINE job == working[t]
<1>1. IsJob(job) /\ job.at = "line" /\ working = [x \in Threads |-> working[x]]
  BY DEF HandleLine, HintsInv, HintsTyped
<1>2. SameStates /\ UNCHANGED <<hint, custom, subs, told, waiting>>
  BY UnchangedStates DEF HandleLine, Becomes, HintWorld
<1> DEFINE now == Head(job.lines)
           x == now.line
           s == LineState(HintWorld, x, IF now.state = "attached" THEN "onhook" ELSE now.state)
           plain == shown[x] = "none" /\ now.state # "attached"
           rest == [job EXCEPT !.lines = Tail(job.lines)]
           looking == [rest EXCEPT !.at = "hint", !.line = x, !.todo = Hints, !.class = DeviceState(s),
                                   !.named = s = "dnd" /\ Len(line[x].calls) <= 1]
<1>3. CASE plain
  <2>1. working' = [working EXCEPT ![t] = rest]
    BY <1>3 DEF HandleLine, Becomes, HintWorld
  <2>2. IsJob(rest) /\ rest.at = "line"
    BY <1>1 DEF IsJob, NoWork, Job, JobStates
  <2> HIDE DEF rest, plain
  <2> QED
    BY <1>1, <1>2, <2>1, <2>2, PlainJobKeeps
<1>4. CASE ~plain
  <2>1. working' = [working EXCEPT ![t] = looking]
    BY <1>1, <1>4 DEF HandleLine, Becomes, HintWorld
  <2>2. IsJob(looking) /\ looking.at = "hint" /\ looking.todo = Hints
    BY <1>1 DEF IsJob, NoWork, Job, JobStates
  <2> HIDE DEF looking, plain
  <2> QED
    BY <1>1, <1>2, <2>1, <2>2, PlainJobKeeps
<1> QED
  BY <1>3, <1>4

LEMMA LinesHandledKeeps ==
    ASSUME HintsInv, NEW t \in Threads, LinesHandled(t)
    PROVE  HintsInv'
<1> DEFINE leaving == [working[t] EXCEPT !.at = "leave"]
<1>1. /\ IsJob(working[t]) /\ working[t].at = "line"
      /\ \/ working' = [working EXCEPT ![t] = NoWork]
         \/ working' = [working EXCEPT ![t] = leaving]
      /\ UNCHANGED <<hint, custom, subs, told, waiting>>
  BY DEF LinesHandled, Becomes, HintWorld, Goto, HintsInv, HintsTyped
<1>2. SameStates
  BY <1>1, UnchangedStates
<1>3. IsJob(leaving) /\ leaving.at = "leave"
  BY <1>1 DEF IsJob, NoWork, Job, JobStates
<1> HIDE DEF leaving
<1> QED
  BY <1>1, <1>2, <1>3, NoWorkIsJob, PlainJobKeeps

LEMMA LeaveLineKeeps ==
    ASSUME HintsInv, LeaveLine
    PROVE  HintsInv'
<1>1. /\ working["firer"].at = "leave" /\ "firer" \in Threads
      /\ working' = [working EXCEPT !["firer"] = NoWork]
      /\ UNCHANGED <<hint, custom, subs, told, waiting>>
  BY DEF LeaveLine, Becomes, HintWorld, Goto, Threads
<1>2. SameStates
  BY <1>1, UnchangedStates
<1> QED
  BY <1>1, <1>2, NoWorkIsJob, PlainJobKeeps

LEMMA SubscribedKeeps ==
    ASSUME HintsInv, NEW t \in Threads, Subscribed(t)
    PROVE  HintsInv'
<1>1. /\ working[t].at = "subscribe" /\ working[t].todo = {}
      /\ working' = [working EXCEPT ![t] = NoWork]
      /\ UNCHANGED <<hint, custom, subs, told, waiting>>
  BY DEF Subscribed, Becomes, HintWorld, Goto
<1>2. SameStates
  BY <1>1, UnchangedStates
<1> QED
  BY <1>1, <1>2, NoWorkIsJob, PlainJobKeeps

LEMMA TellAsteriskKeeps ==
    ASSUME HintsInv, NEW t \in Threads, TellAsterisk(t)
    PROVE  HintsInv'
<1> DEFINE j == [working[t] EXCEPT !.at = "line", !.line = "none"]
<1>1. /\ IsJob(working[t]) /\ working[t].at = "hint"
      /\ working' = [working EXCEPT ![t] = j]
      /\ UNCHANGED <<hint, custom, subs, told, waiting>>
  BY DEF TellAsterisk, Becomes, HintWorld, HintsInv, HintsTyped
<1>2. SameStates
  BY <1>1, UnchangedStates
<1>3. IsJob(j) /\ j.at = "line"
  BY <1>1 DEF IsJob, NoWork, Job, JobStates
<1> HIDE DEF j
<1> QED
  BY <1>1, <1>2, <1>3, PlainJobKeeps

\* What waits in Asterisk owes nothing yet: the state has not changed.
LEMMA ComputeKeeps ==
    ASSUME HintsInv, NEW h \in Hints, Compute(h)
    PROVE  HintsInv'
<1> DEFINE j == [Job("call back") EXCEPT !.hint = h, !.state = Extension(HintWorld, h)]
<1>1. /\ working["asterisk"].at = "idle" /\ "asterisk" \in Threads
      /\ UNCHANGED <<hint, custom, subs, told, waiting>>
      /\ working' = working \/ working' = [working EXCEPT !["asterisk"] = j]
  BY DEF Compute, Becomes, HintWorld, Threads
<1>2. CASE working' = working
  BY <1>1, <1>2, OthersKeep
<1>3. CASE working' = [working EXCEPT !["asterisk"] = j]
  <2>1. IsJob(j) /\ j.at = "call back" /\ j.hint = h /\ j.next = "done"
    BY DEF IsJob, NoWork, Job, JobStates
  <2> HIDE DEF j
  <2>2. JobFact(j) /\ ThreadFact("asterisk", j) /\ ~Subscribing(j)
    BY <2>1 DEF JobFact, ThreadFact, Subscribing
  <2>3. \A p \in Phones : \A g \in Everyone :
           ~Subscribes(working["asterisk"], p, g) /\ ~Tells("asterisk", working["asterisk"], p, g)
    BY <1>1 DEF Subscribes, Subscribing, Tells
  <2>4. SameStates
    BY <1>1, UnchangedStates
  <2> QED
    BY <1>1, <1>3, <2>1, <2>2, <2>3, <2>4, JobKeeps
<1> QED
  BY <1>1, <1>2, <1>3

\* The thread that takes a phone off a line handles the event itself.
LEMMA DetachKeeps ==
    ASSUME HintsInv, NEW p \in Phones, NEW x \in HintLines, Detach(p, x)
    PROVE  HintsInv'
<1> DEFINE j == [StatusEvent(x, "congestion") EXCEPT !.leaves = x]
<1>1. /\ working["firer"].at = "idle" /\ "firer" \in Threads
      /\ UNCHANGED <<hint, custom, subs, told, waiting>>
      /\ working' = [working EXCEPT !["firer"] = j]
  BY DEF Detach, Becomes, HintWorld, Threads, FirerFree, WithOneMore, Cross
<1>2. SameStates
  BY <1>1, UnchangedStates
<1>3. IsJob(j) /\ j.at = "line"
  BY DEF StatusEvent, IsJob, NoWork, Job, JobStates
<1> HIDE DEF j
<1> QED
  BY <1>1, <1>2, <1>3, PlainJobKeeps

\* Calls and phones come to a line, calls change, and phones reject calls: the event waits.
LEMMA EventsKeep ==
    ASSUME HintsInv, NEW p, NEW x, NEW i, NEW s,
           Attach(p, x) \/ Ring(x, s) \/ CallChanges(x, i, s) \/ DndChanges(p)
    PROVE  HintsInv'
<1> DEFINE j(e) == [Job("line") EXCEPT !.lines = e]
<1>1. \A e : IsJob(j(e)) /\ j(e).at = "line"
  BY DEF IsJob, NoWork, Job, JobStates
<1>2. /\ UNCHANGED <<hint, custom, subs, told, working>>
      /\ \E e : waiting' = Append(waiting, j(e))
  <2>1. CASE Attach(p, x)
    BY <2>1 DEF Attach, Becomes, HintWorld, WithOneMore, Fire, StatusEvent
  <2>2. CASE Ring(x, s)
    BY <2>2 DEF Ring, Changed, Becomes, HintWorld, WithOneMore, Fire, StatusEvent
  <2>3. CASE CallChanges(x, i, s)
    BY <2>3 DEF CallChanges, Changed, Becomes, HintWorld, WithOneMore, Fire, StatusEvent
  <2>4. CASE DndChanges(p)
    BY <2>4 DEF DndChanges, Becomes, HintWorld, WithOneMore, Fire
  <2> QED
    BY <2>1, <2>2, <2>3, <2>4
<1> HIDE DEF j
<1> QED
  BY <1>1, <1>2, EventKeeps

LEMMA CallLeavesKeeps ==
    ASSUME HintsInv, NEW x \in HintLines, NEW i, CallLeaves(x, i)
    PROVE  HintsInv'
BY OthersKeep DEF CallLeaves, Becomes, HintWorld

OneChanges(h) ==
    /\ hint' = [g \in Hints |-> hint'[g]]
    /\ \A g \in Hints : /\ DOMAIN hint'[g] = {"made", "state", "dnd"}
                        /\ g # h => hint'[g].state = hint[g].state

\* Who changes the state of a hint goes on to tell the subscribers of it.
LEMMA ChangeKeeps ==
    ASSUME HintsInv, NEW t \in Threads, NEW h \in Hints, NEW j, IsJob(j), JobFact(j), ThreadFact(t, j),
           j.at = "tell", j.hint = h, ~Subscribing(j), working[t].at \in {"hint", "call back"},
           OneChanges(h), working' = [working EXCEPT ![t] = j],
           UNCHANGED <<custom, subs, told, waiting>>
    PROVE  HintsInv'
<1>0. /\ hint' = [g \in Hints |-> hint'[g]]
      /\ \A g \in Hints : DOMAIN hint'[g] = {"made", "state", "dnd"}
      /\ \A g \in Hints : g # h => hint'[g].state = hint[g].state
  BY DEF OneChanges
<1>1. working = [x \in Threads |-> working[x]]
  BY DEF HintsInv, HintsTyped
<1>2. /\ working' = [x \in Threads |-> working'[x]] /\ working'[t] = j
      /\ \A x \in Threads \ {t} : working'[x] = working[x]
  BY <1>1
<1>3. HintsTyped'
  BY <1>0, <1>2 DEF HintsInv, HintsTyped
<1>4. ReadFact'
  BY <1>2 DEF HintsInv, ReadFact
<1>5. WantsFact'
  BY <1>2 DEF HintsInv, WantsFact
<1>6. ToldFact'
  <2> SUFFICES ASSUME NEW g \in Everyone, NEW p \in subs[g]
               PROVE  Shown(g, p)' \/ Owed(working', waiting', p, g)
    BY DEF ToldFact
  <2>1. CASE g = h
    BY <1>2, <2>1 DEF Owed, Tells
  <2>2. CASE g # h /\ Shown(g, p)
    BY <1>0, <2>2 DEF Shown
  <2>3. CASE g # h /\ Owed(working, waiting, p, g)
    <3>1. ~Subscribes(working[t], p, g) /\ ~Tells(t, working[t], p, g)
      BY DEF Subscribes, Subscribing, Tells
    <3> QED
      BY <1>1, <2>3, <3>1, StillOwed
  <2> QED
    BY <2>1, <2>2, <2>3 DEF HintsInv, ToldFact
<1> QED
  BY <1>3, <1>4, <1>5, <1>6 DEF HintsInv

LEMMA CallBackKeeps ==
    ASSUME HintsInv, CallBack
    PROVE  HintsInv'
<1> DEFINE h == working["asterisk"].hint
           j == [working["asterisk"] EXCEPT !.at = "tell"]
<1>1. /\ "asterisk" \in Threads /\ IsJob(working["asterisk"]) /\ JobFact(working["asterisk"])
      /\ ThreadFact("asterisk", working["asterisk"])
  BY DEF HintsInv, HintsTyped, Threads
<1>2. /\ working["asterisk"].at = "call back"
      /\ hint' = [hint EXCEPT ![h] = [@ EXCEPT !.state = FromExtension(working["asterisk"].state, hint[h])]]
      /\ working' = [working EXCEPT !["asterisk"] = j]
      /\ UNCHANGED <<custom, subs, told, waiting>>
  BY DEF CallBack, Becomes, HintWorld
<1>3. h \in Hints
  BY <1>1, <1>2 DEF JobFact
<1>4. IsJob(j) /\ j.at = "tell" /\ j.hint = h /\ j.next = working["asterisk"].next
  BY <1>1 DEF IsJob, NoWork, Job, JobStates
<1>5. JobFact(j) /\ ThreadFact("asterisk", j) /\ ~Subscribing(j)
  BY <1>1, <1>2, <1>3, <1>4, HintsAssumption DEF JobFact, ThreadFact, Subscribing, Everyone
<1>6. OneChanges(h)
  BY <1>2, <1>3 DEF HintsInv, HintsTyped, OneChanges
<1> HIDE DEF j, h
<1> QED
  BY <1>1, <1>2, <1>3, <1>4, <1>5, <1>6, ChangeKeeps

LEMMA LookAtHintKeeps ==
    ASSUME HintsInv, NEW t \in Threads, LookAtHint(t)
    PROVE  HintsInv'
<1> DEFINE job == working[t]
           h == Some(job.todo)
           s == IF shown[job.line] = "none" THEN hint[h].state ELSE shown[job.line]
           looked == [job EXCEPT !.todo = @ \ {h}]
           telling == [looked EXCEPT !.at = "tell", !.hint = h, !.next = "hint"]
           named == [hint EXCEPT ![h].dnd = job.named]
<1>1. /\ IsJob(job) /\ JobFact(job) /\ job.at = "hint" /\ job.todo # {}
      /\ UNCHANGED <<custom, subs, told, waiting>>
      /\ \/ hint' = hint /\ working' = [working EXCEPT ![t] = looked]
         \/ hint' = named /\ working' = [working EXCEPT ![t] = looked]
         \/ hint' = [named EXCEPT ![h].state = s] /\ working' = [working EXCEPT ![t] = telling]
  <2> DEFINE one == [HintWorld EXCEPT !.working[t].todo = @ \ {h}]
             two == [one EXCEPT !.hint[h].dnd = job.named,
                               !.line[job.line].crossed = @ \/ Renames(h, job.named)]
             three == [two EXCEPT !.hint[h].state = s,
                         !.working[t] = [@ EXCEPT !.at = "tell", !.hint = h, !.next = "hint"]]
  <2>1. job.at = "hint" /\ job.todo # {} /\ (Becomes(one) \/ Becomes(two) \/ Becomes(three))
    BY DEF LookAtHint
  <2>2. /\ one.hint = hint /\ one.working = [working EXCEPT ![t] = looked] /\ one.line = line
        /\ one.custom = custom /\ one.subs = subs /\ one.told = told /\ one.waiting = waiting
    BY DEF HintWorld
  <2>3. /\ two.hint = named /\ two.working = [working EXCEPT ![t] = looked]
        /\ two.custom = custom /\ two.subs = subs /\ two.told = told /\ two.waiting = waiting
    BY <2>2 DEF HintWorld
  <2>4. /\ three.hint = [named EXCEPT ![h].state = s]
        /\ three.working = [working EXCEPT ![t] = telling]
        /\ three.custom = custom /\ three.subs = subs /\ three.told = told /\ three.waiting = waiting
    <3>1. /\ three.hint = [two.hint EXCEPT ![h] = [@ EXCEPT !.state = s]]
          /\ three.working = [two.working EXCEPT ![t] =
                                [@ EXCEPT !.at = "tell", !.hint = h, !.next = "hint"]]
          /\ three.custom = two.custom /\ three.subs = two.subs /\ three.told = two.told
          /\ three.waiting = two.waiting
      <4>1. {"hint", "working", "custom", "subs", "told", "waiting"} \subseteq DOMAIN two
        BY DEF HintWorld
      <4> HIDE DEF two, s, h, job
      <4> QED
        BY <4>1
    <3> HIDE DEF two, three
    <3>2. two.working[t] = looked
      BY <2>3 DEF HintsInv, HintsTyped
    <3> QED
      BY <2>3, <3>1, <3>2
  <2> HIDE DEF one, two, three, looked, named, telling, s, h
  <2>5. /\ UNCHANGED <<custom, subs, told, waiting>>
        /\ \/ hint' = hint /\ working' = [working EXCEPT ![t] = looked]
           \/ hint' = named /\ working' = [working EXCEPT ![t] = looked]
           \/ hint' = [named EXCEPT ![h].state = s] /\ working' = [working EXCEPT ![t] = telling]
    BY <2>1, <2>2, <2>3, <2>4 DEF Becomes
  <2> QED
    BY <2>1, <2>5 DEF HintsInv, HintsTyped
<1>2. job.todo \subseteq Hints /\ h \in Hints
  BY <1>1 DEF JobFact, Some
<1>3. IsJob(looked) /\ looked.at = "hint" /\ looked.todo = job.todo \ {h}
  BY <1>1 DEF IsJob, NoWork, Job, JobStates
<1>4. /\ IsJob(telling) /\ telling.at = "tell" /\ telling.hint = h /\ telling.next = "hint"
      /\ telling.todo = job.todo \ {h}
  BY <1>1 DEF IsJob, NoWork, Job, JobStates
<1>5. /\ hint = [g \in Hints |-> hint[g]]
      /\ \A g \in Hints : DOMAIN hint[g] = {"made", "state", "dnd"}
  BY DEF HintsInv, HintsTyped
<1>6. /\ named = [g \in Hints |-> named[g]]
      /\ \A g \in Hints : DOMAIN named[g] = {"made", "state", "dnd"} /\ named[g].state = hint[g].state
  BY <1>2, <1>5
<1>7. ASSUME hint' = hint \/ hint' = named, working' = [working EXCEPT ![t] = looked]
      PROVE  HintsInv'
  <2>1. SameStates
    BY <1>5, <1>6, <1>7 DEF SameStates
  <2> HIDE DEF looked, named, s
  <2> QED
    BY <1>1, <1>2, <1>3, <1>7, <2>1, PlainJobKeeps
<1>8. ASSUME hint' = [named EXCEPT ![h].state = s], working' = [working EXCEPT ![t] = telling]
      PROVE  HintsInv'
  <2>1. JobFact(telling) /\ ThreadFact(t, telling) /\ ~Subscribing(telling)
    BY <1>2, <1>4, HintsAssumption DEF JobFact, ThreadFact, Subscribing, Everyone
  <2> HIDE DEF telling, named, s
  <2>2. OneChanges(h)
    BY <1>2, <1>6, <1>8 DEF OneChanges
  <2> HIDE DEF h
  <2> QED
    BY <1>1, <1>2, <1>4, <1>8, <2>1, <2>2, ChangeKeeps
<1> QED
  BY <1>1, <1>7, <1>8

\* What a job is when it has told the phones.
After(j) == IF j.next = "done" THEN NoWork ELSE [j EXCEPT !.at = j.next]

LEMMA AfterFacts ==
    ASSUME NEW t \in Threads, NEW j, IsJob(j), JobFact(j), ThreadFact(t, j), j.at \in {"tell", "send"}
    PROVE  /\ IsJob(After(j)) /\ JobFact(After(j)) /\ ThreadFact(t, After(j))
           /\ After(j).at \in {"idle", "hint", "subscribe"}
           /\ Subscribing(After(j)) => Subscribing(j) /\ After(j).todo = j.todo /\ After(j).phone = j.phone
           /\ Subscribing(j) => Subscribing(After(j))
<1>1. CASE j.next = "done"
  BY <1>1, NoWorkIsJob DEF After, JobFact, ThreadFact, Subscribing
<1>2. CASE j.next \in {"hint", "subscribe"}
  <2> DEFINE a == [j EXCEPT !.at = j.next]
  <2>1. After(j) = a
    BY <1>2 DEF After
  <2>2. IsJob(a) /\ a.at = j.next /\ a.todo = j.todo /\ a.phone = j.phone /\ a.next = j.next /\ a.hint = j.hint
    BY <1>2 DEF IsJob, NoWork, Job, JobStates
  <2> HIDE DEF a
  <2> QED
    BY <1>2, <2>1, <2>2 DEF JobFact, ThreadFact, Subscribing
<1> QED
  BY <1>1, <1>2 DEF IsJob

\* t has told the phones S of h, and nobody else was to be told by it.
HasTold(t, S, h) ==
    /\ working[t].at \in {"tell", "send"} /\ working[t].hint = h
    /\ told' = [p \in Phones |-> [g \in Everyone |-> told'[p][g]]]
    /\ \A p \in Phones : \A g \in Everyone : p \notin S \/ g # h => told'[p][g] = told[p][g]
    /\ \A p \in S \cap subs[h] :
          IF h \in Hints THEN told'[p][h] = Shows(p, hint'[h].state)
          ELSE custom'[h].crossed \/ told'[p][h] = custom'[h].state
    /\ \A p \in subs[h] : Tells(t, working[t], p, h) => p \in S

LEMMA ToldKeeps ==
    ASSUME HintsInv, NEW t \in Threads, NEW h \in Everyone, NEW S, HasTold(t, S, h),
           working' = [working EXCEPT ![t] = After(working[t])],
           UNCHANGED <<hint, custom, subs, waiting>>
    PROVE  HintsInv'
<1> DEFINE j == After(working[t])
<1>0. working[t].at \in {"tell", "send"} /\ working[t].hint = h
  BY DEF HasTold
<1>1. /\ working = [x \in Threads |-> working[x]]
      /\ IsJob(working[t]) /\ JobFact(working[t]) /\ ThreadFact(t, working[t])
  BY DEF HintsInv, HintsTyped
<1>2. /\ IsJob(j) /\ JobFact(j) /\ ThreadFact(t, j)
      /\ j.at \in {"idle", "hint", "subscribe"}
      /\ Subscribing(j) => Subscribing(working[t]) /\ j.todo = working[t].todo /\ j.phone = working[t].phone
      /\ Subscribing(working[t]) => Subscribing(j)
  BY <1>0, <1>1, AfterFacts
<1> HIDE DEF j
<1>3. /\ working' = [x \in Threads |-> working'[x]] /\ working'[t] = j
      /\ \A x \in Threads \ {t} : working'[x] = working[x]
  BY <1>1 DEF j
<1>4. HintsTyped'
  BY <1>2, <1>3 DEF HintsInv, HintsTyped, HasTold
<1>5. ReadFact'
  BY <1>2, <1>3 DEF HintsInv, ReadFact
<1>6. WantsFact'
  BY <1>2, <1>3 DEF HintsInv, WantsFact
<1>7. ToldFact'
  <2> SUFFICES ASSUME NEW g \in Everyone, NEW p \in subs[g]
               PROVE  Shown(g, p)' \/ Owed(working', waiting', p, g)
    BY DEF ToldFact
  <2>1. p \in Phones
    BY DEF HintsInv, HintsTyped
  <2>2. CASE g = h /\ p \in S
    BY <2>2 DEF HasTold, Shown
  <2>3. CASE (g # h \/ p \notin S) /\ Shown(g, p)
    <3>1. told'[p][g] = told[p][g]
      BY <2>1, <2>3 DEF HasTold
    <3> QED
      BY <2>3, <3>1 DEF Shown
  <2>4. CASE (g # h \/ p \notin S) /\ Owed(working, waiting, p, g)
    <3>1. ~Tells(t, working[t], p, g)
      BY <1>0, <2>4 DEF Tells, HasTold
    <3>2. Subscribes(working[t], p, g) => Subscribes(j, p, g)
      BY <1>2 DEF Subscribes
    <3>3. working' = [working EXCEPT ![t] = j]
      BY DEF j
    <3>4. Owed([working EXCEPT ![t] = j], waiting, p, g)
      BY ONLY t \in Threads, <1>1, <2>4, <3>1, <3>2, StillOwed
    <3> QED
      BY <3>3, <3>4
  <2> QED
    BY <2>2, <2>3, <2>4 DEF HintsInv, ToldFact
<1> QED
  BY <1>4, <1>5, <1>6, <1>7 DEF HintsInv

LEMMA TellKeeps ==
    ASSUME HintsInv, NEW t \in Threads, Tell(t)
    PROVE  HintsInv'
<1> PICK h : h = working[t].hint
  OBVIOUS
<1>1. /\ working[t].at = "tell" /\ h \in Hints /\ h \in Everyone
      /\ told' = [p \in Phones |-> IF p \in subs[h] THEN [told[p] EXCEPT ![h] = Shows(p, hint[h].state)]
                                   ELSE told[p]]
      /\ working' = [working EXCEPT ![t] = After(working[t])]
      /\ UNCHANGED <<hint, custom, subs, waiting>>
  BY DEF Tell, Becomes, HintWorld, Goto, Telling, After, Everyone
<1>2. /\ told = [p \in Phones |-> [g \in Everyone |-> told[p][g]]]
      /\ subs[h] \subseteq Phones
  BY <1>1 DEF HintsInv, HintsTyped
<1>3. /\ told' = [p \in Phones |-> [g \in Everyone |-> told'[p][g]]]
      /\ \A p \in Phones : \A g \in Everyone : p \notin subs[h] \/ g # h => told'[p][g] = told[p][g]
      /\ \A p \in subs[h] : told'[p][h] = Shows(p, hint[h].state)
  BY <1>1, <1>2
<1>4. HasTold(t, subs[h], h)
  BY <1>1, <1>3 DEF HasTold
<1> QED
  BY <1>1, <1>4, ToldKeeps

LEMMA ReadCustomKeeps ==
    ASSUME HintsInv, NEW t \in Threads, ReadCustom(t)
    PROVE  HintsInv'
<1> DEFINE c == working[t].hint
           j == [working[t] EXCEPT !.at = "send", !.state = custom[c].state]
<1>1. /\ IsJob(working[t]) /\ JobFact(working[t]) /\ ThreadFact(t, working[t])
      /\ working[t].at = "tell" /\ c \in Customs
      /\ working' = [working EXCEPT ![t] = j]
      /\ UNCHANGED <<hint, custom, subs, told, waiting>>
  BY DEF ReadCustom, Becomes, HintWorld, HintsInv, HintsTyped
<1>2. SameStates
  BY <1>1, UnchangedStates
<1>3. /\ IsJob(j) /\ j.at = "send" /\ j.hint = c /\ j.state = custom[j.hint].state
      /\ j.next = working[t].next /\ j.todo = working[t].todo /\ j.phone = working[t].phone
  BY <1>1 DEF IsJob, NoWork, Job, JobStates
<1> HIDE DEF j
<1>4. JobFact(j) /\ ThreadFact(t, j) /\ (Subscribing(j) <=> Subscribing(working[t]))
  BY <1>1, <1>3 DEF JobFact, ThreadFact, Subscribing
<1>5. Subscribing(j) => j.todo \subseteq Wants[j.phone]
  BY <1>3, <1>4 DEF HintsInv, WantsFact
<1>6. \A p \in Phones : \A h \in Everyone :
         /\ Subscribes(working[t], p, h) => Subscribes(j, p, h) \/ Tells(t, j, p, h)
         /\ Tells(t, working[t], p, h) => Tells(t, j, p, h)
  BY <1>3, <1>4 DEF Subscribes, Tells
<1> QED
  BY <1>1, <1>2, <1>3, <1>4, <1>5, <1>6, JobKeeps

\* What is told of a custom state was read before, and has changed since only where a change
\* crossed it.
LEMMA TellCustomKeeps ==
    ASSUME HintsInv, NEW t \in Threads, TellCustom(t)
    PROVE  HintsInv'
<1> PICK c : c = working[t].hint
  OBVIOUS
<1> PICK S : S = IF t = "stasis" THEN subs[c] ELSE {working[t].phone}
  OBVIOUS
<1>1. /\ working[t].at = "send"
      /\ IsJob(working[t]) /\ JobFact(working[t]) /\ ThreadFact(t, working[t])
      /\ told' = [p \in Phones |-> IF p \in S THEN [told[p] EXCEPT ![c] = working[t].state] ELSE told[p]]
      /\ working' = [working EXCEPT ![t] = After(working[t])]
      /\ UNCHANGED <<hint, custom, subs, waiting>>
  BY DEF TellCustom, Becomes, HintWorld, Goto, Telling, After, HintsInv, HintsTyped
<1>2. c \in Customs /\ c \in Everyone /\ c \notin Hints
  BY <1>1, HintsAssumption DEF JobFact, Everyone
<1>3. /\ told = [p \in Phones |-> [g \in Everyone |-> told[p][g]]]
      /\ subs[c] \subseteq Phones
  BY <1>2 DEF HintsInv, HintsTyped
<1>4. custom[c].crossed \/ working[t].state = custom[c].state
  BY <1>1 DEF HintsInv, ReadFact
<1>5. /\ told' = [p \in Phones |-> [g \in Everyone |-> told'[p][g]]]
      /\ \A p \in Phones : \A g \in Everyone : p \notin S \/ g # c => told'[p][g] = told[p][g]
      /\ \A p \in S \cap subs[c] : told'[p][c] = working[t].state
  BY <1>1, <1>2, <1>3
<1>6. \A p \in subs[c] : Tells(t, working[t], p, c) => p \in S
  BY <1>2 DEF Tells
<1>7. HasTold(t, S, c)
  BY <1>1, <1>2, <1>4, <1>5, <1>6 DEF HasTold
<1> QED
  BY <1>1, <1>2, <1>7, ToldKeeps

\* A phone that subscribes is told at once, and a hint that is made for it is nobody else's.
LEMMA SubscribeKeeps ==
    ASSUME HintsInv, NEW t \in Threads, Subscribe(t)
    PROVE  HintsInv'
<1> PICK h : h = Some(working[t].todo)
  OBVIOUS
<1> PICK q : q = working[t].phone
  OBVIOUS
<1> DEFINE j == [working[t] EXCEPT !.at = "tell", !.hint = h, !.next = "subscribe",
                               !.todo = working[t].todo \ {h}]
           new == [made |-> TRUE, dnd |-> FALSE, state |-> FromExtension(Extension(HintWorld, h), hint[h])]
<1>1. /\ IsJob(working[t]) /\ JobFact(working[t]) /\ ThreadFact(t, working[t])
      /\ working[t].at = "subscribe" /\ working[t].todo # {}
      /\ working = [x \in Threads |-> working[x]]
  BY DEF Subscribe, HintsInv, HintsTyped
<1>2. /\ Subscribing(working[t]) /\ t \in HintPool /\ q \in Phones /\ working[t].todo \subseteq Everyone
      /\ h \in working[t].todo /\ h \in Everyone /\ working[t].todo \subseteq Wants[q]
  <2>1. Subscribing(working[t])
    BY <1>1 DEF Subscribing
  <2>2. h \in working[t].todo
    BY <1>1 DEF Some
  <2> QED
    BY <1>1, <2>1, <2>2 DEF JobFact, ThreadFact, HintsInv, WantsFact
<1>3. /\ subs' = [subs EXCEPT ![h] = @ \cup {q}]
      /\ working' = [working EXCEPT ![t] = j]
      /\ told' = told /\ waiting' = waiting
      /\ h \in Hints => custom' = custom /\ (hint' = hint \/ hint' = [hint EXCEPT ![h] = new])
      /\ h \notin Hints => hint' = hint /\ custom' = [custom EXCEPT ![h].made = TRUE]
  <2>1. CASE h \notin Hints
    BY <2>1 DEF Subscribe, Becomes, HintWorld
  <2>2. CASE h \in Hints /\ hint[h].made
    BY <2>2 DEF Subscribe, MakeHint, Becomes, HintWorld
  <2>3. CASE h \in Hints /\ ~hint[h].made
    BY <2>3 DEF Subscribe, MakeHint, Becomes, HintWorld
  <2> QED
    BY <2>1, <2>2, <2>3
<1>4. /\ IsJob(j) /\ j.at = "tell" /\ j.hint = h /\ j.next = "subscribe" /\ j.phone = q
      /\ j.todo = working[t].todo \ {h}
  BY <1>1 DEF IsJob, NoWork, Job, JobStates
<1> HIDE DEF j
<1>5. JobFact(j) /\ ThreadFact(t, j) /\ Subscribing(j)
  BY <1>2, <1>4 DEF JobFact, ThreadFact, Subscribing
<1>6. /\ working' = [x \in Threads |-> working'[x]] /\ working'[t] = j
      /\ \A x \in Threads \ {t} : working'[x] = working[x]
  BY <1>1, <1>3
<1>7. /\ hint' = [g \in Hints |-> hint'[g]] 
      /\ \A g \in Hints : DOMAIN hint'[g] = {"made", "state", "dnd"}
      /\ \A g \in Hints : g # h => hint'[g] = hint[g]
  <2>1. /\ hint = [g \in Hints |-> hint[g]] 
        /\ \A g \in Hints : DOMAIN hint[g] = {"made", "state", "dnd"}
    BY DEF HintsInv, HintsTyped
  <2>2. DOMAIN new = {"made", "state", "dnd"}
    OBVIOUS
  <2> HIDE DEF new
  <2> QED
    BY <1>3, <2>1, <2>2
<1>8. /\ custom' = [c \in Customs |-> custom'[c]]
      /\ \A c \in Customs : /\ DOMAIN custom'[c] = {"made", "state", "crossed"}
                            /\ custom'[c].crossed \in BOOLEAN
                            /\ custom'[c].crossed = custom[c].crossed /\ custom'[c].state = custom[c].state
  <2>1. /\ custom = [c \in Customs |-> custom[c]]
        /\ \A c \in Customs : /\ DOMAIN custom[c] = {"made", "state", "crossed"}
                              /\ custom[c].crossed \in BOOLEAN
    BY DEF HintsInv, HintsTyped
  <2> QED
    BY <1>3, <2>1
<1>9. /\ subs' \in [Everyone -> SUBSET Phones]
      /\ \A g \in Everyone : \A p \in subs'[g] : p \in subs[g] \/ (g = h /\ p = q)
  BY <1>2, <1>3 DEF HintsInv, HintsTyped
<1>10. HintsTyped'
  BY <1>3, <1>4, <1>5, <1>6, <1>7, <1>8, <1>9 DEF HintsInv, HintsTyped
<1>11. ReadFact'
  <2> SUFFICES ASSUME NEW x \in Threads, working'[x].at = "send", ~custom'[working'[x].hint].crossed
               PROVE  working'[x].state = custom'[working'[x].hint].state
    BY DEF ReadFact
  <2>1. x # t /\ working'[x] = working[x]
    BY <1>4, <1>6
  <2>2. working[x].hint \in Customs
    BY <2>1 DEF HintsInv, HintsTyped, JobFact
  <2> QED
    BY <1>8, <2>1, <2>2 DEF HintsInv, ReadFact
<1>12. WantsFact'
  BY <1>2, <1>3, <1>4, <1>6, <1>9 DEF HintsInv, WantsFact
<1>13. ToldFact'
  <2> SUFFICES ASSUME NEW g \in Everyone, NEW p \in subs'[g]
               PROVE  Shown(g, p)' \/ Owed(working', waiting', p, g)
    BY DEF ToldFact
  <2>1. CASE g = h /\ (h \in Hints \/ p = q)
    BY <1>4, <1>6, <2>1 DEF Owed, Tells
  <2>2. CASE (g # h \/ (h \notin Hints /\ p # q)) /\ Shown(g, p)
    BY <1>3, <1>7, <1>8, <2>2 DEF Shown, Everyone
  <2>3. CASE (g # h \/ (h \notin Hints /\ p # q)) /\ Owed(working, waiting, p, g)
    <3>1. ~Tells(t, working[t], p, g)
      BY <1>1 DEF Tells
    <3>2. Subscribes(working[t], p, g) => Subscribes(j, p, g)
      BY <1>4, <1>5, <2>3 DEF Subscribes
    <3>3. Owed([working EXCEPT ![t] = j], waiting, p, g)
      BY ONLY t \in Threads, <1>1, <2>3, <3>1, <3>2, StillOwed
    <3> QED
      BY <1>3, <3>3
  <2>4. p \in subs[g] \/ (g = h /\ p = q)
    BY <1>9
  <2> QED
    BY <2>1, <2>2, <2>3, <2>4 DEF HintsInv, ToldFact
<1> QED
  BY <1>10, <1>11, <1>12, <1>13 DEF HintsInv

\* A phone that registers forgets what it was told, and is to be subscribed to all it wants.
LEMMA RegisterKeeps ==
    ASSUME HintsInv, NEW q \in Phones, RegisterPhone(q)
    PROVE  HintsInv'
<1> DEFINE j == [Job("subscribe") EXCEPT !.phone = q, !.todo = Wants[q]]
<1>1. /\ told' = [told EXCEPT ![q] = [h \in Everyone |-> "nothing"]]
      /\ waiting' = Append(waiting, j)
      /\ UNCHANGED <<hint, custom, subs, working>>
  BY DEF RegisterPhone, Becomes, HintWorld, WithOneMore, Fire
<1>2. /\ IsJob(j) /\ j.at = "subscribe" /\ j.phone = q /\ j.todo = Wants[q] /\ j.next = "done"
  BY DEF IsJob, NoWork, Job, JobStates
<1> HIDE DEF j
<1>3. Subscribing(j) /\ JobFact(j) /\ Wants[q] \subseteq Everyone
  BY <1>2, HintsAssumption DEF Subscribing, JobFact, Everyone
<1>4. IsQueue(waiting)
  BY DEF HintsInv, HintsTyped
<1>5. /\ IsQueue(waiting')
      /\ \A i \in DOMAIN waiting' : waiting'[i] = j \/ (i \in DOMAIN waiting /\ waiting'[i] = waiting[i])
  BY <1>1, <1>2, <1>3, <1>4, QueueAppend
<1>6. /\ told' = [p \in Phones |-> [h \in Everyone |-> told'[p][h]]]
      /\ \A p \in Phones \ {q} : told'[p] = told[p]
  BY <1>1 DEF HintsInv, HintsTyped
<1>7. HintsTyped'
  BY <1>1, <1>5, <1>6 DEF HintsInv, HintsTyped
<1>8. ReadFact'
  BY <1>1 DEF HintsInv, ReadFact
<1>9. WantsFact'
  BY <1>1, <1>2, <1>5 DEF HintsInv, WantsFact
<1>10. ASSUME NEW p, NEW h, Owed(working, waiting, p, h) \/ Subscribes(j, p, h)
       PROVE  Owed(working', waiting', p, h)
  BY <1>1, <1>2, <1>3, <1>4, <1>10, OwedBesides
<1>11. ToldFact'
  <2> SUFFICES ASSUME NEW h \in Everyone, NEW p \in subs[h]
               PROVE  Shown(h, p)' \/ Owed(working', waiting', p, h)
    BY <1>1 DEF ToldFact
  <2>1. p \in Phones /\ h \in Wants[p]
    BY DEF HintsInv, HintsTyped, WantsFact
  <2>2. CASE p = q
    BY <1>2, <1>3, <1>10, <2>1, <2>2 DEF Subscribes
  <2>3. CASE p # q
    BY <1>1, <1>6, <1>10, <2>1, <2>3 DEF HintsInv, ToldFact, Shown
  <2> QED
    BY <2>2, <2>3
<1> QED
  BY <1>7, <1>8, <1>9, <1>11 DEF HintsInv

LEMMA UnregisterKeeps ==
    ASSUME HintsInv, NEW q \in Phones, UnregisterPhone(q)
    PROVE  HintsInv'
<1>1. /\ subs' = [h \in Everyone |-> subs[h] \ {q}]
      /\ UNCHANGED <<hint, custom, told, waiting, working>>
  BY DEF UnregisterPhone, Becomes, HintWorld, WithOneMore
<1>2. /\ subs' \in [Everyone -> SUBSET Phones]
      /\ \A h \in Everyone : subs'[h] \subseteq subs[h]
  BY <1>1 DEF HintsInv, HintsTyped
<1>3. HintsTyped'
  BY <1>1, <1>2 DEF HintsInv, HintsTyped
<1>4. ReadFact'
  BY <1>1 DEF HintsInv, ReadFact
<1>5. WantsFact'
  BY <1>1, <1>2 DEF HintsInv, WantsFact
<1>6. ToldFact'
  BY <1>1, <1>2 DEF HintsInv, ToldFact, Shown
<1> QED
  BY <1>3, <1>4, <1>5, <1>6 DEF HintsInv

\* A custom state that changes is told by the thread that brings the message; what others
\* have read of it is crossed.
LEMMA CustomChangesKeeps ==
    ASSUME HintsInv, NEW c \in Customs, NEW s, CustomChanges(c, s)
    PROVE  HintsInv'
<1> DEFINE j == [Job("tell") EXCEPT !.hint = c]
           met == \E t \in HintPool : working[t].at = "send" /\ working[t].hint = c
<1>1. /\ working["stasis"].at = "idle" /\ "stasis" \in Threads
      /\ working' = [working EXCEPT !["stasis"] = j]
      /\ custom' = [custom EXCEPT ![c].state = s, ![c].crossed = @ \/ met]
      /\ UNCHANGED <<hint, subs, told, waiting>>
  BY DEF CustomChanges, Becomes, HintWorld, WithOneMore, Threads
<1>2. IsJob(j) /\ j.at = "tell" /\ j.hint = c /\ j.next = "done"
  BY DEF IsJob, NoWork, Job, JobStates
<1> HIDE DEF j
<1>3. JobFact(j) /\ ThreadFact("stasis", j) /\ ~Subscribing(j)
  BY <1>2, HintsAssumption DEF JobFact, ThreadFact, Subscribing, Everyone
<1>4. working = [x \in Threads |-> working[x]]
  BY DEF HintsInv, HintsTyped
<1>5. /\ working' = [x \in Threads |-> working'[x]] /\ working'["stasis"] = j
      /\ \A x \in Threads \ {"stasis"} : working'[x] = working[x]
  BY <1>1, <1>4
<1> HIDE DEF met
<1>6. /\ custom' = [d \in Customs |-> custom'[d]]
      /\ \A d \in Customs : /\ DOMAIN custom'[d] = {"made", "state", "crossed"}
                            /\ custom'[d].crossed \in BOOLEAN
                            /\ custom[d].crossed => custom'[d].crossed
                            /\ d # c => custom'[d] = custom[d]
      /\ met => custom'[c].crossed
  <2>1. /\ custom = [d \in Customs |-> custom[d]]
        /\ \A d \in Customs : /\ DOMAIN custom[d] = {"made", "state", "crossed"}
                              /\ custom[d].crossed \in BOOLEAN
    BY DEF HintsInv, HintsTyped
  <2>2. met \in BOOLEAN
    BY DEF met
  <2> QED
    BY <1>1, <2>1, <2>2
<1>7. HintsTyped'
  BY <1>1, <1>2, <1>3, <1>5, <1>6 DEF HintsInv, HintsTyped
<1>8. ReadFact'
  <2> SUFFICES ASSUME NEW x \in Threads, working'[x].at = "send", ~custom'[working'[x].hint].crossed
               PROVE  working'[x].state = custom'[working'[x].hint].state
    BY DEF ReadFact
  <2>1. x # "stasis" /\ working'[x] = working[x]
    BY <1>2, <1>5
  <2>2. working[x].hint \in Customs /\ x \in HintPool
    BY <2>1 DEF HintsInv, HintsTyped, JobFact, ThreadFact
  <2>3. working[x].hint # c
    BY <1>6, <2>1, <2>2 DEF met
  <2> QED
    BY <1>6, <2>1, <2>2, <2>3 DEF HintsInv, ReadFact
<1>9. WantsFact'
  BY <1>1, <1>3, <1>5 DEF HintsInv, WantsFact
<1>10. ToldFact'
  <2> SUFFICES ASSUME NEW g \in Everyone, NEW p \in subs[g]
               PROVE  Shown(g, p)' \/ Owed(working', waiting', p, g)
    BY <1>1 DEF ToldFact
  <2>1. CASE g = c
    BY <1>1, <1>2, <1>5, <2>1 DEF Owed, Tells
  <2>2. CASE g # c /\ Shown(g, p)
    BY <1>1, <1>6, <2>2 DEF Shown, Everyone
  <2>3. CASE g # c /\ Owed(working, waiting, p, g)
    <3>1. ~Subscribes(working["stasis"], p, g) /\ ~Tells("stasis", working["stasis"], p, g)
      BY <1>1 DEF Subscribes, Subscribing, Tells
    <3>2. Owed([working EXCEPT !["stasis"] = j], waiting, p, g)
      BY ONLY <1>1, <1>4, <2>3, <3>1, StillOwed
    <3> QED
      BY <1>1, <3>2
  <2> QED
    BY <2>1, <2>2, <2>3 DEF HintsInv, ToldFact
<1> QED
  BY <1>7, <1>8, <1>9, <1>10 DEF HintsInv

----------------------------------------------------------------------------
(* The theorem *)

LEMMA StartsTold == HintsInit => HintsInv
<1> SUFFICES ASSUME HintsInit PROVE HintsInv
  OBVIOUS
<1>1. PICK start \in Starts : Starting(start)
  BY DEF HintsInit
<1> DEFINE watchers == [h \in Everyone |-> {p \in start.watching : h \in Wants[p]}]
<1>2. start.watching \subseteq Phones
  BY <1>1, HintsAssumption
<1>3. waiting = <<>> /\ working = [t \in Threads |-> NoWork]
  BY DEF HintsInit
<1>4. /\ subs = watchers
      /\ custom = [c \in Customs |-> [made |-> watchers[c] # {}, state |-> "not in use", crossed |-> FALSE]]
  BY <1>1 DEF Starting
<1>5. \E state \in [Hints -> {"congestion", "onhook", "connected"}] :
         /\ hint = [h \in Hints |-> IF watchers[h] = {}
                                    THEN [made |-> FALSE, state |-> "onhook", dnd |-> FALSE]
                                    ELSE [made |-> TRUE, state |-> state[h], dnd |-> FALSE]]
         /\ told = [p \in Phones |-> [h \in Everyone |->
                      IF p \notin watchers[h] THEN "nothing"
                      ELSE IF h \in Hints THEN Shows(p, state[h]) ELSE "not in use"]]
  <2> DEFINE idle == {x \in HintLines : start.phones[x] # <<>>} \ start.busy
             dev == [x \in HintLines |-> IF x \in start.busy THEN "INUSE"
                                         ELSE IF x \in idle THEN "NOT_INUSE" ELSE "UNAVAILABLE"]
             ext == [h \in Hints |-> Aggregate({dev[x] : x \in Covers[h]})]
             state == [h \in Hints |-> CASE ext[h] = "UNAVAILABLE" -> "congestion"
                                         [] ext[h] = "NOT_INUSE" -> "onhook" [] OTHER -> "connected"]
  <2>1. /\ hint = [h \in Hints |-> IF watchers[h] = {}
                                   THEN [made |-> FALSE, state |-> "onhook", dnd |-> FALSE]
                                   ELSE [made |-> TRUE, state |-> state[h], dnd |-> FALSE]]
        /\ told = [p \in Phones |-> [h \in Everyone |->
                     IF p \notin watchers[h] THEN "nothing"
                     ELSE IF h \in Hints THEN Shows(p, state[h]) ELSE "not in use"]]
    BY <1>1 DEF Starting
  <2>2. state \in [Hints -> {"congestion", "onhook", "connected"}]
    OBVIOUS
  <2> HIDE DEF state, watchers
  <2> QED
    BY <2>1, <2>2
<1>6. watchers \in [Everyone -> SUBSET Phones]
  BY <1>2
<1>7. \A h \in Everyone : \A p \in watchers[h] : h \in Wants[p]
  OBVIOUS
<1> HIDE DEF watchers
<1>8. PICK state : /\ hint = [h \in Hints |-> IF watchers[h] = {}
                                    THEN [made |-> FALSE, state |-> "onhook", dnd |-> FALSE]
                                    ELSE [made |-> TRUE, state |-> state[h], dnd |-> FALSE]]
                   /\ told = [p \in Phones |-> [h \in Everyone |->
                                IF p \notin watchers[h] THEN "nothing"
                                ELSE IF h \in Hints THEN Shows(p, state[h]) ELSE "not in use"]]
  BY <1>5
<1>9. \A t \in Threads : IsJob(NoWork) /\ JobFact(NoWork) /\ ThreadFact(t, NoWork) /\ ~Subscribing(NoWork)
  BY NoWorkIsJob DEF JobFact, ThreadFact, Subscribing
<1>10. IsQueue(waiting) /\ DOMAIN waiting = {}
  <2>1. waiting = [i \in 1..0 |-> waiting[i]] /\ 0 \in Nat /\ 1..0 = {}
    BY <1>3
  <2> QED
    BY <2>1 DEF IsQueue
<1>11. HintsTyped
  <2>1. /\ hint = [h \in Hints |-> hint[h]]
        /\ \A h \in Hints : DOMAIN hint[h] = {"made", "state", "dnd"}
    BY <1>8
  <2>2. /\ custom = [c \in Customs |-> custom[c]]
        /\ \A c \in Customs : DOMAIN custom[c] = {"made", "state", "crossed"} /\ custom[c].crossed \in BOOLEAN
    BY <1>4
  <2>3. told = [p \in Phones |-> [h \in Everyone |-> told[p][h]]]
    BY <1>8
  <2>4. /\ working = [t \in Threads |-> working[t]]
        /\ \A t \in Threads : working[t] = NoWork
    BY <1>3
  <2> QED
    BY <1>4, <1>6, <1>9, <1>10, <2>1, <2>2, <2>3, <2>4 DEF HintsTyped
<1>12. ReadFact
  BY <1>3, NoWorkIsJob DEF ReadFact
<1>13. WantsFact
  BY <1>3, <1>4, <1>7, <1>9, <1>10 DEF WantsFact
<1>14. ToldFact
  <2> SUFFICES ASSUME NEW h \in Everyone, NEW p \in subs[h] PROVE Shown(h, p)
    BY DEF ToldFact
  <2>1. p \in Phones /\ p \in watchers[h]
    BY <1>4, <1>6
  <2>2. CASE h \in Hints
    BY <1>8, <2>1, <2>2 DEF Shown
  <2>3. CASE h \notin Hints
    BY <1>4, <1>8, <2>1, <2>3 DEF Shown, Everyone
  <2> QED
    BY <2>2, <2>3
<1> QED
  BY <1>11, <1>12, <1>13, <1>14 DEF HintsInv

LEMMA EveryStepKeeps == HintsInv /\ HintsNext => HintsInv'
<1> SUFFICES ASSUME HintsInv, HintsNext PROVE HintsInv'
  OBVIOUS
<1>1. CASE \E t \in HintPool : TakesUp(t)
  BY <1>1, TakesUpKeeps
<1>2. CASE \E t \in Threads : Handles(t)
  <2> PICK t \in Threads : Handles(t)
    BY <1>2
  <2> QED
    BY HandleLineKeeps, LinesHandledKeeps, LookAtHintKeeps, TellKeeps, ReadCustomKeeps,
       TellCustomKeeps, TellAsteriskKeeps, SubscribeKeeps, SubscribedKeeps DEF Handles
<1>3. CASE \E h \in Hints : Compute(h)
  BY <1>3, ComputeKeeps
<1>4. CASE CallBack \/ LeaveLine
  BY <1>4, CallBackKeeps, LeaveLineKeeps
<1>5. CASE \E p \in Phones : RegisterPhone(p) \/ UnregisterPhone(p)
  BY <1>5, RegisterKeeps, UnregisterKeeps
<1>6. CASE \E p \in Phones : DndChanges(p)
  BY <1>6, EventsKeep
<1>7. CASE \E p \in Phones, x \in HintLines : Attach(p, x) \/ Detach(p, x)
  BY <1>7, EventsKeep, DetachKeeps
<1>8. CASE \E x \in HintLines :
               \/ \E s \in CallStates : Ring(x, s)
               \/ \E i \in 1..2, s \in CallStates \cup {"onhook"} : CallChanges(x, i, s)
  BY <1>8, EventsKeep
<1>9. CASE \E x \in HintLines : \E i \in 1..2 : CallLeaves(x, i)
  BY <1>9, CallLeavesKeeps
<1>10. CASE \E c \in Customs, s \in CustomStates : CustomChanges(c, s)
  BY <1>10, CustomChangesKeeps
<1> QED
  BY <1>1, <1>2, <1>3, <1>4, <1>5, <1>6, <1>7, <1>8, <1>9, <1>10 DEF HintsNext

\* When nothing is under way nobody is owed anything: what a subscriber shows is the state.
LEMMA NothingIsOwed == HintsInv => SubscribersTold
<1> SUFFICES ASSUME HintsInv, Rest PROVE
               /\ \A h \in Hints : \A p \in subs[h] : told[p][h] = Shows(p, hint[h].state)
               /\ \A c \in Customs : \A p \in subs[c] : ~custom[c].crossed => told[p][c] = custom[c].state
  BY DEF SubscribersTold
<1>1. \A p, h : ~Owed(working, waiting, p, h)
  BY DEF Rest, Owed, Coming, Subscribes, Subscribing, Tells
<1>2. \A h \in Everyone : \A p \in subs[h] : Shown(h, p)
  BY <1>1 DEF HintsInv, ToldFact
<1> QED
  BY <1>2, HintsAssumption DEF Shown, Everyone

\* A subscriber shows the state of what it subscribed to, or somebody is about to tell it:
\* sccp_hint_notifySubscribers, sccp_hint_devstate_cb, sccp_hint_addSubscription4Device and
\* changed_cb leave nobody out between them, for any phones, hints, lines and threads.
THEOREM NobodyIsLeftOut == Spec => []HintsInv
<1>1. Init => HintsInv
  BY StartsTold DEF Init
<1>2. HintsInv /\ [Next]_<<part, featureVars, lotVars, hintVars>> => HintsInv'
  <2> SUFFICES ASSUME HintsInv, [Next]_<<part, featureVars, lotVars, hintVars>> PROVE HintsInv'
    OBVIOUS
  <2>1. CASE HintsNext
    BY <2>1, EveryStepKeeps
  <2>2. CASE UNCHANGED hintVars
    BY <2>2, OthersKeep DEF hintVars
  <2> QED
    BY <2>1, <2>2 DEF Next
<1> QED
  BY <1>1, <1>2, PTL DEF Spec

\* Once the pool, Asterisk and the handlers are done, every phone shows the state of the hints
\* and custom states it subscribed to.
THEOREM SubscribersAreTold == Spec => []SubscribersTold
BY NobodyIsLeftOut, NothingIsOwed, PTL

----------------------------------------------------------------------------
(* The parking lot: steps *)

\* The steps that are done with the lot locked, and those after which it is.
Inside == {"unlock", "remove", "attach", "detach", "park", "unpark", "notify", "send", "tell",
           "menu", "press"}
StaysIn == {"lock", "send", "back", "tell"}
Outside == {"find", "add", "lock", "back", "let go"}

IsPlainStep(s) ==
    /\ s.do \in Inside \cup Outside
    /\ s.do \in {"attach", "detach", "tell"} => s.of \in Watchers
    /\ s.do \in {"park", "unpark"} => s.of \in Spaces
    /\ s.do = "notify" => s.i \in Nat \ {0} /\ s.of \in Watchers \cup {"all"}
    /\ s.do \in {"send", "back"} => s.i \in Nat \ {0} /\ s.what \in {"show", "hide"}
    /\ s.do = "send" => DOMAIN s = {"do", "i", "what"}
    /\ s.do = "menu" => s.of \in {"show", "hide"}
Found == {"attach", "detach", "notify", "park", "unpark", "menu", "press"}
IsLotStep(s) ==
    /\ IsPlainStep(s)
    /\ s.do = "find" =>
          /\ s.create \in BOOLEAN
          /\ s.then = <<s.then[1]>> /\ IsPlainStep(s.then[1]) /\ s.then[1].do \in Found

\* A phone attaches and detaches itself; Asterisk's events alone park and unpark.
OwnStep(t, s) ==
    /\ s.do \in {"attach", "detach"} => s.of = t
    /\ s.do \in {"park", "unpark"} => t = Events
OwnSteps(t, s) == OwnStep(t, s) /\ (s.do = "find" => OwnStep(t, s.then[1]))

\* A phone attaches once.
Asks(s, what) == s.do = what \/ (s.do = "find" /\ s.then[1].do = what)
\* Asterisk's events make the lot they look for.
EventStep(s) == s.do = "find" => s.create /\ s.then[1].do \in {"park", "unpark"}
Follows(s, next) ==
    /\ s.do \in StaysIn <=> next.do \in Inside
    /\ s.do = "add" <=> next.do = "lock"
    /\ next.do \notin {"send", "back", "remove"}
IsScript(t, s) ==
    \E n \in Nat :
        /\ s = [i \in 1..n |-> s[i]]
        /\ \A i \in 1..n : IsLotStep(s[i]) /\ OwnSteps(t, s[i])
        /\ \A i \in 1..n : i < n => Follows(s[i], s[i + 1])
        /\ n > 0 => s[n].do \notin StaysIn \cup {"add"}
        /\ \A i, j \in 1..n : Asks(s[i], "attach") /\ Asks(s[j], "attach") => i = j
        /\ t = Events => \A i \in 1..n : EventStep(s[i]) /\ (i < n => s[i].do \in StaysIn \cup {"add"})
Within(t) == ~Rests(t) /\ Now(t).do \in Inside

Distinct(s) == \A i, j \in DOMAIN s : s[i] = s[j] => i = j
AnObserver == [device : Watchers, open : BOOLEAN]
ALot == [observers : Seq(AnObserver), slots : Seq(Spaces), lock : Hands \cup {Free}, dead : BOOLEAN]
AScreen == [up : BOOLEAN, status : BOOLEAN, told : BOOLEAN, shows : SUBSET Spaces]

LotTyped ==
    /\ lot \in Seq(ALot)
    /\ \A n \in DOMAIN lot : Distinct(lot[n].slots)
    /\ lots \in Seq(DOMAIN lot)
    /\ at \in [Hands -> Nat]
    /\ left = [t \in Hands |-> left[t]]
    /\ \A t \in Hands : IsScript(t, left[t])
    /\ screen \in [Watchers -> AScreen]
    /\ parked \subseteq Spaces
    /\ events \in Seq([kind : {"parked", "unparked"}, place : Spaces, of : Watchers \cup {"other"}])
    /\ lost \in [{"twice", "freed", "moved", "stale", "calls"} -> BOOLEAN]

\* Who is inside has the lock, and who goes there or comes back knows the lot.
LockFact ==
    \A t \in Hands :
        /\ Within(t) => at[t] \in DOMAIN lot /\ lot[at[t]].lock = t
        /\ Turn(t, "lock") \/ Turn(t, "back") => at[t] \in DOMAIN lot

\* The lot that is not destroyed is the one in the list.
Alive(n) == n \in DOMAIN lot /\ ~lot[n].dead
ListFact ==
    ~lost.twice => /\ lots = <<>> \/ lots = <<Head(lots)>>
                   /\ \A n \in DOMAIN lot : ~lot[n].dead => lots = <<n>>
AliveFact ==
    ~lost.freed => \A t \in Hands : Within(t) => ~lot[at[t]].dead

\* A place is parked if the last that Asterisk says of it is that it is.
Final(s) == s[Len(s)]
Awaits(s, kind, place) ==
    /\ s # <<>>
    /\ \/ Final(s).do = kind /\ Final(s).of = place
       \/ Final(s).do = "find" /\ Final(s).then[1].do = kind /\ Final(s).then[1].of = place
LastSays(place) ==
    \E i \in DOMAIN events :
        /\ events[i].place = place /\ events[i].kind = "parked"
        /\ \A j \in DOMAIN events : j > i => events[j].place # place
Due(place) ==
    \/ LastSays(place)
    \/ /\ \A i \in DOMAIN events : events[i].place # place
       /\ \/ Awaits(left[Events], "park", place)
          \/ ~Awaits(left[Events], "unpark", place) /\ place \in Listed
ParkedFact == Sound /\ ~lost.calls => \A place \in Spaces : place \in parked <=> Due(place)

\* The observers of a lot are phones that are up, or that have still to detach.
Steps(s) == {s[i] : i \in DOMAIN s}
Has(s, what) == \E y \in Steps(s) : Asks(y, what)
Observes(p, n) == \E i \in DOMAIN lot[n].observers : lot[n].observers[i].device = p
ObserverFact ==
    Sound => \A n \in DOMAIN lot : ~lot[n].dead =>
        /\ \A i, j \in DOMAIN lot[n].observers :
              lot[n].observers[i].device = lot[n].observers[j].device => i = j
        /\ \A p \in Watchers : Observes(p, n) => (screen[p].up \/ Has(left[p], "detach")) /\ ~Has(left[p], "attach")
\* A phone attaches while it is up, and detaches when it is not.
ComesFact ==
    \A p \in Watchers :
        /\ Has(left[p], "attach") => screen[p].up
        /\ Has(left[p], "detach") => ~screen[p].up
RemoveFact == \A t \in Hands : Turn(t, "remove") => lot[at[t]].observers = <<>>
SendFact ==
    Sound => \A t \in Hands :
        Turn(t, "send") \/ Turn(t, "back") =>
            Now(t).i \in DOMAIN lot[at[t]].observers /\ ~lot[at[t]].dead

\* A phone whose menu is open is an observer, noted as open or about to be; the menu is
\* current, or it comes again.
ToEvents(i) ==
    \/ Turn(Events, "send") /\ Now(Events).i = i
    \/ /\ ~Rests(Events)
       /\ Final(left[Events]).do = "notify"
       /\ Final(left[Events]).of = "all" /\ Final(left[Events]).i <= i
Opening(n, i) == \E t \in Hands : at[t] = n /\ Turn(t, "back") /\ Now(t).i = i
IsOpen(p, n, i) ==
    /\ lots = <<n>> /\ lot[n].observers[i].device = p /\ screen[p].up
    /\ \A t \in Hands : at[t] = n /\ Turn(t, "back") /\ Now(t).i = i => Now(t).what = "show"
    /\ lot[n].observers[i].open \/ Opening(n, i)
    /\ screen[p].shows = Listed \/ (lot[n].observers[i].open /\ ~Opening(n, i) /\ ToEvents(i))
OpenFact ==
    Sound /\ ~lost.stale => \A p \in Watchers : screen[p].shows # {} =>
        \E n \in DOMAIN lot : \E i \in DOMAIN lot[n].observers : IsOpen(p, n, i)
\* Two threads do not send to one observer at once.
AloneFact ==
    Sound /\ ~lost.stale => \A t, o \in Hands :
        Turn(t, "back") /\ Turn(o, "back") /\ at[t] = at[o] /\ Now(t).i = Now(o).i => t = o
\* Changes are told with the lot in hand.
EventsFact ==
    ~Rests(Events) /\ Final(left[Events]).do = "notify" => Within(Events) \/ Turn(Events, "back")

LotInv ==
    /\ LotTyped /\ LockFact /\ ListFact /\ AliveFact /\ ParkedFact
    /\ ObserverFact /\ ComesFact /\ RemoveFact /\ SendFact /\ OpenFact /\ AloneFact /\ EventsFact

\* What a script is, by its own length.
LEMMA ScriptIs ==
    ASSUME NEW t, NEW s, IsScript(t, s)
    PROVE  /\ Len(s) \in Nat /\ s = [i \in 1..Len(s) |-> s[i]] /\ DOMAIN s = 1..Len(s)
           /\ \A i \in 1..Len(s) : IsLotStep(s[i]) /\ OwnSteps(t, s[i])
           /\ \A i \in 1..Len(s) : i < Len(s) => Follows(s[i], s[i + 1])
           /\ Len(s) > 0 => s[Len(s)].do \notin StaysIn \cup {"add"}
           /\ \A i, j \in 1..Len(s) : Asks(s[i], "attach") /\ Asks(s[j], "attach") => i = j
           /\ t = Events => \A i \in 1..Len(s) :
                EventStep(s[i]) /\ (i < Len(s) => s[i].do \in StaysIn \cup {"add"})
           /\ s # <<>> => Len(s) > 0
<1>1. PICK n \in Nat :
        /\ s = [i \in 1..n |-> s[i]]
        /\ \A i \in 1..n : IsLotStep(s[i]) /\ OwnSteps(t, s[i])
        /\ \A i \in 1..n : i < n => Follows(s[i], s[i + 1])
        /\ n > 0 => s[n].do \notin StaysIn \cup {"add"}
        /\ \A i, j \in 1..n : Asks(s[i], "attach") /\ Asks(s[j], "attach") => i = j
        /\ t = Events => \A i \in 1..n :
             EventStep(s[i]) /\ (i < n => s[i].do \in StaysIn \cup {"add"})
  BY DEF IsScript
<1>2. Len(s) = n /\ DOMAIN s = 1..n
  BY <1>1
<1>3. n = 0 => s = <<>>
  BY <1>1
<1>4. s = [i \in 1..n |-> s[i]] /\ n \in Nat
  BY <1>1
<1>5. /\ \A i \in 1..n : IsLotStep(s[i]) /\ OwnSteps(t, s[i])
      /\ \A i \in 1..n : i < n => Follows(s[i], s[i + 1])
      /\ n > 0 => s[n].do \notin StaysIn \cup {"add"}
      /\ \A i, j \in 1..n : Asks(s[i], "attach") /\ Asks(s[j], "attach") => i = j
      /\ t = Events => \A i \in 1..n : EventStep(s[i]) /\ (i < n => s[i].do \in StaysIn \cup {"add"})
  BY <1>1
<1>6. n \in Nat /\ (s # <<>> => n > 0)
  BY <1>3, <1>4
<1> HIDE <1>1
<1>7. s = [i \in 1..Len(s) |-> s[i]]
  BY <1>2, <1>4
<1> QED
  BY ONLY <1>2, <1>5, <1>6, <1>7, Zenon

\* The rest of a sequence, index by index.
LEMMA TailIs ==
    ASSUME NEW s, NEW n \in Nat, n > 0, s = [i \in 1..n |-> s[i]]
    PROVE  /\ Tail(s) = [i \in 1..(n - 1) |-> s[i + 1]] /\ Head(s) = s[1]
           /\ Tail(s) # <<>> => n > 1
OBVIOUS

\* A sequence with one more in front, index by index.
LEMMA JoinedIs ==
    ASSUME NEW s, NEW n \in Nat, s = [i \in 1..n |-> s[i]], NEW x
    PROVE  <<x>> \o s = [i \in 1..(n + 1) |-> IF i = 1 THEN x ELSE s[i - 1]]
OBVIOUS

\* A script without its first step
LEMMA StepDone ==
    ASSUME NEW t, NEW s, IsScript(t, s), s # <<>>
    PROVE  /\ IsScript(t, Tail(s))
           /\ IsLotStep(Head(s)) /\ OwnSteps(t, Head(s))
           /\ Tail(s) # <<>> => Follows(Head(s), Head(Tail(s))) /\ Final(Tail(s)) = Final(s)
           /\ Tail(s) = <<>> => Head(s).do \notin StaysIn \cup {"add"} /\ Final(s) = Head(s)
           /\ Steps(s) = {Head(s)} \cup Steps(Tail(s))
           /\ Asks(Head(s), "attach") => ~Has(Tail(s), "attach")
           /\ t = Events => /\ EventStep(Head(s))
                            /\ Tail(s) # <<>> => Head(s).do \in StaysIn \cup {"add"}
<1> DEFINE n == Len(s)
           r == Tail(s)
<1>0. s = [i \in 1..n |-> s[i]]
  BY ScriptIs
<1>1. /\ n \in Nat /\ n > 0
      /\ \A i \in 1..n : IsLotStep(s[i]) /\ OwnSteps(t, s[i])
      /\ \A i \in 1..n : i < n => Follows(s[i], s[i + 1])
      /\ s[n].do \notin StaysIn \cup {"add"}
      /\ \A i, j \in 1..n : Asks(s[i], "attach") /\ Asks(s[j], "attach") => i = j
      /\ t = Events => \A i \in 1..n :
             EventStep(s[i]) /\ (i < n => s[i].do \in StaysIn \cup {"add"})
      /\ DOMAIN s = 1..n
  BY ScriptIs
<1>2. /\ r = [i \in 1..(n - 1) |-> s[i + 1]] /\ Head(s) = s[1]
      /\ r # <<>> => n > 1
  <2> HIDE DEF n
  <2> QED
    BY <1>0, <1>1, TailIs
<1>a. n = 1 => r = <<>>
  BY <1>1, <1>2
<1> HIDE DEF n, r
<1>3. /\ n - 1 \in Nat /\ Len(r) = n - 1 /\ DOMAIN r = 1..(n - 1)
      /\ \A i \in 1..(n - 1) : r[i] = s[i + 1]
  BY <1>1, <1>2
<1>b. r = [i \in 1..(n - 1) |-> r[i]]
  BY <1>2
<1>4. IsScript(t, r)
  <2>1. \A i \in 1..(n - 1) : i < n - 1 => Follows(r[i], r[i + 1])
    BY <1>1, <1>3
  <2>2. n - 1 > 0 => r[n - 1].do \notin StaysIn \cup {"add"}
    BY <1>1, <1>3
  <2>3. t = Events => \A i \in 1..(n - 1) :
           EventStep(r[i]) /\ (i < n - 1 => r[i].do \in StaysIn \cup {"add"})
    BY <1>1, <1>3
  <2>4. \A i \in 1..(n - 1) : IsLotStep(r[i]) /\ OwnSteps(t, r[i])
    BY <1>1, <1>3
  <2>5. \A i, j \in 1..(n - 1) : Asks(r[i], "attach") /\ Asks(r[j], "attach") => i = j
    <3> SUFFICES ASSUME NEW i \in 1..(n - 1), NEW j \in 1..(n - 1), Asks(r[i], "attach"), Asks(r[j], "attach")
                 PROVE  i = j
      OBVIOUS
    <3>1. Asks(s[i + 1], "attach") /\ Asks(s[j + 1], "attach") /\ i + 1 \in 1..n /\ j + 1 \in 1..n
      BY <1>1, <1>3
    <3>2. i + 1 = j + 1
      BY <1>1, <3>1
    <3> QED
      BY <3>2
  <2> QED
    BY <1>b, <1>3, <2>1, <2>2, <2>3, <2>4, <2>5 DEF IsScript
<1>5. r # <<>> => Follows(Head(s), Head(r)) /\ Final(r) = Final(s)
  <2>1. r # <<>> => Head(r) = s[2] /\ 1 < n /\ r[n - 1] = s[n]
    BY <1>1, <1>2, <1>3
  <2> QED
    BY <1>1, <1>2, <1>3, <2>1 DEF Final, n
<1>6. r = <<>> => n = 1
  BY <1>1, <1>2, <1>3
<1>7. Steps(s) = {Head(s)} \cup Steps(r)
  <2>1. \A i \in 1..n : i = 1 \/ (i - 1 \in 1..(n - 1) /\ s[i] = r[i - 1])
    BY <1>1, <1>3
  <2>2. 1 \in 1..n /\ \A i \in 1..(n - 1) : i + 1 \in 1..n
    BY <1>1
  <2>3. Steps(s) = {s[i] : i \in 1..n} /\ Steps(r) = {r[i] : i \in 1..(n - 1)}
    BY <1>1, <1>3 DEF Steps
  <2>4. \A y \in Steps(s) : y \in {Head(s)} \cup Steps(r)
    <3>1. \A i \in 1..n : i = 1 => s[i] = Head(s)
      BY <1>2
    <3> QED
      BY <2>1, <2>3, <3>1
  <2>5. \A y \in {Head(s)} \cup Steps(r) : y \in Steps(s)
    <3>1. Head(s) = s[1]
      BY <1>2 DEF r
    <3>2. \A i \in 1..(n - 1) : r[i] = s[i + 1]
      BY <1>3
    <3> QED
      BY <2>2, <2>3, <3>1, <3>2
  <2> QED
    BY <2>4, <2>5
<1>8. r = <<>> => Head(s).do \notin StaysIn \cup {"add"} /\ Final(s) = Head(s)
  BY <1>1, <1>2, <1>6 DEF Final, n
<1>9. /\ IsLotStep(Head(s)) /\ OwnSteps(t, Head(s))
      /\ t = Events => EventStep(Head(s)) /\ (r # <<>> => Head(s).do \in StaysIn \cup {"add"})
  BY <1>1, <1>2, <1>3, <1>a
<1>10. Asks(Head(s), "attach") => ~Has(r, "attach")
  <2> SUFFICES ASSUME Asks(Head(s), "attach"), NEW i \in 1..(n - 1), Asks(r[i], "attach") PROVE FALSE
    BY <1>3 DEF Has, Steps
  <2>1. Asks(s[1], "attach") /\ Asks(s[i + 1], "attach") /\ i + 1 \in 1..n /\ 1 \in 1..n
    BY <1>1, <1>2, <1>3
  <2>2. 1 = i + 1
    BY <1>1, <2>1
  <2> QED
    BY <2>2
<1> QED
  BY <1>4, <1>5, <1>7, <1>8, <1>9, <1>10 DEF r

\* A script with one more step before it
Joins(t, x, s) ==
    /\ IsLotStep(x) /\ OwnSteps(t, x)
    /\ Asks(x, "attach") => ~Has(s, "attach")
    /\ IF s = <<>> THEN x.do \notin StaysIn \cup {"add"} ELSE Follows(x, Head(s))
    /\ t = Events => EventStep(x) /\ (s # <<>> => x.do \in StaysIn \cup {"add"})

\* A step that joins a script makes a script with it.
LEMMA StepPut ==
    ASSUME NEW t, NEW s, IsScript(t, s), NEW x, Joins(t, x, s)
    PROVE  /\ IsScript(t, <<x>> \o s) /\ <<x>> \o s # <<>>
           /\ Head(<<x>> \o s) = x
           /\ Final(<<x>> \o s) = IF s = <<>> THEN x ELSE Final(s)
           /\ Steps(<<x>> \o s) = {x} \cup Steps(s)
<1> DEFINE n == Len(s)
           r == <<x>> \o s
<1>0. s = [i \in 1..n |-> s[i]]
  BY ScriptIs
<1>1. /\ n \in Nat
      /\ \A i \in 1..n : IsLotStep(s[i]) /\ OwnSteps(t, s[i])
      /\ \A i \in 1..n : i < n => Follows(s[i], s[i + 1])
      /\ n > 0 => s[n].do \notin StaysIn \cup {"add"}
      /\ \A i, j \in 1..n : Asks(s[i], "attach") /\ Asks(s[j], "attach") => i = j
      /\ t = Events => \A i \in 1..n :
             EventStep(s[i]) /\ (i < n => s[i].do \in StaysIn \cup {"add"})
      /\ DOMAIN s = 1..n
      /\ s # <<>> => n > 0
  BY ScriptIs
<1>2. r = [i \in 1..(n + 1) |-> IF i = 1 THEN x ELSE s[i - 1]]
  <2> HIDE DEF n
  <2> QED
    BY <1>0, <1>1, JoinedIs
<1>3. s = <<>> => n = 0
  BY <1>1
<1> HIDE DEF n, r
<1>b. r = [i \in 1..(n + 1) |-> r[i]]
  BY <1>2
<1>4. /\ n + 1 \in Nat /\ Len(r) = n + 1 /\ DOMAIN r = 1..(n + 1)
      /\ r[1] = x /\ \A i \in 1..n : r[i + 1] = s[i]
      /\ r # <<>> /\ Head(r) = x
  BY <1>1, <1>2
<1>5. \A i \in 1..(n + 1) : i = 1 \/ (i - 1 \in 1..n /\ r[i] = s[i - 1])
  BY <1>1, <1>2
<1>6. IsScript(t, r)
  <2>1. \A i \in 1..(n + 1) : i < n + 1 => Follows(r[i], r[i + 1])
    <3> SUFFICES ASSUME NEW i \in 1..(n + 1), i < n + 1 PROVE Follows(r[i], r[i + 1])
      OBVIOUS
    <3>1. CASE i = 1
      <4>1. s # <<>> /\ Head(s) = s[1] /\ r[2] = s[1]
        BY <1>1, <1>3, <1>4, <3>1
      <4> QED
        BY <1>4, <3>1, <4>1 DEF Joins
    <3>2. CASE i # 1
      <4>1. i - 1 \in 1..n /\ i - 1 < n /\ r[i] = s[i - 1] /\ r[i + 1] = s[(i - 1) + 1]
        BY <1>1, <1>4, <1>5, <3>2
      <4> QED
        BY <1>1, <4>1
    <3> QED
      BY <3>1, <3>2
  <2>2. r[n + 1].do \notin StaysIn \cup {"add"}
    <3>1. CASE n = 0
      <4>1. s = <<>>
        BY <1>1, <3>1
      <4> QED
        BY <1>4, <3>1, <4>1 DEF Joins
    <3>2. CASE n > 0
      BY <1>1, <1>4, <3>2
    <3> QED
      BY <1>1, <3>1, <3>2
  <2>3. t = Events => \A i \in 1..(n + 1) :
           EventStep(r[i]) /\ (i < n + 1 => r[i].do \in StaysIn \cup {"add"})
    BY <1>1, <1>3, <1>4, <1>5 DEF Joins
  <2>4. \A i \in 1..(n + 1) : IsLotStep(r[i]) /\ OwnSteps(t, r[i])
    BY <1>1, <1>4, <1>5 DEF Joins
  <2>5. \A i, j \in 1..(n + 1) : Asks(r[i], "attach") /\ Asks(r[j], "attach") => i = j
    <3>1. \A i \in 1..n : Asks(s[i], "attach") => ~Asks(x, "attach")
      BY <1>1 DEF Joins, Has, Steps
    <3> SUFFICES ASSUME NEW i \in 1..(n + 1), NEW j \in 1..(n + 1), Asks(r[i], "attach"), Asks(r[j], "attach")
                 PROVE  i = j
      OBVIOUS
    <3>2. CASE i = 1 /\ j # 1
      BY <1>4, <1>5, <3>1, <3>2
    <3>3. CASE i # 1 /\ j = 1
      BY <1>4, <1>5, <3>1, <3>3
    <3>4. CASE i # 1 /\ j # 1
      <4>1. i - 1 \in 1..n /\ j - 1 \in 1..n /\ Asks(s[i - 1], "attach") /\ Asks(s[j - 1], "attach")
        BY <1>5, <3>4
      <4>2. i - 1 = j - 1
        BY <1>1, <4>1
      <4> QED
        BY <4>2
    <3> QED
      BY <3>2, <3>3, <3>4
  <2> QED
    BY <1>b, <1>4, <2>1, <2>2, <2>3, <2>4, <2>5 DEF IsScript
<1>7. Final(r) = IF s = <<>> THEN x ELSE Final(s)
  BY <1>1, <1>3, <1>4 DEF Final, n
<1>8. Steps(r) = {x} \cup Steps(s)
  <2>1. 1 \in 1..(n + 1) /\ \A i \in 1..n : i + 1 \in 1..(n + 1)
    BY <1>1
  <2>3. Steps(s) = {s[i] : i \in 1..n} /\ Steps(r) = {r[i] : i \in 1..(n + 1)}
    BY <1>1, <1>4 DEF Steps
  <2>4. \A y \in Steps(r) : y \in {x} \cup Steps(s)
    BY <1>4, <1>5, <2>3
  <2>5. \A y \in {x} \cup Steps(s) : y \in Steps(r)
    BY <1>4, <2>1, <2>3
  <2> QED
    BY <2>4, <2>5
<1> QED
  BY <1>4, <1>6, <1>7, <1>8 DEF r

\* Who has nothing left to do has a script.
LEMMA EmptyScript == \A t : IsScript(t, <<>>) /\ Steps(<<>>) = {}
BY DEF IsScript, Steps

\* Two are one and one.
LEMMA PairIs == \A x, y : <<x, y>> = <<x>> \o <<y>>
  <1> TAKE x, y
  <1>1. Len(<<x>> \o <<y>>) = 2 /\ (<<x>> \o <<y>>)[1] = x /\ (<<x>> \o <<y>>)[2] = y
    OBVIOUS
  <1>2. <<x>> \o <<y>> = [i \in 1..2 |-> (<<x>> \o <<y>>)[i]]
    OBVIOUS
  <1>3. <<x, y>> = [i \in 1..2 |-> IF i = 1 THEN x ELSE y]
    OBVIOUS
  <1>4. \A i \in 1..2 : (<<x>> \o <<y>>)[i] = IF i = 1 THEN x ELSE y
    BY <1>1
  <1> DEFINE r == <<x>> \o <<y>>
  <1> HIDE DEF r
  <1>5. r = [i \in 1..2 |-> r[i]]
    BY <1>2 DEF r
  <1>6. \A i \in 1..2 : r[i] = IF i = 1 THEN x ELSE y
    BY <1>4 DEF r
  <1>7. r = <<x, y>>
    BY <1>3, <1>5, <1>6
  <1> QED
    BY <1>7 DEF r

\* Several steps are put one after the other.
PutOne(a, b, c, s) ==
    /\ <<>> \o s = s
    /\ <<a, b>> \o s = <<a>> \o (<<b>> \o s)
    /\ <<a, b, c>> \o s = <<a>> \o (<<b>> \o (<<c>> \o s))

\* Putting several steps in front is putting one after the other.
LEMMA ThreePut ==
    ASSUME NEW t, NEW s, IsScript(t, s), NEW a, NEW b, NEW c
    PROVE  PutOne(a, b, c, s)
<1>1. PICK n \in Nat : s = [i \in 1..n |-> s[i]]
  BY DEF IsScript
<1>2. s \in Seq({s[i] : i \in 1..n} \cup {a, b, c})
  BY <1>1
<1> HIDE <1>1
<1> DEFINE S == {s[i] : i \in 1..n} \cup {a, b, c}
<1>3. a \in S /\ b \in S /\ c \in S /\ s \in Seq(S)
  BY <1>2
<1> HIDE DEF S
<1>4. \A u, v \in Seq(S) : (u \o v) \o s = u \o (v \o s)
  BY <1>3
<1>5. <<a>> \in Seq(S) /\ <<b>> \in Seq(S) /\ <<c>> \in Seq(S) /\ <<b, c>> \in Seq(S)
  BY <1>3
<1>6. <<a, b>> = <<a>> \o <<b>> /\ <<b, c>> = <<b>> \o <<c>> /\ <<a, b, c>> = <<a>> \o <<b, c>>
  <2>1. <<a, b>> = <<a>> \o <<b>> /\ <<b, c>> = <<b>> \o <<c>>
    BY PairIs
  <2>3. <<a, b, c>> = <<a>> \o <<b, c>>
    BY <1>5
  <2> QED
    BY <2>1, <2>3
<1>7. <<>> \o s = s
  BY <1>3
<1> QED
  BY <1>4, <1>5, <1>6, <1>7 DEF PutOne

\* The same, spelled out.
LEMMA SeveralPut ==
    ASSUME NEW t, NEW s, IsScript(t, s), NEW a, NEW b, NEW c
    PROVE  /\ <<>> \o s = s
           /\ <<a, b>> \o s = <<a>> \o (<<b>> \o s)
           /\ <<a, b, c>> \o s = <<a>> \o (<<b>> \o (<<c>> \o s))
<1>1. PutOne(a, b, c, s)
  BY ThreePut
<1> QED
  BY <1>1 DEF PutOne

\* Steps that are put before others
LEMMA PlainJoins ==
    ASSUME NEW t, NEW x, NEW s, IsPlainStep(x), OwnStep(t, x), x.do \notin {"find", "park", "unpark", "attach"},
           IF s = <<>> THEN x.do \notin StaysIn \cup {"add"} ELSE Follows(x, Head(s)),
           t = Events => s = <<>> \/ x.do \in StaysIn \cup {"add"}
    PROVE  Joins(t, x, s)
BY DEF Joins, IsLotStep, OwnSteps, EventStep, Asks

\* What a lot consists of.
LEMMA LotIs ==
    ASSUME LotInv, NEW n \in DOMAIN lot
    PROVE  /\ n \in Nat \ {0} /\ lot[n].slots \in Seq(Spaces)
           /\ lot[n].observers \in Seq(AnObserver)
           /\ DOMAIN lot[n].observers = 1..Len(lot[n].observers) /\ Len(lot[n].observers) \in Nat
           /\ lot[n].lock \in Hands \cup {Free} /\ lot[n].dead \in BOOLEAN
           /\ DOMAIN lot = 1..Len(lot) /\ Len(lot) \in Nat
           /\ lot[n] \in ALot
<1> DEFINE S == ALot
<1>1. lot \in Seq(S)
  BY DEF LotInv, LotTyped
<1> HIDE DEF S
<1>2. lot[n] \in S /\ DOMAIN lot = 1..Len(lot) /\ Len(lot) \in Nat
  BY <1>1
<1> USE DEF S, ALot
<1>3. /\ lot[n].slots \in Seq(Spaces)
      /\ lot[n].observers \in Seq(AnObserver)
      /\ lot[n].lock \in Hands \cup {Free} /\ lot[n].dead \in BOOLEAN
  BY <1>2
<1>4. DOMAIN lot[n].observers = 1..Len(lot[n].observers) /\ Len(lot[n].observers) \in Nat
  BY <1>3
<1> QED
  BY <1>2, <1>3, <1>4

\* What an observer of a lot consists of.
LEMMA WatcherIs ==
    ASSUME LotInv, NEW n \in DOMAIN lot, NEW i \in DOMAIN lot[n].observers
    PROVE  /\ lot[n].observers[i] \in AnObserver
           /\ lot[n].observers[i].device \in Watchers /\ lot[n].observers[i].open \in BOOLEAN
           /\ i \in Nat \ {0} /\ i <= Len(lot[n].observers)
<1>1. /\ lot[n].observers \in Seq(AnObserver)
      /\ DOMAIN lot[n].observers = 1..Len(lot[n].observers) /\ Len(lot[n].observers) \in Nat
  BY LotIs
<1>2. \A S : \A s \in Seq(S) : \A k \in DOMAIN s : s[k] \in S
  OBVIOUS
<1>3. lot[n].observers[i] \in AnObserver
  BY <1>1, <1>2
<1> QED
  BY <1>1, <1>3 DEF AnObserver

(* What a step keeps *)

\* Only the script of t changes, and what phones show apart from the menu.
Harmless(t, s) ==
    /\ left' = [left EXCEPT ![t] = s] /\ IsScript(t, s)
    /\ UNCHANGED <<lot, lots, at, parked, events, lost>>
    /\ screen' \in [Watchers -> AScreen]
    /\ \A p \in Watchers : screen'[p].up = screen[p].up /\ screen'[p].shows = screen[p].shows
\* What it means for the others.
SameOps(r, s) == \A kind \in {"park", "unpark"} : \A place \in Spaces : Awaits(s, kind, place) <=> Awaits(r, kind, place)
SameHas(r, s) == (Has(r, "detach") <=> Has(s, "detach")) /\ (Has(s, "attach") => Has(r, "attach"))
QuietKeeps(t, s) ==
    /\ s # <<>> /\ Head(s).do \in Inside => Within(t)
    /\ s # <<>> => Head(s).do \notin {"lock", "back", "remove"}
    /\ s # <<>> /\ Head(s).do = "send" => Head(s).i \in DOMAIN lot[at[t]].observers
    /\ ~Turn(t, "back")
    /\ t = Events => /\ SameOps(left[t], s)
                     /\ s # <<>> /\ Final(s).do = "notify" => Head(s).do \in Inside
    /\ t # Events => SameHas(left[t], s)
\* What was to come still comes.
StillComes(s) ==
    Sound => \A n \in DOMAIN lot : \A i \in DOMAIN lot[n].observers :
        ToEvents(i) /\ lots = <<n>> /\ lot[n].observers[i].open =>
            /\ s # <<>>
            /\ \/ Head(s).do = "send" /\ Head(s).i = i
               \/ Final(s).do = "notify" /\ Final(s).of = "all" /\ Final(s).i <= i

\* One thread's script changes, and all are scripts.
LEMMA TypesKept ==
    ASSUME LotInv, NEW t \in Hands, NEW s, IsScript(t, s), left' = [left EXCEPT ![t] = s]
    PROVE  left' = [o \in Hands |-> left'[o]] /\ \A o \in Hands : IsScript(o, left'[o])
BY DEF LotInv, LotTyped

\* A step that changes nothing but what its thread has left to do keeps the invariant.
LEMMA QuietStep ==
    ASSUME LotInv, NEW t \in Hands, NEW s, Harmless(t, s), QuietKeeps(t, s),
           t = Events => StillComes(s)
    PROVE  LotInv'
<1>1. /\ left' = [left EXCEPT ![t] = s] /\ IsScript(t, s)
      /\ UNCHANGED <<lot, lots, at, parked, events, lost>>
      /\ left'[t] = s /\ \A o \in Hands : o # t => left'[o] = left[o]
  BY DEF Harmless, LotInv, LotTyped
<1>2. LotTyped'
  BY <1>1, TypesKept DEF LotInv, LotTyped, Harmless
<1>3. LockFact'
  BY <1>1 DEF LotInv, LockFact, QuietKeeps, Within, Turn, Rests, Now
<1>4. ListFact' /\ AliveFact'
  BY <1>1 DEF LotInv, ListFact, AliveFact, QuietKeeps, Within, Rests, Now
<1>5. ParkedFact'
  BY <1>1 DEF LotInv, ParkedFact, QuietKeeps, SameOps, Due, LastSays, Listed, Sound
<1>6. ObserverFact'
  <2>1. \A p \in Watchers : SameHas(left[p], left'[p])
    BY <1>1, LotAssumption DEF QuietKeeps, SameHas, Hands, Events
  <2> QED
    BY <1>1, <2>1 DEF LotInv, ObserverFact, SameHas, Observes, Harmless, Sound
<1>a. ComesFact'
  <2>1. \A p \in Watchers : SameHas(left[p], left'[p])
    BY <1>1, LotAssumption DEF QuietKeeps, SameHas, Hands, Events
  <2>2. \A p \in Watchers : screen'[p].up = screen[p].up
    BY DEF Harmless
  <2>3. ComesFact
    BY DEF LotInv
  <2> QED
    BY <2>1, <2>2, <2>3 DEF ComesFact, SameHas
<1>7. RemoveFact' /\ SendFact'
  <2>1. RemoveFact'
    BY <1>1 DEF LotInv, RemoveFact, QuietKeeps, Turn, Rests, Now
  <2>2. s # <<>> /\ Head(s).do = "send" /\ Sound => ~lot[at[t]].dead
    BY DEF QuietKeeps, LotInv, AliveFact, Sound, Inside
  <2>3. SendFact'
    BY <1>1, <2>2 DEF LotInv, SendFact, QuietKeeps, Turn, Rests, Now, Sound
  <2> QED
    BY <2>1, <2>3
<1>8. AloneFact' /\ EventsFact'
  BY <1>1 DEF LotInv, AloneFact, EventsFact, QuietKeeps, Turn, Rests, Now, Sound, Within
<1>9. OpenFact'
  <2>1. \A o \in Hands : (Turn(o, "back")' <=> Turn(o, "back")) /\ (Turn(o, "back") => Now(o)' = Now(o))
    BY <1>1 DEF QuietKeeps, Turn, Rests, Now
  <2>2. \A n, i : Opening(n, i)' <=> Opening(n, i)
    BY <1>1, <2>1 DEF Opening
  <2>3. Sound => \A n \in DOMAIN lot : \A i \in DOMAIN lot[n].observers :
           lots = <<n>> /\ lot[n].observers[i].open /\ ToEvents(i) => ToEvents(i)'
    <3>1. CASE t = Events
      BY <1>1, <3>1 DEF StillComes, ToEvents, Turn, Rests, Now
    <3>2. CASE t # Events
      BY <1>1, <3>2 DEF ToEvents, Turn, Rests, Now, Hands
    <3> QED
      BY <3>1, <3>2
  <2>4. Listed' = Listed
    BY <1>1 DEF Listed
  <2>5. \A p \in Watchers : screen'[p].up = screen[p].up /\ screen'[p].shows = screen[p].shows
    BY DEF Harmless
  <2>6. Sound => \A p \in Watchers : \A n \in DOMAIN lot : \A i \in DOMAIN lot[n].observers :
           IsOpen(p, n, i) => IsOpen(p, n, i)'
    BY <1>1, <2>1, <2>2, <2>3, <2>4, <2>5 DEF IsOpen
  <2> QED
    BY <1>1, <2>5, <2>6 DEF LotInv, OpenFact, Sound
<1> QED
  BY <1>2, <1>3, <1>4, <1>5, <1>6, <1>7, <1>8, <1>9, <1>a DEF LotInv

\* The lot in hand is the one in the list.
LEMMA AtListed ==
    ASSUME LotInv, Sound, NEW t \in Hands, Within(t)
    PROVE  /\ at[t] \in DOMAIN lot /\ ~lot[at[t]].dead /\ lot[at[t]].lock = t
           /\ lots = <<at[t]>> /\ Listed = ToSet(lot[at[t]].slots)
<1>1. at[t] \in DOMAIN lot /\ ~lot[at[t]].dead /\ lot[at[t]].lock = t
  BY DEF LotInv, LockFact, AliveFact, Sound
<1>2. lots = <<at[t]>>
  BY <1>1 DEF LotInv, ListFact, Sound
<1> QED
  BY <1>1, <1>2 DEF Listed

\* What a thread has left to do is a script.
LEMMA ScriptOf ==
    ASSUME LotInv, NEW t \in Hands
    PROVE  IsScript(t, left[t]) /\ left = [o \in Hands |-> left[o]]
BY DEF LotInv, LotTyped

\* What replaces the first step of t.
LEMMA NextOne ==
    ASSUME LotInv, NEW t \in Hands, NEW more, Next1Is(t, more)
    PROVE  left' = [left EXCEPT ![t] = more \o Tail(left[t])]
BY ScriptOf DEF Next1Is

\* A step is over and nothing takes its place.
LEMMA NextNone ==
    ASSUME LotInv, NEW t \in Hands, Next1Is(t, <<>>), ~Rests(t)
    PROVE  /\ left' = [left EXCEPT ![t] = Tail(left[t])]
           /\ IsScript(t, left[t]) /\ IsScript(t, Tail(left[t])) /\ left[t] # <<>>
<1>1. IsScript(t, left[t]) /\ left[t] # <<>>
  BY ScriptOf DEF Rests
<1>2. IsScript(t, Tail(left[t]))
  BY <1>1, StepDone
<1>3. <<>> \o Tail(left[t]) = Tail(left[t])
  BY <1>2, SeveralPut
<1> QED
  BY <1>1, <1>2, <1>3, NextOne

\* A step that is only over
LEMMA OverStep ==
    ASSUME LotInv, NEW t \in Hands, Turn(t, "tell") \/ Turn(t, "let go"), Next1Is(t, <<>>),
           Harmless(t, Tail(left[t]))
    PROVE  LotInv'
<1> DEFINE s == Tail(left[t])
<1>1. /\ left[t] # <<>> /\ IsScript(t, s) /\ IsScript(t, left[t])
      /\ left' = [left EXCEPT ![t] = s]
  BY NextNone DEF Turn
<1>2. /\ s # <<>> => Follows(Head(left[t]), Head(s)) /\ Final(s) = Final(left[t])
      /\ s = <<>> => Head(left[t]).do \notin StaysIn \cup {"add"} /\ Final(left[t]) = Head(left[t])
      /\ Steps(left[t]) = {Head(left[t])} \cup Steps(s)
  BY <1>1, StepDone
<1>3. Head(left[t]).do \in {"tell", "let go"}
  BY DEF Turn
<1> HIDE DEF s
<1>4. s # <<>> => /\ Head(s).do \in Inside <=> Head(left[t]).do = "tell"
                  /\ Head(s).do \notin {"lock", "send", "back", "remove"}
  BY <1>2, <1>3 DEF Follows, StaysIn
<1>5. s = <<>> => Head(left[t]).do = "let go"
  BY <1>2, <1>3 DEF StaysIn
<1>6. QuietKeeps(t, s)
  <2>1. ~Turn(t, "back") /\ (Head(left[t]).do = "tell" => Within(t))
    BY <1>1, <1>3 DEF Turn, Within, Now, Rests, Inside
  <2>2. SameOps(left[t], s)
    BY <1>1, <1>2, <1>3 DEF SameOps, Awaits
  <2>3. SameHas(left[t], s)
    BY <1>2, <1>3 DEF SameHas, Has, Asks
  <2>4. t = Events /\ s # <<>> /\ Final(s).do = "notify" => Head(s).do \in Inside
    BY <1>1, <1>2, <1>3, <1>4 DEF LotInv, EventsFact, Within, Turn, Rests, Now, Inside
  <2> QED
    BY <1>4, <2>1, <2>2, <2>3, <2>4 DEF QuietKeeps
<1>7. t = Events => StillComes(s)
  <2> SUFFICES ASSUME t = Events PROVE StillComes(s)
    OBVIOUS
  <2>1. \A i : ToEvents(i) => /\ s # <<>>
                             /\ Final(s).do = "notify" /\ Final(s).of = "all" /\ Final(s).i <= i
    BY <1>1, <1>2, <1>3 DEF ToEvents, Turn, Now, Rests
  <2> QED
    BY <2>1 DEF StillComes
<1> QED
  BY <1>6, <1>7, QuietStep DEF s

\* What is done with the lot in hand ends with its unlocking.
LEMMA UnlockNext ==
    ASSUME LotInv, NEW t \in Hands, ~Rests(t), Head(left[t]).do \in Inside \ StaysIn
    PROVE  /\ IsScript(t, <<Step("unlock")>> \o Tail(left[t]))
           /\ <<Step("unlock")>> \o Tail(left[t]) # <<>>
           /\ Head(<<Step("unlock")>> \o Tail(left[t])) = Step("unlock")
           /\ Final(<<Step("unlock")>> \o Tail(left[t])) =
                 IF Tail(left[t]) = <<>> THEN Step("unlock") ELSE Final(left[t])
           /\ Steps(<<Step("unlock")>> \o Tail(left[t])) = {Step("unlock")} \cup Steps(Tail(left[t]))
           /\ Tail(left[t]) = <<>> => Final(left[t]) = Head(left[t])
           /\ Steps(left[t]) = {Head(left[t])} \cup Steps(Tail(left[t]))
           /\ IsScript(t, Tail(left[t])) /\ left[t] # <<>>
           /\ t = Events => Tail(left[t]) = <<>>
<1> DEFINE s == Tail(left[t])
<1>1. IsScript(t, left[t]) /\ left[t] # <<>>
  BY ScriptOf DEF Rests
<1>2. /\ IsScript(t, s) /\ (t = Events => s = <<>>)
      /\ s # <<>> => Follows(Head(left[t]), Head(s)) /\ Final(s) = Final(left[t])
      /\ Steps(left[t]) = {Head(left[t])} \cup Steps(s)
      /\ s = <<>> => Final(left[t]) = Head(left[t])
  BY <1>1, StepDone DEF Inside
<1>3. Joins(t, Step("unlock"), s)
  BY <1>2 DEF Joins, Follows, IsLotStep, IsPlainStep, OwnSteps, OwnStep, Step, Inside, Outside, StaysIn, EventStep, Asks
<1> HIDE DEF s
<1>4. /\ IsScript(t, <<Step("unlock")>> \o s) /\ <<Step("unlock")>> \o s # <<>>
      /\ Head(<<Step("unlock")>> \o s) = Step("unlock")
      /\ Final(<<Step("unlock")>> \o s) = IF s = <<>> THEN Step("unlock") ELSE Final(s)
      /\ Steps(<<Step("unlock")>> \o s) = {Step("unlock")} \cup Steps(s)
  BY <1>2, <1>3, StepPut
<1> QED
  BY <1>1, <1>2, <1>4 DEF s

\* Another step takes the place of the first one.
LEMMA PutNext ==
    ASSUME LotInv, NEW t \in Hands, ~Rests(t), NEW x, IsPlainStep(x), OwnStep(t, x),
           Head(left[t]).do \notin {"add", "find", "park", "unpark"},
           x.do \notin {"add", "find", "park", "unpark", "attach"},
           x.do \in StaysIn <=> Head(left[t]).do \in StaysIn
    PROVE  /\ IsScript(t, <<x>> \o Tail(left[t])) /\ <<x>> \o Tail(left[t]) # <<>>
           /\ Head(<<x>> \o Tail(left[t])) = x
           /\ Final(<<x>> \o Tail(left[t])) = IF Tail(left[t]) = <<>> THEN x ELSE Final(left[t])
           /\ Steps(<<x>> \o Tail(left[t])) = {x} \cup Steps(Tail(left[t]))
<1> DEFINE s == Tail(left[t])
<1>1. IsScript(t, left[t]) /\ left[t] # <<>>
  BY ScriptOf DEF Rests
<1>2. /\ IsScript(t, s)
      /\ s # <<>> => Follows(Head(left[t]), Head(s)) /\ Final(s) = Final(left[t])
      /\ s = <<>> => Head(left[t]).do \notin StaysIn \cup {"add"}
      /\ t = Events => s = <<>> \/ Head(left[t]).do \in StaysIn \cup {"add"}
  BY <1>1, StepDone
<1> HIDE DEF s
<1>3. Joins(t, x, s)
  <2>1. s # <<>> => Follows(x, Head(s))
    BY <1>2 DEF Follows
  <2>2. s = <<>> => x.do \notin StaysIn \cup {"add"}
    BY <1>2
  <2> QED
    BY <1>2, <2>1, <2>2, PlainJoins
<1>4. /\ IsScript(t, <<x>> \o s) /\ <<x>> \o s # <<>>
      /\ Head(<<x>> \o s) = x
      /\ Final(<<x>> \o s) = IF s = <<>> THEN x ELSE Final(s)
      /\ Steps(<<x>> \o s) = {x} \cup Steps(s)
  BY <1>2, <1>3, StepPut
<1> QED
  BY <1>2, <1>4 DEF s

\* A step with the lot in hand that another one follows
LEMMA InsideStep ==
    ASSUME LotInv, NEW t \in Hands, ~Rests(t),
           Head(left[t]).do \in {"menu", "press", "notify"},
           NEW s, Harmless(t, s), s # <<>>, Head(s).do \in Inside \ {"remove"},
           Head(s).do = "send" => Head(s).i \in DOMAIN lot[at[t]].observers,
           SameOps(left[t], s), SameHas(left[t], s), t = Events => StillComes(s)
    PROVE  LotInv'
<1>1. Within(t) /\ ~Turn(t, "back") /\ Head(s).do \notin {"lock", "back"}
  BY DEF Within, Turn, Now, Inside
<1>2. QuietKeeps(t, s)
  BY <1>1 DEF QuietKeeps
<1> QED
  BY <1>2, QuietStep

\* Who asks for the menu has only more steps to do.
LEMMA MenuForKeeps ==
    ASSUME LotInv, NEW t \in Hands, MenuFor(t)
    PROVE  LotInv'
<1> DEFINE r == <<Step("unlock")>> \o Tail(left[t])
           mine == {i \in DOMAIN Mine(t).observers : Mine(t).observers[i].device = t}
           x == [do |-> "send", i |-> CHOOSE i \in mine : TRUE, what |-> Now(t).of]
<1>1. ~Rests(t) /\ Head(left[t]).do = "menu" /\ Within(t)
  BY DEF MenuFor, Turn, Within, Now, Inside
<1>2. /\ IsScript(t, r) /\ r # <<>> /\ Head(r) = Step("unlock")
      /\ Final(r) = IF Tail(left[t]) = <<>> THEN Step("unlock") ELSE Final(left[t])
      /\ Steps(r) = {Step("unlock")} \cup Steps(Tail(left[t]))
      /\ Tail(left[t]) = <<>> => Final(left[t]) = Head(left[t])
      /\ Steps(left[t]) = {Head(left[t])} \cup Steps(Tail(left[t]))
      /\ IsScript(t, Tail(left[t])) /\ left[t] # <<>>
  BY <1>1, UnlockNext DEF Inside, StaysIn
<1>3. UNCHANGED <<lot, lots, at, screen, parked, events, lost>>
  BY DEF MenuFor
<1>4. /\ mine = {} => left' = [left EXCEPT ![t] = r]
      /\ mine # {} => left' = [left EXCEPT ![t] = <<x>> \o r]
  <2>1. left' = [left EXCEPT ![t] = (IF mine = {} THEN <<>> ELSE <<x>>) \o <<Step("unlock")>> \o Tail(left[t])]
    <3>1. Next1Is(t, (IF mine = {} THEN <<>> ELSE <<x>>) \o <<Step("unlock")>>)
      BY DEF MenuFor, Send, Unlock
    <3> HIDE DEF mine, x
    <3> QED
      BY <3>1, NextOne
  <2> HIDE DEF mine, x
  <2>2. <<>> \o <<Step("unlock")>> = <<Step("unlock")>>
    OBVIOUS
  <2>3. <<x>> \o <<Step("unlock")>> = <<x, Step("unlock")>>
    BY PairIs
  <2>4. <<x, Step("unlock")>> \o Tail(left[t]) = <<x>> \o r
    <3>1. IsScript(t, Tail(left[t]))
      BY <1>2
    <3>2. PutOne(x, Step("unlock"), Step("unlock"), Tail(left[t]))
      BY <3>1, ThreePut
    <3> QED
      BY ONLY <3>2 DEF PutOne
  <2>5. CASE mine = {}
    BY ONLY <2>1, <2>2, <2>5
  <2>6. CASE mine # {}
    BY ONLY <2>1, <2>3, <2>4, <2>6
  <2> QED
    BY ONLY <2>5, <2>6
<1>5. at[t] \in DOMAIN lot /\ DOMAIN Mine(t).observers \subseteq Nat \ {0}
  <2>1. at[t] \in DOMAIN lot
    BY <1>1 DEF LotInv, LockFact
  <2> QED
    BY <2>1, LotIs DEF Mine
<1>6. IsLotStep(Head(left[t]))
  BY <1>2, StepDone, ScriptOf
<1>7. mine # {} => /\ x.i \in DOMAIN lot[at[t]].observers /\ x.i \in Nat \ {0}
                   /\ x.do = "send" /\ x.what \in {"show", "hide"}
                   /\ DOMAIN x = {"do", "i", "what"}
  <2>1. mine # {} => x.i \in mine
    OBVIOUS
  <2>2. x.do = "send" /\ x.what = Head(left[t]).of /\ DOMAIN x = {"do", "i", "what"}
    BY DEF Now
  <2>3. mine \subseteq DOMAIN Mine(t).observers
    OBVIOUS
  <2> HIDE DEF mine, x
  <2> QED
    BY <1>1, <1>5, <1>6, <2>1, <2>2, <2>3 DEF Mine, IsLotStep, IsPlainStep
<1> HIDE DEF r, x, mine
<1>8. ASSUME mine # {} PROVE Joins(t, x, r)
  <2>1. IsPlainStep(x) /\ OwnStep(t, x)
    BY <1>7, <1>8 DEF IsPlainStep, OwnStep, Inside
  <2>2. Follows(x, Head(r))
    BY <1>2, <1>7, <1>8 DEF Follows, Step, Inside, StaysIn
  <2> QED
    BY <1>2, <1>7, <1>8, <2>1, <2>2, PlainJoins DEF StaysIn
<1>9. CASE mine = {}
  <2>1. Harmless(t, r)
    BY <1>2, <1>3, <1>4, <1>9 DEF Harmless, LotInv, LotTyped
  <2>2. SameOps(left[t], r) /\ SameHas(left[t], r)
    BY <1>1, <1>2 DEF SameOps, SameHas, Awaits, Has, Asks, Step
  <2>3. t = Events => StillComes(r)
    BY <1>1, <1>2 DEF StillComes, ToEvents, Turn, Now, Rests
  <2> QED
    BY <1>1, <1>2, <2>1, <2>2, <2>3, InsideStep DEF Step, Inside
<1>10. CASE mine # {}
  <2> DEFINE s == <<x>> \o r
  <2>1. /\ IsScript(t, s) /\ s # <<>> /\ Head(s) = x
        /\ Final(s) = Final(r) /\ Steps(s) = {x} \cup Steps(r)
    BY <1>2, <1>8, <1>10, StepPut
  <2>2. Harmless(t, s)
    BY <1>3, <1>4, <1>10, <2>1 DEF Harmless, LotInv, LotTyped
  <2> HIDE DEF s
  <2>3. SameOps(left[t], s) /\ SameHas(left[t], s)
    BY <1>1, <1>2, <1>7, <1>10, <2>1 DEF SameOps, SameHas, Awaits, Has, Asks, Step
  <2>4. t = Events => StillComes(s)
    BY <1>1, <1>2, <2>1 DEF StillComes, ToEvents, Turn, Now, Rests
  <2> QED
    BY <1>1, <1>7, <1>10, <2>1, <2>2, <2>3, <2>4, InsideStep DEF Inside
<1> QED
  BY <1>9, <1>10

\* A press leads to the menu, or to nothing.
LEMMA HandleButtonPressKeeps ==
    ASSUME LotInv, NEW t \in Hands, HandleButtonPress(t)
    PROVE  LotInv'
<1> DEFINE r == <<Step("unlock")>> \o Tail(left[t])
           x == Of("menu", "show")
           s == <<x>> \o Tail(left[t])
<1>1. ~Rests(t) /\ Head(left[t]).do = "press" /\ Within(t)
  BY DEF HandleButtonPress, Turn, Within, Now, Inside
<1>2. /\ IsScript(t, r) /\ r # <<>> /\ Head(r) = Step("unlock")
      /\ Final(r) = IF Tail(left[t]) = <<>> THEN Step("unlock") ELSE Final(left[t])
      /\ Steps(r) = {Step("unlock")} \cup Steps(Tail(left[t]))
      /\ Tail(left[t]) = <<>> => Final(left[t]) = Head(left[t])
      /\ Steps(left[t]) = {Head(left[t])} \cup Steps(Tail(left[t]))
      /\ IsScript(t, Tail(left[t])) /\ left[t] # <<>>
  BY <1>1, UnlockNext DEF Inside, StaysIn
<1>3. UNCHANGED <<lot, lots, at, screen, parked, events, lost>>
  BY DEF HandleButtonPress
<1>4. left' = [left EXCEPT ![t] = r] \/ left' = [left EXCEPT ![t] = s]
  <2>1. Next1Is(t, <<Step("unlock")>>) \/ Next1Is(t, <<x>>)
    BY DEF HandleButtonPress, Unlock
  <2> HIDE DEF x
  <2> QED
    BY <2>1, NextOne
<1>6. IsPlainStep(x) /\ OwnStep(t, x) /\ x.do = "menu"
  BY DEF IsPlainStep, OwnStep, Inside, Of
<1>7. /\ IsScript(t, s) /\ s # <<>> /\ Head(s) = x /\ Steps(s) = {x} \cup Steps(Tail(left[t]))
      /\ Final(s) = IF Tail(left[t]) = <<>> THEN x ELSE Final(left[t])
  <2> HIDE DEF x
  <2> QED
    BY <1>1, <1>6, PutNext DEF StaysIn
<1>8. x.do = "menu"
  BY DEF Of
<1> HIDE DEF r, s, x
<1>9. CASE left' = [left EXCEPT ![t] = r]
  <2>1. Harmless(t, r)
    BY <1>2, <1>3, <1>9 DEF Harmless, LotInv, LotTyped
  <2>2. SameOps(left[t], r) /\ SameHas(left[t], r)
    BY <1>1, <1>2 DEF SameOps, SameHas, Awaits, Has, Asks, Step
  <2>3. t = Events => StillComes(r)
    BY <1>1, <1>2 DEF StillComes, ToEvents, Turn, Now, Rests
  <2> QED
    BY <1>1, <1>2, <2>1, <2>2, <2>3, InsideStep DEF Step, Inside
<1>10. CASE left' = [left EXCEPT ![t] = s]
  <2>1. Harmless(t, s)
    BY <1>3, <1>7, <1>10 DEF Harmless, LotInv, LotTyped
  <2>2. SameOps(left[t], s) /\ SameHas(left[t], s)
    BY <1>1, <1>2, <1>7, <1>8 DEF SameOps, SameHas, Awaits, Has, Asks
  <2>3. t = Events => StillComes(s)
    BY <1>1, <1>2, <1>7 DEF StillComes, ToEvents, Turn, Now, Rests
  <2> QED
    BY <1>1, <1>7, <1>8, <2>1, <2>2, <2>3, InsideStep DEF Inside
<1> QED
  BY <1>4, <1>9, <1>10

\* Three are one and one and one.
LEMMA TripleIs == \A x, y, z : <<x>> \o <<y>> \o <<z>> = <<x, y, z>> /\ <<>> \o <<x>> \o <<y>> = <<x, y>>
<1> TAKE x, y, z
<1>1. <<>> \o <<x>> = <<x>>
  OBVIOUS
<1>a. <<x>> \o <<y>> = <<x, y>>
  BY PairIs
<1>2. <<x, y>> \o <<z>> = <<x, y, z>>
  <2> DEFINE S == {x, y, z}
  <2>1. <<x, y>> \in Seq(S) /\ <<z>> \in Seq(S) /\ <<x, y, z>> \in Seq(S)
    OBVIOUS
  <2>2. Len(<<x, y>> \o <<z>>) = 3 /\ <<x, y>> \o <<z>> \in Seq(S)
    BY <2>1
  <2>3. \A k \in 1..3 : (<<x, y>> \o <<z>>)[k] = <<x, y, z>>[k]
    BY <2>1
  <2> DEFINE r == <<x, y>> \o <<z>>
  <2>4. r = [k \in 1..3 |-> r[k]] /\ <<x, y, z>> = [k \in 1..3 |-> <<x, y, z>>[k]]
    BY <2>2
  <2> HIDE DEF r
  <2>5. \A k \in 1..3 : r[k] = <<x, y, z>>[k]
    BY <2>3 DEF r
  <2>6. r = <<x, y, z>>
    BY <2>4, <2>5
  <2> QED
    BY <2>6 DEF r
<1> QED
  BY <1>1, <1>a, <1>2

\* Several steps take the place of the one that is over.
LEMMA NextSeveral ==
    ASSUME LotInv, NEW t \in Hands, ~Rests(t), NEW x, NEW y, NEW z
    PROVE  /\ Next1Is(t, <<>> \o <<y>> \o <<x>>) =>
                 left' = [left EXCEPT ![t] = <<y>> \o (<<x>> \o Tail(left[t]))]
           /\ Next1Is(t, <<z>> \o <<y>> \o <<x>>) =>
                 left' = [left EXCEPT ![t] = <<z>> \o (<<y>> \o (<<x>> \o Tail(left[t])))]
           /\ Next1Is(t, <<y, x>>) => left' = [left EXCEPT ![t] = <<y>> \o (<<x>> \o Tail(left[t]))]
           /\ Next1Is(t, <<z, y, x>>) =>
                 left' = [left EXCEPT ![t] = <<z>> \o (<<y>> \o (<<x>> \o Tail(left[t])))]
<1> DEFINE s == Tail(left[t])
<1>1. IsScript(t, s)
  <2>1. IsScript(t, left[t]) /\ left[t] # <<>>
    BY ScriptOf DEF Rests
  <2> QED
    BY <2>1, StepDone
<1>2. <<>> \o <<y>> \o <<x>> = <<y, x>> /\ <<z>> \o <<y>> \o <<x>> = <<z, y, x>>
  BY TripleIs
<1>3. /\ Next1Is(t, <<y, x>>) => left' = [left EXCEPT ![t] = <<y, x>> \o s]
      /\ Next1Is(t, <<z, y, x>>) => left' = [left EXCEPT ![t] = <<z, y, x>> \o s]
  BY NextOne
<1> HIDE DEF s
<1>4. <<y, x>> \o s = <<y>> \o (<<x>> \o s)
  BY <1>1, SeveralPut
<1>5. <<z, y, x>> \o s = <<z>> \o (<<y>> \o (<<x>> \o s))
  <2>1. PutOne(z, y, x, s)
    BY <1>1, ThreePut
  <2> QED
    BY <2>1 DEF PutOne
<1>6. Next1Is(t, <<y, x>>) => left' = [left EXCEPT ![t] = <<y>> \o (<<x>> \o s)]
  BY ONLY <1>3, <1>4
<1>7. Next1Is(t, <<z, y, x>>) => left' = [left EXCEPT ![t] = <<z>> \o (<<y>> \o (<<x>> \o s))]
  BY ONLY <1>3, <1>5
<1>8. /\ Next1Is(t, <<>> \o <<y>> \o <<x>>) => Next1Is(t, <<y, x>>)
      /\ Next1Is(t, <<z>> \o <<y>> \o <<x>>) => Next1Is(t, <<z, y, x>>)
  BY ONLY <1>2
<1> QED
  BY ONLY <1>6, <1>7, <1>8 DEF s

\* A watcher is told: an open menu is sent again, and a watcher that is passed over has no open menu.
LEMMA NotifyHelperKeeps ==
    ASSUME LotInv, NEW t \in Hands, NotifyHelper(t)
    PROVE  LotInv'
<1> DEFINE r == <<Step("unlock")>> \o Tail(left[t])
           i == Now(t).i
           n == at[t]
           of == Now(t).of
           o == lot[n].observers[i]
           x == [do |-> "notify", of |-> of, i |-> i + 1]
           s == <<x>> \o Tail(left[t])
           y == Of("tell", o.device)
           ys == <<y>> \o s
           z(what) == [do |-> "send", i |-> i, what |-> what]
           zs(what) == <<z(what)>> \o ys
<1>1. ~Rests(t) /\ Head(left[t]).do = "notify" /\ Within(t)
  BY DEF NotifyHelper, Turn, Within, Now, Inside
<1>2. /\ IsScript(t, r) /\ r # <<>> /\ Head(r) = Step("unlock")
      /\ Final(r) = IF Tail(left[t]) = <<>> THEN Step("unlock") ELSE Final(left[t])
      /\ Steps(r) = {Step("unlock")} \cup Steps(Tail(left[t]))
      /\ Tail(left[t]) = <<>> => Final(left[t]) = Head(left[t])
      /\ Steps(left[t]) = {Head(left[t])} \cup Steps(Tail(left[t]))
      /\ IsScript(t, Tail(left[t])) /\ left[t] # <<>>
  BY <1>1, UnlockNext DEF Inside, StaysIn
<1>3. UNCHANGED <<lot, lots, at, parked, events, lost>>
  BY DEF NotifyHelper
<1>4. n \in DOMAIN lot /\ (Sound => lots = <<n>>)
  BY <1>1, AtListed DEF LotInv, LockFact
<1>5. i \in Nat \ {0} /\ of \in Watchers \cup {"all"}
  <2>1. IsLotStep(Head(left[t]))
    BY <1>2, StepDone, ScriptOf
  <2> QED
    BY <1>1, <2>1 DEF IsLotStep, IsPlainStep, Now
<1>6. \/ i > Len(lot[n].observers) /\ left' = [left EXCEPT ![t] = r] /\ screen' = screen
      \/ /\ i \in DOMAIN lot[n].observers
         /\ \/ of \notin {"all", o.device} /\ left' = [left EXCEPT ![t] = s] /\ screen' = screen
            \/ /\ screen' = [screen EXCEPT ![o.device].status = Lit(n)]
               /\ \/ ~o.open /\ left' = [left EXCEPT ![t] = ys]
                  \/ \E what \in {"show", "hide"} : o.open /\ left' = [left EXCEPT ![t] = zs(what)]
  <2>1. i <= Len(lot[n].observers) => i \in DOMAIN lot[n].observers
    BY <1>4, <1>5, LotIs
  <2>2. i > Len(lot[n].observers) => Next1Is(t, <<Step("unlock")>>) /\ screen' = screen
    BY DEF NotifyHelper, Unlock
  <2>3. ~(i > Len(lot[n].observers)) =>
           \/ of \notin {"all", o.device} /\ Next1Is(t, <<x>>) /\ screen' = screen
           \/ /\ screen' = [screen EXCEPT ![o.device].status = Lit(n)]
              /\ \/ ~o.open /\ Next1Is(t, <<>> \o <<y>> \o <<x>>)
                 \/ o.open /\ \E what \in {"show", "hide"} : Next1Is(t, <<z(what)>> \o <<y>> \o <<x>>)
    BY DEF NotifyHelper, Refresh, Send, Notify
  <2>4. Next1Is(t, <<Step("unlock")>>) => left' = [left EXCEPT ![t] = r]
    BY NextOne
  <2>5. Next1Is(t, <<x>>) => left' = [left EXCEPT ![t] = s]
    <3> HIDE DEF x
    <3> QED
      BY NextOne
  <2>6. Next1Is(t, <<>> \o <<y>> \o <<x>>) => left' = [left EXCEPT ![t] = ys]
    <3> HIDE DEF x, y
    <3> QED
      BY <1>1, NextSeveral
  <2>7. ASSUME NEW what \in {"show", "hide"}
        PROVE  Next1Is(t, <<z(what)>> \o <<y>> \o <<x>>) => left' = [left EXCEPT ![t] = zs(what)]
    <3> DEFINE w == z(what)
    <3>1. Next1Is(t, <<w>> \o <<y>> \o <<x>>) => left' = [left EXCEPT ![t] = <<w>> \o ys]
      <4> HIDE DEF x, y, w
      <4> QED
        BY <1>1, NextSeveral
    <3> QED
      BY <3>1
  <2> HIDE DEF x, y, z, s, ys, zs, r, o, of, n
  <2>8. i > Len(lot[n].observers) \/ i \in DOMAIN lot[n].observers
    <3>1. Len(lot[n].observers) \in Nat
      BY <1>4, LotIs
    <3> QED
      BY <1>5, <2>1, <3>1
  <2>9. \A what \in {"show", "hide"} : Next1Is(t, <<z(what)>> \o <<y>> \o <<x>>) => left' = [left EXCEPT ![t] = zs(what)]
    BY <2>7
  <2> HIDE DEF i
  <2>10. CASE i > Len(lot[n].observers)
    BY ONLY <2>2, <2>4, <2>10
  <2>11. CASE ~(i > Len(lot[n].observers))
    BY ONLY <2>3, <2>5, <2>6, <2>8, <2>9, <2>11
  <2> QED
    BY ONLY <2>10, <2>11
<1>7. i \in DOMAIN lot[n].observers => o.device \in Watchers
  BY <1>4, WatcherIs
<1>8. \/ screen' = screen
      \/ i \in DOMAIN lot[n].observers /\ screen' = [screen EXCEPT ![o.device].status = Lit(n)]
  BY <1>6
<1>9. /\ screen' \in [Watchers -> AScreen]
      /\ \A p \in Watchers : screen'[p].up = screen[p].up /\ screen'[p].shows = screen[p].shows
  <2>1. screen \in [Watchers -> AScreen]
    BY DEF LotInv, LotTyped
  <2>2. Lit(n) \in BOOLEAN
    BY DEF Lit
  <2> HIDE DEF o, n, i
  <2> QED
    BY <1>7, <1>8, <2>1, <2>2 DEF AScreen
<1>10. /\ x.do = "notify" /\ x.of = of /\ x.i = i + 1
       /\ y.do = "tell" /\ y.of = o.device
       /\ \A what : z(what).do = "send" /\ z(what).i = i /\ z(what).what = what
  BY DEF Of
<1>11. IsPlainStep(x) /\ OwnStep(t, x)
  BY <1>5, <1>10 DEF IsPlainStep, OwnStep, Inside
<1>12. /\ IsScript(t, s) /\ s # <<>> /\ Head(s) = x /\ Steps(s) = {x} \cup Steps(Tail(left[t]))
       /\ Final(s) = IF Tail(left[t]) = <<>> THEN x ELSE Final(left[t])
  <2> HIDE DEF x
  <2> QED
    BY <1>1, <1>10, <1>11, PutNext DEF StaysIn
<1>13. ASSUME i \in DOMAIN lot[n].observers
       PROVE  /\ IsScript(t, ys) /\ ys # <<>> /\ Head(ys) = y /\ Steps(ys) = {y} \cup Steps(s)
              /\ Final(ys) = Final(s)
  <2> HIDE DEF x, y, s, o, n, i, of
  <2>1. IsPlainStep(y) /\ OwnStep(t, y)
    BY <1>7, <1>10, <1>13 DEF IsPlainStep, OwnStep, Inside
  <2>2. Joins(t, y, s)
    <3>1. Follows(y, Head(s))
      BY <1>10, <1>12 DEF Follows, StaysIn, Inside
    <3> QED
      BY <1>10, <1>12, <2>1, <3>1, PlainJoins DEF StaysIn
  <2> QED
    BY <1>12, <2>2, StepPut
<1>14. ASSUME i \in DOMAIN lot[n].observers, NEW what \in {"show", "hide"}
       PROVE  /\ IsScript(t, zs(what)) /\ zs(what) # <<>> /\ Head(zs(what)) = z(what)
              /\ Steps(zs(what)) = {z(what)} \cup Steps(ys) /\ Final(zs(what)) = Final(ys)
  <2> DEFINE w == z(what)
  <2>0. w.do = "send" /\ w.i = i /\ w.what = what /\ DOMAIN w = {"do", "i", "what"}
    BY <1>10
  <2> HIDE DEF x, y, z, w, s, ys, o, n, i, of
  <2>1. IsPlainStep(w) /\ OwnStep(t, w)
    BY <1>5, <1>14, <2>0 DEF IsPlainStep, OwnStep, Inside
  <2>2. Joins(t, w, ys)
    <3>1. Follows(w, Head(ys))
      BY <1>10, <1>13, <1>14, <2>0 DEF Follows, StaysIn, Inside
    <3> QED
      BY <1>13, <1>14, <2>0, <2>1, <3>1, PlainJoins DEF StaysIn
  <2>3. /\ IsScript(t, <<w>> \o ys) /\ <<w>> \o ys # <<>> /\ Head(<<w>> \o ys) = w
        /\ Steps(<<w>> \o ys) = {w} \cup Steps(ys) /\ Final(<<w>> \o ys) = Final(ys)
    BY <1>13, <1>14, <2>2, StepPut
  <2>4. w = z(what) /\ zs(what) = <<w>> \o ys
    BY DEF w
  <2> HIDE DEF zs
  <2> QED
    BY <2>3, <2>4
<1> HIDE DEF x, y, z, s, ys, zs, r, o, of, n, i
<1>15. ASSUME NEW v, IsScript(t, v), v # <<>>, left' = [left EXCEPT ![t] = v],
              Head(v).do \in {"unlock", "notify", "tell", "send"},
              Head(v).do = "send" => Head(v).i \in DOMAIN lot[n].observers,
              Tail(left[t]) # <<>> => Final(v) = Final(left[t]),
              Tail(left[t]) = <<>> => Final(v).do \in {"unlock", "notify"},
              \A w \in Steps(v) : w \in Steps(Tail(left[t])) \/ w.do \in {"unlock", "notify", "tell", "send"},
              Steps(Tail(left[t])) \subseteq Steps(v),
              Tail(left[t]) = <<>> => \A j \in DOMAIN lot[n].observers :
                 of = "all" /\ i <= j /\ lot[n].observers[j].open =>
                    \/ Head(v).do = "send" /\ Head(v).i = j
                    \/ Final(v).do = "notify" /\ Final(v).of = "all" /\ Final(v).i <= j
       PROVE  LotInv'
  <2>1. Harmless(t, v)
    BY <1>3, <1>9, <1>15 DEF Harmless
  <2>2. SameOps(left[t], v)
    BY <1>1, <1>2, <1>15 DEF SameOps, Awaits
  <2>3. SameHas(left[t], v)
    BY <1>1, <1>2, <1>15 DEF SameHas, Has, Asks
  <2>4. t = Events => StillComes(v)
    BY <1>1, <1>2, <1>4, <1>15 DEF StillComes, ToEvents, Turn, Now, Rests, of, i
  <2>5. Head(v).do \in Inside \ {"remove"}
    BY <1>15 DEF Inside
  <2> QED
    BY <1>1, <1>15, <2>1, <2>2, <2>3, <2>4, <2>5, InsideStep DEF n
<1>16. CASE i > Len(lot[n].observers) /\ left' = [left EXCEPT ![t] = r]
  <2>1. \A j \in DOMAIN lot[n].observers : ~(i <= j)
    <3>1. DOMAIN lot[n].observers = 1..Len(lot[n].observers) /\ Len(lot[n].observers) \in Nat
      BY <1>4, LotIs
    <3> QED
      BY <1>5, <1>16, <3>1
  <2>2. Step("unlock").do = "unlock"
    BY DEF Step
  <2> QED
    BY <1>2, <1>15, <1>16, <2>1, <2>2
<1>17. CASE i \in DOMAIN lot[n].observers /\ of \notin {"all", o.device} /\ left' = [left EXCEPT ![t] = s]
  BY <1>10, <1>12, <1>15, <1>17
<1>18. CASE i \in DOMAIN lot[n].observers /\ ~o.open /\ left' = [left EXCEPT ![t] = ys]
  <2>1. \A j \in DOMAIN lot[n].observers : i <= j /\ lot[n].observers[j].open => i + 1 <= j
    <3>1. DOMAIN lot[n].observers = 1..Len(lot[n].observers) /\ Len(lot[n].observers) \in Nat
      BY <1>4, LotIs
    <3> QED
      BY <1>5, <1>18, <3>1 DEF o
  <2>2. Head(ys).do = "tell" /\ (Tail(left[t]) = <<>> => Final(ys) = x) /\ (Tail(left[t]) # <<>> => Final(ys) = Final(left[t]))
    BY <1>10, <1>12, <1>13, <1>18
  <2>3. Steps(ys) = {y, x} \cup Steps(Tail(left[t]))
    BY <1>12, <1>13, <1>18
  <2>4. IsScript(t, ys) /\ ys # <<>>
    BY <1>13, <1>18
  <2> QED
    BY <1>10, <1>15, <1>18, <2>1, <2>2, <2>3, <2>4
<1>19. ASSUME i \in DOMAIN lot[n].observers, NEW what \in {"show", "hide"}, left' = [left EXCEPT ![t] = zs(what)]
       PROVE  LotInv'
  <2>1. \A j \in DOMAIN lot[n].observers : i <= j => i = j \/ i + 1 <= j
    <3>1. DOMAIN lot[n].observers = 1..Len(lot[n].observers) /\ Len(lot[n].observers) \in Nat
      BY <1>4, LotIs
    <3> QED
      BY <1>5, <3>1
  <2> DEFINE v == zs(what)
  <2>2. /\ Head(v).do = "send" /\ Head(v).i = i
        /\ (Tail(left[t]) = <<>> => Final(v) = x) /\ (Tail(left[t]) # <<>> => Final(v) = Final(left[t]))
    BY <1>10, <1>12, <1>13, <1>14, <1>19
  <2>3. Steps(v) = {z(what), y, x} \cup Steps(Tail(left[t]))
    BY <1>12, <1>13, <1>14, <1>19
  <2>4. IsScript(t, v) /\ v # <<>> /\ left' = [left EXCEPT ![t] = v]
    BY <1>14, <1>19
  <2>5. \A w \in Steps(v) : w \in Steps(Tail(left[t])) \/ w.do \in {"unlock", "notify", "tell", "send"}
    BY <1>10, <2>3
  <2> HIDE DEF v
  <2> QED
    BY <1>10, <1>15, <1>19, <2>1, <2>2, <2>3, <2>4, <2>5
<1> QED
  BY <1>6, <1>16, <1>17, <1>18, <1>19

\* The first step of t is over.
LEMMA Popped ==
    ASSUME LotInv, NEW t \in Hands, Next1Is(t, <<>>), ~Rests(t)
    PROVE  /\ left' = [left EXCEPT ![t] = Tail(left[t])] /\ left[t] # <<>>
           /\ IsScript(t, Tail(left[t]))
           /\ IsLotStep(Head(left[t])) /\ OwnSteps(t, Head(left[t]))
           /\ Tail(left[t]) # <<>> => /\ Follows(Head(left[t]), Head(Tail(left[t])))
                                      /\ Final(Tail(left[t])) = Final(left[t])
           /\ Tail(left[t]) = <<>> => /\ Head(left[t]).do \notin StaysIn \cup {"add"}
                                      /\ Final(left[t]) = Head(left[t])
           /\ Steps(left[t]) = {Head(left[t])} \cup Steps(Tail(left[t]))
           /\ t = Events /\ Tail(left[t]) # <<>> => Head(left[t]).do \in StaysIn \cup {"add"}
<1>1. /\ left' = [left EXCEPT ![t] = Tail(left[t])]
      /\ IsScript(t, left[t]) /\ left[t] # <<>>
  BY NextNone
<1> QED
  BY <1>1, StepDone

\* One thread's steps change, the others' do not.
LEMMA LeftIs ==
    ASSUME LotInv, NEW t \in Hands, NEW s, left' = [left EXCEPT ![t] = s]
    PROVE  left'[t] = s /\ \A o \in Hands : o # t => left'[o] = left[o]
BY ScriptOf

\* What becomes of the lots when one changes.
LEMMA LotSet ==
    ASSUME LotInv, NEW n \in DOMAIN lot, NEW v \in ALot, lot' = [lot EXCEPT ![n] = v]
    PROVE  /\ lot' \in Seq(ALot) /\ DOMAIN lot' = DOMAIN lot
           /\ lot'[n] = v /\ \A m \in DOMAIN lot : m # n => lot'[m] = lot[m]
<1>1. lot \in Seq(ALot)
  BY DEF LotInv, LotTyped
<1> QED
  BY <1>1

\* The lot that t unlocks or locks is otherwise as it was.
LEMMA LockSet ==
    ASSUME LotInv, NEW n \in DOMAIN lot, NEW k \in Hands \cup {Free}, lot' = [lot EXCEPT ![n].lock = k]
    PROVE  /\ lot' \in Seq(ALot) /\ DOMAIN lot' = DOMAIN lot
           /\ lot'[n].lock = k /\ \A m \in DOMAIN lot : m # n => lot'[m] = lot[m]
           /\ \A m \in DOMAIN lot : /\ lot'[m].slots = lot[m].slots /\ lot'[m].dead = lot[m].dead
                                    /\ lot'[m].observers = lot[m].observers
<1> DEFINE v == [lot[n] EXCEPT !.lock = k]
<1>1. lot[n] \in ALot
  BY LotIs
<1>2. v \in ALot /\ v.lock = k /\ v.slots = lot[n].slots /\ v.dead = lot[n].dead /\ v.observers = lot[n].observers
  BY <1>1 DEF ALot
<1>3. lot' = [lot EXCEPT ![n] = v]
  OBVIOUS
<1> HIDE DEF v
<1> QED
  BY <1>2, <1>3, LotSet

\* A step that changes nothing of the lots but who holds them, of the threads but t,
\* and of the phones what LotInv does not look at.
SameLots == /\ DOMAIN lot' = DOMAIN lot
            /\ \A m \in DOMAIN lot : /\ lot'[m].slots = lot[m].slots /\ lot'[m].dead = lot[m].dead
                                     /\ lot'[m].observers = lot[m].observers
SameRest == /\ UNCHANGED <<lots, parked, events, screen>>
            /\ lost'.twice = lost.twice /\ lost'.calls = lost.calls /\ lost'.stale = lost.stale
            /\ lost'.moved = lost.moved /\ (~lost'.freed => ~lost.freed)

\* A step that leaves the lots and the phones as they are keeps what is said of those.
LEMMA HandStep ==
    ASSUME LotInv, NEW t \in Hands, NEW s, left' = [left EXCEPT ![t] = s],
           LotTyped', LockFact', AliveFact', SameLots, SameRest,
           \A o \in Hands : o # t => at'[o] = at[o],
           ~Turn(t, "back"), s # <<>> => Head(s).do \notin {"send", "back", "remove"},
           lots = <<>> \/ SameHas(left[t], s),
           \A what \in {"attach", "detach"} : Has(s, what) => Has(left[t], what),
           t = Events => /\ SameOps(left[t], s) /\ StillComes(s)
                         /\ s # <<>> /\ Final(s).do = "notify" => Head(s).do \in Inside
    PROVE  LotInv'
<1>1. left'[t] = s /\ \A o \in Hands : o # t => left'[o] = left[o]
  BY LeftIs
<1>2. Sound' => Sound
  BY DEF Sound, SameRest
<1>3. ListFact'
  BY DEF LotInv, ListFact, SameLots, SameRest
<1>4. Listed' = Listed
  <2>1. lots # <<>> => Head(lots) \in DOMAIN lot
    BY DEF LotInv, LotTyped
  <2> QED
    BY <2>1 DEF Listed, SameLots, SameRest
<1>5. ParkedFact'
  <2>1. ParkedFact
    BY DEF LotInv
  <2>2. t # Events => left'[Events] = left[Events]
    BY <1>1 DEF Hands
  <2>3. \A kind \in {"park", "unpark"} : \A place \in Spaces :
           Awaits(left'[Events], kind, place) <=> Awaits(left[Events], kind, place)
    BY <1>1, <2>2 DEF SameOps
  <2>4. \A place \in Spaces : Due(place)' <=> Due(place)
    BY <1>4, <2>3 DEF Due, LastSays, SameRest
  <2> QED
    BY <1>2, <2>1, <2>4 DEF ParkedFact, SameRest
<1>6. ObserverFact'
  <2>1. ObserverFact /\ ListFact
    BY DEF LotInv
  <2>2. \A p \in Watchers : \A n \in DOMAIN lot : Observes(p, n)' <=> Observes(p, n)
    BY DEF Observes, SameLots
  <2>3. CASE lots = <<>>
    <3>1. Sound => \A n \in DOMAIN lot : lot[n].dead
      BY <2>1, <2>3 DEF ListFact, Sound
    <3> QED
      BY <1>2, <3>1 DEF ObserverFact, SameLots
  <2>4. CASE SameHas(left[t], s)
    <3>1. \A p \in Watchers : SameHas(left[p], left'[p])
      BY <1>1, <2>4, LotAssumption DEF SameHas, Hands, Events
    <3>2. screen' = screen
      BY DEF SameRest
    <3> QED
      BY <1>2, <2>1, <2>2, <3>1, <3>2 DEF ObserverFact, SameHas, SameLots
  <2> QED
    BY <2>3, <2>4
<1>7. ComesFact'
  <2>1. \A p \in Watchers : \A what \in {"attach", "detach"} : Has(left'[p], what) => Has(left[p], what)
    BY <1>1 DEF Hands
  <2>2. ComesFact /\ screen' = screen
    BY DEF LotInv, SameRest
  <2> QED
    BY <2>1, <2>2 DEF ComesFact
<1>8. \A o \in Hands : Turn(o, "send")' \/ Turn(o, "back")' \/ Turn(o, "remove")' =>
         o # t /\ at'[o] = at[o] /\ left'[o] = left[o]
  BY <1>1 DEF Turn, Rests, Now
<1>9. RemoveFact' /\ SendFact'
  <2>1. RemoveFact /\ SendFact /\ LockFact
    BY DEF LotInv
  <2>2. \A o \in Hands : Turn(o, "send") \/ Turn(o, "back") \/ Turn(o, "remove") => at[o] \in DOMAIN lot
    BY <2>1 DEF LockFact, Within, Turn, Inside, Now
  <2>3. RemoveFact'
    BY <1>8, <2>1, <2>2 DEF RemoveFact, SameLots, Turn, Rests, Now
  <2>4. SendFact'
    BY <1>2, <1>8, <2>1, <2>2 DEF SendFact, SameLots, Turn, Rests, Now
  <2> QED
    BY <2>3, <2>4
<1>10. \A o \in Hands : /\ Turn(o, "back")' <=> Turn(o, "back")
                        /\ Turn(o, "back") => Now(o)' = Now(o) /\ at'[o] = at[o]
  BY <1>1 DEF Turn, Rests, Now
<1>11. AloneFact'
  BY <1>2, <1>10 DEF LotInv, AloneFact, SameRest
<1>12. EventsFact'
  <2>1. EventsFact
    BY DEF LotInv
  <2>2. CASE t = Events
    BY <1>1, <2>2 DEF EventsFact, Within, Rests, Now
  <2>3. CASE t # Events
    <3>1. left'[Events] = left[Events]
      BY <1>1, <2>3 DEF Hands
    <3> QED
      BY <2>1, <3>1 DEF EventsFact, Within, Turn, Rests, Now
  <2> QED
    BY <2>2, <2>3
<1>13. OpenFact'
  <2>1. \A n, i : Opening(n, i)' <=> Opening(n, i)
    BY <1>10 DEF Opening
  <2>2. Sound => \A n \in DOMAIN lot : \A i \in DOMAIN lot[n].observers :
           lots = <<n>> /\ lot[n].observers[i].open /\ ToEvents(i) => ToEvents(i)'
    <3>1. CASE t = Events
      BY <1>1, <3>1 DEF StillComes, ToEvents, Turn, Rests, Now
    <3>2. CASE t # Events
      BY <1>1, <3>2 DEF ToEvents, Turn, Rests, Now, Hands
    <3> QED
      BY <3>1, <3>2
  <2>3. screen' = screen /\ lots' = lots
    BY DEF SameRest
  <2>4. Sound => \A p \in Watchers : \A n \in DOMAIN lot : \A i \in DOMAIN lot[n].observers :
           IsOpen(p, n, i) => IsOpen(p, n, i)'
    BY <1>4, <1>10, <2>1, <2>2, <2>3 DEF IsOpen, SameLots
  <2>5. OpenFact
    BY DEF LotInv
  <2> QED
    BY <1>2, <2>3, <2>4, <2>5 DEF OpenFact, SameRest, SameLots
<1> QED
  BY <1>3, <1>5, <1>6, <1>7, <1>9, <1>11, <1>12, <1>13 DEF LotInv

\* Types, when the lots are the same but for their locks.
LEMMA SameTyped ==
    ASSUME LotInv, NEW t \in Hands, NEW s, IsScript(t, s), left' = [left EXCEPT ![t] = s],
           lot' \in Seq(ALot), SameLots, SameRest, at' \in [Hands -> Nat],
           lost' \in [{"twice", "freed", "moved", "stale", "calls"} -> BOOLEAN]
    PROVE  LotTyped'
<1>1. left' = [o \in Hands |-> left'[o]] /\ \A o \in Hands : IsScript(o, left'[o])
  BY TypesKept
<1>2. UNCHANGED <<lots, parked, events, screen>> /\ DOMAIN lot' = DOMAIN lot
      /\ \A m \in DOMAIN lot : lot'[m].slots = lot[m].slots
  BY DEF SameLots, SameRest
<1>3. /\ lots \in Seq(DOMAIN lot) /\ parked \subseteq Spaces
      /\ events \in Seq([kind : {"parked", "unparked"}, place : Spaces, of : Watchers \cup {"other"}])
      /\ screen \in [Watchers -> AScreen]
      /\ \A n \in DOMAIN lot : Distinct(lot[n].slots)
  BY DEF LotInv, LotTyped
<1>4. /\ lots' \in Seq(DOMAIN lot') /\ parked' \subseteq Spaces
      /\ events' \in Seq([kind : {"parked", "unparked"}, place : Spaces, of : Watchers \cup {"other"}])
      /\ screen' \in [Watchers -> AScreen]
      /\ \A n \in DOMAIN lot' : Distinct(lot'[n].slots)
  BY <1>2, <1>3
<1> QED
  BY <1>1, <1>4 DEF LotTyped

\* One of the ghosts is set, the others stay.
LEMMA LostIs ==
    ASSUME LotInv, NEW f \in {"twice", "freed", "moved", "stale", "calls"}, NEW b \in BOOLEAN,
           lost' = [lost EXCEPT ![f] = @ \/ b]
    PROVE  /\ lost' \in [{"twice", "freed", "moved", "stale", "calls"} -> BOOLEAN]
           /\ \A g \in {"twice", "freed", "moved", "stale", "calls"} :
                IF g = f THEN lost'[g] = (lost[g] \/ b) ELSE lost'[g] = lost[g]
<1>1. lost \in [{"twice", "freed", "moved", "stale", "calls"} -> BOOLEAN]
  BY DEF LotInv, LotTyped
<1>2. lost[f] \in BOOLEAN
  BY <1>1
<1>3. (lost[f] \/ b) \in BOOLEAN
  BY <1>2
<1> DEFINE v == lost[f] \/ b
<1>4. lost' = [lost EXCEPT ![f] = v] /\ v \in BOOLEAN
  BY <1>3
<1>5. lost' \in [{"twice", "freed", "moved", "stale", "calls"} -> BOOLEAN]
  <2> HIDE DEF v
  <2> QED
    BY <1>1, <1>4
<1>6. \A g \in {"twice", "freed", "moved", "stale", "calls"} :
         IF g = f THEN lost'[g] = v ELSE lost'[g] = lost[g]
  <2> HIDE DEF v
  <2> QED
    BY <1>1, <1>4
<1> QED
  BY <1>5, <1>6

\* Who locks the lot is alone inside.
LEMMA LockLotKeeps ==
    ASSUME LotInv, NEW t \in Hands, LockLot(t)
    PROVE  LotInv'
<1> DEFINE s == Tail(left[t])
           n == at[t]
<1>1. ~Rests(t) /\ Head(left[t]).do = "lock" /\ Next1Is(t, <<>>) /\ lot[n].lock = Free
  BY DEF LockLot, Turn, Now, Mine
<1>2. /\ left' = [left EXCEPT ![t] = s] /\ left[t] # <<>> /\ IsScript(t, s)
      /\ s # <<>> => Follows(Head(left[t]), Head(s)) /\ Final(s) = Final(left[t])
      /\ s = <<>> => Head(left[t]).do \notin StaysIn \cup {"add"}
      /\ Steps(left[t]) = {Head(left[t])} \cup Steps(s)
  BY <1>1, Popped
<1> HIDE DEF s
<1>3. s # <<>> /\ Head(s).do \in Inside \ {"send", "back", "remove"} /\ Final(s) = Final(left[t])
  BY <1>1, <1>2 DEF Follows, StaysIn
<1>4. n \in DOMAIN lot /\ lot' = [lot EXCEPT ![n].lock = t]
  BY DEF LockLot, LotInv, LockFact
<1>5. /\ lot' \in Seq(ALot) /\ SameLots /\ lot'[n].lock = t
      /\ \A m \in DOMAIN lot : m # n => lot'[m] = lot[m]
  BY <1>4, LockSet DEF SameLots
<1>6. /\ lost' \in [{"twice", "freed", "moved", "stale", "calls"} -> BOOLEAN]
      /\ \A g \in {"twice", "freed", "moved", "stale", "calls"} :
           IF g = "freed" THEN lost'[g] = (lost[g] \/ lot[n].dead) ELSE lost'[g] = lost[g]
  <2>1. lot[n].dead \in BOOLEAN
    BY <1>4, LotIs
  <2>2. lost' = [lost EXCEPT !["freed"] = @ \/ lot[n].dead]
    BY DEF LockLot, Mine
  <2> QED
    BY <2>1, <2>2, LostIs
<1>7. SameRest /\ at' = at
  BY <1>6 DEF SameRest, LockLot
<1>8. at' \in [Hands -> Nat]
  BY <1>7 DEF LotInv, LotTyped
<1>9. LotTyped'
  BY <1>2, <1>5, <1>6, <1>7, <1>8, SameTyped
<1>10. left'[t] = s /\ \A o \in Hands : o # t => left'[o] = left[o]
  BY <1>2, LeftIs
<1>11. \A o \in Hands : o # t /\ Within(o) => at[o] # n
  <2>1. \A o \in Hands : Within(o) => lot[at[o]].lock = o
    BY DEF LotInv, LockFact
  <2> QED
    BY <1>1, <2>1, LotAssumption DEF Hands, Events, Free
<1>12. LockFact'
  <2>1. LockFact /\ DOMAIN lot' = DOMAIN lot
    BY <1>5 DEF LotInv, SameLots
  <2>2. ASSUME NEW o \in Hands, o # t
        PROVE  /\ Within(o)' => at'[o] \in DOMAIN lot' /\ lot'[at'[o]].lock = o
               /\ Turn(o, "lock")' \/ Turn(o, "back")' => at'[o] \in DOMAIN lot'
    BY <1>5, <1>7, <1>10, <1>11, <2>1, <2>2 DEF LockFact, Within, Turn, Rests, Now
  <2>3. at'[t] \in DOMAIN lot' /\ lot'[at'[t]].lock = t
    BY <1>4, <1>5, <1>7, <2>1
  <2> QED
    BY <2>2, <2>3 DEF LockFact
<1>13. AliveFact'
  <2>1. AliveFact /\ LockFact /\ (~lost'.freed => ~lost.freed /\ ~lot[n].dead)
    BY <1>6 DEF LotInv
  <2>2. \A o \in Hands : o # t => (Within(o)' => Within(o)) /\ at'[o] = at[o]
    BY <1>7, <1>10 DEF Within, Rests, Now
  <2>3. \A o \in Hands : o # t => (Within(o)' /\ ~lost'.freed => ~lot'[at'[o]].dead)
    BY <1>5, <2>1, <2>2 DEF AliveFact, LockFact, SameLots
  <2>4. ~lost'.freed => ~lot'[at'[t]].dead
    BY <1>4, <1>5, <1>7, <2>1 DEF SameLots
  <2> QED
    BY <2>3, <2>4 DEF AliveFact
<1>14. \A what : what # "lock" => (Has(left[t], what) <=> Has(s, what))
  BY <1>1, <1>2 DEF Has, Asks
<1>15. SameOps(left[t], s) /\ (t = Events => StillComes(s)) /\ ~Turn(t, "back")
  <2>1. ~Turn(t, "back") /\ ~Turn(t, "send")
    BY <1>1 DEF Turn, Now
  <2>2. SameOps(left[t], s)
    BY <1>2, <1>3 DEF SameOps, Awaits
  <2>3. t = Events => StillComes(s)
    BY <1>3, <2>1 DEF StillComes, ToEvents
  <2> QED
    BY <2>1, <2>2, <2>3
<1> QED
  BY <1>2, <1>3, <1>5, <1>7, <1>9, <1>12, <1>13, <1>14, <1>15, HandStep DEF SameHas

\* Who unlocks it is outside.
LEMMA UnlockLotKeeps ==
    ASSUME LotInv, NEW t \in Hands, UnlockLot(t)
    PROVE  LotInv'
<1> DEFINE s == Tail(left[t])
           n == at[t]
<1>1. ~Rests(t) /\ Head(left[t]).do = "unlock" /\ Next1Is(t, <<>>) /\ Within(t)
  BY DEF UnlockLot, Turn, Now, Within, Inside
<1>2. /\ left' = [left EXCEPT ![t] = s] /\ left[t] # <<>> /\ IsScript(t, s)
      /\ s # <<>> => Follows(Head(left[t]), Head(s)) /\ Final(s) = Final(left[t])
      /\ s = <<>> => Final(left[t]) = Head(left[t])
      /\ Steps(left[t]) = {Head(left[t])} \cup Steps(s)
      /\ t = Events => s = <<>>
  BY <1>1, Popped DEF StaysIn
<1> HIDE DEF s
<1>3. s # <<>> => Head(s).do \notin Inside \cup {"lock", "send", "back", "remove"}
  BY <1>1, <1>2 DEF Follows, StaysIn
<1>4. n \in DOMAIN lot /\ lot' = [lot EXCEPT ![n].lock = Free] /\ lot[n].lock = t
  BY <1>1 DEF UnlockLot, LotInv, LockFact
<1>5. /\ lot' \in Seq(ALot) /\ SameLots
      /\ \A m \in DOMAIN lot : m # n => lot'[m] = lot[m]
  BY <1>4, LockSet DEF SameLots
<1>6. UNCHANGED <<lots, at, screen, parked, events, lost>>
  BY DEF UnlockLot
<1>7. SameRest /\ at' = at /\ at' \in [Hands -> Nat]
  BY <1>6 DEF SameRest, LotInv, LotTyped
<1>8. LotTyped'
  <2>1. lost' \in [{"twice", "freed", "moved", "stale", "calls"} -> BOOLEAN]
    BY <1>6 DEF LotInv, LotTyped
  <2> QED
    BY <1>2, <1>5, <1>7, <2>1, SameTyped
<1>9. left'[t] = s /\ \A o \in Hands : o # t => left'[o] = left[o]
  BY <1>2, LeftIs
<1>10. \A o \in Hands : o # t /\ Within(o) => at[o] # n
  BY <1>4 DEF LotInv, LockFact
<1>11. ~Within(t)' /\ ~Turn(t, "lock")' /\ ~Turn(t, "back")'
  BY <1>3, <1>9 DEF Within, Turn, Rests, Now
<1>12. LockFact'
  <2>1. LockFact /\ DOMAIN lot' = DOMAIN lot
    BY <1>5 DEF LotInv, SameLots
  <2>2. ASSUME NEW o \in Hands, o # t
        PROVE  /\ Within(o)' => at'[o] \in DOMAIN lot' /\ lot'[at'[o]].lock = o
               /\ Turn(o, "lock")' \/ Turn(o, "back")' => at'[o] \in DOMAIN lot'
    BY <1>5, <1>7, <1>9, <1>10, <2>1, <2>2 DEF LockFact, Within, Turn, Rests, Now
  <2> QED
    BY <1>11, <2>2 DEF LockFact
<1>13. AliveFact'
  <2>1. AliveFact /\ LockFact /\ lost' = lost
    BY <1>6 DEF LotInv
  <2>2. \A o \in Hands : o # t => (Within(o)' => Within(o)) /\ at'[o] = at[o]
    BY <1>7, <1>9 DEF Within, Rests, Now
  <2> QED
    BY <1>5, <1>11, <2>1, <2>2 DEF AliveFact, LockFact, SameLots
<1>14. \A what : what # "unlock" => (Has(left[t], what) <=> Has(s, what))
  BY <1>1, <1>2 DEF Has, Asks
<1>15. ~Turn(t, "back") /\ (t = Events => s = <<>> /\ SameOps(left[t], s) /\ StillComes(s))
  <2>1. ~Turn(t, "back") /\ ~Turn(t, "send")
    BY <1>1 DEF Turn, Now
  <2>2. t = Events => SameOps(left[t], s)
    BY <1>1, <1>2 DEF SameOps, Awaits
  <2>3. t = Events => StillComes(s)
    BY <1>1, <1>2, <2>1 DEF StillComes, ToEvents
  <2> QED
    BY <1>2, <2>1, <2>2, <2>3
<1> QED
  BY <1>2, <1>3, <1>5, <1>7, <1>8, <1>12, <1>13, <1>14, <1>15, HandStep DEF SameHas

\* Outside of the lots only the script changes, and what the thread has in hand.
LEMMA OutsideStep ==
    ASSUME LotInv, NEW t \in Hands, NEW s, left' = [left EXCEPT ![t] = s], IsScript(t, s),
           NEW n \in Nat, at' = [at EXCEPT ![t] = n],
           UNCHANGED <<lot, lots, screen, parked, events, lost>>,
           s # <<>> => Head(s).do \notin Inside \cup {"back"},
           s # <<>> /\ Head(s).do = "lock" => n \in DOMAIN lot,
           ~Turn(t, "back"), lots = <<>> \/ SameHas(left[t], s),
           \A what \in {"attach", "detach"} : Has(s, what) => Has(left[t], what),
           t = Events => /\ SameOps(left[t], s) /\ StillComes(s)
                         /\ s # <<>> => Final(s).do # "notify"
    PROVE  LotInv'
<1>1. left'[t] = s /\ \A o \in Hands : o # t => left'[o] = left[o]
  BY LeftIs
<1>2. SameLots /\ SameRest
  BY DEF SameLots, SameRest
<1>3. at' \in [Hands -> Nat] /\ at'[t] = n /\ \A o \in Hands : o # t => at'[o] = at[o]
  BY DEF LotInv, LotTyped
<1>4. LotTyped'
  <2>1. lot' \in Seq(ALot) /\ lost' \in [{"twice", "freed", "moved", "stale", "calls"} -> BOOLEAN]
    BY DEF LotInv, LotTyped
  <2> QED
    BY <1>2, <1>3, <2>1, SameTyped
<1>5. ~Within(t)' /\ ~Turn(t, "back")' /\ (Turn(t, "lock")' => n \in DOMAIN lot)
  BY <1>1 DEF Within, Turn, Rests, Now, Inside
<1>6. \A o \in Hands : o # t => /\ Within(o)' <=> Within(o)
                                /\ \A what : Turn(o, what)' <=> Turn(o, what)
  BY <1>1 DEF Within, Turn, Rests, Now
<1>7. LockFact' /\ AliveFact'
  <2>1. LockFact /\ AliveFact
    BY DEF LotInv
  <2>2. LockFact'
    BY <1>3, <1>5, <1>6, <2>1 DEF LockFact
  <2>3. AliveFact'
    BY <1>3, <1>5, <1>6, <2>1 DEF AliveFact
  <2> QED
    BY <2>2, <2>3
<1>8. s # <<>> => Head(s).do \notin {"send", "back", "remove"}
  BY DEF Inside
<1> QED
  BY <1>2, <1>3, <1>4, <1>7, <1>8, HandStep

\* Looking a lot up, or finding none.
LEMMA FindLotKeeps ==
    ASSUME LotInv, NEW t \in Hands, FindLot(t)
    PROVE  LotInv'
<1> DEFINE s == Tail(left[t])
           f == Head(left[t])
           y == f.then[1]
           l == Step("lock")
           a == Step("add")
           u == <<y>> \o s
           v == <<l>> \o u
           w == <<a>> \o v
<1>1. ~Rests(t) /\ f.do = "find" /\ Now(t) = f
  BY DEF FindLot, Turn, Now
<1>2. IsScript(t, left[t]) /\ left[t] # <<>>
  BY <1>1, ScriptOf DEF Rests
<1>3. /\ IsScript(t, s) /\ IsLotStep(f) /\ OwnSteps(t, f)
      /\ s # <<>> => Follows(f, Head(s)) /\ Final(s) = Final(left[t])
      /\ s = <<>> => Final(left[t]) = f
      /\ Steps(left[t]) = {f} \cup Steps(s)
      /\ Asks(f, "attach") => ~Has(s, "attach")
      /\ t = Events => EventStep(f) /\ s = <<>>
  BY <1>1, <1>2, StepDone DEF StaysIn
<1>4. /\ f.then = <<y>> /\ IsPlainStep(y) /\ y.do \in Found /\ OwnStep(t, y)
      /\ t = Events => f.create /\ y.do \in {"park", "unpark"}
  BY <1>1, <1>3 DEF IsLotStep, OwnSteps, EventStep
<1>5. f.create \in BOOLEAN
  BY <1>1, <1>3 DEF IsLotStep
<1>6. UNCHANGED <<lot, lots, screen, parked, events, lost>> /\ ~Turn(t, "back") /\ ~Turn(t, "send")
  BY <1>1 DEF FindLot, Turn, Now
<1>7. \/ lots = <<>> /\ f.create /\ left' = [left EXCEPT ![t] = w] /\ at' = at
      \/ lots = <<>> /\ ~f.create /\ left' = [left EXCEPT ![t] = s] /\ at' = at
      \/ lots # <<>> /\ left' = [left EXCEPT ![t] = v] /\ at' = [at EXCEPT ![t] = Head(lots)]
  <2>1. \/ lots = <<>> /\ f.create /\ Next1Is(t, <<a, l>> \o <<y>>) /\ at' = at
        \/ lots = <<>> /\ ~f.create /\ Next1Is(t, <<>>) /\ at' = at
        \/ lots # <<>> /\ Next1Is(t, <<l>> \o <<y>>) /\ at' = [at EXCEPT ![t] = Head(lots)]
    BY <1>1, <1>4, <1>5 DEF FindLot
  <2> HIDE DEF f, y, l, a
  <2>2. <<a, l>> \o <<y>> = <<a>> \o <<l>> \o <<y>> /\ <<l>> \o <<y>> = <<l, y>>
    BY PairIs
  <2>3. <<a>> \o <<l>> \o <<y>> = <<a, l, y>>
    BY TripleIs
  <2>4. Next1Is(t, <<a, l, y>>) => left' = [left EXCEPT ![t] = w]
    BY <1>1, NextSeveral
  <2>5. Next1Is(t, <<l, y>>) => left' = [left EXCEPT ![t] = v]
    BY <1>1, NextSeveral
  <2>6. Next1Is(t, <<>>) => left' = [left EXCEPT ![t] = s]
    BY <1>1, NextNone
  <2>7. <<a, l>> \o <<y>> = <<a, l, y>>
    BY <2>2, <2>3
  <2> HIDE DEF s, v, w
  <2> QED
    BY ONLY <2>1, <2>2, <2>4, <2>5, <2>6, <2>7
<1> HIDE DEF s, f, y
<1>8. l.do = "lock" /\ a.do = "add"
  BY DEF Step
<1>9. Joins(t, y, s)
  <2>1. IsLotStep(y) /\ OwnSteps(t, y)
    BY <1>4 DEF IsLotStep, OwnSteps, Found
  <2>2. Asks(y, "attach") => ~Has(s, "attach")
    BY <1>1, <1>3, <1>4 DEF Asks, Found, y
  <2>3. IF s = <<>> THEN y.do \notin StaysIn \cup {"add"} ELSE Follows(y, Head(s))
    BY <1>1, <1>3, <1>4 DEF Follows, Found, StaysIn
  <2>4. t = Events => EventStep(y) /\ (s # <<>> => y.do \in StaysIn \cup {"add"})
    BY <1>3, <1>4 DEF EventStep, Found
  <2> QED
    BY <2>1, <2>2, <2>3, <2>4 DEF Joins
<1>10. /\ IsScript(t, u) /\ u # <<>> /\ Head(u) = y /\ Steps(u) = {y} \cup Steps(s)
       /\ Final(u) = IF s = <<>> THEN y ELSE Final(s)
  BY <1>3, <1>9, StepPut
<1> HIDE DEF u, l, a
<1>11. IsPlainStep(l) /\ OwnStep(t, l) /\ IsPlainStep(a) /\ OwnStep(t, a)
  BY <1>8 DEF IsPlainStep, OwnStep, Outside
<1>12. Joins(t, l, u)
  <2>1. Follows(l, Head(u))
    BY <1>4, <1>8, <1>10 DEF Follows, StaysIn, Inside, Found
  <2> QED
    BY <1>8, <1>10, <1>11, <2>1, PlainJoins DEF StaysIn
<1>13. /\ IsScript(t, v) /\ v # <<>> /\ Head(v) = l /\ Steps(v) = {l} \cup Steps(u)
       /\ Final(v) = Final(u)
  BY <1>10, <1>12, StepPut
<1> HIDE DEF v
<1>14. Joins(t, a, v)
  <2>1. Follows(a, Head(v))
    BY <1>8, <1>13 DEF Follows, StaysIn, Inside
  <2> QED
    BY <1>8, <1>11, <1>13, <2>1, PlainJoins
<1>15. /\ IsScript(t, w) /\ w # <<>> /\ Head(w) = a /\ Steps(w) = {a} \cup Steps(v)
       /\ Final(w) = Final(v)
  BY <1>13, <1>14, StepPut
<1> HIDE DEF w
<1>16. ASSUME NEW what \in {"attach", "detach"}
       PROVE  /\ Has(left[t], what) <=> y.do = what \/ Has(s, what)
              /\ Has(v, what) <=> Has(left[t], what)
              /\ Has(w, what) <=> Has(left[t], what)
  <2>1. Has(left[t], what) <=> y.do = what \/ Has(s, what)
    BY <1>1, <1>3 DEF Has, Asks, y
  <2>2. Has(u, what) <=> y.do = what \/ Has(s, what)
    BY <1>4, <1>10 DEF Has, Asks, Found
  <2>3. Has(v, what) <=> Has(u, what)
    BY <1>8, <1>13 DEF Has, Asks
  <2>4. Has(w, what) <=> Has(v, what)
    BY <1>8, <1>15 DEF Has, Asks
  <2> QED
    BY <2>1, <2>2, <2>3, <2>4
<1>17. t = Events => /\ Final(v) = y /\ Final(w) = y /\ Final(left[t]) = f
                     /\ f.create /\ y.do \in {"park", "unpark"}
  BY <1>3, <1>4, <1>10, <1>13, <1>15
<1>18. ASSUME NEW r, r # <<>>, Final(r) = y, t = Events
       PROVE  SameOps(left[t], r) /\ StillComes(r) /\ Final(r).do # "notify"
  <2>1. SameOps(left[t], r)
    BY <1>1, <1>2, <1>17, <1>18 DEF SameOps, Awaits, y
  <2>2. StillComes(r)
    BY <1>1, <1>6, <1>17, <1>18 DEF StillComes, ToEvents
  <2> QED
    BY <1>17, <1>18, <2>1, <2>2
<1>19. at[t] \in Nat /\ at = [at EXCEPT ![t] = at[t]]
  BY DEF LotInv, LotTyped
<1>20. CASE lots = <<>> /\ f.create /\ left' = [left EXCEPT ![t] = w] /\ at' = at
  <2>1. Head(w).do \notin Inside \cup {"back", "lock"}
    BY <1>8, <1>15 DEF Inside
  <2>2. at' = [at EXCEPT ![t] = at[t]]
    BY <1>19, <1>20
  <2>4. lots = <<>> /\ left' = [left EXCEPT ![t] = w] /\ at[t] \in Nat
    BY <1>19, <1>20
  <2>3. t = Events => SameOps(left[t], w) /\ StillComes(w) /\ Final(w).do # "notify"
    BY <1>15, <1>17, <1>18
  <2> QED
    BY <1>6, <1>15, <1>16, <2>1, <2>2, <2>3, <2>4, OutsideStep
<1>21. CASE lots = <<>> /\ ~f.create /\ left' = [left EXCEPT ![t] = s] /\ at' = at
  <2>1. s # <<>> => Head(s).do \notin Inside \cup {"back", "lock"}
    BY <1>1, <1>3 DEF Follows, StaysIn
  <2>2. at' = [at EXCEPT ![t] = at[t]]
    BY <1>19, <1>21
  <2>4. lots = <<>> /\ left' = [left EXCEPT ![t] = s] /\ at[t] \in Nat
    BY <1>19, <1>21
  <2>3. t # Events
    BY <1>17, <1>21
  <2> QED
    BY <1>3, <1>6, <1>16, <2>1, <2>2, <2>3, <2>4, OutsideStep
<1>22. CASE lots # <<>> /\ left' = [left EXCEPT ![t] = v] /\ at' = [at EXCEPT ![t] = Head(lots)]
  <2>1. Head(v).do \notin Inside \cup {"back"}
    BY <1>8, <1>13 DEF Inside
  <2>2. Head(lots) \in DOMAIN lot
    BY <1>22 DEF LotInv, LotTyped
  <2>3. Head(lots) \in Nat
    BY <2>2, LotIs
  <2>4. SameHas(left[t], v)
    BY <1>16 DEF SameHas
  <2>5. t = Events => SameOps(left[t], v) /\ StillComes(v) /\ Final(v).do # "notify"
    BY <1>13, <1>17, <1>18
  <2> QED
    BY <1>6, <1>13, <1>16, <1>22, <2>1, <2>2, <2>3, <2>4, <2>5, OutsideStep
<1> QED
  BY <1>7, <1>20, <1>21, <1>22

\* A set of numbers has a least one.
LEMMA LeastExists ==
    ASSUME NEW T, T \subseteq Nat, T # {}
    PROVE  \E x \in T : \A y \in T : x <= y
<1> DEFINE R == {ss \in Nat \X Nat : ss[1] < ss[2]}
<1>1. IsWellFoundedOn(R, Nat)
  BY NatLessThanWellFounded DEF OpToRel
<1>2. \E x \in T : \A y \in T : <<y, x>> \notin R
  <2> HIDE DEF R
  <2> QED
    BY <1>1, WFMin
<1>3. PICK x \in T : \A y \in T : <<y, x>> \notin R
  BY <1>2
<1>4. ASSUME NEW y \in T PROVE x <= y
  <2>1. <<y, x>> \in Nat \X Nat /\ ~(y < x)
    BY <1>3
  <2> QED
    BY <2>1
<1> QED
  BY <1>4

\* Min finds one of the set.
LEMMA LeastIs == ASSUME NEW I, I \subseteq Nat, I # {} PROVE Min(I) \in I
<1>1. \E x \in I : \A y \in I : x <= y
  BY LeastExists
<1> QED
  BY <1>1 DEF Min

\* RemoveFirst takes out the only one there is, or nothing.
LEMMA RemovedIs ==
    ASSUME NEW S, NEW s \in Seq(S), NEW e
    PROVE  /\ RemoveFirst(s, e) \in Seq(S)
           /\ s = <<>> => RemoveFirst(s, e) = <<>>
           /\ s = <<e>> => RemoveFirst(s, e) = <<>>
           /\ (\A i \in 1..Len(s) : s[i] # e) => RemoveFirst(s, e) = s
<1> DEFINE k == SelectInSeq(s, LAMBDA v : v = e)
           I == {i \in 1..Len(s) : s[i] = e}
<1>1. CASE \E i \in 1..Len(s) : s[i] = e
  <2>0. I # {} /\ I \subseteq Nat /\ k = Min(I)
    BY <1>1 DEF SelectInSeq
  <2>1. k \in 1..Len(s)
    <3>1. Min(I) \in I
      <4> HIDE DEF I
      <4> QED
        BY <2>0, LeastIs
    <3> HIDE DEF k
    <3> QED
      BY <2>0, <3>1
  <2>2. RemoveFirst(s, e) = SubSeq(s, 1, k - 1) \o SubSeq(s, k + 1, Len(s))
    <3>1. RemoveFirst(s, e) = IF \E i \in 1..Len(s) : s[i] = e THEN RemoveAt(s, k) ELSE s
      BY Zenon DEF RemoveFirst
    <3> HIDE DEF k
    <3> QED
      BY <1>1, <3>1 DEF RemoveAt
  <2> HIDE DEF k
  <2>3. RemoveFirst(s, e) \in Seq(S)
    BY <2>1, <2>2
  <2>4. s = <<e>> => RemoveFirst(s, e) = <<>>
    <3>1. s = <<e>> => k = 1 /\ Len(s) = 1
      BY <2>1
    <3>2. SubSeq(s, 1, 0) = <<>>
      OBVIOUS
    <3>3. Len(s) = 1 => SubSeq(s, 2, Len(s)) = <<>>
      OBVIOUS
    <3>4. k = 1 => k - 1 = 0 /\ k + 1 = 2
      OBVIOUS
    <3>5. <<>> \o <<>> = <<>>
      OBVIOUS
    <3> QED
      BY ONLY <2>2, <3>1, <3>2, <3>3, <3>4, <3>5
  <2> QED
    BY <1>1, <2>3, <2>4
<1>2. CASE ~\E i \in 1..Len(s) : s[i] = e
  <2>1. RemoveFirst(s, e) = s
    BY <1>2 DEF RemoveFirst
  <2>2. s # <<e>>
    BY <1>2
  <2> QED
    BY <2>1, <2>2
<1> QED
  BY <1>1, <1>2

\* The last element takes the place of the one that goes.
Moved(s, k, j) == IF j = k THEN Len(s) ELSE j
IsWithout(S, s, k, r) ==
    /\ r \in Seq(S) /\ DOMAIN r = 1..(Len(s) - 1)
    /\ \A j \in 1..(Len(s) - 1) : /\ r[j] = s[Moved(s, k, j)]
                                  /\ Moved(s, k, j) \in 1..Len(s) /\ Moved(s, k, j) # k
    /\ \A i \in 1..Len(s) : i # k => \E j \in 1..(Len(s) - 1) : Moved(s, k, j) = i

\* Without keeps all but one.
LEMMA WithoutIs ==
    ASSUME NEW S, NEW s \in Seq(S), NEW k \in 1..Len(s)
    PROVE  IsWithout(S, s, k, Without(s, k))
<1> DEFINE f == SubSeq(s, 1, Len(s) - 1)
<1>1. Len(s) \in Nat /\ Len(s) > 0 /\ s[Len(s)] \in S /\ \A i \in 1..Len(s) : s[i] \in S
  OBVIOUS
<1>2. f \in Seq(S) /\ Len(f) = Len(s) - 1 /\ \A j \in 1..(Len(s) - 1) : f[j] = s[j]
  <2>1. f = [j \in 1..(Len(s) - 1) |-> s[j]]
    BY <1>1
  <2> HIDE DEF f
  <2>2. \A j \in 1..(Len(s) - 1) : f[j] = s[j] /\ s[j] \in S
    BY <1>1, <2>1
  <2>3. Len(s) - 1 \in Nat
    BY <1>1
  <2> QED
    BY <2>1, <2>2, <2>3
<1>3. Without(s, k) = IF k = Len(s) THEN f ELSE [f EXCEPT ![k] = s[Len(s)]]
  BY DEF Without, Front, Last
<1> HIDE DEF f
<1>4. \A j \in 1..(Len(s) - 1) : Moved(s, k, j) \in 1..Len(s) /\ Moved(s, k, j) # k
  BY <1>1 DEF Moved
<1>5. \A i \in 1..Len(s) : i # k => \E j \in 1..(Len(s) - 1) : Moved(s, k, j) = i
  <2> SUFFICES ASSUME NEW i \in 1..Len(s), i # k PROVE \E j \in 1..(Len(s) - 1) : Moved(s, k, j) = i
    OBVIOUS
  <2>1. i < Len(s) => i \in 1..(Len(s) - 1) /\ Moved(s, k, i) = i
    BY <1>1 DEF Moved
  <2>2. ~(i < Len(s)) => k \in 1..(Len(s) - 1) /\ Moved(s, k, k) = i
    BY <1>1 DEF Moved
  <2> QED
    BY <2>1, <2>2
<1>6. CASE k = Len(s)
  <2>1. \A j \in 1..(Len(s) - 1) : Moved(s, k, j) = j
    BY <1>1, <1>6 DEF Moved
  <2>2. DOMAIN f = 1..(Len(s) - 1)
    BY <1>2
  <2> QED
    BY <1>2, <1>3, <1>4, <1>5, <1>6, <2>1, <2>2 DEF IsWithout
<1>7. CASE k # Len(s)
  <2> DEFINE g == [f EXCEPT ![k] = s[Len(s)]]
  <2>1. k \in 1..(Len(s) - 1)
    BY <1>1, <1>7
  <2>2. g \in Seq(S) /\ Len(g) = Len(s) - 1 /\ DOMAIN g = 1..(Len(s) - 1)
    BY <1>1, <1>2, <2>1
  <2>3. \A j \in 1..(Len(s) - 1) : g[j] = s[Moved(s, k, j)]
    BY <1>2, <2>1 DEF Moved
  <2>4. Without(s, k) = g
    BY <1>3, <1>7
  <2> HIDE DEF g
  <2> QED
    BY <1>4, <1>5, <2>2, <2>3, <2>4 DEF IsWithout
<1> QED
  BY <1>6, <1>7

\* A slot is dropped, and no other.
LEMMA DroppedIs ==
    ASSUME NEW S, NEW s \in Seq(S), Distinct(s), NEW e
    PROVE  /\ Dropped(s, e) \in Seq(S) /\ Distinct(Dropped(s, e))
           /\ ToSet(Dropped(s, e)) = ToSet(s) \ {e}
<1> DEFINE k == SelectInSeq(s, LAMBDA x : x = e)
           I == {i \in 1..Len(s) : s[i] = e}
           r == Without(s, k)
<1>0. DOMAIN s = 1..Len(s) /\ Len(s) \in Nat
  OBVIOUS
<1>1. CASE \E i \in 1..Len(s) : s[i] = e
  <2>1. I # {} /\ I \subseteq Nat /\ k = Min(I)
    BY <1>1 DEF SelectInSeq
  <2>2. k \in 1..Len(s) /\ s[k] = e
    <3>1. Min(I) \in I
      <4> HIDE DEF I
      <4> QED
        BY <2>1, LeastIs
    <3> HIDE DEF k
    <3> QED
      BY <2>1, <3>1
  <2>3. Dropped(s, e) = r
    BY <1>0, <1>1 DEF Dropped, Unordered
  <2> HIDE DEF k, I
  <2> HIDE DEF r
  <2>4. /\ r \in Seq(S) /\ DOMAIN r = 1..(Len(s) - 1)
        /\ \A j \in 1..(Len(s) - 1) : /\ r[j] = s[Moved(s, k, j)]
                                      /\ Moved(s, k, j) \in 1..Len(s) /\ Moved(s, k, j) # k
        /\ \A i \in 1..Len(s) : i # k => \E j \in 1..(Len(s) - 1) : Moved(s, k, j) = i
    <3>1. k \in 1..Len(s)
      BY <2>2
    <3>2. IsWithout(S, s, k, r)
      BY <3>1, WithoutIs DEF r
    <3> QED
      BY <3>2 DEF IsWithout
  <2>5. \A i, j \in 1..Len(s) : s[i] = s[j] => i = j
    BY <1>0 DEF Distinct
  <2>6. Distinct(r)
    <3> SUFFICES ASSUME NEW i \in 1..(Len(s) - 1), NEW j \in 1..(Len(s) - 1), r[i] = r[j] PROVE i = j
      BY <2>4 DEF Distinct
    <3>1. Moved(s, k, i) = Moved(s, k, j)
      BY <2>4, <2>5
    <3> QED
      BY <1>0, <2>2, <3>1 DEF Moved
  <2>7. ToSet(r) = ToSet(s) \ {e}
    <3>1. \A x \in ToSet(r) : x \in ToSet(s) \ {e}
      BY <1>0, <2>2, <2>4, <2>5 DEF ToSet
    <3>2. \A x \in ToSet(s) \ {e} : x \in ToSet(r)
      <4> SUFFICES ASSUME NEW i \in 1..Len(s), s[i] # e PROVE s[i] \in ToSet(r)
        BY <1>0 DEF ToSet
      <4>1. PICK j \in 1..(Len(s) - 1) : Moved(s, k, j) = i
        BY <2>2, <2>4
      <4> QED
        BY <2>4, <4>1 DEF ToSet
    <3> QED
      BY <3>1, <3>2
  <2> QED
    BY <2>3, <2>4, <2>6, <2>7
<1>2. CASE ~\E i \in 1..Len(s) : s[i] = e
  <2>1. Dropped(s, e) = s
    BY <1>0, <1>2 DEF Dropped, Unordered
  <2>2. e \notin ToSet(s)
    BY <1>0, <1>2 DEF ToSet
  <2> QED
    BY <2>1, <2>2
<1> QED
  BY <1>1, <1>2

\* What is left of the watchers when p detaches
Remain(s, p) == Unordered(s, LAMBDA o : o.device = p)

\* An observer goes, and the others remain.
LEMMA RemainIs ==
    ASSUME NEW s \in Seq(AnObserver), NEW p
    PROVE  /\ Remain(s, p) \in Seq(AnObserver)
           /\ \A j \in DOMAIN Remain(s, p) : \E i \in DOMAIN s : Remain(s, p)[j] = s[i]
           /\ (\A i, j \in DOMAIN s : s[i].device = s[j].device => i = j) =>
                /\ \A i, j \in DOMAIN Remain(s, p) : Remain(s, p)[i].device = Remain(s, p)[j].device => i = j
                /\ \A j \in DOMAIN Remain(s, p) : Remain(s, p)[j].device # p
                /\ \A i \in DOMAIN s : s[i].device # p => \E j \in DOMAIN Remain(s, p) : Remain(s, p)[j] = s[i]
<1> DEFINE k == SelectInSeq(s, LAMBDA o : o.device = p)
           I == {i \in 1..Len(s) : s[i].device = p}
           r == Without(s, k)
<1>0. DOMAIN s = 1..Len(s) /\ Len(s) \in Nat
  OBVIOUS
<1>1. CASE \E i \in 1..Len(s) : s[i].device = p
  <2>1. I # {} /\ I \subseteq Nat /\ k = Min(I)
    BY <1>1 DEF SelectInSeq
  <2>2. k \in 1..Len(s) /\ s[k].device = p
    <3>1. Min(I) \in I
      <4> HIDE DEF I
      <4> QED
        BY <2>1, LeastIs
    <3> HIDE DEF k
    <3> QED
      BY <2>1, <3>1
  <2>3. Remain(s, p) = r
    BY <1>0, <1>1 DEF Remain, Unordered
  <2> HIDE DEF k, I
  <2> HIDE DEF r
  <2>4. /\ r \in Seq(AnObserver) /\ DOMAIN r = 1..(Len(s) - 1)
        /\ \A j \in 1..(Len(s) - 1) : /\ r[j] = s[Moved(s, k, j)]
                                      /\ Moved(s, k, j) \in 1..Len(s) /\ Moved(s, k, j) # k
        /\ \A i \in 1..Len(s) : i # k => \E j \in 1..(Len(s) - 1) : Moved(s, k, j) = i
    <3>1. k \in 1..Len(s)
      BY <2>2
    <3>2. IsWithout(AnObserver, s, k, r)
      BY <3>1, WithoutIs DEF r
    <3> QED
      BY <3>2 DEF IsWithout
  <2>5. \A j \in DOMAIN r : \E i \in DOMAIN s : r[j] = s[i]
    BY <1>0, <2>4
  <2>6. ASSUME \A i, j \in DOMAIN s : s[i].device = s[j].device => i = j
        PROVE  /\ \A i, j \in DOMAIN r : r[i].device = r[j].device => i = j
               /\ \A j \in DOMAIN r : r[j].device # p
               /\ \A i \in DOMAIN s : s[i].device # p => \E j \in DOMAIN r : r[j] = s[i]
    <3>1. ASSUME NEW i \in 1..(Len(s) - 1), NEW j \in 1..(Len(s) - 1), r[i].device = r[j].device PROVE i = j
      <4>1. Moved(s, k, i) = Moved(s, k, j)
        BY <1>0, <2>4, <2>6, <3>1
      <4> QED
        BY <1>0, <2>2, <4>1 DEF Moved
    <3>2. \A j \in DOMAIN r : r[j].device # p
      <4> SUFFICES ASSUME NEW j \in 1..(Len(s) - 1), r[j].device = p PROVE FALSE
        BY <2>4
      <4>1. s[Moved(s, k, j)].device = s[k].device /\ Moved(s, k, j) \in DOMAIN s /\ k \in DOMAIN s
        BY <1>0, <2>2, <2>4
      <4>2. Moved(s, k, j) = k
        BY ONLY <2>6, <4>1
      <4> QED
        BY <2>4, <4>2
    <3>3. ASSUME NEW i \in 1..Len(s), s[i].device # p PROVE \E j \in 1..(Len(s) - 1) : r[j] = s[i]
      <4>1. PICK j \in 1..(Len(s) - 1) : Moved(s, k, j) = i
        BY <2>2, <2>4, <3>3
      <4> QED
        BY <2>4, <4>1
    <3> QED
      BY <1>0, <2>4, <3>1, <3>2, <3>3
  <2> QED
    BY <2>3, <2>4, <2>5, <2>6
<1>2. CASE ~\E i \in 1..Len(s) : s[i].device = p
  <2>1. Remain(s, p) = s
    BY <1>0, <1>2 DEF Remain, Unordered
  <2> QED
    BY <1>0, <1>2, <2>1
<1> QED
  BY <1>1, <1>2

LostBits == {"twice", "freed", "moved", "stale", "calls"}

\* Types, when one lot changes.
LEMMA ChangeTyped ==
    ASSUME LotInv, NEW t \in Hands, NEW s, IsScript(t, s), left' = [left EXCEPT ![t] = s],
           NEW n \in DOMAIN lot, NEW v \in ALot, lot' = [lot EXCEPT ![n] = v], Distinct(v.slots),
           UNCHANGED <<lots, at, parked, events>>, screen' \in [Watchers -> AScreen],
           lost' \in [LostBits -> BOOLEAN]
    PROVE  /\ LotTyped' /\ DOMAIN lot' = DOMAIN lot /\ lot'[n] = v
           /\ \A m \in DOMAIN lot : m # n => lot'[m] = lot[m]
           /\ left'[t] = s /\ \A o \in Hands : o # t => left'[o] = left[o]
<1>1. left' = [o \in Hands |-> left'[o]] /\ \A o \in Hands : IsScript(o, left'[o])
  BY TypesKept
<1>2. /\ lot' \in Seq(ALot) /\ DOMAIN lot' = DOMAIN lot
      /\ lot'[n] = v /\ \A m \in DOMAIN lot : m # n => lot'[m] = lot[m]
  BY LotSet
<1>3. left'[t] = s /\ \A o \in Hands : o # t => left'[o] = left[o]
  BY LeftIs
<1>4. /\ lots \in Seq(DOMAIN lot) /\ parked \subseteq Spaces /\ at \in [Hands -> Nat]
      /\ events \in Seq([kind : {"parked", "unparked"}, place : Spaces, of : Watchers \cup {"other"}])
      /\ \A m \in DOMAIN lot : Distinct(lot[m].slots)
  BY DEF LotInv, LotTyped
<1>5. \A m \in DOMAIN lot' : Distinct(lot'[m].slots)
  BY <1>2, <1>4
<1>6. /\ lots' \in Seq(DOMAIN lot') /\ parked' \subseteq Spaces /\ at' \in [Hands -> Nat]
      /\ events' \in Seq([kind : {"parked", "unparked"}, place : Spaces, of : Watchers \cup {"other"}])
  BY <1>2, <1>4
<1> QED
  BY <1>1, <1>2, <1>3, <1>5, <1>6 DEF LotTyped, LostBits

\* A change of the lot in hand, which stays locked
Changes(t, n, s, v) ==
    /\ left' = [left EXCEPT ![t] = s] /\ IsScript(t, s) /\ s # <<>>
    /\ lot' = [lot EXCEPT ![n] = v] /\ v \in ALot /\ Distinct(v.slots)
    /\ v.lock = t /\ v.dead = lot[n].dead
    /\ UNCHANGED <<lots, at, screen, parked, events>>
    /\ Head(s).do \in Inside \ {"send"} /\ (Head(s).do = "remove" => v.observers = <<>>)
    /\ lost' \in [LostBits -> BOOLEAN]
    /\ lost'.twice = lost.twice /\ lost'.freed = lost.freed /\ lost'.calls = lost.calls
    /\ (~lost'.moved => ~lost.moved) /\ (~lost'.stale => ~lost.stale)
    /\ \A what \in {"attach", "detach"} : Has(s, what) => Has(left[t], what)

\* A thread that is inside changes its lot.
LEMMA ChangeStep ==
    ASSUME LotInv, NEW t \in Hands, Within(t), NEW s, NEW v, Changes(t, at[t], s, v),
           ~lost'.moved => v.observers = lot[at[t]].observers \/ ~SentFor(at[t])
                           \/ Len(v.observers) >= Len(lot[at[t]].observers),
           ParkedFact', ObserverFact', OpenFact'
    PROVE  LotInv'
<1> DEFINE n == at[t]
<1>1. n \in DOMAIN lot /\ lot[n].lock = t
  BY DEF LotInv, LockFact
<1>2. /\ LotTyped' /\ DOMAIN lot' = DOMAIN lot /\ lot'[n] = v
      /\ \A m \in DOMAIN lot : m # n => lot'[m] = lot[m]
      /\ left'[t] = s /\ \A o \in Hands : o # t => left'[o] = left[o]
  <2>1. screen' \in [Watchers -> AScreen]
    BY DEF LotInv, LotTyped, Changes
  <2> QED
    BY <1>1, <2>1, ChangeTyped DEF Changes
<1>3. UNCHANGED <<lots, at, screen, parked, events>> /\ s # <<>> /\ Head(s).do \in Inside \ {"send"}
      /\ v.lock = t /\ v.dead = lot[n].dead /\ (Head(s).do = "remove" => v.observers = <<>>)
  BY DEF Changes
<1> HIDE DEF n
<1>4. \A o \in Hands : o # t /\ Within(o) => at[o] # n
  BY <1>1 DEF LotInv, LockFact
<1>5. \A o \in Hands : o # t => /\ Within(o)' <=> Within(o)
                                /\ \A what : Turn(o, what)' <=> Turn(o, what)
                                /\ Now(o)' = Now(o)
  BY <1>2 DEF Within, Turn, Rests, Now
<1>6. Within(t)' /\ ~Turn(t, "lock")' /\ ~Turn(t, "back")' /\ ~Turn(t, "back") /\ ~Turn(t, "send")'
  BY <1>2, <1>3 DEF Within, Turn, Rests, Now, Inside
<1>7. LockFact'
  <2>1. LockFact
    BY DEF LotInv
  <2> QED
    BY <1>1, <1>2, <1>3, <1>4, <1>5, <1>6, <2>1 DEF LockFact, n
<1>8. Sound' => Sound
  BY DEF Sound, Changes
<1>9. ListFact' /\ AliveFact'
  <2>1. ListFact /\ AliveFact /\ LockFact
    BY DEF LotInv
  <2>2. \A m \in DOMAIN lot : lot'[m].dead = lot[m].dead
    BY <1>2, <1>3
  <2>3. ListFact'
    BY <1>2, <1>3, <2>1, <2>2 DEF ListFact, Changes
  <2>4. AliveFact'
    <3>1. lost'.freed = lost.freed
      BY DEF Changes
    <3>2. \A o \in Hands : Within(o)' => Within(o) /\ at'[o] = at[o]
      BY <1>3, <1>5
    <3> QED
      BY <2>1, <2>2, <3>1, <3>2 DEF AliveFact, LockFact
  <2> QED
    BY <2>3, <2>4
<1>10. ComesFact'
  <2>1. \A p \in Watchers : \A what \in {"attach", "detach"} : Has(left'[p], what) => Has(left[p], what)
    BY <1>2 DEF Hands, Changes
  <2>2. ComesFact /\ screen' = screen
    BY <1>3 DEF LotInv
  <2> QED
    BY <2>1, <2>2 DEF ComesFact
<1>11. RemoveFact'
  <2>1. RemoveFact /\ LockFact
    BY DEF LotInv
  <2>2. ASSUME NEW o \in Hands, Turn(o, "remove")' PROVE lot'[at'[o]].observers = <<>>
    <3>1. CASE o = t
      BY <1>2, <1>3, <2>2, <3>1 DEF Turn, Now, n
    <3>2. CASE o # t
      <4>1. Turn(o, "remove") /\ Within(o) /\ at'[o] = at[o]
        BY <1>3, <1>5, <2>2, <3>2 DEF Turn, Within, Now, Inside
      <4> QED
        BY <1>2, <1>4, <2>1, <3>2, <4>1 DEF RemoveFact, LockFact
    <3> QED
      BY <3>1, <3>2
  <2> QED
    BY <2>2 DEF RemoveFact
<1>12. SendFact'
  <2> SUFFICES ASSUME Sound', NEW o \in Hands, Turn(o, "send")' \/ Turn(o, "back")'
               PROVE  Now(o)'.i \in DOMAIN lot'[at'[o]].observers /\ ~lot'[at'[o]].dead
    BY DEF SendFact
  <2>1. o # t /\ (Turn(o, "send") \/ Turn(o, "back")) /\ Now(o)' = Now(o) /\ at'[o] = at[o]
    BY <1>3, <1>5, <1>6
  <2>2. Now(o).i \in DOMAIN lot[at[o]].observers /\ ~lot[at[o]].dead /\ at[o] \in DOMAIN lot
    BY <1>8, <2>1 DEF LotInv, SendFact, LockFact, Within, Turn, Now, Inside
  <2>3. CASE at[o] # n
    BY <1>2, <2>1, <2>2, <2>3
  <2>4. CASE at[o] = n
    <3>1. Turn(o, "back") /\ SentFor(n)
      BY <1>4, <2>1, <2>4 DEF Turn, Within, Now, Inside, SentFor
    <3>2. v.observers = lot[n].observers \/ Len(v.observers) >= Len(lot[n].observers)
      BY <3>1 DEF Sound, n
    <3>3. /\ DOMAIN lot[n].observers = 1..Len(lot[n].observers) /\ Len(lot[n].observers) \in Nat
          /\ DOMAIN v.observers = 1..Len(v.observers) /\ Len(v.observers) \in Nat
      BY <1>1, LotIs DEF Changes, ALot
    <3>4. DOMAIN lot[n].observers \subseteq DOMAIN v.observers
      BY <3>2, <3>3
    <3> QED
      BY <1>2, <1>3, <2>1, <2>2, <2>4, <3>4
  <2> QED
    BY <2>3, <2>4
<1>13. AloneFact'
  <2>1. AloneFact
    BY DEF LotInv
  <2>2. ~lost'.stale => ~lost.stale
    BY DEF Changes
  <2>3. \A o \in Hands : Turn(o, "back")' => Turn(o, "back") /\ Now(o)' = Now(o) /\ at'[o] = at[o]
    BY <1>3, <1>5, <1>6
  <2> QED
    BY <1>8, <2>1, <2>2, <2>3 DEF AloneFact
<1>14. EventsFact'
  <2>1. EventsFact
    BY DEF LotInv
  <2>2. t # Events => left'[Events] = left[Events]
    BY <1>2 DEF Hands
  <2>3. t # Events => (Within(Events)' <=> Within(Events)) /\ (Turn(Events, "back")' <=> Turn(Events, "back"))
    BY <1>5 DEF Hands
  <2> QED
    BY <1>6, <2>1, <2>2, <2>3 DEF EventsFact, Rests
<1> QED
  BY <1>2, <1>7, <1>9, <1>10, <1>11, <1>12, <1>13, <1>14 DEF LotInv

\* No phone is Asterisk's thread.
LEMMA NotEvents == \A p \in Watchers : p # Events /\ p # Free
BY LotAssumption DEF Events, Free

\* What is parked does not depend on what is not Asterisk's.
LEMMA SameParked ==
    ASSUME LotInv, left'[Events] = left[Events], UNCHANGED <<parked, events>>, Listed' = Listed,
           Sound' => Sound, ~lost'.calls => ~lost.calls
    PROVE  ParkedFact'
<1>1. ParkedFact
  BY DEF LotInv
<1>2. \A place \in Spaces : Due(place)' <=> Due(place)
  BY DEF Due, LastSays
<1> QED
  BY <1>1, <1>2 DEF ParkedFact

\* A phone that is up, and that is not an observer yet, becomes one.
LEMMA AttachObserverKeeps ==
    ASSUME LotInv, NEW t \in Hands, AttachObserver(t)
    PROVE  LotInv'
<1> DEFINE s == <<Step("unlock")>> \o Tail(left[t])
           n == at[t]
           o == [device |-> Now(t).of, open |-> FALSE]
           w == lot[n].observers
           v == [lot[n] EXCEPT !.observers = Append(@, o)]
<1>1. ~Rests(t) /\ Head(left[t]).do = "attach" /\ Within(t) /\ Next1Is(t, <<Step("unlock")>>)
  BY DEF AttachObserver, Turn, Now, Within, Inside, Unlock
<1>2. /\ IsScript(t, s) /\ s # <<>> /\ Head(s) = Step("unlock")
      /\ Steps(s) = {Step("unlock")} \cup Steps(Tail(left[t]))
      /\ Steps(left[t]) = {Head(left[t])} \cup Steps(Tail(left[t]))
      /\ left[t] # <<>>
  BY <1>1, UnlockNext DEF Inside, StaysIn
<1>3. left' = [left EXCEPT ![t] = s]
  BY <1>1, NextOne
<1>4. /\ IsLotStep(Head(left[t])) /\ OwnSteps(t, Head(left[t]))
      /\ Asks(Head(left[t]), "attach") => ~Has(Tail(left[t]), "attach")
  BY <1>2, ScriptOf, StepDone
<1>5. Now(t).of = t /\ t \in Watchers
  BY <1>1, <1>4 DEF IsLotStep, IsPlainStep, OwnSteps, OwnStep, Now
<1> HIDE DEF s
<1>6. n \in DOMAIN lot /\ lot[n].lock = t
  BY <1>1 DEF LotInv, LockFact
<1>7. lot[n] \in ALot /\ Distinct(lot[n].slots) /\ w \in Seq(AnObserver)
      /\ DOMAIN w = 1..Len(w) /\ Len(w) \in Nat
  BY <1>6, LotIs DEF LotInv, LotTyped
<1>8. lot' = [lot EXCEPT ![n] = v] /\ UNCHANGED <<lots, at, screen, parked, events, lost>>
  BY DEF AttachObserver
<1>9. o \in AnObserver /\ o.device = t
  BY <1>5 DEF AnObserver
<1>10. /\ v.observers = Append(w, o) /\ v.slots = lot[n].slots /\ v.lock = t /\ v.dead = lot[n].dead
       /\ v \in ALot
  <2>1. Append(w, o) \in Seq(AnObserver)
    <3> HIDE DEF w, o
    <3> QED
      BY <1>7, <1>9
  <2> HIDE DEF o
  <2> QED
    BY <1>6, <1>7, <2>1 DEF ALot
<1> HIDE DEF w, o, v
<1>11. /\ Len(v.observers) = Len(w) + 1 /\ v.observers[Len(w) + 1] = o
       /\ \A i \in 1..Len(w) : v.observers[i] = w[i]
       /\ DOMAIN v.observers = 1..(Len(w) + 1)
  BY <1>7, <1>9, <1>10
<1>12. \A what \in {"attach", "detach"} : Has(s, what) <=> Has(Tail(left[t]), what)
  BY <1>2 DEF Has, Asks, Step
<1>13. \A what : Has(Tail(left[t]), what) => Has(left[t], what)
  BY <1>2 DEF Has
<1>14. /\ lot'[n] = v /\ DOMAIN lot' = DOMAIN lot /\ \A m \in DOMAIN lot : m # n => lot'[m] = lot[m]
       /\ left'[t] = s /\ \A p \in Hands : p # t => left'[p] = left[p]
  <2>1. lot' \in Seq(ALot) /\ DOMAIN lot' = DOMAIN lot
        /\ lot'[n] = v /\ \A m \in DOMAIN lot : m # n => lot'[m] = lot[m]
    BY <1>6, <1>8, <1>10, LotSet
  <2> QED
    BY <1>3, <2>1, LeftIs
<1>15. Changes(t, n, s, v)
  <2>1. lost' \in [LostBits -> BOOLEAN]
    BY <1>8 DEF LotInv, LotTyped, LostBits
  <2>2. Head(s).do \in Inside \ {"send", "remove"}
    BY <1>2 DEF Step, Inside
  <2> QED
    BY <1>2, <1>3, <1>7, <1>8, <1>10, <1>12, <1>13, <2>1, <2>2 DEF Changes
<1>16. left'[Events] = left[Events]
  BY <1>5, <1>14, NotEvents DEF Hands
<1>17. Listed' = Listed /\ (Sound' <=> Sound)
  <2>1. lots # <<>> => Head(lots) \in DOMAIN lot
    BY DEF LotInv, LotTyped
  <2> QED
    BY <1>8, <1>10, <1>14, <2>1 DEF Listed, Sound
<1>18. ParkedFact'
  BY <1>8, <1>16, <1>17, SameParked
<1>19. ObserverFact'
  <2> SUFFICES ASSUME Sound, NEW m \in DOMAIN lot, ~lot'[m].dead
               PROVE  /\ \A i, j \in DOMAIN lot'[m].observers :
                            lot'[m].observers[i].device = lot'[m].observers[j].device => i = j
                      /\ \A p \in Watchers : Observes(p, m)' =>
                            (screen'[p].up \/ Has(left'[p], "detach")) /\ ~Has(left'[p], "attach")
    BY <1>14, <1>17 DEF ObserverFact
  <2>1. ~lot[m].dead
    BY <1>10, <1>14
  <2>2. /\ \A i, j \in DOMAIN lot[m].observers :
              lot[m].observers[i].device = lot[m].observers[j].device => i = j
        /\ \A p \in Watchers : Observes(p, m) =>
              (screen[p].up \/ Has(left[p], "detach")) /\ ~Has(left[p], "attach")
    BY <2>1 DEF LotInv, ObserverFact
  <2>3. Has(left[t], "attach") /\ ~Has(s, "attach") /\ screen[t].up
    <3>1. Has(left[t], "attach")
      BY <1>1, <1>2 DEF Has, Asks
    <3>2. ~Has(s, "attach")
      BY <1>1, <1>4, <1>12 DEF Asks
    <3> QED
      BY <1>5, <3>1, <3>2 DEF LotInv, ComesFact
  <2>4. CASE m # n
    <3>1. \A p \in Watchers : Observes(p, m)' <=> Observes(p, m)
      BY <1>14, <2>4 DEF Observes
    <3>2. \A p \in Watchers : p # t => left'[p] = left[p]
      BY <1>14 DEF Hands
    <3> QED
      BY <1>8, <1>14, <2>2, <2>3, <2>4, <3>1, <3>2
  <2>5. CASE m = n
    <3>1. \A i \in 1..Len(w) : w[i].device # t
      BY <1>5, <1>7, <2>2, <2>3, <2>5 DEF Observes, w
    <3>2. \A i, j \in 1..Len(w) : w[i].device = w[j].device => i = j
      BY <1>7, <2>2, <2>5 DEF w
    <3>3. \A i \in 1..(Len(w) + 1) : i \in 1..Len(w) \/ i = Len(w) + 1
      BY <1>7
    <3>4. \A i, j \in 1..(Len(w) + 1) : v.observers[i].device = v.observers[j].device => i = j
      BY <1>9, <1>11, <3>1, <3>2, <3>3
    <3>5. \A p \in Watchers : Observes(p, n)' => p = t \/ Observes(p, n)
      <4>1. \A p \in Watchers : Observes(p, n)' => \E i \in 1..(Len(w) + 1) : v.observers[i].device = p
        BY <1>8, <1>11, <1>14 DEF Observes
      <4>2. \A p \in Watchers : (\E i \in 1..Len(w) : w[i].device = p) => Observes(p, n)
        BY <1>7 DEF Observes, w
      <4> QED
        BY <1>9, <1>11, <3>3, <4>1, <4>2
    <3>6. \A p \in Watchers : p # t => left'[p] = left[p]
      BY <1>14 DEF Hands
    <3>7. \A p \in Watchers : Observes(p, m)' =>
             (screen'[p].up \/ Has(left'[p], "detach")) /\ ~Has(left'[p], "attach")
      BY <1>8, <1>14, <2>2, <2>3, <2>5, <3>5, <3>6
    <3> QED
      BY <1>11, <1>14, <2>5, <3>4, <3>7
  <2> QED
    BY <2>4, <2>5
<1>20. OpenFact'
  <2>1. \A q \in Hands : /\ Turn(q, "back")' <=> Turn(q, "back")
                         /\ Turn(q, "back") => Now(q)' = Now(q)
    BY <1>1, <1>2, <1>14 DEF Turn, Rests, Now, Step
  <2>2. \A m, i : Opening(m, i)' <=> Opening(m, i)
    BY <1>8, <2>1 DEF Opening
  <2>3. \A i : ToEvents(i)' <=> ToEvents(i)
    BY <1>16 DEF ToEvents, Turn, Rests, Now
  <2>4. \A m \in DOMAIN lot : \A i \in DOMAIN lot[m].observers :
           i \in DOMAIN lot'[m].observers /\ lot'[m].observers[i] = lot[m].observers[i]
    <3>1. \A i \in DOMAIN lot[n].observers : i \in DOMAIN v.observers /\ v.observers[i] = lot[n].observers[i]
      BY <1>7, <1>11 DEF w
    <3> QED
      BY <1>14, <3>1
  <2>5. \A p \in Watchers : \A m \in DOMAIN lot : \A i \in DOMAIN lot[m].observers :
           IsOpen(p, m, i) => IsOpen(p, m, i)'
    BY <1>8, <1>17, <2>1, <2>2, <2>3, <2>4 DEF IsOpen
  <2>6. OpenFact
    BY DEF LotInv
  <2> QED
    BY <1>8, <1>14, <1>17, <2>4, <2>5, <2>6 DEF OpenFact
<1>21. Len(v.observers) >= Len(lot[n].observers)
  BY <1>7, <1>11 DEF w
<1> HIDE DEF v
<1> QED
  BY <1>1, <1>15, <1>18, <1>19, <1>20, <1>21, ChangeStep

\* A phone that is not up is an observer no more; the last one goes on to remove the lot.
LEMMA DetachObserverKeeps ==
    ASSUME LotInv, NEW t \in Hands, DetachObserver(t)
    PROVE  LotInv'
<1> DEFINE n == at[t]
           w == lot[n].observers
           r == Remain(w, Now(t).of)
           x == IF r = <<>> THEN Step("remove") ELSE Step("unlock")
           s == <<x>> \o Tail(left[t])
           v == [lot[n] EXCEPT !.observers = r]
<1>1. ~Rests(t) /\ Head(left[t]).do = "detach" /\ Within(t)
  BY DEF DetachObserver, Turn, Now, Within, Inside
<1>2. lot' = [lot EXCEPT ![n].observers = r] /\ Next1Is(t, IF r = <<>> THEN <<Step("remove")>> ELSE Unlock)
  BY DEF DetachObserver, Remain, Mine
<1>3. left' = [left EXCEPT ![t] = s]
  <2>1. Next1Is(t, <<x>>)
    BY <1>2 DEF Unlock
  <2> HIDE DEF x
  <2> QED
    BY <2>1, NextOne
<1>4. /\ x.do \in {"remove", "unlock"} /\ (x.do = "remove" => r = <<>>)
      /\ IsPlainStep(x) /\ OwnStep(t, x)
  BY DEF Step, IsPlainStep, OwnStep, Inside
<1>5. /\ IsScript(t, s) /\ s # <<>> /\ Head(s) = x
      /\ Steps(s) = {x} \cup Steps(Tail(left[t]))
  <2> HIDE DEF x
  <2> QED
    BY <1>1, <1>4, PutNext DEF StaysIn
<1>6. IsScript(t, left[t]) /\ left[t] # <<>>
  BY <1>1, ScriptOf DEF Rests
<1>7. /\ IsLotStep(Head(left[t])) /\ OwnSteps(t, Head(left[t]))
      /\ Steps(left[t]) = {Head(left[t])} \cup Steps(Tail(left[t]))
  BY <1>6, StepDone
<1>8. Now(t).of = t /\ t \in Watchers
  BY <1>1, <1>7 DEF IsLotStep, IsPlainStep, OwnSteps, OwnStep, Now
<1> HIDE DEF s, x
<1>9. n \in DOMAIN lot /\ lot[n].lock = t
  BY <1>1 DEF LotInv, LockFact
<1>10. lot[n] \in ALot /\ Distinct(lot[n].slots) /\ w \in Seq(AnObserver)
  BY <1>9, LotIs DEF LotInv, LotTyped
<1>11. UNCHANGED <<lots, at, screen, parked, events>>
  BY DEF DetachObserver
<1>12. /\ lost' \in [LostBits -> BOOLEAN]
       /\ lost'.twice = lost.twice /\ lost'.freed = lost.freed /\ lost'.calls = lost.calls
       /\ lost'.stale = lost.stale /\ (~lost'.moved => ~lost.moved /\ ~SentFor(n))
  <2>1. SentFor(n) \in BOOLEAN
    BY DEF SentFor
  <2>2. lost' = [lost EXCEPT !["moved"] = @ \/ SentFor(n)]
    BY DEF DetachObserver
  <2> HIDE DEF n
  <2>3. /\ lost' \in [{"twice", "freed", "moved", "stale", "calls"} -> BOOLEAN]
        /\ \A g \in {"twice", "freed", "moved", "stale", "calls"} :
             IF g = "moved" THEN lost'[g] = (lost[g] \/ SentFor(n)) ELSE lost'[g] = lost[g]
    BY <2>1, <2>2, LostIs
  <2> QED
    BY <2>3 DEF LostBits
<1>13. /\ r \in Seq(AnObserver)
       /\ \A j \in DOMAIN r : \E i \in DOMAIN w : r[j] = w[i]
       /\ (\A i, j \in DOMAIN w : w[i].device = w[j].device => i = j) =>
             /\ \A i, j \in DOMAIN r : r[i].device = r[j].device => i = j
             /\ \A j \in DOMAIN r : r[j].device # t
             /\ \A i \in DOMAIN w : w[i].device # t => \E j \in DOMAIN r : r[j] = w[i]
  <2> HIDE DEF w
  <2> QED
    BY <1>8, <1>10, RemainIs
<1> HIDE DEF r
<1>14. v \in ALot /\ v.observers = r /\ v.slots = lot[n].slots /\ v.lock = t /\ v.dead = lot[n].dead
  BY <1>9, <1>10, <1>13 DEF ALot
<1>15. lot' = [lot EXCEPT ![n] = v]
  BY <1>2
<1> HIDE DEF v
<1>16. /\ lot'[n] = v /\ DOMAIN lot' = DOMAIN lot /\ \A m \in DOMAIN lot : m # n => lot'[m] = lot[m]
       /\ left'[t] = s /\ \A p \in Hands : p # t => left'[p] = left[p]
  <2>1. lot' \in Seq(ALot) /\ DOMAIN lot' = DOMAIN lot
        /\ lot'[n] = v /\ \A m \in DOMAIN lot : m # n => lot'[m] = lot[m]
    BY <1>9, <1>14, <1>15, LotSet
  <2> QED
    BY <1>3, <2>1, LeftIs
<1>17. \A what \in {"attach", "detach"} : Has(s, what) => Has(left[t], what)
  BY <1>4, <1>5, <1>7 DEF Has, Asks
<1>18. Changes(t, n, s, v)
  <2>1. Head(s).do \in Inside \ {"send"} /\ (Head(s).do = "remove" => v.observers = <<>>)
    BY <1>4, <1>5, <1>14 DEF Inside
  <2> QED
    BY <1>3, <1>5, <1>10, <1>11, <1>12, <1>14, <1>15, <1>17, <2>1 DEF Changes
<1>19. left'[Events] = left[Events]
  BY <1>8, <1>16, NotEvents DEF Hands
<1>20. Listed' = Listed /\ (Sound' => Sound)
  <2>1. lots # <<>> => Head(lots) \in DOMAIN lot
    BY DEF LotInv, LotTyped
  <2> QED
    BY <1>11, <1>12, <1>14, <1>16, <2>1 DEF Listed, Sound
<1>21. ParkedFact'
  BY <1>11, <1>12, <1>19, <1>20, SameParked
<1>22. Has(left[t], "detach") /\ ~screen[t].up
  <2>1. Has(left[t], "detach")
    BY <1>1, <1>7 DEF Has, Asks
  <2> QED
    BY <1>8, <2>1 DEF LotInv, ComesFact
<1>23. Sound => \A i, j \in DOMAIN w : w[i].device = w[j].device => i = j
  <2>1. Sound => ~lot[n].dead
    BY <1>1, AtListed
  <2> QED
    BY <1>9, <2>1 DEF LotInv, ObserverFact
<1>24. ObserverFact'
  <2> SUFFICES ASSUME Sound', NEW m \in DOMAIN lot, ~lot'[m].dead
               PROVE  /\ \A i, j \in DOMAIN lot'[m].observers :
                            lot'[m].observers[i].device = lot'[m].observers[j].device => i = j
                      /\ \A p \in Watchers : Observes(p, m)' =>
                            (screen'[p].up \/ Has(left'[p], "detach")) /\ ~Has(left'[p], "attach")
    BY <1>16 DEF ObserverFact
  <2>1. ~lot[m].dead
    BY <1>14, <1>16
  <2>2. /\ \A i, j \in DOMAIN lot[m].observers :
              lot[m].observers[i].device = lot[m].observers[j].device => i = j
        /\ \A p \in Watchers : Observes(p, m) =>
              (screen[p].up \/ Has(left[p], "detach")) /\ ~Has(left[p], "attach")
    BY <1>20, <2>1 DEF LotInv, ObserverFact
  <2>3. m = n
    <3>1. lots = <<n>>
      BY <1>1, <1>20, AtListed
    <3>2. lots = <<m>>
      BY <1>20, <2>1 DEF LotInv, ListFact, Sound
    <3> QED
      BY <3>1, <3>2
  <2>4. \A i, j \in DOMAIN r : r[i].device = r[j].device => i = j
    BY <1>13, <1>20, <1>23
  <2>5. \A p \in Watchers : Observes(p, m)' => p # t /\ Observes(p, m)
    <3>1. \A p \in Watchers : Observes(p, m)' => \E j \in DOMAIN r : r[j].device = p
      BY <1>14, <1>16, <2>3 DEF Observes
    <3>2. \A p \in Watchers : (\E i \in DOMAIN w : w[i].device = p) => Observes(p, m)
      BY <2>3 DEF Observes, w
    <3> QED
      BY <1>13, <1>20, <1>23, <3>1, <3>2
  <2>6. \A p \in Watchers : p # t => left'[p] = left[p]
    BY <1>16 DEF Hands
  <2> QED
    BY <1>11, <1>14, <1>16, <2>2, <2>3, <2>4, <2>5, <2>6
<1>25. OpenFact'
  <2> SUFFICES ASSUME Sound', ~lost'.stale, NEW p \in Watchers, screen'[p].shows # {}
               PROVE  \E m \in DOMAIN lot' : \E i \in DOMAIN lot'[m].observers : IsOpen(p, m, i)'
    BY DEF OpenFact
  <2>1. PICK m \in DOMAIN lot : \E i \in DOMAIN lot[m].observers : IsOpen(p, m, i)
    BY <1>11, <1>12, <1>20 DEF LotInv, OpenFact
  <2>2. PICK i \in DOMAIN lot[m].observers : IsOpen(p, m, i)
    BY <2>1
  <2>3. lots = <<n>> /\ m = n
    <3>1. lots = <<n>>
      BY <1>1, <1>20, AtListed
    <3>2. lots = <<m>>
      BY <2>2 DEF IsOpen
    <3> QED
      BY <3>1, <3>2
  <2>4. ~SentFor(n)
    BY <1>12 DEF Sound
  <2>5. /\ lot[n].observers[i].device = p /\ screen[p].up
        /\ lot[n].observers[i].open \/ Opening(n, i)
        /\ screen[p].shows = Listed \/ ToEvents(i)
    BY <2>2, <2>3 DEF IsOpen
  <2>6. lot[n].observers[i].open
    BY <2>4, <2>5 DEF Opening, SentFor
  <2>7. ~ToEvents(i)
    <3>1. Turn(Events, "send") => Within(Events)
      BY DEF Turn, Within, Now, Inside
    <3>2. ToEvents(i) => Within(Events) \/ Turn(Events, "back")
      BY <3>1 DEF ToEvents, LotInv, EventsFact
    <3>3. Events \in Hands /\ Events # t
      BY <1>8, NotEvents DEF Hands
    <3>4. ~Within(Events)
      <4>1. Within(Events) => lots = <<at[Events]>> /\ lot[at[Events]].lock = Events
        BY <1>20, <3>3, AtListed
      <4> QED
        BY <1>9, <2>3, <3>3, <4>1
    <3>5. Turn(Events, "back") => at[Events] # n
      BY <2>4, <3>3 DEF SentFor
    <3>6. Turn(Events, "back") => lots = <<at[Events]>>
      <4>1. Turn(Events, "back") => at[Events] \in DOMAIN lot /\ ~lot[at[Events]].dead
        BY <1>20, <3>3 DEF LotInv, LockFact, SendFact
      <4> QED
        BY <1>20, <4>1 DEF LotInv, ListFact, Sound
    <3> QED
      BY <2>3, <3>2, <3>4, <3>5, <3>6
  <2>8. p # t
    BY <1>22, <2>5
  <2>9. PICK j \in DOMAIN r : r[j] = w[i]
    BY <1>13, <1>20, <1>23, <2>3, <2>5, <2>8 DEF w
  <2>10. ~SentFor(n)'
    <3>1. \A q \in Hands : Turn(q, "back")' => Turn(q, "back")
      BY <1>4, <1>5, <1>16 DEF Turn, Rests, Now
    <3> QED
      BY <1>11, <2>4, <3>1 DEF SentFor
  <2>11. IsOpen(p, n, j)'
    <3>1. lots' = <<n>> /\ lot'[n].observers[j].device = p /\ screen'[p].up /\ lot'[n].observers[j].open
      BY <1>11, <1>14, <1>16, <2>3, <2>5, <2>6, <2>9 DEF w
    <3>2. screen'[p].shows = Listed'
      BY <1>11, <1>20, <2>5, <2>7
    <3>3. n' = n
      BY <1>11
    <3> QED
      BY <2>10, <3>1, <3>2, <3>3 DEF IsOpen, SentFor
  <2>12. n' = n /\ n \in DOMAIN lot' /\ j \in DOMAIN lot'[n].observers
    BY <1>9, <1>11, <1>14, <1>16, <2>9
  <2> QED
    BY <2>11, <2>12
<1>26. ~lost'.moved => ~SentFor(n)
  BY <1>12
<1> QED
  BY <1>1, <1>18, <1>21, <1>24, <1>25, <1>26, ChangeStep

\* Asterisk's event has changed the slots: all are told, unless nothing changed.
LEMMA SlotStep ==
    ASSUME LotInv, NEW kind \in {"park", "unpark"}, NEW place \in Spaces, NEW r \in Seq(Spaces), Distinct(r),
           ~Rests(Events), Head(left[Events]).do = kind, Head(left[Events]).of = place,
           NEW s, NEW x, s = <<x>>, IsScript(Events, s), left' = [left EXCEPT ![Events] = s],
           Final(left[Events]) = Head(left[Events]),
           \/ x.do = "notify" /\ x.i = 1 /\ x.of = "all"
           \/ x.do = "unlock" /\ ToSet(r) = ToSet(lot[at[Events]].slots),
           lot' = [lot EXCEPT ![at[Events]] = [@ EXCEPT !.slots = r]],
           lost' = [lost EXCEPT !.stale = @ \/ SentFor(at[Events])],
           UNCHANGED <<lots, at, screen, parked, events>>,
           ToSet(r) = IF kind = "park" THEN ToSet(lot[at[Events]].slots) \cup {place}
                      ELSE ToSet(lot[at[Events]].slots) \ {place}
    PROVE  LotInv'
<1> DEFINE t == Events
           n == at[t]
           v == [lot[n] EXCEPT !.slots = r]
<1>1. t \in Hands /\ Within(t) /\ ~Turn(t, "back") /\ ~Turn(t, "send")
  BY DEF Hands, Within, Now, Inside, Turn
<1>2. s # <<>> /\ Head(s) = x /\ Final(s) = x /\ Steps(s) = {x}
  BY DEF Final, Steps
<1>3. n \in DOMAIN lot /\ lot[n].lock = t
  BY <1>1 DEF LotInv, LockFact
<1>4. lot[n] \in ALot
  BY <1>3, LotIs
<1>5. /\ v \in ALot /\ v.slots = r /\ v.lock = t /\ v.dead = lot[n].dead
      /\ v.observers = lot[n].observers
  BY <1>3, <1>4 DEF ALot
<1>6. lot' = [lot EXCEPT ![n] = v]
  OBVIOUS
<1> HIDE DEF v
<1>7. /\ lot'[n] = v /\ DOMAIN lot' = DOMAIN lot /\ \A m \in DOMAIN lot : m # n => lot'[m] = lot[m]
      /\ left'[t] = s /\ \A p \in Hands : p # t => left'[p] = left[p]
  <2>1. lot' \in Seq(ALot) /\ DOMAIN lot' = DOMAIN lot
        /\ lot'[n] = v /\ \A m \in DOMAIN lot : m # n => lot'[m] = lot[m]
    BY <1>3, <1>5, <1>6, LotSet
  <2> QED
    BY <1>1, <2>1, LeftIs
<1>8. /\ lost' \in [LostBits -> BOOLEAN]
      /\ \A g \in LostBits : IF g = "stale" THEN lost'[g] = (lost[g] \/ SentFor(n)) ELSE lost'[g] = lost[g]
  <2>1. SentFor(n) \in BOOLEAN
    BY DEF SentFor
  <2>2. lost' = [lost EXCEPT !["stale"] = @ \/ SentFor(n)]
    OBVIOUS
  <2> QED
    BY <2>1, <2>2, LostIs DEF LostBits
<1>9. /\ lost'.twice = lost.twice /\ lost'.freed = lost.freed /\ lost'.moved = lost.moved
      /\ lost'.calls = lost.calls /\ (~lost'.stale => ~lost.stale /\ ~SentFor(n))
  BY <1>8 DEF LostBits
<1>10. Sound' <=> Sound
  BY <1>9 DEF Sound
<1>11. ~Has(s, "attach") /\ ~Has(s, "detach")
  BY <1>2 DEF Has, Asks
<1>12. Changes(t, n, s, v)
  <2>1. Head(s).do \in Inside \ {"send", "remove"}
    BY <1>2 DEF Inside
  <2> QED
    BY <1>2, <1>5, <1>6, <1>8, <1>9, <1>11, <2>1 DEF Changes
<1>13. Sound => lots = <<n>> /\ Listed = ToSet(lot[n].slots) /\ Listed' = ToSet(r)
  <2>1. Sound => lots = <<n>> /\ Listed = ToSet(lot[n].slots)
    BY <1>1, AtListed
  <2>2. lots = <<n>> => Listed' = ToSet(r)
    <3>1. lot'[n].slots = r
      BY <1>5, <1>7
    <3>2. lots' = lots /\ (lots = <<n>> => lots # <<>> /\ Head(lots) = n)
      OBVIOUS
    <3> HIDE DEF n
    <3> QED
      BY <3>1, <3>2 DEF Listed
  <2> QED
    BY <2>1, <2>2
<1>14. ParkedFact'
  <2> SUFFICES ASSUME Sound, ~lost.calls, NEW q \in Spaces PROVE Due(q) <=> Due(q)'
    BY <1>9, <1>10 DEF LotInv, ParkedFact
  <2>1. LastSays(q)' <=> LastSays(q)
    BY DEF LastSays
  <2>2. ~Awaits(left'[t], "park", q) /\ ~Awaits(left'[t], "unpark", q)
    BY <1>2, <1>7 DEF Awaits
  <2>3. Awaits(left[t], "park", q) <=> kind = "park" /\ q = place
    BY DEF Awaits, Rests
  <2>4. Awaits(left[t], "unpark", q) <=> kind = "unpark" /\ q = place
    BY DEF Awaits, Rests
  <2>5. q \in Listed' <=> IF kind = "park" THEN q \in Listed \/ q = place ELSE q \in Listed /\ q # place
    BY <1>13
  <2>6. (Awaits(left[t], "park", q) \/ (~Awaits(left[t], "unpark", q) /\ q \in Listed))
           <=> q \in Listed'
    BY <2>3, <2>4, <2>5
  <2> HIDE DEF t
  <2>7. Events = t /\ events' = events
    BY DEF t
  <2> QED
    BY <2>1, <2>2, <2>6, <2>7 DEF Due
<1>15. ObserverFact'
  <2>1. \A m \in DOMAIN lot : lot'[m].observers = lot[m].observers /\ lot'[m].dead = lot[m].dead
    BY <1>5, <1>7
  <2>2. \A p \in Watchers : left'[p] = left[p]
    BY <1>7, NotEvents DEF Hands
  <2>3. ObserverFact
    BY DEF LotInv
  <2> QED
    BY <1>7, <1>10, <2>1, <2>2, <2>3 DEF ObserverFact, Observes
<1>16. OpenFact'
  <2> SUFFICES ASSUME Sound, ~lost'.stale, NEW p \in Watchers, screen[p].shows # {}
               PROVE  \E m \in DOMAIN lot' : \E i \in DOMAIN lot'[m].observers : IsOpen(p, m, i)'
    BY <1>10 DEF OpenFact
  <2>1. PICK m \in DOMAIN lot : \E i \in DOMAIN lot[m].observers : IsOpen(p, m, i)
    BY <1>9 DEF LotInv, OpenFact
  <2>2. PICK i \in DOMAIN lot[m].observers : IsOpen(p, m, i)
    BY <2>1
  <2>3. m = n
    BY <1>13, <2>2 DEF IsOpen
  <2>4. ~SentFor(n) /\ ~SentFor(n)'
    <3>1. ~SentFor(n)
      BY <1>9
    <3>2. \A q \in Hands : Turn(q, "back")' => Turn(q, "back")
      BY <1>2, <1>7 DEF Turn, Rests, Now
    <3> QED
      BY <3>1, <3>2 DEF SentFor
  <2>5. /\ lot[n].observers[i].device = p /\ screen[p].up /\ lot[n].observers[i].open
        /\ screen[p].shows = Listed \/ ToEvents(i)
    BY <2>2, <2>3, <2>4 DEF IsOpen, Opening, SentFor
  <2>6. ~ToEvents(i)
    BY <1>1 DEF ToEvents
  <2>7. i \in Nat \ {0}
    BY <2>1, WatcherIs
  <2>8. screen[p].shows = Listed' \/ ToEvents(i)'
    <3>1. x.do = "notify" /\ x.i = 1 /\ x.of = "all" => ToEvents(i)'
      BY <1>2, <1>7, <2>7 DEF ToEvents, Rests
    <3>2. ToSet(r) = ToSet(lot[n].slots) => Listed' = Listed
      BY <1>13
    <3> QED
      BY <2>5, <2>6, <3>1, <3>2
  <2>9. lot'[n].observers = lot[n].observers /\ n' = n
    BY <1>5, <1>7
  <2>10. IsOpen(p, n, i)'
    <3>1. lots' = <<n>> /\ screen'[p].up /\ screen' = screen
      BY <1>13, <2>5
    <3> QED
      BY <2>4, <2>5, <2>8, <2>9, <3>1 DEF IsOpen, Opening, SentFor
  <2> QED
    BY <1>7, <2>3, <2>9, <2>10
<1>17. v.observers = lot[n].observers
  BY <1>5
<1> HIDE DEF t, n
<1>18. n = at[t]
  BY DEF n
<1> QED
  BY <1>1, <1>12, <1>14, <1>15, <1>16, <1>17, <1>18, ChangeStep

\* Only Asterisk's events park and unpark, as the last that they do.
LEMMA SlotScript ==
    ASSUME LotInv, NEW t \in Hands, ~Rests(t), NEW kind \in {"park", "unpark"}, Head(left[t]).do = kind
    PROVE  /\ t = Events /\ Head(left[t]).of \in Spaces /\ Tail(left[t]) = <<>>
           /\ Final(left[t]) = Head(left[t])
<1>1. IsScript(t, left[t]) /\ left[t] # <<>>
  BY ScriptOf DEF Rests
<1>2. IsLotStep(Head(left[t])) /\ OwnSteps(t, Head(left[t]))
      /\ (t = Events => (Tail(left[t]) # <<>> => Head(left[t]).do \in StaysIn \cup {"add"}))
      /\ (Tail(left[t]) = <<>> => Final(left[t]) = Head(left[t]))
  BY <1>1, StepDone
<1> QED
  BY <1>2 DEF IsLotStep, IsPlainStep, OwnSteps, OwnStep, StaysIn

\* What Asterisk's thread does next after it parked or unparked.
LEMMA SlotNext ==
    ASSUME LotInv, NEW t \in Hands, ~Rests(t), NEW kind \in {"park", "unpark"}, Head(left[t]).do = kind,
           NEW x, Next1Is(t, <<x>>),
           \/ x.do = "notify" /\ x.i = 1 /\ x.of = "all"
           \/ x.do = "unlock"
    PROVE  left' = [left EXCEPT ![Events] = <<x>>] /\ IsScript(Events, <<x>>)
<1>1. t = Events /\ Tail(left[t]) = <<>>
  BY SlotScript
<1>2. left' = [left EXCEPT ![t] = <<x>> \o <<>>]
  <2>1. left' = [left EXCEPT ![t] = <<x>> \o Tail(left[t])]
    BY NextOne
  <2> QED
    BY <1>1, <2>1
<1>3. <<x>> \o <<>> = <<x>>
  OBVIOUS
<1>4. IsPlainStep(x) /\ OwnStep(t, x)
  BY DEF IsPlainStep, OwnStep, Inside
<1>5. Joins(t, x, <<>>)
  BY <1>4, PlainJoins DEF StaysIn
<1>6. IsScript(t, <<x>> \o <<>>)
  BY <1>5, EmptyScript, StepPut
<1> QED
  BY ONLY <1>1, <1>2, <1>3, <1>6

\* A place is listed, and those with an open menu are about to be told.
LEMMA AddSlotKeeps ==
    ASSUME LotInv, NEW t \in Hands, AddSlot(t)
    PROVE  LotInv'
<1> DEFINE n == at[t]
           w == lot[n].slots
           place == Head(left[t]).of
           r == IF \E i \in DOMAIN w : w[i] = place THEN w ELSE Append(w, place)
           x == [do |-> "notify", of |-> "all", i |-> 1]
<1>1. ~Rests(t) /\ Head(left[t]).do = "park" /\ Within(t) /\ Next1Is(t, <<x>>)
  BY DEF AddSlot, Turn, Now, Within, Inside, Notify
<1>2. t = Events /\ place \in Spaces /\ Final(left[t]) = Head(left[t])
  BY <1>1, SlotScript
<1>3. x.do = "notify" /\ x.i = 1 /\ x.of = "all"
  OBVIOUS
<1>4. left' = [left EXCEPT ![Events] = <<x>>] /\ IsScript(Events, <<x>>)
  <2> HIDE DEF x
  <2> QED
    BY <1>1, <1>3, SlotNext
<1> HIDE DEF x
<1>5. n \in DOMAIN lot /\ w \in Seq(Spaces) /\ Distinct(w)
  <2>1. n \in DOMAIN lot
    BY <1>1 DEF LotInv, LockFact
  <2> QED
    BY <2>1, LotIs DEF LotInv, LotTyped
<1>6. lot' = [lot EXCEPT ![n] = [@ EXCEPT !.slots = r]]
  BY DEF AddSlot, Now
<1> HIDE DEF place
<1>7. r \in Seq(Spaces) /\ Distinct(r) /\ ToSet(r) = ToSet(w) \cup {place}
  <2> HIDE DEF w
  <2>1. CASE \E i \in DOMAIN w : w[i] = place
    BY <1>5, <2>1 DEF ToSet
  <2>2. CASE ~\E i \in DOMAIN w : w[i] = place
    <3>1. r = Append(w, place)
      BY <2>2
    <3> HIDE DEF r
    <3>2. /\ r \in Seq(Spaces) /\ DOMAIN r = 1..(Len(w) + 1) /\ DOMAIN w = 1..Len(w) /\ Len(w) \in Nat
          /\ r[Len(w) + 1] = place /\ \A i \in 1..Len(w) : r[i] = w[i]
      BY <1>2, <1>5, <3>1
    <3>3. \A i \in 1..(Len(w) + 1) : i \in 1..Len(w) \/ i = Len(w) + 1
      BY <3>2
    <3>4. Distinct(r)
      BY <1>5, <2>2, <3>2, <3>3 DEF Distinct
    <3>5. Len(w) + 1 \in 1..(Len(w) + 1) /\ \A i \in 1..Len(w) : i \in 1..(Len(w) + 1)
      BY <3>2
    <3>6. ToSet(r) = ToSet(w) \cup {place}
      BY <3>2, <3>3, <3>5 DEF ToSet
    <3> QED
      BY <3>2, <3>4, <3>6
  <2> QED
    BY <2>1, <2>2
<1>8. lost' = [lost EXCEPT !.stale = @ \/ SentFor(at[t])] /\ UNCHANGED <<lots, at, screen, parked, events>>
  BY DEF AddSlot
<1> DEFINE s == <<x>>
<1>9. s = <<x>> /\ IsScript(Events, s) /\ left' = [left EXCEPT ![Events] = s]
  BY <1>4
<1>10. Head(left[Events]).do = "park" /\ Head(left[Events]).of = place /\ ~Rests(Events)
       /\ Final(left[Events]) = Head(left[Events])
  BY <1>1, <1>2 DEF place
<1>11. /\ lot' = [lot EXCEPT ![at[Events]] = [@ EXCEPT !.slots = r]]
       /\ lost' = [lost EXCEPT !.stale = @ \/ SentFor(at[Events])]
       /\ ToSet(r) = ToSet(lot[at[Events]].slots) \cup {place}
  BY <1>2, <1>6, <1>7, <1>8
<1> HIDE DEF s, r, n, w
<1>12. place \in Spaces /\ r \in Seq(Spaces) /\ Distinct(r)
  BY <1>2, <1>7
<1> QED
  BY <1>3, <1>8, <1>9, <1>10, <1>11, <1>12, SlotStep

\* A place is listed no more, and those with an open menu are about to be told.
LEMMA RemoveSlotKeeps ==
    ASSUME LotInv, NEW t \in Hands, RemoveSlot(t)
    PROVE  LotInv'
<1> DEFINE n == at[t]
           w == lot[n].slots
           place == Head(left[t]).of
           r == Dropped(w, place)
           x == IF r # w THEN [do |-> "notify", of |-> "all", i |-> 1] ELSE Step("unlock")
<1>1. ~Rests(t) /\ Head(left[t]).do = "unpark" /\ Within(t)
      /\ Next1Is(t, IF r # w THEN <<[do |-> "notify", of |-> "all", i |-> 1]>> ELSE <<Step("unlock")>>)
  BY DEF RemoveSlot, Turn, Now, Within, Inside, Notify, Unlock, Told, Mine
<1>2. t = Events /\ place \in Spaces /\ Final(left[t]) = Head(left[t])
  BY <1>1, SlotScript
<1>3. \/ x.do = "notify" /\ x.i = 1 /\ x.of = "all"
      \/ x.do = "unlock" /\ r = w
  BY DEF Step
<1>4. left' = [left EXCEPT ![Events] = <<x>>] /\ IsScript(Events, <<x>>)
  <2>1. Next1Is(t, <<x>>)
    BY <1>1
  <2> HIDE DEF x
  <2> QED
    BY <1>1, <1>3, <2>1, SlotNext
<1> HIDE DEF x
<1>5. n \in DOMAIN lot /\ w \in Seq(Spaces) /\ Distinct(w)
  <2>1. n \in DOMAIN lot
    BY <1>1 DEF LotInv, LockFact
  <2> QED
    BY <2>1, LotIs DEF LotInv, LotTyped
<1>6. lot' = [lot EXCEPT ![n] = [@ EXCEPT !.slots = r]]
  BY DEF RemoveSlot, Now, Mine
<1> HIDE DEF place
<1>7. r \in Seq(Spaces) /\ Distinct(r) /\ ToSet(r) = ToSet(w) \ {place}
  <2> HIDE DEF w
  <2> QED
    BY <1>5, DroppedIs
<1>8. lost' = [lost EXCEPT !.stale = @ \/ SentFor(at[t])] /\ UNCHANGED <<lots, at, screen, parked, events>>
  BY DEF RemoveSlot
<1> DEFINE s == <<x>>
<1>9. s = <<x>> /\ IsScript(Events, s) /\ left' = [left EXCEPT ![Events] = s]
  BY <1>4
<1>10. Head(left[Events]).do = "unpark" /\ Head(left[Events]).of = place /\ ~Rests(Events)
       /\ Final(left[Events]) = Head(left[Events])
  BY <1>1, <1>2 DEF place
<1> HIDE DEF r
<1>11. /\ lot' = [lot EXCEPT ![at[Events]] = [@ EXCEPT !.slots = r]]
       /\ lost' = [lost EXCEPT !.stale = @ \/ SentFor(at[Events])]
       /\ ToSet(r) = ToSet(lot[at[Events]].slots) \ {place}
       /\ r = w => ToSet(r) = ToSet(lot[at[Events]].slots)
  BY <1>2, <1>6, <1>7, <1>8
<1>13. \/ x.do = "notify" /\ x.i = 1 /\ x.of = "all"
       \/ x.do = "unlock" /\ ToSet(r) = ToSet(lot[at[Events]].slots)
  BY <1>3, <1>11
<1> HIDE DEF s, r, n, w
<1>12. place \in Spaces /\ r \in Seq(Spaces) /\ Distinct(r)
  BY <1>2, <1>7
<1> QED
  BY <1>8, <1>9, <1>10, <1>11, <1>12, <1>13, SlotStep

\* Who sends has something left to do after it.
LEMMA SendScript ==
    ASSUME LotInv, NEW t \in Hands, ~Rests(t), Head(left[t]).do \in {"send", "back"}
    PROVE  /\ IsScript(t, Tail(left[t])) /\ Tail(left[t]) # <<>> /\ left[t] # <<>>
           /\ Head(Tail(left[t])).do \in Inside \ {"send", "back", "remove"}
           /\ Final(Tail(left[t])) = Final(left[t])
           /\ Steps(left[t]) = {Head(left[t])} \cup Steps(Tail(left[t]))
           /\ IsPlainStep(Head(left[t]))
<1>1. IsScript(t, left[t]) /\ left[t] # <<>>
  BY ScriptOf DEF Rests
<1>2. /\ IsScript(t, Tail(left[t]))
      /\ IsLotStep(Head(left[t]))
      /\ Tail(left[t]) # <<>> => Follows(Head(left[t]), Head(Tail(left[t]))) /\ Final(Tail(left[t])) = Final(left[t])
      /\ Tail(left[t]) = <<>> => Head(left[t]).do \notin StaysIn \cup {"add"}
      /\ Steps(left[t]) = {Head(left[t])} \cup Steps(Tail(left[t]))
  BY <1>1, StepDone
<1> QED
  BY <1>1, <1>2 DEF Follows, StaysIn, IsLotStep

\* What is parked depends on the script of Asterisk's events, the events and the list.
LEMMA ParkedStays ==
    ASSUME LotInv, NEW t \in Hands, NEW s, left' = [left EXCEPT ![t] = s],
           t = Events => SameOps(left[t], s), UNCHANGED <<parked, events>>,
           Sound' => Sound, ~lost'.calls => ~lost.calls, Sound' /\ ~lost'.calls => Listed' = Listed
    PROVE  ParkedFact'
<1>1. left'[t] = s /\ \A o \in Hands : o # t => left'[o] = left[o]
  BY LeftIs
<1>2. ParkedFact
  BY DEF LotInv
<1>3. t # Events => left'[Events] = left[Events]
  BY <1>1 DEF Hands
<1>4. \A kind \in {"park", "unpark"} : \A place \in Spaces :
         Awaits(left'[Events], kind, place) <=> Awaits(left[Events], kind, place)
  BY <1>1, <1>3 DEF SameOps
<1>5. Listed' = Listed => \A place \in Spaces : Due(place)' <=> Due(place)
  BY <1>4 DEF Due, LastSays
<1> QED
  BY <1>2, <1>5 DEF ParkedFact

\* What is sent is current: the lot is locked until then. It stays so, or Asterisk's thread is to come.
LEMMA SendMenuKeeps ==
    ASSUME LotInv, NEW t \in Hands, SendMenu(t)
    PROVE  LotInv'
<1> DEFINE f == Head(left[t])
           x == [f EXCEPT !.do = "back"]
           s == <<x>> \o Tail(left[t])
           n == at[t]
           i == f.i
           w == lot[n].observers
           p == w[i].device
           e == IF screen[p].up /\ f.what = "show" THEN ToSet(lot[n].slots) ELSE {}
<1>1. ~Rests(t) /\ f.do = "send" /\ Within(t) /\ Next1Is(t, <<x>>) /\ Now(t) = f
  BY DEF SendMenu, Turn, Now, Within, Inside
<1>2. /\ IsScript(t, Tail(left[t])) /\ Tail(left[t]) # <<>> /\ left[t] # <<>>
      /\ Steps(left[t]) = {f} \cup Steps(Tail(left[t]))
      /\ IsPlainStep(f)
  BY <1>1, SendScript
<1>3. f.i \in Nat \ {0} /\ f.what \in {"show", "hide"} /\ DOMAIN f = {"do", "i", "what"}
  BY <1>1, <1>2 DEF IsPlainStep
<1>4. x.do = "back" /\ x.i = i /\ x.what = f.what
  <2> HIDE DEF f
  <2> QED
    BY <1>3
<1>5. lot' = [lot EXCEPT ![n].lock = Free] /\ screen' = [screen EXCEPT ![p].shows = e]
      /\ lost' = [lost EXCEPT !.stale = @ \/ Meets(t)] /\ UNCHANGED <<lots, at, parked, events>>
  BY DEF SendMenu, Now, Mine
<1>6. left' = [left EXCEPT ![t] = s]
  <2> HIDE DEF x
  <2> QED
    BY <1>1, NextOne
<1> HIDE DEF x
<1>7. /\ IsScript(t, s) /\ s # <<>> /\ Head(s) = x /\ Final(s) = Final(left[t])
      /\ Steps(s) = {x} \cup Steps(Tail(left[t]))
  <2>1. IsPlainStep(x) /\ OwnStep(t, x)
    BY <1>3, <1>4 DEF IsPlainStep, OwnStep, Outside
  <2>2. x.do \in StaysIn /\ f.do \in StaysIn
    BY <1>1, <1>4 DEF StaysIn
  <2> QED
    BY <1>1, <1>2, <1>4, <2>1, <2>2, PutNext
<1> HIDE DEF f, s, e
<1>8. n \in DOMAIN lot /\ lot[n].lock = t
  BY <1>1 DEF LotInv, LockFact
<1>9. /\ lot' \in Seq(ALot) /\ DOMAIN lot' = DOMAIN lot
      /\ lot'[n].lock = Free /\ \A m \in DOMAIN lot : m # n => lot'[m] = lot[m]
      /\ \A m \in DOMAIN lot : /\ lot'[m].slots = lot[m].slots /\ lot'[m].dead = lot[m].dead
                               /\ lot'[m].observers = lot[m].observers
  BY <1>5, <1>8, LockSet
<1>10. /\ screen' \in [Watchers -> AScreen]
       /\ \A q \in Watchers : screen'[q].up = screen[q].up /\ (q # p => screen'[q].shows = screen[q].shows)
       /\ p \in Watchers => screen'[p].shows = e
  <2>1. screen \in [Watchers -> AScreen] /\ lot[n].slots \in Seq(Spaces)
    BY <1>8, LotIs DEF LotInv, LotTyped
  <2>2. e \in SUBSET Spaces
    BY <2>1 DEF e, ToSet
  <2> HIDE DEF p
  <2>3. screen' = [screen EXCEPT ![p].shows = e]
    BY <1>5
  <2>4. CASE p \in Watchers
    <3>1. screen[p] \in AScreen
      BY <2>1, <2>4
    <3> DEFINE b == [screen[p] EXCEPT !.shows = e]
    <3>2. b \in AScreen /\ b.shows = e /\ b.up = screen[p].up
      BY <2>2, <3>1 DEF AScreen
    <3>3. screen' = [screen EXCEPT ![p] = b]
      BY <2>3
    <3> HIDE DEF b
    <3> QED
      BY <2>1, <2>4, <3>2, <3>3
  <2>5. CASE p \notin Watchers
    <3>1. screen' = screen
      BY <2>1, <2>3, <2>5
    <3> QED
      BY <2>1, <2>5, <3>1
  <2> QED
    BY <2>4, <2>5
<1>11. /\ lost' \in [LostBits -> BOOLEAN]
       /\ \A g \in LostBits : IF g = "stale" THEN lost'[g] = (lost[g] \/ Meets(t)) ELSE lost'[g] = lost[g]
  <2>1. Meets(t) \in BOOLEAN
    BY DEF Meets
  <2>2. lost' = [lost EXCEPT !["stale"] = @ \/ Meets(t)]
    BY <1>5
  <2> QED
    BY <2>1, <2>2, LostIs DEF LostBits
<1>12. /\ (Sound' <=> Sound) /\ (lost'.calls <=> lost.calls) /\ lost'.twice = lost.twice
       /\ lost'.freed = lost.freed /\ (~lost'.stale => ~lost.stale /\ ~Meets(t))
  BY <1>11 DEF LostBits, Sound
<1> HIDE DEF n, w, p, i
<1>13. left'[t] = s /\ \A o \in Hands : o # t => left'[o] = left[o]
  BY <1>6, LeftIs
<1>14. LotTyped'
  <2>1. left' = [o \in Hands |-> left'[o]] /\ \A o \in Hands : IsScript(o, left'[o])
    BY <1>6, <1>7, TypesKept
  <2>2. /\ lots \in Seq(DOMAIN lot) /\ parked \subseteq Spaces /\ at \in [Hands -> Nat]
        /\ events \in Seq([kind : {"parked", "unparked"}, place : Spaces, of : Watchers \cup {"other"}])
        /\ \A m \in DOMAIN lot : Distinct(lot[m].slots)
    BY DEF LotInv, LotTyped
  <2>3. \A m \in DOMAIN lot' : Distinct(lot'[m].slots)
    BY <1>9, <2>2
  <2>4. /\ lots' \in Seq(DOMAIN lot') /\ parked' \subseteq Spaces /\ at' \in [Hands -> Nat]
        /\ events' \in Seq([kind : {"parked", "unparked"}, place : Spaces, of : Watchers \cup {"other"}])
    BY <1>5, <1>9, <2>2
  <2> QED
    BY <1>9, <1>10, <1>11, <2>1, <2>3, <2>4 DEF LotTyped, LostBits
<1>15. \A o \in Hands : o # t /\ Within(o) => at[o] # n
  BY <1>8 DEF LotInv, LockFact
<1>16. \A o \in Hands : o # t => /\ Within(o)' <=> Within(o)
                                 /\ \A what : Turn(o, what)' <=> Turn(o, what)
                                 /\ Now(o)' = Now(o)
  BY <1>13 DEF Within, Turn, Rests, Now
<1>17. /\ ~Within(t)' /\ Turn(t, "back")' /\ ~Turn(t, "lock")' /\ ~Turn(t, "remove")' /\ ~Turn(t, "send")'
       /\ Now(t)' = x /\ ~Turn(t, "back") /\ Turn(t, "send")
  BY <1>1, <1>4, <1>7, <1>13 DEF Within, Turn, Rests, Now, Inside
<1>18. LockFact'
  <2>1. LockFact /\ at' = at
    BY <1>5 DEF LotInv
  <2>2. ASSUME NEW o \in Hands, o # t
        PROVE  /\ Within(o)' => at'[o] \in DOMAIN lot' /\ lot'[at'[o]].lock = o
               /\ Turn(o, "lock")' \/ Turn(o, "back")' => at'[o] \in DOMAIN lot'
    BY <1>9, <1>15, <1>16, <2>1, <2>2 DEF LockFact
  <2>3. at'[t] \in DOMAIN lot'
    BY <1>8, <1>9, <2>1 DEF n
  <2> QED
    BY <1>17, <2>2, <2>3 DEF LockFact
<1>19. ListFact' /\ AliveFact'
  <2>1. ListFact /\ AliveFact /\ LockFact /\ at' = at /\ lots' = lots
    BY <1>5 DEF LotInv
  <2>2. ListFact'
    BY <1>9, <1>12, <2>1 DEF ListFact
  <2>3. AliveFact'
    BY <1>9, <1>12, <1>16, <1>17, <2>1 DEF AliveFact, LockFact
  <2> QED
    BY <2>2, <2>3
<1>20. Listed' = Listed
  <2>1. lots # <<>> => Head(lots) \in DOMAIN lot
    BY DEF LotInv, LotTyped
  <2> QED
    BY <1>5, <1>9, <2>1 DEF Listed
<1>21. ParkedFact'
  <2>1. SameOps(left[t], s)
    BY <1>2, <1>7 DEF SameOps, Awaits
  <2> QED
    BY <1>5, <1>6, <1>12, <1>20, <2>1, ParkedStays
<1>22. \A what \in {"attach", "detach"} : Has(s, what) <=> Has(left[t], what)
  BY <1>1, <1>2, <1>4, <1>7 DEF Has, Asks
<1>23. \A q \in Watchers : \A what \in {"attach", "detach"} : Has(left'[q], what) <=> Has(left[q], what)
  BY <1>13, <1>22 DEF Hands
<1>24. ObserverFact' /\ ComesFact'
  <2>1. ObserverFact /\ ComesFact
    BY DEF LotInv
  <2>2. ComesFact'
    BY <1>10, <1>23, <2>1 DEF ComesFact
  <2>3. \A m \in DOMAIN lot : \A q : Observes(q, m)' <=> Observes(q, m)
    BY <1>9 DEF Observes
  <2>4. ObserverFact'
    BY <1>9, <1>10, <1>12, <1>23, <2>1, <2>3 DEF ObserverFact
  <2> QED
    BY <2>2, <2>4
<1>25. RemoveFact' /\ SendFact'
  <2>1. RemoveFact /\ SendFact /\ LockFact
    BY DEF LotInv
  <2>2. \A o \in Hands : Turn(o, "send") \/ Turn(o, "back") \/ Turn(o, "remove") => at[o] \in DOMAIN lot
    BY <2>1 DEF LockFact, Within, Turn, Inside, Now
  <2>3. RemoveFact'
    BY <1>5, <1>9, <1>16, <1>17, <2>1, <2>2 DEF RemoveFact
  <2>4. SendFact'
    <3> SUFFICES ASSUME Sound', NEW o \in Hands, Turn(o, "send")' \/ Turn(o, "back")'
                 PROVE  Now(o)'.i \in DOMAIN lot'[at'[o]].observers /\ ~lot'[at'[o]].dead
      BY DEF SendFact
    <3>1. CASE o = t
      <4>1. Now(t)'.i = Now(t).i /\ at'[t] = at[t]
        BY <1>1, <1>4, <1>5, <1>17 DEF i
      <4>2. Now(t).i \in DOMAIN lot[at[t]].observers /\ ~lot[at[t]].dead
        BY <1>12, <1>17, <2>1 DEF SendFact
      <4> QED
        BY <1>8, <1>9, <3>1, <4>1, <4>2 DEF n
    <3>2. CASE o # t
      <4>1. (Turn(o, "send") \/ Turn(o, "back")) /\ Now(o)' = Now(o) /\ at'[o] = at[o]
        BY <1>5, <1>16, <3>2
      <4> QED
        BY <1>9, <1>12, <2>1, <2>2, <4>1 DEF SendFact
    <3> QED
      BY <3>1, <3>2
  <2> QED
    BY <2>3, <2>4
<1>26. \A o \in Hands : o # t => (Turn(o, "back")' <=> Turn(o, "back")) /\ Now(o)' = Now(o)
  BY <1>16
<1>27. ~lost'.stale => \A o \in Hands : o # t /\ Turn(o, "back") /\ at[o] = n => Now(o).i # i
  BY <1>1, <1>12 DEF Meets, n, i
<1>28. AloneFact'
  <2> SUFFICES ASSUME Sound', ~lost'.stale, NEW o \in Hands, NEW q \in Hands,
                      Turn(o, "back")', Turn(q, "back")', at'[o] = at'[q], Now(o)'.i = Now(q)'.i
               PROVE  o = q
    BY DEF AloneFact
  <2>1. AloneFact /\ at' = at
    BY <1>5 DEF LotInv
  <2>2. CASE o # t /\ q # t
    BY <1>12, <1>26, <2>1, <2>2 DEF AloneFact
  <2>3. CASE o = t /\ q # t
    BY <1>4, <1>17, <1>26, <1>27, <2>1, <2>3 DEF n
  <2>4. CASE o # t /\ q = t
    BY <1>4, <1>17, <1>26, <1>27, <2>1, <2>4 DEF n
  <2> QED
    BY <2>2, <2>3, <2>4
<1>29. EventsFact'
  <2>1. EventsFact
    BY DEF LotInv
  <2>2. t # Events => left'[Events] = left[Events]
    BY <1>13 DEF Hands
  <2>3. t # Events => (Within(Events)' <=> Within(Events)) /\ (Turn(Events, "back")' <=> Turn(Events, "back"))
    BY <1>16 DEF Hands
  <2> QED
    BY <1>17, <2>1, <2>2, <2>3 DEF EventsFact, Rests
<1>30. OpenFact'
  <2> SUFFICES ASSUME Sound, ~lost'.stale, NEW q \in Watchers, screen'[q].shows # {}
               PROVE  \E j \in DOMAIN lot[n].observers : IsOpen(q, n, j)'
    <3>1. n' = n
      BY <1>5 DEF n
    <3> QED
      BY <1>8, <1>9, <1>12, <3>1 DEF OpenFact
  <2>0. n' = n /\ at' = at /\ lots' = lots
    BY <1>5 DEF n
  <2>1. lots = <<n>> /\ Listed = ToSet(lot[n].slots) /\ ~lot[n].dead
    BY <1>1, AtListed DEF n
  <2>2. i \in DOMAIN lot[n].observers
    BY <1>1, <1>17 DEF LotInv, SendFact, n, i
  <2>3. p \in Watchers
    BY <1>8, <2>2, WatcherIs DEF p, w
  <2>4. CASE q = p
    <3>1. screen[p].up /\ f.what = "show" /\ screen'[p].shows = Listed
      BY <1>10, <2>1, <2>3, <2>4 DEF e
    <3>2. \A o \in Hands : at'[o] = n /\ Turn(o, "back")' /\ Now(o)'.i = i => o = t
      BY <1>26, <1>27, <2>0
    <3>3. Opening(n, i)'
      <4>1. at'[t] = n'
        BY <2>0 DEF n
      <4>2. i = Now(t)'.i
        BY <1>4, <1>17
      <4>3. i' = i
        BY <1>4, <1>7, <1>13 DEF i, f
      <4> QED
        BY <1>17, <4>1, <4>2, <4>3 DEF Opening
    <3>4. lot'[n].observers[i].device = p
      BY <1>8, <1>9 DEF p, w
    <3>5. i' = i
      BY <1>4, <1>7, <1>13 DEF i, f
    <3>6. IsOpen(q, n, i)'
      BY <1>4, <1>10, <1>17, <1>20, <2>0, <2>1, <2>3, <2>4, <3>1, <3>2, <3>3, <3>4, <3>5 DEF IsOpen
    <3> QED
      BY <2>2, <3>5, <3>6
  <2>5. CASE q # p
    <3>1. screen'[q].shows = screen[q].shows /\ screen'[q].up = screen[q].up
      BY <1>10, <2>5
    <3>2. PICK m \in DOMAIN lot : \E j \in DOMAIN lot[m].observers : IsOpen(q, m, j)
      BY <1>12, <3>1 DEF LotInv, OpenFact
    <3>3. PICK j \in DOMAIN lot[m].observers : IsOpen(q, m, j)
      BY <3>2
    <3>4. m = n
      BY <2>1, <3>3 DEF IsOpen
    <3>5. j # i
      BY <2>5, <3>3, <3>4 DEF IsOpen, p, w
    <3>6. \A o \in Hands : at'[o] = n /\ Turn(o, "back")' /\ Now(o)'.i = j <=>
                           at[o] = n /\ Turn(o, "back") /\ Now(o).i = j
      BY <1>4, <1>17, <1>26, <2>0, <3>5
    <3>7. \A o \in Hands : at[o] = n /\ Turn(o, "back") => Now(o)' = Now(o)
      BY <1>17, <1>26
    <3>8. Opening(n, j)' <=> Opening(n, j)
      BY <2>0, <3>6 DEF Opening
    <3>9. ToEvents(j) => ToEvents(j)'
      <4>1. CASE t = Events
        BY <1>1, <1>7, <1>13, <1>17, <3>5, <4>1 DEF ToEvents, Rests, i
      <4>2. CASE t # Events
        BY <1>13, <4>2 DEF ToEvents, Turn, Rests, Now, Hands
      <4> QED
        BY <4>1, <4>2
    <3>10. lot'[n].observers = lot[n].observers
      BY <1>8, <1>9
    <3>11. IsOpen(q, n, j)'
      BY <1>20, <2>0, <2>1, <3>1, <3>3, <3>4, <3>6, <3>7, <3>8, <3>9, <3>10 DEF IsOpen
    <3> QED
      BY <3>4, <3>11
  <2> QED
    BY <2>4, <2>5
<1> QED
  BY <1>14, <1>18, <1>19, <1>21, <1>24, <1>25, <1>28, <1>29, <1>30 DEF LotInv

\* The observer that is written is the one the menu was sent to, and is noted as what it shows.
LEMMA BackFromSendKeeps ==
    ASSUME LotInv, NEW t \in Hands, BackFromSend(t)
    PROVE  LotInv'
<1> DEFINE f == Head(left[t])
           s == Tail(left[t])
           n == at[t]
           i == f.i
           w == lot[n].observers
           u == [j \in DOMAIN w |-> IF j = i THEN [w[j] EXCEPT !.open = f.what = "show"] ELSE w[j]]
           v == [lot[n] EXCEPT !.lock = t, !.observers = u]
<1>1. ~Rests(t) /\ f.do = "back" /\ lot[n].lock = Free /\ Next1Is(t, <<>>) /\ Now(t) = f /\ Turn(t, "back")
  BY DEF BackFromSend, Turn, Now, Mine
<1>2. /\ IsScript(t, s) /\ s # <<>> /\ left[t] # <<>>
      /\ Head(s).do \in Inside \ {"send", "back", "remove"}
      /\ Final(s) = Final(left[t])
      /\ Steps(left[t]) = {f} \cup Steps(s)
      /\ IsPlainStep(f)
  BY <1>1, SendScript
<1>3. i \in Nat \ {0} /\ f.what \in {"show", "hide"}
  BY <1>1, <1>2 DEF IsPlainStep
<1>4. n \in DOMAIN lot
  BY <1>1 DEF LotInv, LockFact
<1>5. left' = [left EXCEPT ![t] = s]
  BY <1>1, NextNone
<1>6. lot[n] \in ALot /\ w \in Seq(AnObserver) /\ DOMAIN w = 1..Len(w) /\ Len(w) \in Nat
      /\ Distinct(lot[n].slots)
  BY <1>4, LotIs DEF LotInv, LotTyped
<1>7. /\ u \in Seq(AnObserver) /\ DOMAIN u = DOMAIN w
      /\ \A j \in DOMAIN w : /\ u[j].device = w[j].device
                             /\ u[j].open = IF j = i THEN f.what = "show" ELSE w[j].open
  <2>1. \A j \in DOMAIN w : w[j] \in AnObserver
    BY <1>6
  <2> HIDE DEF w, f, i
  <2>2. \A j \in DOMAIN w : /\ u[j] \in AnObserver /\ u[j].device = w[j].device
                            /\ u[j].open = IF j = i THEN f.what = "show" ELSE w[j].open
    BY <2>1 DEF AnObserver
  <2>3. DOMAIN u = 1..Len(w) /\ u = [j \in 1..Len(w) |-> u[j]]
    BY <1>6
  <2> HIDE DEF u
  <2>4. u \in Seq(AnObserver)
    <3>1. \A j \in 1..Len(w) : u[j] \in AnObserver
      BY <1>6, <2>2
    <3>2. [j \in 1..Len(w) |-> u[j]] \in Seq(AnObserver)
      BY <1>6, <3>1
    <3> QED
      BY ONLY <2>3, <3>2, Zenon
  <2> QED
    BY <1>6, <2>2, <2>3, <2>4
<1>8. lot' = [lot EXCEPT ![n] = v]
  BY DEF BackFromSend, Now
<1> HIDE DEF u
<1>9. /\ v \in ALot /\ v.lock = t /\ v.dead = lot[n].dead /\ v.slots = lot[n].slots /\ v.observers = u
  BY <1>4, <1>6, <1>7 DEF ALot
<1> HIDE DEF v
<1>10. /\ lost' = [lost EXCEPT !.freed = @ \/ lot[n].dead, !.moved = @ \/ i > Len(w)]
       /\ UNCHANGED <<lots, at, screen, parked, events>>
  BY DEF BackFromSend, Mine, Now
<1>11. /\ lost' \in [LostBits -> BOOLEAN]
       /\ lost'.twice = lost.twice /\ lost'.calls = lost.calls /\ lost'.stale = lost.stale
       /\ (~lost'.freed => ~lost.freed /\ ~lot[n].dead) /\ (~lost'.moved => ~lost.moved)
  <2>1. lost \in [LostBits -> BOOLEAN]
    BY DEF LotInv, LotTyped, LostBits
  <2>2. lot[n].dead \in BOOLEAN /\ (i > Len(w)) \in BOOLEAN
    BY <1>4, LotIs
  <2> HIDE DEF n, w, i
  <2> DEFINE a == lost.freed \/ lot[n].dead
             b == lost.moved \/ i > Len(w)
  <2>3. lost' = [lost EXCEPT !["freed"] = a, !["moved"] = b]
    BY <1>10
  <2>4. a \in BOOLEAN /\ b \in BOOLEAN
    BY <2>1, <2>2 DEF LostBits
  <2> HIDE DEF a, b
  <2>5. lost' \in [LostBits -> BOOLEAN] /\ lost'["freed"] = a /\ lost'["moved"] = b
        /\ lost'["twice"] = lost["twice"] /\ lost'["calls"] = lost["calls"] /\ lost'["stale"] = lost["stale"]
    BY <2>1, <2>3, <2>4 DEF LostBits
  <2> QED
    BY <2>5 DEF a, b
<1>12. Sound' => Sound
  BY <1>11 DEF Sound
<1>13. screen' \in [Watchers -> AScreen]
  BY <1>10 DEF LotInv, LotTyped
<1> HIDE DEF n, w, s, f, i
<1>14. /\ LotTyped' /\ DOMAIN lot' = DOMAIN lot /\ lot'[n] = v
       /\ \A m \in DOMAIN lot : m # n => lot'[m] = lot[m]
       /\ left'[t] = s /\ \A o \in Hands : o # t => left'[o] = left[o]
  <2>1. Distinct(v.slots) /\ v \in ALot /\ IsScript(t, s) /\ lost' \in [LostBits -> BOOLEAN]
        /\ UNCHANGED <<lots, at, parked, events>>
    BY <1>2, <1>6, <1>9, <1>10, <1>11
  <2> QED
    BY <1>4, <1>5, <1>8, <1>13, <2>1, ChangeTyped
<1>15. \A o \in Hands : o # t /\ Within(o) => at[o] # n
  BY <1>1, LotAssumption DEF LotInv, LockFact, Hands, Events, Free
<1>16. \A o \in Hands : o # t => /\ Within(o)' <=> Within(o)
                                 /\ \A what : Turn(o, what)' <=> Turn(o, what)
                                 /\ Now(o)' = Now(o)
  BY <1>14 DEF Within, Turn, Rests, Now
<1>17. /\ Within(t)' /\ ~Turn(t, "lock")' /\ ~Turn(t, "back")' /\ ~Turn(t, "remove")' /\ ~Turn(t, "send")'
  BY <1>2, <1>14 DEF Within, Turn, Rests, Now, Inside
<1>18. at' = at /\ lots' = lots /\ n' = n /\ n = at[t]
  BY <1>10 DEF n
<1>19. \A m \in DOMAIN lot : /\ lot'[m].slots = lot[m].slots /\ lot'[m].dead = lot[m].dead
                             /\ DOMAIN lot'[m].observers = DOMAIN lot[m].observers
                             /\ \A j \in DOMAIN lot[m].observers :
                                   lot'[m].observers[j].device = lot[m].observers[j].device
  BY <1>7, <1>9, <1>14 DEF w
<1>20. LockFact'
  <2>1. LockFact
    BY DEF LotInv
  <2>2. ASSUME NEW o \in Hands, o # t
        PROVE  /\ Within(o)' => at'[o] \in DOMAIN lot' /\ lot'[at'[o]].lock = o
               /\ Turn(o, "lock")' \/ Turn(o, "back")' => at'[o] \in DOMAIN lot'
    BY <1>14, <1>15, <1>16, <1>18, <2>1, <2>2 DEF LockFact
  <2>3. at'[t] \in DOMAIN lot' /\ lot'[at'[t]].lock = t
    BY <1>4, <1>9, <1>14, <1>18
  <2> QED
    BY <1>17, <2>2, <2>3 DEF LockFact
<1>21. ListFact' /\ AliveFact'
  <2>1. ListFact /\ AliveFact /\ LockFact
    BY DEF LotInv
  <2>2. ListFact'
    BY <1>11, <1>14, <1>18, <1>19, <2>1 DEF ListFact
  <2>3. ~lost'.freed => ~lot'[at'[t]].dead
    BY <1>4, <1>11, <1>18, <1>19
  <2>4. ASSUME NEW o \in Hands, o # t, Within(o)', ~lost'.freed PROVE ~lot'[at'[o]].dead
    BY <1>11, <1>16, <1>18, <1>19, <2>1, <2>4 DEF AliveFact, LockFact
  <2>5. AliveFact'
    BY <2>3, <2>4 DEF AliveFact
  <2> QED
    BY <2>2, <2>5
<1>22. Listed' = Listed
  <2>1. lots # <<>> => Head(lots) \in DOMAIN lot
    BY DEF LotInv, LotTyped
  <2> QED
    BY <1>18, <1>19, <2>1 DEF Listed
<1>23. ParkedFact'
  <2>1. SameOps(left[t], s)
    BY <1>2 DEF SameOps, Awaits
  <2> QED
    BY <1>5, <1>10, <1>11, <1>12, <1>22, <2>1, ParkedStays
<1>24. \A q \in Watchers : \A what \in {"attach", "detach"} : Has(left'[q], what) <=> Has(left[q], what)
  <2>1. \A what \in {"attach", "detach"} : Has(s, what) <=> Has(left[t], what)
    BY <1>1, <1>2 DEF Has, Asks
  <2> QED
    BY <1>14, <2>1 DEF Hands
<1>25. ObserverFact' /\ ComesFact'
  <2>1. ObserverFact /\ ComesFact
    BY DEF LotInv
  <2>2. ComesFact'
    BY <1>10, <1>24, <2>1 DEF ComesFact
  <2>3. \A m \in DOMAIN lot : \A q : Observes(q, m)' <=> Observes(q, m)
    BY <1>19 DEF Observes
  <2>4. \A m \in DOMAIN lot : (\A j, k \in DOMAIN lot[m].observers :
              lot[m].observers[j].device = lot[m].observers[k].device => j = k) =>
           (\A j, k \in DOMAIN lot'[m].observers :
              lot'[m].observers[j].device = lot'[m].observers[k].device => j = k)
    BY <1>19
  <2>5. ObserverFact'
    BY <1>10, <1>12, <1>14, <1>19, <1>24, <2>1, <2>3, <2>4 DEF ObserverFact
  <2> QED
    BY <2>2, <2>5
<1>26. RemoveFact' /\ SendFact'
  <2>1. RemoveFact /\ SendFact /\ LockFact
    BY DEF LotInv
  <2>2. \A o \in Hands : Turn(o, "send") \/ Turn(o, "back") => at[o] \in DOMAIN lot
    BY <2>1 DEF LockFact, Within, Turn, Inside, Now
  <2>3. \A o \in Hands : o # t /\ Turn(o, "remove") => at[o] \in DOMAIN lot /\ at[o] # n
    BY <1>15, <2>1 DEF LockFact, Within, Turn, Inside, Now
  <2>4. RemoveFact'
    BY <1>14, <1>16, <1>17, <1>18, <2>1, <2>3 DEF RemoveFact
  <2>5. SendFact'
    BY <1>12, <1>16, <1>17, <1>18, <1>19, <2>1, <2>2 DEF SendFact
  <2> QED
    BY <2>4, <2>5
<1>27. AloneFact'
  <2>1. AloneFact
    BY DEF LotInv
  <2> QED
    BY <1>11, <1>12, <1>16, <1>17, <1>18, <2>1 DEF AloneFact
<1>28. EventsFact'
  <2>1. EventsFact
    BY DEF LotInv
  <2>2. t # Events => left'[Events] = left[Events]
    BY <1>14 DEF Hands
  <2>3. t # Events => (Within(Events)' <=> Within(Events)) /\ (Turn(Events, "back")' <=> Turn(Events, "back"))
    BY <1>16 DEF Hands
  <2> QED
    BY <1>17, <2>1, <2>2, <2>3 DEF EventsFact, Rests
<1>29. OpenFact'
  <2> SUFFICES ASSUME Sound', ~lost.stale, NEW q \in Watchers, screen[q].shows # {}
               PROVE  \E m \in DOMAIN lot : \E j \in DOMAIN lot[m].observers : IsOpen(q, m, j)'
    BY <1>10, <1>11, <1>14, <1>19 DEF OpenFact
  <2>1. lots = <<n>>
    BY <1>4, <1>11, <1>12 DEF LotInv, ListFact, Sound
  <2>2. PICK m \in DOMAIN lot : \E j \in DOMAIN lot[m].observers : IsOpen(q, m, j)
    BY <1>12 DEF LotInv, OpenFact
  <2>3. PICK j \in DOMAIN lot[m].observers : IsOpen(q, m, j)
    BY <2>2
  <2>4. m = n
    BY <2>1, <2>3 DEF IsOpen
  <2>5. /\ lot'[n].observers[j].device = q /\ screen'[q].up /\ lots' = <<n>>
        /\ screen'[q].shows = screen[q].shows
    BY <1>4, <1>10, <1>18, <1>19, <2>1, <2>3, <2>4 DEF IsOpen
  <2>6. CASE j = i
    <3>1. Turn(t, "back") /\ at[t] = n /\ Now(t).i = j /\ Now(t).what = f.what
      BY <1>1, <1>18, <2>6 DEF i
    <3>2. f.what = "show" /\ screen[q].shows = Listed
      BY <2>3, <2>4, <3>1 DEF IsOpen, Opening
    <3>3. \A o \in Hands : Turn(o, "back") /\ at[o] = n /\ Now(o).i = j => o = t
      BY <1>12, <3>1 DEF LotInv, AloneFact
    <3>4. \A o \in Hands : ~(Turn(o, "back")' /\ at'[o] = n /\ Now(o)'.i = j)
      BY <1>16, <1>17, <1>18, <3>3
    <3>5. lot'[n].observers[j].open
      BY <1>7, <1>9, <1>14, <2>3, <2>4, <2>6, <3>2 DEF w
    <3>6. IsOpen(q, n, j)'
      BY <1>18, <1>22, <2>5, <3>2, <3>4, <3>5 DEF IsOpen
    <3>7. IsOpen(q, m, j)'
      BY <1>18, <2>4, <3>6
    <3> QED
      BY <2>3, <3>7
  <2>7. CASE j # i
    <3>1. \A o \in Hands : at'[o] = n /\ Turn(o, "back")' /\ Now(o)'.i = j <=>
                           at[o] = n /\ Turn(o, "back") /\ Now(o).i = j
      BY <1>1, <1>16, <1>17, <1>18, <2>7 DEF i
    <3>2. \A o \in Hands : at[o] = n /\ Turn(o, "back") /\ Now(o).i = j => Now(o)' = Now(o)
      BY <1>1, <1>16, <2>7 DEF i
    <3>3. Opening(n, j)' <=> Opening(n, j)
      BY <1>18, <3>1 DEF Opening
    <3>4. ToEvents(j) => ToEvents(j)'
      <4>1. CASE t = Events
        BY <1>1, <1>2, <1>14, <4>1 DEF ToEvents, Rests, Turn
      <4>2. CASE t # Events
        BY <1>14, <4>2 DEF ToEvents, Turn, Rests, Now, Hands
      <4> QED
        BY <4>1, <4>2
    <3>5. lot'[n].observers[j].open = lot[n].observers[j].open
      BY <1>7, <1>9, <1>14, <2>3, <2>4, <2>7 DEF w
    <3>6. IsOpen(q, n, j)'
      BY <1>18, <1>22, <2>3, <2>4, <2>5, <3>1, <3>2, <3>3, <3>4, <3>5 DEF IsOpen
    <3>7. IsOpen(q, m, j)'
      BY <1>18, <2>4, <3>6
    <3> QED
      BY <2>3, <3>7
  <2> QED
    BY <2>6, <2>7
<1> QED
  BY <1>14, <1>20, <1>21, <1>23, <1>25, <1>26, <1>27, <1>28, <1>29 DEF LotInv

\* The lot that is made is the one in the list.
LEMMA AddParkinglotKeeps ==
    ASSUME LotInv, NEW t \in Hands, AddParkinglot(t)
    PROVE  LotInv'
<1> DEFINE f == Head(left[t])
           s == Tail(left[t])
           k == Len(lot) + 1
<1>1. ~Rests(t) /\ f.do = "add" /\ Next1Is(t, <<>>) /\ ~Within(t)
  BY DEF AddParkinglot, Turn, Now, Within, Inside
<1>2. /\ left' = [left EXCEPT ![t] = s] /\ left[t] # <<>> /\ IsScript(t, s)
      /\ s # <<>> => Follows(f, Head(s)) /\ Final(s) = Final(left[t])
      /\ s = <<>> => f.do \notin StaysIn \cup {"add"}
      /\ Steps(left[t]) = {f} \cup Steps(s)
  BY <1>1, Popped
<1> HIDE DEF s, f
<1>3. s # <<>> /\ Head(s).do = "lock" /\ Final(s) = Final(left[t])
  BY <1>1, <1>2 DEF Follows
<1>4. /\ lot' = Append(lot, NewLot) /\ lots' = <<k>> \o lots /\ at' = [at EXCEPT ![t] = k]
      /\ lost' = [lost EXCEPT !.twice = @ \/ lots # <<>>] /\ UNCHANGED <<screen, parked, events>>
  BY DEF AddParkinglot
<1>5. NewLot \in ALot /\ NewLot.observers = <<>> /\ NewLot.slots = <<>> /\ ~NewLot.dead
  BY DEF NewLot, ALot
<1>6. lot \in Seq(ALot) /\ lots \in Seq(DOMAIN lot) /\ at \in [Hands -> Nat]
  BY DEF LotInv, LotTyped
<1>7. /\ lot' \in Seq(ALot) /\ DOMAIN lot' = DOMAIN lot \cup {k} /\ k \notin DOMAIN lot /\ k \in Nat
      /\ lot'[k] = NewLot /\ \A m \in DOMAIN lot : lot'[m] = lot[m]
  <2>1. /\ DOMAIN lot = 1..Len(lot) /\ Len(lot) \in Nat /\ lot' \in Seq(ALot) /\ DOMAIN lot' = 1..k
        /\ lot'[k] = NewLot /\ \A m \in 1..Len(lot) : lot'[m] = lot[m]
    BY <1>4, <1>5, <1>6
  <2>2. 1..k = (1..Len(lot)) \cup {k} /\ k \notin 1..Len(lot) /\ k \in Nat
    BY <2>1
  <2> QED
    BY <2>1, <2>2
<1> HIDE DEF k
<1>8. lots' \in Seq(DOMAIN lot') /\ at' \in [Hands -> Nat] /\ (lots = <<>> => lots' = <<k>>)
  <2>1. lots \in Seq(DOMAIN lot') /\ <<k>> \in Seq(DOMAIN lot')
    BY <1>6, <1>7
  <2>2. lots' \in Seq(DOMAIN lot')
    BY <1>4, <2>1
  <2>3. <<k>> \o <<>> = <<k>>
    OBVIOUS
  <2>4. lots = <<>> => lots' = <<k>>
    BY ONLY <1>4, <2>3
  <2>5. at' \in [Hands -> Nat]
    BY <1>4, <1>6, <1>7
  <2> QED
    BY <2>2, <2>4, <2>5
<1>9. at'[t] = k /\ \A o \in Hands : o # t => at'[o] = at[o]
  BY <1>4, <1>6
<1>10. left'[t] = s /\ \A o \in Hands : o # t => left'[o] = left[o]
  BY <1>2, LeftIs
<1>11. /\ lost' \in [LostBits -> BOOLEAN]
       /\ \A g \in LostBits : IF g = "twice" THEN lost'[g] = (lost[g] \/ lots # <<>>) ELSE lost'[g] = lost[g]
  <2>1. (lots # <<>>) \in BOOLEAN
    OBVIOUS
  <2>2. lost' = [lost EXCEPT !["twice"] = @ \/ lots # <<>>]
    BY <1>4
  <2> QED
    BY <2>1, <2>2, LostIs DEF LostBits
<1>12. /\ (~lost'.twice => ~lost.twice /\ lots = <<>>) /\ (Sound' => Sound /\ lots = <<>>)
       /\ lost'.freed = lost.freed /\ lost'.calls = lost.calls /\ lost'.stale = lost.stale
  BY <1>11 DEF LostBits, Sound
<1>13. LotTyped'
  <2>1. left' = [o \in Hands |-> left'[o]] /\ \A o \in Hands : IsScript(o, left'[o])
    BY <1>2, TypesKept
  <2>2. /\ parked \subseteq Spaces /\ screen \in [Watchers -> AScreen]
        /\ events \in Seq([kind : {"parked", "unparked"}, place : Spaces, of : Watchers \cup {"other"}])
        /\ \A m \in DOMAIN lot : Distinct(lot[m].slots)
    BY DEF LotInv, LotTyped
  <2>3. \A m \in DOMAIN lot' : Distinct(lot'[m].slots)
    BY <1>5, <1>7, <2>2 DEF Distinct
  <2>4. /\ parked' \subseteq Spaces /\ screen' \in [Watchers -> AScreen]
        /\ events' \in Seq([kind : {"parked", "unparked"}, place : Spaces, of : Watchers \cup {"other"}])
    BY <1>4, <2>2
  <2> QED
    BY <1>7, <1>8, <1>11, <2>1, <2>3, <2>4 DEF LotTyped, LostBits
<1>14. /\ ~Within(t)' /\ ~Turn(t, "back")' /\ ~Turn(t, "send")' /\ ~Turn(t, "remove")'
       /\ ~Turn(t, "back") /\ ~Turn(t, "send")
  BY <1>1, <1>3, <1>10 DEF Within, Turn, Rests, Now, Inside, f
<1>15. \A o \in Hands : o # t => /\ Within(o)' <=> Within(o)
                                 /\ \A what : Turn(o, what)' <=> Turn(o, what)
                                 /\ Now(o)' = Now(o)
  BY <1>10 DEF Within, Turn, Rests, Now
<1>16. LockFact'
  <2>1. LockFact
    BY DEF LotInv
  <2>2. ASSUME NEW o \in Hands, o # t
        PROVE  /\ Within(o)' => at'[o] \in DOMAIN lot' /\ lot'[at'[o]].lock = o
               /\ Turn(o, "lock")' \/ Turn(o, "back")' => at'[o] \in DOMAIN lot'
    BY <1>7, <1>9, <1>15, <2>1, <2>2 DEF LockFact
  <2>3. at'[t] \in DOMAIN lot'
    BY <1>7, <1>9
  <2> QED
    BY <1>14, <2>2, <2>3 DEF LockFact
<1>17. ~lost'.twice => \A m \in DOMAIN lot' : ~lot'[m].dead => m = k
  <2>1. ~lost'.twice => \A m \in DOMAIN lot : ~lot[m].dead => lots = <<m>>
    BY <1>12 DEF LotInv, ListFact
  <2>2. \A m : <<m>> # <<>>
    OBVIOUS
  <2>3. ~lost'.twice => \A m \in DOMAIN lot : lot[m].dead
    BY <1>12, <2>1, <2>2
  <2> QED
    BY <1>7, <2>3
<1>18. ListFact'
  <2>1. ~lost'.twice => lots' = <<k>>
    BY <1>8, <1>12
  <2>2. lots' = <<k>> => lots' = <<Head(lots')>>
    OBVIOUS
  <2> QED
    BY <1>17, <2>1, <2>2 DEF ListFact
<1>19. AliveFact'
  <2>1. AliveFact /\ LockFact
    BY DEF LotInv
  <2>2. ASSUME NEW o \in Hands, Within(o)', ~lost'.freed PROVE ~lot'[at'[o]].dead
    <3>1. o # t
      BY <1>14, <2>2
    <3> QED
      BY <1>7, <1>9, <1>12, <1>15, <2>1, <2>2, <3>1 DEF AliveFact, LockFact
  <2> QED
    BY <2>2 DEF AliveFact
<1>20. Sound' => Listed = {} /\ Listed' = {}
  <2>1. Sound' => lots = <<>> /\ lots' = <<k>>
    BY <1>8, <1>12
  <2>2. lots' = <<k>> => Listed' = ToSet(lot'[k].slots)
    <3>1. lots' = <<k>> => lots' # <<>> /\ Head(lots') = k
      OBVIOUS
    <3> QED
      BY <3>1 DEF Listed
  <2>3. lots = <<>> => Listed = {}
    BY DEF Listed
  <2>4. ToSet(<<>>) = {}
    BY DEF ToSet
  <2> QED
    BY <1>5, <1>7, <2>1, <2>2, <2>3, <2>4
<1>21. ParkedFact'
  <2>1. SameOps(left[t], s)
    BY <1>2, <1>3 DEF SameOps, Awaits
  <2> QED
    BY <1>2, <1>4, <1>12, <1>20, <2>1, ParkedStays
<1>22. \A q \in Watchers : \A what \in {"attach", "detach"} : Has(left'[q], what) <=> Has(left[q], what)
  <2>1. \A what \in {"attach", "detach"} : Has(s, what) <=> Has(left[t], what)
    BY <1>1, <1>2 DEF Has, Asks
  <2> QED
    BY <1>10, <2>1 DEF Hands
<1>23. ObserverFact' /\ ComesFact'
  <2>1. ComesFact
    BY DEF LotInv
  <2>2. ComesFact'
    BY <1>4, <1>22, <2>1 DEF ComesFact
  <2>3. ASSUME Sound', NEW m \in DOMAIN lot', ~lot'[m].dead
        PROVE  DOMAIN lot'[m].observers = {} /\ \A q : ~Observes(q, m)'
    <3>1. DOMAIN lot'[m].observers = {}
      BY <1>5, <1>7, <1>17, <2>3 DEF Sound
    <3> QED
      BY <3>1 DEF Observes
  <2>4. ObserverFact'
    BY <2>3 DEF ObserverFact
  <2> QED
    BY <2>2, <2>4
<1>24. RemoveFact' /\ SendFact'
  <2>1. RemoveFact /\ SendFact /\ LockFact
    BY DEF LotInv
  <2>2. \A o \in Hands : Turn(o, "send") \/ Turn(o, "back") \/ Turn(o, "remove") => at[o] \in DOMAIN lot
    BY <2>1 DEF LockFact, Within, Turn, Inside, Now
  <2>3. RemoveFact'
    BY <1>7, <1>9, <1>14, <1>15, <2>1, <2>2 DEF RemoveFact
  <2>4. SendFact'
    BY <1>7, <1>9, <1>12, <1>14, <1>15, <2>1, <2>2 DEF SendFact
  <2> QED
    BY <2>3, <2>4
<1>25. AloneFact'
  <2>1. AloneFact
    BY DEF LotInv
  <2> QED
    BY <1>9, <1>12, <1>14, <1>15, <2>1 DEF AloneFact
<1>26. EventsFact'
  <2>1. EventsFact
    BY DEF LotInv
  <2>2. CASE t = Events
    BY <1>1, <1>3, <1>10, <1>14, <2>1, <2>2 DEF EventsFact, Rests
  <2>3. CASE t # Events
    <3>1. Events \in Hands /\ left'[Events] = left[Events]
      BY <1>10, <2>3 DEF Hands
    <3> QED
      BY <1>15, <2>1, <2>3, <3>1 DEF EventsFact, Rests
  <2> QED
    BY <2>2, <2>3
<1>27. OpenFact'
  <2>1. Sound' /\ ~lost'.stale => \A p \in Watchers : screen[p].shows = {}
    BY <1>12 DEF LotInv, OpenFact, IsOpen
  <2> QED
    BY <1>4, <2>1 DEF OpenFact
<1> QED
  BY <1>13, <1>16, <1>18, <1>19, <1>21, <1>23, <1>24, <1>25, <1>26, <1>27 DEF LotInv

\* The lot that goes was the one in the list, and has no observers.
LEMMA RemoveParkinglotKeeps ==
    ASSUME LotInv, NEW t \in Hands, RemoveParkinglot(t)
    PROVE  LotInv'
<1> DEFINE f == Head(left[t])
           s == Tail(left[t])
           n == at[t]
           v == [lot[n] EXCEPT !.lock = Free, !.dead = TRUE]
<1>1. ~Rests(t) /\ f.do = "remove" /\ Next1Is(t, <<>>) /\ Within(t) /\ Turn(t, "remove")
      /\ ~Turn(t, "back") /\ ~Turn(t, "send")
  BY DEF RemoveParkinglot, Turn, Now, Within, Inside
<1>2. /\ left' = [left EXCEPT ![t] = s] /\ left[t] # <<>> /\ IsScript(t, s)
      /\ s # <<>> => Follows(f, Head(s)) /\ Final(s) = Final(left[t])
      /\ s = <<>> => Final(left[t]) = f
      /\ Steps(left[t]) = {f} \cup Steps(s)
      /\ t = Events => s = <<>>
  BY <1>1, Popped DEF StaysIn
<1> HIDE DEF s, f
<1>3. s # <<>> => Head(s).do \notin Inside \cup {"lock", "send", "back", "remove"}
  BY <1>1, <1>2 DEF Follows, StaysIn
<1>4. n \in DOMAIN lot /\ lot[n].lock = t /\ lot[n].observers = <<>>
  BY <1>1 DEF LotInv, LockFact, RemoveFact
<1>5. /\ lot' = [lot EXCEPT ![n] = v] /\ lots' = RemoveFirst(lots, n)
      /\ lost' = [lost EXCEPT !.calls = @ \/ lot[n].slots # <<>>]
      /\ UNCHANGED <<at, screen, parked, events>>
  BY DEF RemoveParkinglot, Mine
<1>6. lot[n] \in ALot /\ Distinct(lot[n].slots)
  BY <1>4, LotIs DEF LotInv, LotTyped
<1>7. /\ v \in ALot /\ v.lock = Free /\ v.dead /\ v.slots = lot[n].slots
      /\ v.observers = lot[n].observers
  BY <1>4, <1>6 DEF ALot
<1> HIDE DEF v
<1>8. /\ lot' \in Seq(ALot) /\ DOMAIN lot' = DOMAIN lot
      /\ lot'[n] = v /\ \A m \in DOMAIN lot : m # n => lot'[m] = lot[m]
  BY <1>4, <1>5, <1>7, LotSet
<1>9. /\ lots' \in Seq(DOMAIN lot) /\ (lots = <<>> => lots' = <<>>) /\ (lots = <<n>> => lots' = <<>>)
      /\ ((\A i \in 1..Len(lots) : lots[i] # n) => lots' = lots)
  <2>1. lots \in Seq(DOMAIN lot)
    BY DEF LotInv, LotTyped
  <2> HIDE DEF n
  <2> QED
    BY <1>5, <2>1, RemovedIs
<1>10. left'[t] = s /\ \A o \in Hands : o # t => left'[o] = left[o]
  BY <1>2, LeftIs
<1>11. /\ lost' \in [LostBits -> BOOLEAN]
       /\ \A g \in LostBits : IF g = "calls" THEN lost'[g] = (lost[g] \/ lot[n].slots # <<>>) ELSE lost'[g] = lost[g]
  <2>1. (lot[n].slots # <<>>) \in BOOLEAN
    OBVIOUS
  <2>2. lost' = [lost EXCEPT !["calls"] = @ \/ lot[n].slots # <<>>]
    BY <1>5
  <2> HIDE DEF n
  <2> QED
    BY <2>1, <2>2, LostIs DEF LostBits
<1>12. /\ lost'.twice = lost.twice /\ (Sound' <=> Sound) /\ (~lost'.calls => ~lost.calls /\ lot[n].slots = <<>>)
       /\ lost'.freed = lost.freed /\ lost'.stale = lost.stale
  BY <1>11 DEF LostBits, Sound
<1>13. at' = at /\ n' = n /\ n = at[t]
  BY <1>5
<1> HIDE DEF n
<1>14. LotTyped'
  <2>1. left' = [o \in Hands |-> left'[o]] /\ \A o \in Hands : IsScript(o, left'[o])
    BY <1>2, TypesKept
  <2>2. /\ parked \subseteq Spaces /\ screen \in [Watchers -> AScreen] /\ at \in [Hands -> Nat]
        /\ events \in Seq([kind : {"parked", "unparked"}, place : Spaces, of : Watchers \cup {"other"}])
        /\ \A m \in DOMAIN lot : Distinct(lot[m].slots)
    BY DEF LotInv, LotTyped
  <2>3. \A m \in DOMAIN lot' : Distinct(lot'[m].slots)
    BY <1>7, <1>8, <2>2
  <2>4. /\ parked' \subseteq Spaces /\ screen' \in [Watchers -> AScreen] /\ at' \in [Hands -> Nat]
        /\ events' \in Seq([kind : {"parked", "unparked"}, place : Spaces, of : Watchers \cup {"other"}])
        /\ lots' \in Seq(DOMAIN lot')
    BY <1>5, <1>8, <1>9, <2>2
  <2> QED
    BY <1>8, <1>11, <2>1, <2>3, <2>4 DEF LotTyped, LostBits
<1>15. \A o \in Hands : o # t /\ Within(o) => at[o] # n
  BY <1>4 DEF LotInv, LockFact
<1>16. \A o \in Hands : o # t => /\ Within(o)' <=> Within(o)
                                 /\ \A what : Turn(o, what)' <=> Turn(o, what)
                                 /\ Now(o)' = Now(o)
  BY <1>10 DEF Within, Turn, Rests, Now
<1>17. /\ ~Within(t)' /\ ~Turn(t, "lock")' /\ ~Turn(t, "back")' /\ ~Turn(t, "remove")' /\ ~Turn(t, "send")'
  BY <1>3, <1>10 DEF Within, Turn, Rests, Now
<1>18. LockFact'
  <2>1. LockFact
    BY DEF LotInv
  <2>2. ASSUME NEW o \in Hands, o # t
        PROVE  /\ Within(o)' => at'[o] \in DOMAIN lot' /\ lot'[at'[o]].lock = o
               /\ Turn(o, "lock")' \/ Turn(o, "back")' => at'[o] \in DOMAIN lot'
    BY <1>8, <1>13, <1>15, <1>16, <2>1, <2>2 DEF LockFact
  <2> QED
    BY <1>17, <2>2 DEF LockFact
<1>19. Sound => lots = <<n>> /\ Listed = ToSet(lot[n].slots) /\ \A m \in DOMAIN lot : ~lot[m].dead => m = n
  <2>1. Sound => lots = <<n>> /\ Listed = ToSet(lot[n].slots)
    BY <1>1, <1>13, AtListed
  <2>2. Sound => \A m \in DOMAIN lot : ~lot[m].dead => lots = <<m>>
    BY DEF LotInv, ListFact, Sound
  <2>3. \A m : <<m>> = <<n>> => m = n
    OBVIOUS
  <2> QED
    BY <2>1, <2>2, <2>3
<1>20. ListFact'
  <2> SUFFICES ASSUME ~lost.twice
               PROVE  /\ lots' = <<>> \/ lots' = <<Head(lots')>>
                      /\ \A m \in DOMAIN lot' : ~lot'[m].dead => lots' = <<m>>
    BY <1>12 DEF ListFact
  <2>1. /\ lots = <<>> \/ lots = <<Head(lots)>>
        /\ \A m \in DOMAIN lot : ~lot[m].dead => lots = <<m>>
    BY DEF LotInv, ListFact
  <2>2. \A m \in DOMAIN lot' : ~lot'[m].dead => m # n /\ m \in DOMAIN lot /\ lots = <<m>>
    BY <1>7, <1>8, <2>1
  <2>3. \A m : <<m>> # <<>> /\ (<<m>> = <<n>> => m = n)
    OBVIOUS
  <2>4. CASE lots = <<>>
    BY <1>9, <2>2, <2>3, <2>4
  <2>5. CASE lots = <<n>>
    BY <1>9, <2>2, <2>3, <2>5
  <2>6. CASE lots = <<Head(lots)>> /\ Head(lots) # n
    <3> DEFINE h == Head(lots)
    <3>1. lots = <<h>> /\ h # n
      BY <2>6
    <3> HIDE DEF h
    <3>2. \A i \in 1..Len(lots) : lots[i] # n
      BY <3>1
    <3>3. lots' = lots
      BY <1>9, <3>2
    <3> QED
      BY <2>1, <2>2, <3>3
  <2>7. lots = <<Head(lots)>> /\ Head(lots) = n => lots = <<n>>
    BY ONLY Zenon
  <2> QED
    BY ONLY <2>1, <2>4, <2>5, <2>6, <2>7
<1>21. AliveFact'
  <2>1. AliveFact /\ LockFact
    BY DEF LotInv
  <2>2. ASSUME NEW o \in Hands, Within(o)', ~lost'.freed PROVE ~lot'[at'[o]].dead
    <3>1. o # t
      BY <1>17, <2>2
    <3> QED
      BY <1>8, <1>12, <1>13, <1>15, <1>16, <2>1, <2>2, <3>1 DEF AliveFact, LockFact
  <2> QED
    BY <2>2 DEF AliveFact
<1>22. ParkedFact'
  <2>1. t = Events => SameOps(left[t], s)
    <3>1. t = Events => s = <<>> /\ Final(left[t]) = f
      BY <1>2
    <3> QED
      BY <1>1, <3>1 DEF SameOps, Awaits
  <2>2. Sound' /\ ~lost'.calls => Listed' = Listed
    <3>1. Sound' => lots' = <<>>
      BY <1>9, <1>12, <1>19
    <3>2. ToSet(<<>>) = {}
      BY DEF ToSet
    <3>3. lots' = <<>> => Listed' = {}
      BY DEF Listed
    <3> QED
      BY <1>12, <1>19, <3>1, <3>2, <3>3
  <2> QED
    BY <1>2, <1>5, <1>12, <2>1, <2>2, ParkedStays
<1>23. \A q \in Watchers : \A what \in {"attach", "detach"} : Has(left'[q], what) <=> Has(left[q], what)
  <2>1. \A what \in {"attach", "detach"} : Has(s, what) <=> Has(left[t], what)
    BY <1>1, <1>2 DEF Has, Asks
  <2> QED
    BY <1>10, <2>1 DEF Hands
<1>24. ObserverFact' /\ ComesFact'
  <2>1. ComesFact
    BY DEF LotInv
  <2>2. ComesFact'
    BY <1>5, <1>23, <2>1 DEF ComesFact
  <2>3. Sound' => \A m \in DOMAIN lot' : lot'[m].dead
    BY <1>7, <1>8, <1>12, <1>19
  <2>4. ObserverFact'
    BY <2>3 DEF ObserverFact
  <2> QED
    BY <2>2, <2>4
<1>25. RemoveFact' /\ SendFact'
  <2>1. RemoveFact /\ SendFact /\ LockFact
    BY DEF LotInv
  <2>2. \A o \in Hands : Turn(o, "send") \/ Turn(o, "back") \/ Turn(o, "remove") => at[o] \in DOMAIN lot
    BY <2>1 DEF LockFact, Within, Turn, Inside, Now
  <2>3. \A o \in Hands : o # t /\ Turn(o, "remove") => at[o] # n
    BY <1>15 DEF Within, Turn, Inside, Now
  <2>4. RemoveFact'
    BY <1>8, <1>13, <1>16, <1>17, <2>1, <2>2, <2>3 DEF RemoveFact
  <2>5. Sound => \A o \in Hands : Turn(o, "send") \/ Turn(o, "back") => at[o] # n
    <3> SUFFICES ASSUME Sound, NEW o \in Hands, Turn(o, "send") \/ Turn(o, "back"), at[o] = n PROVE FALSE
      OBVIOUS
    <3>1. Now(o).i \in DOMAIN lot[n].observers
      BY <2>1 DEF SendFact
    <3>2. DOMAIN lot[n].observers = {}
      BY <1>4
    <3> QED
      BY <3>1, <3>2
  <2>6. SendFact'
    BY <1>8, <1>12, <1>13, <1>16, <1>17, <2>1, <2>2, <2>5 DEF SendFact
  <2> QED
    BY <2>4, <2>6
<1>26. AloneFact'
  <2>1. AloneFact
    BY DEF LotInv
  <2> QED
    BY <1>12, <1>13, <1>16, <1>17, <2>1 DEF AloneFact
<1>27. EventsFact'
  <2>1. EventsFact
    BY DEF LotInv
  <2>2. CASE t = Events
    BY <1>2, <1>10, <2>2 DEF EventsFact, Rests
  <2>3. CASE t # Events
    <3>1. Events \in Hands /\ left'[Events] = left[Events]
      BY <1>10, <2>3 DEF Hands
    <3> QED
      BY <1>16, <2>1, <2>3, <3>1 DEF EventsFact, Rests
  <2> QED
    BY <2>2, <2>3
<1>28. OpenFact'
  <2>1. ASSUME Sound, ~lost.stale, NEW p \in Watchers, screen[p].shows # {} PROVE FALSE
    <3>1. PICK m \in DOMAIN lot : \E i \in DOMAIN lot[m].observers : IsOpen(p, m, i)
      BY <2>1 DEF LotInv, OpenFact
    <3>2. PICK i \in DOMAIN lot[m].observers : IsOpen(p, m, i)
      BY <3>1
    <3>3. lots = <<m>> /\ lots = <<n>>
      BY <1>19, <2>1, <3>2 DEF IsOpen
    <3>4. m = n
      BY <3>3
    <3>5. DOMAIN lot[n].observers = {}
      BY <1>4
    <3> QED
      BY <3>2, <3>4, <3>5
  <2> QED
    BY <1>5, <1>12, <2>1 DEF OpenFact
<1> QED
  BY <1>14, <1>18, <1>20, <1>21, <1>22, <1>24, <1>25, <1>26, <1>27, <1>28 DEF LotInv

\* The button is told, which no other thread looks at.
LEMMA TellButtonKeeps ==
    ASSUME LotInv, NEW t \in Hands, TellButton(t)
    PROVE  LotInv'
<1> DEFINE p == Head(left[t]).of
<1>1. ~Rests(t) /\ Turn(t, "tell") /\ Next1Is(t, <<>>) /\ Head(left[t]).do = "tell"
  BY DEF TellButton, Turn, Now
<1>2. /\ left' = [left EXCEPT ![t] = Tail(left[t])] /\ IsScript(t, Tail(left[t]))
      /\ IsLotStep(Head(left[t]))
  BY <1>1, Popped
<1>3. p \in Watchers
  BY <1>1, <1>2 DEF IsLotStep, IsPlainStep
<1>4. UNCHANGED <<lot, lots, at, parked, events, lost>> /\ screen' = [screen EXCEPT ![p].told = screen[p].status]
  BY DEF TellButton, Now
<1> HIDE DEF p
<1>5. /\ screen' \in [Watchers -> AScreen]
      /\ \A q \in Watchers : screen'[q].up = screen[q].up /\ screen'[q].shows = screen[q].shows
  <2>1. screen \in [Watchers -> AScreen]
    BY DEF LotInv, LotTyped
  <2>2. screen[p] \in AScreen
    BY <1>3, <2>1
  <2> DEFINE b == [screen[p] EXCEPT !.told = screen[p].status]
  <2>3. b \in AScreen /\ b.up = screen[p].up /\ b.shows = screen[p].shows
    BY <2>2 DEF AScreen
  <2>4. screen' = [screen EXCEPT ![p] = b]
    BY <1>4
  <2> HIDE DEF b
  <2> QED
    BY <1>3, <2>1, <2>3, <2>4
<1>6. Harmless(t, Tail(left[t]))
  BY <1>2, <1>4, <1>5 DEF Harmless
<1> QED
  BY <1>1, <1>6, OverStep

\* The buttons are let go of.
LEMMA LetGoKeeps ==
    ASSUME LotInv, NEW t \in Hands, LetGo(t)
    PROVE  LotInv'
<1>1. ~Rests(t) /\ Turn(t, "let go") /\ Next1Is(t, <<>>)
  BY DEF LetGo, Turn
<1>2. left' = [left EXCEPT ![t] = Tail(left[t])] /\ IsScript(t, Tail(left[t]))
  BY <1>1, Popped
<1>3. UNCHANGED <<lot, lots, at, screen, parked, events, lost>>
  BY DEF LetGo
<1>4. Harmless(t, Tail(left[t]))
  BY <1>2, <1>3 DEF Harmless, LotInv, LotTyped
<1> QED
  BY <1>1, <1>4, OverStep

\* Every step of a handler keeps the invariant.
LEMMA WorksKeeps ==
    ASSUME LotInv, NEW t \in Hands, Works(t)
    PROVE  LotInv'
BY FindLotKeeps, AddParkinglotKeeps, LockLotKeeps, UnlockLotKeeps, RemoveParkinglotKeeps,
   AttachObserverKeeps, DetachObserverKeeps, AddSlotKeeps, RemoveSlotKeeps, NotifyHelperKeeps,
   SendMenuKeeps, BackFromSendKeeps, TellButtonKeeps, MenuForKeeps, HandleButtonPressKeeps, LetGoKeeps
DEF Works

\* A handler begins, on the phone's thread or on that of Asterisk's events.
Begun(t, s) ==
    /\ Rests(t) /\ left' = [left EXCEPT ![t] = s] /\ IsScript(t, s)
    /\ s # <<>> => Head(s).do = "find"
    /\ UNCHANGED <<lot, lots, at, lost>>
    /\ t = Events => (s # <<>> => Final(s).do # "notify")
    /\ parked' \subseteq Spaces
    /\ events' \in Seq([kind : {"parked", "unparked"}, place : Spaces, of : Watchers \cup {"other"}])
    /\ screen' \in [Watchers -> AScreen]
\* Of the phones at most that of the thread registers or leaves.
Comes(t, s) ==
    /\ \A q \in Watchers : q # t => screen'[q] = screen[q]
    /\ t \in Watchers =>
        /\ Has(s, "attach") => ~screen[t].up /\ screen'[t].up
        /\ Has(s, "detach") => ~screen'[t].up
        /\ screen[t].up /\ ~screen'[t].up => Has(s, "detach")
        /\ screen'[t].shows = {} \/ (screen'[t].shows = screen[t].shows /\ screen'[t].up = screen[t].up)

\* A handler that begins, by what it will do.
LEMMA BeginStep ==
    ASSUME LotInv, NEW t \in Hands, NEW s, Begun(t, s), Comes(t, s), ParkedFact'
    PROVE  LotInv'
<1>1. /\ left' = [left EXCEPT ![t] = s] /\ IsScript(t, s) /\ Rests(t)
      /\ left'[t] = s /\ \A o \in Hands : o # t => left'[o] = left[o]
      /\ UNCHANGED <<lot, lots, at, lost>>
  BY LeftIs DEF Begun
<1>2. LotTyped'
  <2>1. left' = [o \in Hands |-> left'[o]] /\ \A o \in Hands : IsScript(o, left'[o])
    BY <1>1, TypesKept
  <2>2. /\ lot' \in Seq(ALot) /\ lots' \in Seq(DOMAIN lot') /\ at' \in [Hands -> Nat]
        /\ \A n \in DOMAIN lot' : Distinct(lot'[n].slots)
        /\ lost' \in [LostBits -> BOOLEAN]
    BY <1>1 DEF LotInv, LotTyped, LostBits
  <2>3. /\ parked' \subseteq Spaces
        /\ events' \in Seq([kind : {"parked", "unparked"}, place : Spaces, of : Watchers \cup {"other"}])
        /\ screen' \in [Watchers -> AScreen]
    BY DEF Begun
  <2> QED
    BY ONLY <2>1, <2>2, <2>3 DEF LotTyped, LostBits
<1>3. /\ ~Within(t) /\ ~Within(t)'
      /\ \A what \in {"lock", "send", "back", "remove"} : ~Turn(t, what) /\ ~Turn(t, what)'
  BY <1>1 DEF Within, Turn, Rests, Now, Inside, Begun
<1>4. \A o \in Hands : o # t => /\ Within(o)' <=> Within(o)
                                /\ \A what : Turn(o, what)' <=> Turn(o, what)
                                /\ Now(o)' = Now(o)
  BY <1>1 DEF Within, Turn, Rests, Now
<1>5. \A o \in Hands : /\ Within(o)' <=> Within(o)
                       /\ \A what \in {"lock", "send", "back", "remove"} :
                             /\ Turn(o, what)' <=> Turn(o, what)
                             /\ Turn(o, what) => Now(o)' = Now(o)
  BY <1>3, <1>4
<1>6. LockFact' /\ ListFact' /\ AliveFact' /\ RemoveFact' /\ SendFact' /\ AloneFact'
  <2>0. LockFact /\ ListFact /\ AliveFact /\ UNCHANGED <<lot, lots, at, lost>>
    BY <1>1 DEF LotInv
  <2>1. LockFact' /\ ListFact' /\ AliveFact'
    <3>1. \A o \in Hands : /\ Within(o)' <=> Within(o)
                           /\ Turn(o, "lock")' <=> Turn(o, "lock")
                           /\ Turn(o, "back")' <=> Turn(o, "back")
      BY <1>5
    <3>2. LockFact'
      BY <2>0, <3>1 DEF LockFact
    <3>3. ListFact'
      BY <2>0 DEF ListFact
    <3>4. AliveFact'
      BY <2>0, <3>1 DEF AliveFact
    <3> QED
      BY <3>2, <3>3, <3>4
  <2>2. RemoveFact' /\ SendFact' /\ AloneFact'
    BY <1>1, <1>5 DEF LotInv, RemoveFact, SendFact, AloneFact, Sound
  <2> QED
    BY <2>1, <2>2
<1>7. \A what : ~Has(left[t], what)
  BY <1>1, EmptyScript DEF Has, Rests
<1>8. \A q \in Watchers : q # t => left'[q] = left[q] /\ screen'[q] = screen[q]
  BY <1>1 DEF Hands, Comes
<1>9. ComesFact'
  BY <1>1, <1>8 DEF LotInv, ComesFact, Comes
<1>10. ObserverFact'
  <2>1. ObserverFact
    BY DEF LotInv
  <2>2. \A q, n : Observes(q, n)' <=> Observes(q, n)
    BY <1>1 DEF Observes
  <2>3. ASSUME NEW q \in Watchers,
               (screen[q].up \/ Has(left[q], "detach")) /\ ~Has(left[q], "attach")
        PROVE  (screen'[q].up \/ Has(left'[q], "detach")) /\ ~Has(left'[q], "attach")
    <3>1. CASE q = t
      BY <1>1, <1>7, <2>3, <3>1 DEF Comes
    <3>2. CASE q # t
      BY <1>8, <2>3, <3>2
    <3> QED
      BY <3>1, <3>2
  <2> QED
    BY <1>1, <2>1, <2>2, <2>3 DEF ObserverFact, Sound
<1>11. EventsFact'
  <2>1. EventsFact
    BY DEF LotInv
  <2>2. t = Events => (~Rests(Events)' => Final(left'[Events]).do # "notify")
    BY <1>1 DEF Begun, Rests
  <2>3. t # Events => left'[Events] = left[Events] /\ Events \in Hands
    BY <1>1 DEF Hands
  <2> QED
    BY <1>4, <2>1, <2>2, <2>3 DEF EventsFact, Rests
<1>12. OpenFact'
  <2>1. \A n, i : Opening(n, i)' <=> Opening(n, i)
    BY <1>1, <1>5 DEF Opening
  <2>2. \A i : ToEvents(i) => ToEvents(i)'
    <3>1. t = Events => \A i : ~ToEvents(i)
      BY <1>1, <1>3 DEF ToEvents
    <3>2. t # Events => left'[Events] = left[Events]
      BY <1>1 DEF Hands
    <3> QED
      BY <3>1, <3>2 DEF ToEvents, Turn, Rests, Now
  <2>3. Listed' = Listed
    BY <1>1 DEF Listed
  <2>4. ASSUME NEW p \in Watchers, NEW n \in DOMAIN lot, NEW i \in DOMAIN lot[n].observers, IsOpen(p, n, i),
               screen'[p].shows = screen[p].shows, screen'[p].up = screen[p].up
        PROVE  IsOpen(p, n, i)'
    BY <1>1, <1>5, <2>1, <2>2, <2>3, <2>4 DEF IsOpen
  <2>5. \A p \in Watchers : screen'[p].shows # {} =>
           screen'[p].shows = screen[p].shows /\ screen'[p].up = screen[p].up
    BY <1>8 DEF Comes
  <2>6. OpenFact /\ (Sound' <=> Sound)
    BY <1>1 DEF LotInv, Sound
  <2> QED
    BY <1>1, <2>4, <2>5, <2>6 DEF OpenFact
<1> QED
  BY <1>2, <1>6, <1>9, <1>10, <1>11, <1>12 DEF LotInv

\* What a handler begins with, when nothing is parked or retrieved
LEMMA QuietBegins ==
    ASSUME LotInv, NEW p \in Watchers, NEW s, Begins(p, s), IsScript(p, s), s # <<>> => Head(s).do = "find",
           UNCHANGED <<parked, events>>, screen' \in [Watchers -> AScreen]
    PROVE  Begun(p, s) /\ ParkedFact'
<1>1. p \in Hands /\ p # Events
  BY NotEvents DEF Hands
<1>2. Rests(p) /\ left' = [left EXCEPT ![p] = s] /\ UNCHANGED <<lot, lots, at, lost>>
  BY DEF Begins
<1>3. Begun(p, s)
  BY <1>1, <1>2 DEF Begun, LotInv, LotTyped
<1>4. Listed' = Listed /\ (Sound' <=> Sound)
  BY <1>2 DEF Listed, Sound
<1>5. ParkedFact'
  <2>1. lost' = lost
    BY <1>2
  <2> QED
    BY <1>1, <1>2, <1>4, <2>1, ParkedStays
<1> QED
  BY <1>3, <1>5

\* A script that begins with looking the lot up
FindsThen(t, f, y, r) ==
    /\ IsScript(t, <<f>> \o r) /\ <<f>> \o r # <<>> /\ Head(<<f>> \o r) = f
    /\ Steps(<<f>> \o r) = {f} \cup Steps(r)
    /\ Final(<<f>> \o r) = IF r = <<>> THEN f ELSE Final(r)
    /\ f.do = "find" /\ f.then = <<y>> /\ f.then[1] = y

\* Finding the lot and doing one thing with it joins a script.
LEMMA FindScript ==
    ASSUME NEW t, NEW r, IsScript(t, r), NEW y, IsPlainStep(y), y.do \in Found, OwnStep(t, y),
           NEW create \in BOOLEAN, r = <<>> \/ Head(r).do \in {"find", "let go"},
           y.do = "attach" => ~Has(r, "attach"),
           t = Events => create /\ y.do \in {"park", "unpark"} /\ r = <<>>
    PROVE  FindsThen(t, [do |-> "find", create |-> create, then |-> <<y>>], y, r)
<1> DEFINE f == [do |-> "find", create |-> create, then |-> <<y>>]
<1>1. f.do = "find" /\ f.then = <<y>> /\ f.then[1] = y /\ f.create = create
  OBVIOUS
<1> HIDE DEF f
<1>2. IsLotStep(f)
  <2>1. f.then = <<f.then[1]>>
    BY ONLY <1>1, Zenon
  <2>2. IsPlainStep(f)
    BY <1>1 DEF IsPlainStep, Outside
  <2> QED
    BY <1>1, <2>1, <2>2 DEF IsLotStep
<1>3. OwnSteps(t, f)
  BY <1>1 DEF OwnSteps, OwnStep
<1>4. Asks(f, "attach") => ~Has(r, "attach")
  BY <1>1 DEF Asks
<1>5. IF r = <<>> THEN f.do \notin StaysIn \cup {"add"} ELSE Follows(f, Head(r))
  BY <1>1 DEF StaysIn, Follows, Inside
<1>6. Joins(t, f, r)
  BY <1>1, <1>2, <1>3, <1>4, <1>5 DEF Joins, EventStep
<1>7. /\ IsScript(t, <<f>> \o r) /\ <<f>> \o r # <<>> /\ Head(<<f>> \o r) = f
      /\ Final(<<f>> \o r) = IF r = <<>> THEN f ELSE Final(r)
      /\ Steps(<<f>> \o r) = {f} \cup Steps(r)
  BY <1>6, StepPut
<1>8. FindsThen(t, f, y, r)
  BY <1>1, <1>7 DEF FindsThen
<1> QED
  BY <1>8 DEF f

\* Letting go of the buttons is a script.
LEMMA LetGoScript ==
    ASSUME NEW p \in Watchers
    PROVE  /\ IsScript(p, <<Step("let go")>> \o <<>>) /\ Head(<<Step("let go")>> \o <<>>).do = "let go"
           /\ Steps(<<Step("let go")>> \o <<>>) = {Step("let go")}
           /\ <<Step("let go")>> \o <<>> # <<>>
<1> DEFINE g == Step("let go")
<1>1. g.do = "let go"
  BY DEF Step
<1> HIDE DEF g
<1>2. IsPlainStep(g) /\ OwnStep(p, g)
  BY <1>1 DEF IsPlainStep, OwnStep, Outside
<1>3. Joins(p, g, <<>>)
  BY <1>1, <1>2, PlainJoins DEF StaysIn
<1>4. /\ IsScript(p, <<g>> \o <<>>) /\ <<g>> \o <<>> # <<>> /\ Head(<<g>> \o <<>>) = g
      /\ Steps(<<g>> \o <<>>) = {g} \cup Steps(<<>>)
  BY <1>3, EmptyScript, StepPut
<1>5. Steps(<<g>> \o <<>>) = {g}
  BY <1>4, EmptyScript
<1>6. /\ IsScript(p, <<g>> \o <<>>) /\ Head(<<g>> \o <<>>).do = "let go"
      /\ Steps(<<g>> \o <<>>) = {g} /\ <<g>> \o <<>> # <<>>
  BY <1>1, <1>4, <1>5
<1> QED
  BY <1>6 DEF g

\* A phone registers and will attach.
LEMMA RegistersKeeps ==
    ASSUME LotInv, NEW p \in Watchers, Registers(p)
    PROVE  LotInv'
<1> DEFINE y == Of("attach", p)
           z == [do |-> "notify", of |-> p, i |-> 1]
           a == [do |-> "find", create |-> TRUE, then |-> <<y>>]
           b == [do |-> "find", create |-> TRUE, then |-> <<z>>]
           g == Step("let go")
           c == <<g>> \o <<>>
           d == <<b>> \o c
           s == <<a>> \o d
<1>1. /\ ~screen[p].up /\ Begins(p, <<a>> \o <<b>> \o <<g>>) /\ UNCHANGED <<parked, events>>
      /\ screen' = [screen EXCEPT ![p] = [Away EXCEPT !.up = TRUE]]
  BY DEF Registers, Find, Notify
<1>2. y.do = "attach" /\ y.of = p /\ z.do = "notify" /\ z.of = p /\ z.i = 1
  BY DEF Of
<1>3. IsPlainStep(y) /\ IsPlainStep(z) /\ OwnStep(p, y) /\ OwnStep(p, z) /\ y.do \in Found /\ z.do \in Found
  <2> HIDE DEF y, z
  <2> QED
    BY <1>2 DEF IsPlainStep, OwnStep, Found, Inside
<1>4. IsScript(p, c) /\ Head(c).do = "let go" /\ Steps(c) = {g} /\ c # <<>> /\ g.do = "let go" /\ p # Events
  BY LetGoScript, NotEvents DEF Step
<1> HIDE DEF y, z, g, c
<1>5. FindsThen(p, b, z, c)
  BY <1>2, <1>3, <1>4, FindScript
<1> HIDE DEF b
<1>6. IsScript(p, d) /\ d # <<>> /\ Head(d).do = "find" /\ Steps(d) = {b, g} /\ ~Has(d, "attach") /\ ~Has(d, "detach")
  <2>1. IsScript(p, d) /\ d # <<>> /\ Head(d).do = "find" /\ Steps(d) = {b, g}
    BY <1>4, <1>5 DEF FindsThen
  <2>2. b.do = "find" /\ b.then[1] = z
    BY <1>5 DEF FindsThen
  <2> HIDE DEF d
  <2> QED
    BY <1>2, <1>4, <2>1, <2>2 DEF Has, Asks
<1> HIDE DEF d
<1>7. FindsThen(p, a, y, d)
  BY <1>2, <1>3, <1>4, <1>6, FindScript
<1> HIDE DEF a
<1>8. IsScript(p, s) /\ Head(s).do = "find" /\ Has(s, "attach") /\ ~Has(s, "detach")
  <2>1. IsScript(p, s) /\ Head(s).do = "find" /\ Steps(s) = {a} \cup Steps(d) /\ a.do = "find" /\ a.then[1] = y
    BY <1>7 DEF FindsThen
  <2> HIDE DEF s
  <2> QED
    BY <1>2, <1>6, <2>1 DEF Has, Asks
<1>9. Begins(p, s)
  <2>1. PutOne(a, b, g, <<>>)
    BY EmptyScript, ThreePut
  <2>2. <<a, b, g>> \o <<>> = s
    BY <2>1 DEF PutOne, d, c
  <2>3. <<a>> \o <<b>> \o <<g>> = <<a, b, g>>
    BY TripleIs
  <2>4. <<a, b, g>> \o <<>> = <<a, b, g>>
    OBVIOUS
  <2>5. <<a>> \o <<b>> \o <<g>> = s
    BY ONLY <2>2, <2>3, <2>4, Zenon
  <2> QED
    BY <1>1, <2>5
<1>10. /\ screen' \in [Watchers -> AScreen] /\ screen'[p].up /\ screen'[p].shows = {}
       /\ \A q \in Watchers : q # p => screen'[q] = screen[q]
  <2>1. screen \in [Watchers -> AScreen]
    BY DEF LotInv, LotTyped
  <2> DEFINE e == [Away EXCEPT !.up = TRUE]
  <2>2. e \in AScreen /\ e.up /\ e.shows = {}
    BY DEF Away, AScreen
  <2>3. screen' = [screen EXCEPT ![p] = e]
    BY <1>1
  <2> HIDE DEF e
  <2> QED
    BY <2>1, <2>2, <2>3
<1> HIDE DEF s
<1>11. Begun(p, s) /\ ParkedFact'
  BY <1>1, <1>8, <1>9, <1>10, QuietBegins
<1>12. Comes(p, s)
  BY <1>1, <1>8, <1>10 DEF Comes
<1> QED
  BY <1>11, <1>12, BeginStep DEF Hands

\* A phone leaves and will detach.
LEMMA LeavesKeeps ==
    ASSUME LotInv, NEW p \in Watchers, Leaves(p)
    PROVE  LotInv'
<1> DEFINE y == Of("detach", p)
           a == [do |-> "find", create |-> FALSE, then |-> <<y>>]
           g == Step("let go")
           c == <<g>> \o <<>>
           s == <<a>> \o c
<1>1. /\ screen[p].up /\ Begins(p, <<a>> \o <<g>>) /\ UNCHANGED <<parked, events>>
      /\ screen' = [screen EXCEPT ![p] = Away]
  BY DEF Leaves, Find
<1>2. y.do = "detach" /\ y.of = p
  BY DEF Of
<1>3. IsPlainStep(y) /\ OwnStep(p, y) /\ y.do \in Found
  <2> HIDE DEF y
  <2> QED
    BY <1>2 DEF IsPlainStep, OwnStep, Found, Inside
<1>4. IsScript(p, c) /\ Head(c).do = "let go" /\ Steps(c) = {g} /\ c # <<>> /\ g.do = "let go" /\ p # Events
  BY LetGoScript, NotEvents DEF Step
<1> HIDE DEF y, g
<1>5. FindsThen(p, a, y, c)
  <2> HIDE DEF c
  <2> QED
    BY <1>2, <1>3, <1>4, FindScript
<1> HIDE DEF a
<1>6. IsScript(p, s) /\ Head(s).do = "find" /\ Has(s, "detach") /\ ~Has(s, "attach")
  <2>1. IsScript(p, s) /\ Head(s).do = "find" /\ Steps(s) = {a, g} /\ a.do = "find" /\ a.then[1] = y
    BY <1>4, <1>5 DEF FindsThen
  <2> HIDE DEF s
  <2> QED
    BY <1>2, <1>4, <2>1 DEF Has, Asks
<1>7. Begins(p, s)
  <2>1. c = <<g>>
    OBVIOUS
  <2> HIDE DEF c
  <2>2. s = <<a>> \o <<g>>
    BY <2>1
  <2> QED
    BY <1>1, <2>2
<1>8. /\ screen' \in [Watchers -> AScreen] /\ ~screen'[p].up /\ screen'[p].shows = {}
      /\ \A q \in Watchers : q # p => screen'[q] = screen[q]
  <2>1. screen \in [Watchers -> AScreen]
    BY DEF LotInv, LotTyped
  <2>2. Away \in AScreen /\ ~Away.up /\ Away.shows = {}
    BY DEF Away, AScreen
  <2> QED
    BY <1>1, <2>1, <2>2
<1> HIDE DEF s
<1>9. Begun(p, s) /\ ParkedFact'
  BY <1>1, <1>6, <1>7, <1>8, QuietBegins
<1>10. Comes(p, s)
  BY <1>6, <1>8 DEF Comes
<1> QED
  BY <1>9, <1>10, BeginStep DEF Hands

\* A key looks the lot up and does one thing with it.
LEMMA KeyKeeps ==
    ASSUME LotInv, NEW p \in Watchers, NEW y, IsPlainStep(y), y.do \in {"press", "menu"},
           Begins(p, Find(TRUE, <<y>>)), UNCHANGED <<screen, parked, events>>
    PROVE  LotInv'
<1> DEFINE a == [do |-> "find", create |-> TRUE, then |-> <<y>>]
           s == <<a>> \o <<>>
<1>1. FindsThen(p, a, y, <<>>)
  <2>1. y.do \in Found /\ OwnStep(p, y) /\ y.do # "attach" /\ p # Events
    BY NotEvents DEF Found, OwnStep
  <2> QED
    BY <2>1, EmptyScript, FindScript
<1>2. Begins(p, <<a>>)
  BY DEF Find
<1> HIDE DEF a
<1>3. IsScript(p, s) /\ Head(s).do = "find" /\ ~Has(s, "attach") /\ ~Has(s, "detach")
  <2>1. IsScript(p, s) /\ Head(s).do = "find" /\ Steps(s) = {a} /\ a.do = "find" /\ a.then[1] = y
    BY <1>1, EmptyScript DEF FindsThen
  <2> HIDE DEF s
  <2> QED
    BY <2>1 DEF Has, Asks
<1>4. Begins(p, s)
  <2>1. s = <<a>>
    OBVIOUS
  <2> HIDE DEF s
  <2> QED
    BY <1>2, <2>1
<1>5. screen' \in [Watchers -> AScreen]
  BY DEF LotInv, LotTyped
<1> HIDE DEF s
<1>6. Begun(p, s) /\ ParkedFact'
  BY <1>3, <1>4, <1>5, QuietBegins
<1>7. Comes(p, s)
  BY <1>3 DEF Comes
<1> QED
  BY <1>6, <1>7, BeginStep DEF Hands

\* Keys that lead to the lot.
LEMMA KeysKeep ==
    ASSUME LotInv, NEW p \in Watchers, Presses(p) \/ Exits(p)
    PROVE  LotInv'
<1>1. CASE Presses(p)
  <2>1. IsPlainStep(Step("press")) /\ Step("press").do \in {"press", "menu"}
    BY DEF IsPlainStep, Step, Inside
  <2> QED
    BY <1>1, <2>1, KeyKeeps DEF Presses
<1>2. CASE Exits(p)
  <2>1. IsPlainStep(Of("menu", "hide")) /\ Of("menu", "hide").do \in {"press", "menu"}
    BY DEF IsPlainStep, Of, Inside
  <2> QED
    BY <1>2, <2>1, KeyKeeps DEF Exits
<1> QED
  BY <1>1, <1>2

\* Asterisk parks or retrieves a call, and says so.
LEMMA EventsGrow ==
    ASSUME LotInv, NEW place \in Spaces, NEW kind \in {"parked", "unparked"},
           NEW who \in Watchers \cup {"other"},
           events' = Append(events, [kind |-> kind, place |-> place, of |-> who]),
           parked' = IF kind = "parked" THEN parked \cup {place} ELSE parked \ {place},
           left'[Events] = left[Events], Listed' = Listed, lost' = lost
    PROVE  /\ ParkedFact' /\ parked' \subseteq Spaces
           /\ events' \in Seq([kind : {"parked", "unparked"}, place : Spaces, of : Watchers \cup {"other"}])
<1> DEFINE E == [kind : {"parked", "unparked"}, place : Spaces, of : Watchers \cup {"other"}]
           e == [kind |-> kind, place |-> place, of |-> who]
           L == Len(events)
<1>1. events \in Seq(E) /\ parked \subseteq Spaces
  BY DEF LotInv, LotTyped
<1>2. e \in E /\ e.kind = kind /\ e.place = place /\ events' = Append(events, e)
  OBVIOUS
<1> HIDE DEF E, e
<1>3. /\ events' \in Seq(E) /\ L \in Nat /\ DOMAIN events = 1..L /\ DOMAIN events' = 1..(L + 1)
      /\ events'[L + 1] = e /\ \A i \in 1..L : events'[i] = events[i]
  BY <1>1, <1>2
<1> HIDE DEF L
<1>4. \A i \in 1..(L + 1) : i \in 1..L \/ i = L + 1
  BY <1>3
<1>5. L + 1 \in 1..(L + 1) /\ \A i \in 1..L : i \in 1..(L + 1) /\ L + 1 > i
  BY <1>3
<1>6. ASSUME NEW q \in Spaces
      PROVE  LET now == \E i \in DOMAIN events' :
                          /\ events'[i].place = q /\ events'[i].kind = "parked"
                          /\ \A j \in DOMAIN events' : j > i => events'[j].place # q
                 still == \A i \in DOMAIN events' : events'[i].place # q
             IN  /\ q = place => (now <=> kind = "parked") /\ ~still
                 /\ q # place => (now <=> LastSays(q))
                                 /\ (still <=> \A i \in DOMAIN events : events[i].place # q)
  <2> DEFINE now == \E i \in DOMAIN events' :
                       /\ events'[i].place = q /\ events'[i].kind = "parked"
                       /\ \A j \in DOMAIN events' : j > i => events'[j].place # q
             still == \A i \in DOMAIN events' : events'[i].place # q
  <2>1. CASE q = place
    <3>1. ~still
      BY <1>2, <1>3, <1>5, <2>1
    <3>2. kind = "parked" => now
      <4>1. \A j \in 1..(L + 1) : ~(j > L + 1)
        BY <1>3
      <4> QED
        BY <1>2, <1>3, <1>5, <2>1, <4>1
    <3>3. now => kind = "parked"
      BY <1>2, <1>3, <1>4, <1>5, <2>1
    <3> QED
      BY <2>1, <3>1, <3>2, <3>3
  <2>2. CASE q # place
    <3>1. still <=> \A i \in DOMAIN events : events[i].place # q
      BY <1>2, <1>3, <1>4, <1>5, <2>2
    <3>2. now => LastSays(q)
      BY <1>2, <1>3, <1>4, <1>5, <2>2 DEF LastSays
    <3>3. LastSays(q) => now
      BY <1>2, <1>3, <1>4, <1>5, <2>2 DEF LastSays
    <3> QED
      BY <2>2, <3>1, <3>2, <3>3
  <2> QED
    BY <2>1, <2>2
<1>7. ASSUME NEW q \in Spaces PROVE LastSays(q)' <=> \E i \in DOMAIN events' :
                          /\ events'[i].place = q /\ events'[i].kind = "parked"
                          /\ \A j \in DOMAIN events' : j > i => events'[j].place # q
  BY DEF LastSays
<1>8. ASSUME NEW q \in Spaces PROVE Due(q)' <=> IF q = place THEN kind = "parked" ELSE Due(q)
  <2>1. Due(q)' <=> \/ LastSays(q)'
                    \/ /\ \A i \in DOMAIN events' : events'[i].place # q
                       /\ \/ Awaits(left[Events], "park", q)
                          \/ ~Awaits(left[Events], "unpark", q) /\ q \in Listed
    BY DEF Due
  <2> QED
    BY <1>6, <1>7, <2>1 DEF Due
<1>9. ParkedFact'
  <2>1. ParkedFact /\ (Sound' <=> Sound)
    BY DEF LotInv, Sound
  <2> QED
    BY <1>8, <2>1 DEF ParkedFact
<1> QED
  BY <1>1, <1>3, <1>9 DEF E

\* Asterisk parks a call, or one is taken up: the event is the last that is said of the place.
LEMMA ParkedElsewhereKeeps ==
    ASSUME LotInv, NEW place \in Spaces, ParkedElsewhere(place) \/ Retrieved(place)
    PROVE  LotInv'
<1>1. UNCHANGED <<lot, lots, left, at, screen, lost>>
  BY DEF ParkedElsewhere, Retrieved
<1>2. Listed' = Listed
  BY <1>1 DEF Listed
<1>3. PICK kind \in {"parked", "unparked"} :
         /\ events' = Append(events, [kind |-> kind, place |-> place, of |-> "other"])
         /\ parked' = IF kind = "parked" THEN parked \cup {place} ELSE parked \ {place}
  BY DEF ParkedElsewhere, Retrieved
<1>4. /\ ParkedFact' /\ parked' \subseteq Spaces
      /\ events' \in Seq([kind : {"parked", "unparked"}, place : Spaces, of : Watchers \cup {"other"}])
  BY <1>1, <1>2, <1>3, EventsGrow
<1>5. LotTyped'
  <2>1. LotTyped
    BY DEF LotInv
  <2> QED
    BY <1>1, <1>4, <2>1 DEF LotTyped
<1>6. LockFact' /\ ListFact' /\ AliveFact' /\ RemoveFact' /\ SendFact' /\ AloneFact'
  <2>1. LockFact' /\ ListFact' /\ AliveFact'
    BY <1>1 DEF LotInv, LockFact, ListFact, AliveFact, Within, Turn, Rests, Now
  <2>2. RemoveFact' /\ SendFact' /\ AloneFact'
    BY <1>1 DEF LotInv, RemoveFact, SendFact, AloneFact, Sound, Turn, Rests, Now
  <2> QED
    BY <2>1, <2>2
<1>7. ObserverFact' /\ ComesFact' /\ EventsFact'
  BY <1>1 DEF LotInv, ObserverFact, ComesFact, EventsFact, Sound, Observes, Within, Turn, Rests, Now
<1>8. OpenFact'
  <2>1. OpenFact
    BY DEF LotInv
  <2>2. \A p \in Watchers : \A n, i : IsOpen(p, n, i) => IsOpen(p, n, i)'
    BY <1>1, <1>2 DEF IsOpen, Opening, ToEvents, Turn, Rests, Now
  <2> QED
    BY <1>1, <2>1, <2>2 DEF OpenFact, Sound
<1> QED
  BY <1>4, <1>5, <1>6, <1>7, <1>8 DEF LotInv

\* The same for a call of the phone.
LEMMA ParkKeeps ==
    ASSUME LotInv, NEW p \in Watchers, NEW place \in Spaces, NEW accepted \in BOOLEAN, Park(p, place, accepted)
    PROVE  LotInv'
<1>1. Begins(p, <<>>) /\ UNCHANGED <<keys, screen>>
  BY DEF Park
<1>2. IsScript(p, <<>>) /\ \A what : ~Has(<<>>, what)
  BY EmptyScript DEF Has
<1>3. Comes(p, <<>>)
  BY <1>1, <1>2 DEF Comes
<1>4. screen' \in [Watchers -> AScreen]
  BY <1>1 DEF LotInv, LotTyped
<1>5. CASE ~accepted
  <2>1. UNCHANGED <<parked, events>>
    BY <1>5 DEF Park
  <2>2. Begun(p, <<>>) /\ ParkedFact'
    BY <1>1, <1>2, <1>4, <2>1, QuietBegins
  <2> QED
    BY <1>3, <2>2, BeginStep DEF Hands
<1>6. CASE accepted
  <2>1. left' = [left EXCEPT ![p] = <<>>] /\ Rests(p) /\ UNCHANGED <<lot, lots, at, lost>>
    BY <1>1 DEF Begins
  <2>2. left'[Events] = left[Events]
    BY <2>1, LeftIs, NotEvents DEF Hands
  <2>3. Listed' = Listed
    BY <2>1 DEF Listed
  <2>4. events' = Append(events, [kind |-> "parked", place |-> place, of |-> p]) /\ parked' = parked \cup {place}
    <3> DEFINE E == [kind : {"parked", "unparked"}, place : Spaces, of : Watchers \cup {"other"}]
               e == [kind |-> "parked", place |-> place, of |-> p]
    <3>1. events \in Seq(E) /\ e \in E
      BY DEF LotInv, LotTyped
    <3>2. events' = events \o <<e>> /\ parked' = parked \cup {place}
      BY <1>6 DEF Park
    <3> HIDE DEF E, e
    <3>3. events \o <<e>> = Append(events, e)
      BY <3>1
    <3>4. events' = Append(events, e)
      BY <3>2, <3>3
    <3> QED
      BY <3>2, <3>4 DEF e
  <2>5. /\ ParkedFact' /\ parked' \subseteq Spaces
        /\ events' \in Seq([kind : {"parked", "unparked"}, place : Spaces, of : Watchers \cup {"other"}])
    BY <2>1, <2>2, <2>3, <2>4, EventsGrow
  <2>6. Begun(p, <<>>)
    BY <1>2, <1>4, <2>1, <2>5, NotEvents DEF Begun
  <2> QED
    BY <1>3, <2>5, <2>6, BeginStep DEF Hands
<1> QED
  BY <1>5, <1>6

\* A call begins, which the lot does not know of.
LEMMA Starts1Keeps ==
    ASSUME LotInv, NEW p \in Watchers, Starts1(p)
    PROVE  LotInv'
<1>1. Begins(p, <<>>) /\ UNCHANGED <<screen, parked, events>>
  BY DEF Starts1
<1>2. IsScript(p, <<>>) /\ \A what : ~Has(<<>>, what)
  BY EmptyScript DEF Has
<1>3. screen' \in [Watchers -> AScreen]
  BY <1>1 DEF LotInv, LotTyped
<1>4. Begun(p, <<>>) /\ ParkedFact' /\ Comes(p, <<>>)
  BY <1>1, <1>2, <1>3, QuietBegins DEF Comes
<1> QED
  BY <1>4, BeginStep DEF Hands

\* An event leaves the queue and becomes what Asterisk's thread has to do: what is due stays the same.
LEMMA EventCbKeeps ==
    ASSUME LotInv, EventCb
    PROVE  LotInv'
<1> DEFINE E == [kind : {"parked", "unparked"}, place : Spaces, of : Watchers \cup {"other"}]
           e == Head(events)
           y == Of(IF e.kind = "parked" THEN "park" ELSE "unpark", e.place)
           a == [do |-> "find", create |-> TRUE, then |-> <<y>>]
           s == <<a>> \o <<>>
           L == Len(events)
<1>1. /\ events # <<>> /\ Rests(Events) /\ left' = [left EXCEPT ![Events] = <<a>>]
      /\ events' = Tail(events) /\ UNCHANGED <<lot, lots, at, screen, parked, lost>>
  BY DEF EventCb, Find
<1>2. events \in Seq(E) /\ parked \subseteq Spaces
  BY DEF LotInv, LotTyped
<1>3. /\ L \in Nat /\ L > 0 /\ DOMAIN events = 1..L /\ e = events[1] /\ e \in E
      /\ events' \in Seq(E) /\ DOMAIN events' = 1..(L - 1) /\ \A i \in 1..(L - 1) : events'[i] = events[i + 1]
  <2> HIDE DEF E
  <2> QED
    BY <1>1, <1>2
<1>4. e.kind \in {"parked", "unparked"} /\ e.place \in Spaces
  BY <1>3
<1>5. /\ y.of = e.place /\ y.do \in {"park", "unpark"}
      /\ (y.do = "park" <=> e.kind = "parked") /\ (y.do = "unpark" <=> e.kind # "parked")
  BY DEF Of
<1> HIDE DEF e, y, L
<1>6. FindsThen(Events, a, y, <<>>)
  <2>1. IsPlainStep(y) /\ y.do \in Found /\ OwnStep(Events, y) /\ y.do # "attach"
    BY <1>4, <1>5 DEF IsPlainStep, Found, OwnStep, Inside
  <2> QED
    BY <1>5, <2>1, EmptyScript, FindScript
<1>7. s = <<a>>
  OBVIOUS
<1> HIDE DEF a
<1>8. IsScript(Events, s) /\ s # <<>> /\ Head(s).do = "find" /\ Final(s).do = "find" /\ Final(s).then[1] = y
  BY <1>6 DEF FindsThen
<1> HIDE DEF s
<1>9. left' = [left EXCEPT ![Events] = s] /\ Events \in Hands
  BY <1>1, <1>7 DEF Hands
<1>10. Begun(Events, s)
  <2>1. /\ parked' \subseteq Spaces /\ screen' \in [Watchers -> AScreen]
        /\ events' \in Seq([kind : {"parked", "unparked"}, place : Spaces, of : Watchers \cup {"other"}])
    BY <1>1, <1>3 DEF LotInv, LotTyped
  <2> QED
    BY <1>1, <1>8, <1>9, <2>1 DEF Begun
<1>11. Comes(Events, s)
  BY <1>1, NotEvents DEF Comes
<1>12. ASSUME NEW q \in Spaces PROVE Due(q)' <=> Due(q)
  <2>1. left'[Events] = s /\ left[Events] = <<>>
    BY <1>1, <1>9, LeftIs DEF Rests
  <2>2. /\ Awaits(s, "park", q) <=> e.place = q /\ e.kind = "parked"
        /\ Awaits(s, "unpark", q) <=> e.place = q /\ e.kind # "parked"
        /\ ~Awaits(left[Events], "park", q) /\ ~Awaits(left[Events], "unpark", q)
    BY <1>5, <1>8, <2>1 DEF Awaits
  <2> DEFINE now == \E i \in DOMAIN events' :
                       /\ events'[i].place = q /\ events'[i].kind = "parked"
                       /\ \A j \in DOMAIN events' : j > i => events'[j].place # q
             still == \A i \in DOMAIN events' : events'[i].place # q
             was == \A i \in DOMAIN events : events[i].place # q
  <2>3. /\ \A i \in 1..L : i = 1 \/ (i - 1 \in 1..(L - 1) /\ events[i] = events'[i - 1])
        /\ \A i \in 1..(L - 1) : i + 1 \in 1..L /\ i + 1 > 1
        /\ 1 \in 1..L
    <3>1. \A i \in 1..L : i # 1 => i - 1 \in 1..(L - 1) /\ i = (i - 1) + 1
      BY <1>3
    <3>2. \A i \in 1..L : i # 1 => events[i] = events'[i - 1]
      BY <1>3, <3>1
    <3> QED
      BY <1>3, <3>1, <3>2
  <2>4. was <=> still /\ e.place # q
    <3>1. was => \A i \in 1..L : events[i].place # q
      BY <1>3
    <3>2. was => e.place # q
      BY <1>3, <2>3, <3>1
    <3>3. ASSUME was PROVE still
      <4>1. \A i \in 1..(L - 1) : events'[i] = events[i + 1] /\ i + 1 \in 1..L
        BY <1>3, <2>3
      <4> QED
        BY <1>3, <3>1, <3>3, <4>1
    <3>4. ASSUME still, e.place # q PROVE was
      <4>1. \A i \in 1..(L - 1) : events'[i].place # q
        BY <1>3, <3>4
      <4>2. \A i \in 1..L : events[i].place # q
        BY <1>3, <2>3, <3>4, <4>1
      <4> QED
        BY <1>3, <4>2
    <3> QED
      BY <3>2, <3>3, <3>4
  <2>5. ASSUME ~still PROVE now <=> LastSays(q)
    <3>1. ASSUME now PROVE LastSays(q)
      <4>1. PICK i \in 1..(L - 1) : /\ events'[i].place = q /\ events'[i].kind = "parked"
                                    /\ \A j \in 1..(L - 1) : j > i => events'[j].place # q
        BY <1>3, <3>1
      <4>2. \A j \in 1..L : j > i + 1 => j - 1 \in 1..(L - 1) /\ j - 1 > i /\ events[j] = events'[j - 1]
        BY <1>3, <2>3
      <4>3. i + 1 \in DOMAIN events /\ events[i + 1] = events'[i]
        BY <1>3, <2>3
      <4>4. events[i + 1].place = q /\ events[i + 1].kind = "parked"
        BY <4>1, <4>3
      <4>5. \A j \in DOMAIN events : j > i + 1 => events[j].place # q
        BY <1>3, <4>1, <4>2
      <4> QED
        BY <4>3, <4>4, <4>5 DEF LastSays
    <3>2. ASSUME LastSays(q) PROVE now
      <4>1. PICK i \in 1..L : /\ events[i].place = q /\ events[i].kind = "parked"
                              /\ \A j \in 1..L : j > i => events[j].place # q
        BY <1>3, <3>2 DEF LastSays
      <4>2. PICK k \in 1..(L - 1) : events'[k].place = q
        BY <1>3, <2>5
      <4>3. i # 1
        <5>1. k + 1 \in 1..L /\ k + 1 > 1 /\ events[k + 1].place = q
          BY <1>3, <2>3, <4>2
        <5> QED
          BY <4>1, <5>1
      <4>4. i - 1 \in 1..(L - 1) /\ events'[i - 1] = events[i]
        BY <2>3, <4>3
      <4>5. \A j \in 1..(L - 1) : j > i - 1 => j + 1 \in 1..L /\ j + 1 > i /\ events'[j] = events[j + 1]
        BY <1>3, <2>3
      <4> QED
        BY <1>3, <4>1, <4>4, <4>5
    <3> QED
      BY <3>1, <3>2
  <2>6. ASSUME still PROVE ~now /\ (LastSays(q) <=> e.place = q /\ e.kind = "parked")
    <3>1. ~now
      BY <2>6
    <3>2. \A i \in 1..L : events[i].place = q => i = 1
      BY <1>3, <2>3, <2>6
    <3>3. LastSays(q) => e.place = q /\ e.kind = "parked"
      BY <1>3, <3>2 DEF LastSays
    <3>4. e.place = q /\ e.kind = "parked" => LastSays(q)
      <4>1. \A j \in 1..L : j > 1 => events[j].place # q
        BY <1>3, <3>2
      <4> QED
        BY <1>3, <2>3, <4>1 DEF LastSays
    <3> QED
      BY <3>1, <3>3, <3>4
  <2>7. Listed' = Listed
    BY <1>1 DEF Listed
  <2>8. Due(q)' <=> \/ now
                    \/ still /\ (Awaits(s, "park", q) \/ (~Awaits(s, "unpark", q) /\ q \in Listed))
    BY <2>1, <2>7 DEF Due, LastSays
  <2>9. Due(q) <=> LastSays(q) \/ (was /\ q \in Listed)
    BY <2>2 DEF Due
  <2> HIDE DEF now, still, was
  <2> QED
    BY <1>4, <2>2, <2>4, <2>5, <2>6, <2>8, <2>9
<1>13. ParkedFact'
  <2>1. ParkedFact /\ (Sound' <=> Sound) /\ lost' = lost /\ parked' = parked
    BY <1>1 DEF LotInv, Sound
  <2> QED
    BY <1>12, <2>1 DEF ParkedFact
<1> QED
  BY <1>9, <1>10, <1>11, <1>13, BeginStep

\* What LotInv looks at stays as it is.
LEMMA SameLotKeeps ==
    ASSUME LotInv, UNCHANGED <<lot, lots, left, at, screen, parked, events, lost>>
    PROVE  LotInv'
<1>1. Listed' = Listed
  BY DEF Listed
<1>2. LotTyped'
  BY DEF LotInv, LotTyped
<1>3. LockFact' /\ ListFact' /\ AliveFact'
  BY DEF LotInv, LockFact, ListFact, AliveFact, Within, Turn, Rests, Now
<1>4. RemoveFact' /\ SendFact' /\ AloneFact'
  BY DEF LotInv, RemoveFact, SendFact, AloneFact, Sound, Turn, Rests, Now
<1>5. ObserverFact' /\ ComesFact' /\ EventsFact'
  BY DEF LotInv, ObserverFact, ComesFact, EventsFact, Sound, Observes, Within, Turn, Rests, Now
<1>6. OpenFact'
  <2>1. OpenFact
    BY DEF LotInv
  <2>2. \A p \in Watchers : \A n, i : IsOpen(p, n, i) => IsOpen(p, n, i)'
    BY <1>1 DEF IsOpen, Opening, ToEvents, Turn, Rests, Now
  <2> QED
    BY <2>1, <2>2 DEF OpenFact, Sound
<1>7. ParkedFact'
  <2>1. ParkedFact
    BY DEF LotInv
  <2>2. \A place \in Spaces : Due(place)' <=> Due(place)
    BY <1>1 DEF Due, LastSays
  <2> QED
    BY <2>1, <2>2 DEF ParkedFact, Sound
<1> QED
  BY <1>2, <1>3, <1>4, <1>5, <1>6, <1>7 DEF LotInv

\* Nothing is listed, parked, shown or under way at first.
LEMMA LotStart == LotInit => LotInv
<1> SUFFICES ASSUME LotInit PROVE LotInv
  OBVIOUS
<1>1. /\ lot = <<>> /\ lots = <<>> /\ at = [t \in Hands |-> 0] /\ parked = {} /\ events = <<>>
      /\ left = [t \in Hands |-> <<>>] /\ screen = [p \in Watchers |-> Away]
      /\ lost = [twice |-> FALSE, freed |-> FALSE, moved |-> FALSE, stale |-> FALSE, calls |-> FALSE]
  BY DEF LotInit
<1>2. \A t \in Hands : left[t] = <<>>
  BY <1>1
<1>3. \A t \in Hands : Rests(t) /\ ~Within(t) /\ \A what : ~Turn(t, what)
  BY <1>2 DEF Rests, Within, Turn
<1>4. LotTyped
  <2>1. left = [t \in Hands |-> left[t]]
    <3>1. [t \in Hands |-> left[t]] = [t \in Hands |-> <<>>]
      BY <1>2
    <3> QED
      BY ONLY <1>1, <3>1
  <2>2. \A t \in Hands : IsScript(t, left[t])
    BY <1>2, EmptyScript
  <2>3. screen \in [Watchers -> AScreen]
    BY <1>1 DEF Away, AScreen
  <2>4. lost \in [{"twice", "freed", "moved", "stale", "calls"} -> BOOLEAN]
    <3> DEFINE Kinds == {"twice", "freed", "moved", "stale", "calls"}
    <3>1. DOMAIN lost = Kinds
      BY <1>1
    <3>2. \A x \in Kinds : lost[x] = FALSE
      BY <1>1
    <3>3. lost = [x \in DOMAIN lost |-> lost[x]]
      BY <1>1, Zenon
    <3>4. lost \in [DOMAIN lost -> {FALSE}]
      BY <3>1, <3>2, <3>3, Zenon
    <3> QED
      BY <3>1, <3>4
  <2>5. /\ lot \in Seq(ALot) /\ lots \in Seq(DOMAIN lot) /\ at \in [Hands -> Nat] /\ parked \subseteq Spaces
        /\ events \in Seq([kind : {"parked", "unparked"}, place : Spaces, of : Watchers \cup {"other"}])
        /\ \A n \in DOMAIN lot : Distinct(lot[n].slots)
    <3>1. lot \in Seq(ALot) /\ DOMAIN lot = {}
      BY <1>1
    <3>2. lots \in Seq(DOMAIN lot) /\ at \in [Hands -> Nat] /\ parked \subseteq Spaces
      BY <1>1
    <3>3. events \in Seq([kind : {"parked", "unparked"}, place : Spaces, of : Watchers \cup {"other"}])
      BY <1>1
    <3>4. \A n \in DOMAIN lot : Distinct(lot[n].slots)
      BY <3>1
    <3> QED
      BY <3>1, <3>2, <3>3, <3>4
  <2> QED
    BY <2>1, <2>2, <2>3, <2>4, <2>5 DEF LotTyped
<1>5. LockFact /\ AliveFact /\ RemoveFact /\ SendFact /\ AloneFact
  BY <1>3 DEF LockFact, AliveFact, RemoveFact, SendFact, AloneFact
<1>6. ListFact /\ ObserverFact
  BY <1>1 DEF ListFact, ObserverFact
<1>7. \A p \in Watchers : \A what : ~Has(left[p], what)
  BY <1>2, EmptyScript DEF Has, Hands
<1>8. ComesFact
  BY <1>7 DEF ComesFact
<1>9. EventsFact
  BY <1>3 DEF EventsFact, Hands
<1>10. OpenFact
  <2>1. \A p \in Watchers : screen[p].shows = {}
    BY <1>1 DEF Away
  <2> QED
    BY <2>1 DEF OpenFact
<1>11. ParkedFact
  <2>1. left[Events] = <<>>
    BY <1>2 DEF Hands
  <2>2. Listed = {}
    BY <1>1 DEF Listed
  <2>3. DOMAIN events = {}
    BY <1>1
  <2>4. \A place \in Spaces : ~Due(place)
    BY <2>1, <2>2, <2>3 DEF Due, LastSays, Awaits
  <2> QED
    BY <1>1, <2>4 DEF ParkedFact
<1> QED
  BY <1>4, <1>5, <1>6, <1>8, <1>9, <1>10, <1>11 DEF LotInv

\* Every step keeps the invariant.
LEMMA LotStep == LotInv /\ [LotNext]_lotVars => LotInv'
<1> SUFFICES ASSUME LotInv, [LotNext]_lotVars PROVE LotInv'
  OBVIOUS
<1>1. CASE UNCHANGED lotVars
  BY <1>1, SameLotKeeps DEF lotVars
<1>2. ASSUME NEW t \in Hands, Works(t) PROVE LotInv'
  BY <1>2, WorksKeeps
<1>3. ASSUME NEW p \in Watchers,
             \/ Registers(p) \/ Leaves(p) \/ Presses(p) \/ Exits(p) \/ Starts1(p) \/ EndsCall(p)
             \/ \E place \in Spaces, accepted \in BOOLEAN : Park(p, place, accepted)
      PROVE  LotInv'
  <2>1. CASE EndsCall(p)
    BY <2>1, SameLotKeeps DEF EndsCall
  <2> QED
    BY <1>3, <2>1, RegistersKeeps, LeavesKeeps, KeysKeep, Starts1Keeps, ParkKeeps
<1>4. ASSUME NEW place \in Spaces, ParkedElsewhere(place) \/ Retrieved(place) PROVE LotInv'
  BY <1>4, ParkedElsewhereKeeps
<1>5. CASE EventCb
  BY <1>5, EventCbKeeps
<1> QED
  BY <1>1, <1>2, <1>3, <1>4, <1>5 DEF LotNext

\* When all is handled, what is due is what the lot lists.
LEMMA LotInvLists == LotInv => ListsTheParked
<1> SUFFICES ASSUME LotInv, Settled, Sound, ~lost.calls PROVE Listed = parked
  BY DEF ListsTheParked
<1>1. events = <<>> /\ left[Events] = <<>> /\ DOMAIN events = {}
  BY DEF Settled, Rests, Hands
<1>2. \A place \in Spaces : Due(place) <=> place \in Listed
  BY <1>1 DEF Due, LastSays, Awaits
<1>3. parked \subseteq Spaces /\ \A place \in Spaces : place \in parked <=> Due(place)
  BY DEF LotInv, LotTyped, ParkedFact
<1>4. Listed \subseteq Spaces
  <2>1. lots # <<>> => Head(lots) \in DOMAIN lot
    BY DEF LotInv, LotTyped
  <2>2. lots # <<>> => lot[Head(lots)].slots \in Seq(Spaces)
    BY <2>1, LotIs
  <2> QED
    BY <2>2 DEF Listed, ToSet
<1> QED
  BY <1>2, <1>3, <1>4

\* When all is handled, no menu is on its way.
LEMMA LotInvMenus == LotInv => MenuIsCurrent
<1> SUFFICES ASSUME LotInv, Settled, Sound, ~lost.stale, NEW p \in Watchers, screen[p].shows # {}
             PROVE  screen[p].shows = Listed
  BY DEF MenuIsCurrent
<1>1. \A i : ~ToEvents(i)
  BY DEF Settled, ToEvents, Turn, Hands
<1>2. PICK n \in DOMAIN lot : \E i \in DOMAIN lot[n].observers : IsOpen(p, n, i)
  BY DEF LotInv, OpenFact
<1> QED
  BY <1>1, <1>2 DEF IsOpen

\* The threads that work on the parking lot keep the invariant: with the lot locked they are
\* alone inside, what is parked is what is due, and an open menu is current or comes again
\* (sccp_featureParkingLot.c), for any phones, places and bounds.
THEOREM LotIsKept == Spec => []LotInv
<1>1. Init => LotInv
  BY LotStart DEF Init
<1>2. LotInv /\ [Next]_<<part, featureVars, lotVars, hintVars>> => LotInv'
  <2> SUFFICES ASSUME LotInv, [Next]_<<part, featureVars, lotVars, hintVars>> PROVE LotInv'
    OBVIOUS
  <2>1. [LotNext]_lotVars
    BY DEF Next
  <2> QED
    BY <2>1, LotStep
<1> QED
  BY <1>1, <1>2, PTL DEF Spec

\* Once Asterisk's events are handled and every thread rests, the lot lists the calls that
\* are parked: addSlot and removeSlot lose none of them, unless a lot was made twice, used
\* after it was freed, written through an old pointer or destroyed with calls in it.
THEOREM LotListsTheParked == Spec => []ListsTheParked
BY LotIsKept, LotInvLists, PTL

\* ... and every menu that is open lists them as well: __showVisualParkingLot and
\* _notifyHelper leave none behind, unless the calls change while a menu is on its way or two
\* threads send to one phone at once.
THEOREM OpenMenusAreCurrent == Spec => []MenuIsCurrent
BY LotIsKept, LotInvMenus, PTL
=============================================================================
