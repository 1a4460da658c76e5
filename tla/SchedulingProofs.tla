-------------------------- MODULE SchedulingProofs --------------------------
(***************************************************************************)
(* Of Scheduling, for any number of threads and of tasks: as long as no    *)
(* task forwards a call, whoever may follow a pointer to the channel has a *)
(* reference to it, and a callback never runs on a freed channel.          *)
(***************************************************************************)
EXTENDS Scheduling, FiniteSetTheorems, TLAPS

(* The tasks of an endpoint without forward on no answer. *)
NoForward == Kinds \subseteq {"digit", "hangup"}

(* No task forwards (sccp_channel.c:1313 is never called), the timer that  *)
(* is in a callback runs a task, and who schedules has one to schedule.    *)
TimerInv ==
  /\ \A t \in Threads : pc[t] \in {"schedule", "add"} => task[t] \in Tasks
  /\ \A n \in Tasks : kind[n] # "cfwd"
  /\ pc[Timer] \notin {"idle", "cfwd", "freed"} => firing # NoTask
  /\ pc[Timer] \notin {"cfwd", "freed"}

(* One thread at a time is in sccp_pbx_hangup before the line lets go of   *)
(* the channel, under the channel's lock (ast120.c:1281-1290).             *)
HangupInv ==
  /\ \A t \in Threads : pc[t] = "stopcfwd" => owned /\ t \in Callers
  /\ \A t, u \in Callers : pc[t] = "stopcfwd" /\ pc[u] = "stopcfwd" => t = u

IInv == TypeOK /\ TimerInv /\ HangupInv /\ TasksHoldReferences

-----------------------------------------------------------------------------
(* The tasks in the scheduler and the threads that hold a reference can be *)
(* counted (sccp_channel.c:1262-1346).                                     *)
LEMMA Counted ==
  ASSUME TypeOK
  PROVE  /\ IsFiniteSet(due) /\ Cardinality(due) \in Nat
         /\ IsFiniteSet(Holding) /\ Cardinality(Holding) \in Nat
         /\ Holders \in Nat
<1>1. IsFiniteSet(Tasks)
  BY FS_Interval, SchedulingAssumption DEF Tasks
<1>2. IsFiniteSet(due) /\ Cardinality(due) \in Nat
  BY <1>1, FS_Subset, FS_CardinalityType DEF TypeOK
<1>3. IsFiniteSet(Holding) /\ Cardinality(Holding) \in Nat
  BY FS_Subset, FS_CardinalityType, SchedulingAssumption DEF Holding
<1>4. QED
  BY <1>2, <1>3 DEF Holders

(* A thread that goes on inside a function keeps what it holds, and the    *)
(* timer holds no reference but that of its task.                          *)
LEMMA StaysHolding ==
  ASSUME TypeOK, NEW t \in Threads, NEW p, Goto(t, p),
         t = Timer \/ (pc[t] # "idle" /\ p # "idle")
  PROVE  Holding' = Holding
BY SchedulingAssumption DEF Goto, Holding, TypeOK, Threads

(* A caller that enters a function with a retain is one holder more        *)
(* (sccp_channel.c:1264, 1281, 1315).                                      *)
LEMMA EntersHolding ==
  ASSUME TypeOK, NEW t \in Callers, NEW p, Goto(t, p), pc[t] = "idle", p # "idle"
  PROVE  Cardinality(Holding') = Cardinality(Holding) + 1
<1>1. Holding' = Holding \cup {t} /\ t \notin Holding
  BY SchedulingAssumption DEF Goto, Holding, TypeOK, Threads
<1>2. QED
  BY <1>1, Counted, FS_AddElement

(* A thread that leaves its function is one holder less if it is a caller. *)
LEMMA LeavesHolding ==
  ASSUME TypeOK, NEW t \in Threads, Leave(t), pc[t] # "idle"
  PROVE  Cardinality(Holding') = Cardinality(Holding) - Own(t)
<1>1. CASE t = Timer
  BY <1>1, StaysHolding, Counted DEF Leave, Own
<1>2. CASE t # Timer
  <2>1. Holding' = Holding \ {t} /\ t \in Holding
    BY <1>2, SchedulingAssumption DEF Leave, Goto, Holding, TypeOK, Threads
  <2>2. QED
    BY <1>2, <2>1, Counted, FS_RemoveElement DEF Own
<1>3. QED
  BY <1>1, <1>2

(* A cancelled task gives up one reference and is one task less            *)
(* (ast120.c:2540-2547), whatever reference the thread takes.              *)
LEMMA Cancelled ==
  ASSUME TypeOK, NEW k \in AllKinds, NEW taken \in {-1, 0, 1}, Cancel(k, taken)
  PROVE  /\ refcount' \in Int
         /\ Cardinality(due') \in Int
         /\ Cardinality(due') \in Int
        /\ refcount' - Cardinality(due') = refcount - Cardinality(due) + taken
         /\ due' \in SUBSET Tasks
         /\ id' \in [AllKinds -> Tasks \cup {Unset, Spent}]
<1>1. CASE Pending(k)
  <2>1. due' = due \ {id[k]} /\ id[k] \in due
    BY <1>1 DEF Cancel, Pending
  <2>2. Cardinality(due') = Cardinality(due) - 1
    BY <2>1, Counted, FS_RemoveElement
  <2>3. QED
    BY <1>1, <2>1, <2>2, Counted DEF Cancel, TypeOK
<1>2. CASE ~Pending(k)
  <2>1. due' = due
    BY <1>2 DEF Cancel, Pending
  <2>2. Cardinality(due') \in Int /\ Cardinality(due) \in Int
    BY <2>1, Counted
  <2>3. refcount' = refcount + taken /\ refcount \in Int /\ due' \in SUBSET Tasks
    BY <1>2, <2>1 DEF Cancel, TypeOK
  <2>4. id' \in [AllKinds -> Tasks \cup {Unset, Spent}]
    BY DEF Cancel, TypeOK
  <2>5. QED
    BY <2>1, <2>2, <2>3, <2>4
<1>3. QED
  BY <1>1, <1>2

-----------------------------------------------------------------------------
(* A new channel has the reference of its owner (sccp_channel.c:205-262).  *)
LEMMA Initially == Init => IInv
<1>1. SUFFICES ASSUME Init PROVE IInv
  OBVIOUS
<1>2. Holding = {} /\ due = {}
  BY <1>1, SchedulingAssumption DEF Init, Holding, Threads
<1>3. Cardinality(due) = 0 /\ Cardinality(Holding) = 0
  BY <1>2, FS_EmptySet
<1>4. TypeOK
  <2>1. 0 \in 0..MaxCalls /\ 1 \in Nat
    BY SchedulingAssumption
  <2>2. QED
    BY <1>1, <2>1, Zenon DEF Init, TypeOK, AllKinds, CallerPCs
<1>5. TimerInv
  BY <1>1 DEF Init, TimerInv, Threads
<1>6. HangupInv
  BY <1>1 DEF Init, HangupInv, Threads
<1>7. TasksHoldReferences
  BY <1>1, <1>3 DEF Init, TasksHoldReferences, Holders
<1>8. QED
  BY <1>4, <1>5, <1>6, <1>7 DEF IInv

(* The types but for the count, whose sign needs the other invariants. *)
TypesInt ==
  /\ refcount \in Int
  /\ deny \in BOOLEAN
  /\ id \in [AllKinds -> Tasks \cup {Unset, Spent}]
  /\ due \in SUBSET Tasks
  /\ firing \in Tasks \cup {NoTask}
  /\ kind \in [Tasks -> AllKinds]
  /\ calls \in 0..MaxCalls
  /\ owned \in BOOLEAN /\ takesDigits \in BOOLEAN /\ answering \in BOOLEAN
  /\ isHangingUp \in BOOLEAN /\ asked \in BOOLEAN
  /\ pc \in [Threads -> CallerPCs \cup TimerPCs]
  /\ task \in [Threads -> Tasks \cup {NoTask}]

(* The count of references is a natural number because the holders are. *)
LEMMA CountIsNat ==
  ASSUME TypesInt, TasksHoldReferences
  PROVE  TypeOK
<1>1. IsFiniteSet(Tasks)
  BY FS_Interval, SchedulingAssumption DEF Tasks
<1>2. Cardinality(due) \in Nat
  BY <1>1, FS_Subset, FS_CardinalityType DEF TypesInt
<1>3. Cardinality(Holding) \in Nat
  BY FS_Subset, FS_CardinalityType, SchedulingAssumption DEF Holding
<1>4. Holders \in Nat
  BY <1>2, <1>3 DEF Holders
<1>5. QED
  BY <1>4 DEF TypesInt, TypeOK, TasksHoldReferences

-----------------------------------------------------------------------------
(* The steps of the schedule functions, by callers and by the timer        *)
(* (sccp_channel.c:1262-1326).                                             *)
LEMMA ScheduleSteps ==
  ASSUME IInv, NoForward, NEW t \in Threads,
         \/ \E k \in Kinds : t \in Callers /\ Schedule(t, k)
         \/ ScheduleTest(t)
         \/ ScheduleAdd(t)
  PROVE  TypesInt' /\ TimerInv' /\ TasksHoldReferences'
<1>1. ASSUME NEW k \in Kinds, t \in Callers, Schedule(t, k)
      PROVE  TypesInt' /\ TimerInv' /\ TasksHoldReferences'
  <2>1. calls + 1 \in Tasks /\ calls + 1 \in 0..MaxCalls
    BY <1>1, SchedulingAssumption DEF Schedule, EnterSchedule, IInv, TypeOK, Tasks
  <2>2. Cardinality(Holding') = Cardinality(Holding) + 1
    BY <1>1, EntersHolding DEF Schedule, EnterSchedule, IInv
  <2>3. TypesInt'
    BY <1>1, <2>1, SchedulingAssumption
    DEF Schedule, EnterSchedule, call, Goto, IInv, TypeOK, TypesInt, Threads, CallerPCs,
        AllKinds
  <2>4. TimerInv'
    BY <1>1, <2>1, SchedulingAssumption
    DEF Schedule, EnterSchedule, call, Goto, IInv, TimerInv, TypeOK, NoForward, Threads
  <2>5. TasksHoldReferences'
    BY <1>1, <2>2, Counted
    DEF Schedule, EnterSchedule, call, IInv, TypeOK, TasksHoldReferences, Holders
  <2>6. QED
    BY <2>3, <2>4, <2>5
<1>2. ASSUME ScheduleTest(t)
      PROVE  TypesInt' /\ TimerInv' /\ TasksHoldReferences'
  <2>1. TypesInt' /\ TimerInv'
    BY <1>2, SchedulingAssumption
    DEF ScheduleTest, Leave, Own, scheduler, call, Goto, IInv, TimerInv, TypeOK, TypesInt,
        Threads, CallerPCs, TimerPCs
  <2>2. Cardinality(Holding') \in Int /\ Cardinality(Holding) \in Nat
        /\ Cardinality(Holding') <= Cardinality(Holding)
        /\ (refcount' = refcount \/ Cardinality(Holding') = Cardinality(Holding) - Own(t))
    <3>1. CASE Leave(t)
      BY <1>2, <3>1, Counted, LeavesHolding DEF ScheduleTest, IInv, Own
    <3>2. CASE Goto(t, "add") /\ refcount' = refcount
      BY <1>2, <3>2, Counted, StaysHolding DEF ScheduleTest, IInv
    <3>3. QED
      BY <1>2, <3>1, <3>2 DEF ScheduleTest
  <2>3. TasksHoldReferences'
    BY <1>2, <2>2, Counted
    DEF ScheduleTest, Own, scheduler, call, IInv, TypeOK, TasksHoldReferences, Holders
  <2>4. QED
    BY <2>1, <2>3
<1>3. ASSUME ScheduleAdd(t)
      PROVE  TypesInt' /\ TimerInv' /\ TasksHoldReferences'
  <2> DEFINE k == kind[task[t]]
  <2>1. k \in AllKinds /\ task[t] \in Tasks /\ k # "cfwd"
    BY <1>3 DEF ScheduleAdd, IInv, TypeOK, TimerInv
  <2>2. PICK replaced \in SUBSET due :
          /\ replaced = {} \/ \E n \in due : replaced = {n}
          /\ \/ /\ due' = (due \ replaced) \cup {task[t]}
                /\ id' = [id EXCEPT ![k] = task[t]]
                /\ refcount' = refcount + 1 - Cardinality(replaced) - Own(t)
             \/ /\ due' = due \ replaced
                /\ id' = [id EXCEPT ![k] = Unset]
                /\ refcount' = refcount - Cardinality(replaced) - Own(t)
    <3> DEFINE old == IF k = "digit" THEN due \cap {id[k]} ELSE {}
    <3>1. old \in SUBSET due /\ (old = {} \/ \E n \in due : old = {n})
      OBVIOUS
    <3>2. QED
      BY <1>3, <2>1, <3>1 DEF ScheduleAdd
  <2>3. /\ Cardinality(replaced) \in Nat
        /\ Cardinality(due \ replaced) = Cardinality(due) - Cardinality(replaced)
    <3>1. CASE replaced = {}
      <4>1. due \ replaced = due
        BY <3>1
      <4>2. QED
        BY <3>1, <4>1, Counted, FS_EmptySet DEF IInv
    <3>2. ASSUME NEW n \in due, replaced = {n}
          PROVE  /\ Cardinality(replaced) \in Nat
                 /\ Cardinality(due \ replaced) = Cardinality(due) - Cardinality(replaced)
      <4>1. Cardinality({n}) = 1 /\ 1 \in Nat
        BY FS_Singleton
      <4>2. Cardinality(due \ {n}) = Cardinality(due) - 1
        BY Counted, FS_RemoveElement DEF IInv
      <4>3. QED
        BY <3>2, <4>1, <4>2
    <3>3. replaced = {} \/ \E n \in due : replaced = {n}
      BY <2>2
    <3>4. QED
      BY <3>1, <3>2, <3>3, Zenon
  <2>4. Cardinality((due \ replaced) \cup {task[t]}) <= Cardinality(due \ replaced) + 1
        /\ Cardinality((due \ replaced) \cup {task[t]}) \in Nat
    <3>1. IsFiniteSet(due \ replaced)
      BY Counted, FS_Subset DEF IInv
    <3>2. Cardinality(due \ replaced) \in Nat
      BY <3>1, FS_CardinalityType
    <3>3. CASE task[t] \in due \ replaced
      <4>1. (due \ replaced) \cup {task[t]} = due \ replaced
        BY <3>3
      <4>2. QED
        BY <3>2, <4>1
    <3>4. CASE task[t] \notin due \ replaced
      <4> DEFINE rest == due \ replaced
                 n == task[t]
      <4>1. IsFiniteSet(rest) /\ Cardinality(rest) \in Nat /\ n \notin rest
        BY <3>1, <3>2, <3>4
      <4> HIDE DEF rest, n
      <4>2. Cardinality(rest \cup {n}) = Cardinality(rest) + 1
        BY <4>1, FS_AddElement
      <4>3. Cardinality(rest \cup {n}) <= Cardinality(rest) + 1
            /\ Cardinality(rest \cup {n}) \in Nat
        BY <4>1, <4>2
      <4>4. QED
        BY <4>3 DEF rest, n
    <3>5. QED
      BY <3>3, <3>4
  <2>5. Cardinality(Holding') = Cardinality(Holding) - Own(t)
    BY <1>3, LeavesHolding DEF ScheduleAdd, IInv
  <2>6. TypesInt'
    BY <1>3, <2>1, <2>2, <2>3, SchedulingAssumption
    DEF ScheduleAdd, Leave, Own, call, Goto, IInv, TypeOK, TypesInt, Threads, CallerPCs,
        TimerPCs
  <2>7. TimerInv'
    BY <1>3, SchedulingAssumption
    DEF ScheduleAdd, Leave, call, Goto, IInv, TypeOK, TimerInv, Threads
  <2>8. TasksHoldReferences'
    <3>1. /\ Cardinality(due') - Cardinality(due) <= refcount' - refcount + Own(t)
          /\ Cardinality(due') \in Nat /\ Cardinality(due) \in Nat
      <4>1. refcount \in Int /\ Own(t) \in Int /\ Cardinality(due) \in Nat
        BY Counted DEF IInv, TypeOK, Own
      <4>2. \/ /\ Cardinality(due') <= Cardinality(due \ replaced) + 1
               /\ Cardinality(due') \in Nat
               /\ refcount' = refcount + 1 - Cardinality(replaced) - Own(t)
            \/ /\ Cardinality(due') = Cardinality(due \ replaced)
               /\ refcount' = refcount - Cardinality(replaced) - Own(t)
        BY <2>2, <2>4
      <4>3. Cardinality(due \ replaced) \in Nat
        BY <2>2, Counted, FS_Subset, FS_CardinalityType DEF IInv
      <4>4. QED
        BY <2>3, <4>1, <4>2, <4>3
    <3>2. QED
      BY <1>3, <2>5, <2>6, <3>1, Counted
      DEF ScheduleAdd, Own, call, IInv, TypesInt, TypeOK, TasksHoldReferences, Holders
  <2>9. QED
    BY <2>6, <2>7, <2>8
<1>4. QED
  BY <1>1, <1>2, <1>3

(* The steps that cancel tasks or end the call (sccp_channel.c:1249-1370,  *)
(* sccp_pbx.c:441-545).                                                    *)
LEMMA EndingSteps ==
  ASSUME IInv, NEW t \in Threads,
         \/ t \in Callers /\ (Answer(t) \/ Endcall(t) \/ PbxHangup(t))
         \/ \E k \in {"digit", "cfwd"} : StopSchedule(t, k)
         \/ Answering(t) \/ StopCfwd(t) \/ Ending(t)
  PROVE  TypesInt' /\ TimerInv' /\ TasksHoldReferences'
<1>1. ASSUME NEW k \in {"digit", "cfwd"}, StopSchedule(t, k)
      PROVE  TypesInt' /\ TimerInv' /\ TasksHoldReferences'
  <2>1. k \in AllKinds
    BY DEF AllKinds
  <2>2. Holding' = Holding
    BY <1>1 DEF StopSchedule, Holding
  <2>3. QED
    BY <1>1, <2>1, <2>2, Cancelled, Counted
    DEF StopSchedule, call, IInv, TimerInv, TypeOK, TypesInt, TasksHoldReferences, Holders
<1>2. ASSUME t \in Callers, Answer(t) \/ PbxHangup(t)
      PROVE  TypesInt' /\ TimerInv' /\ TasksHoldReferences'
  <2>1. PICK p \in {"answer", "stopcfwd"} : Goto(t, p) /\ pc[t] = "idle"
    BY <1>2 DEF Answer, PbxHangup
  <2>2. Cardinality(Holding') = Cardinality(Holding) + 1
    BY <1>2, <2>1, EntersHolding DEF IInv
  <2>3. /\ refcount' \in Int
        /\ Cardinality(due') \in Int
        /\ refcount' - Cardinality(due') = refcount - Cardinality(due) + 1
        /\ due' \in SUBSET Tasks
        /\ id' \in [AllKinds -> Tasks \cup {Unset, Spent}]
    BY <1>2, Cancelled DEF Answer, PbxHangup, IInv, AllKinds
  <2>4. /\ UNCHANGED <<deny, firing, kind, calls, owned, takesDigits, answering, asked, task>>
        /\ isHangingUp' \in BOOLEAN
    BY <1>2 DEF Answer, PbxHangup, call, IInv, TypeOK
  <2>5. TypesInt' /\ TimerInv'
    BY <1>2, <2>1, <2>3, <2>4, SchedulingAssumption
    DEF Goto, IInv, TimerInv, TypeOK, TypesInt, Threads, CallerPCs
  <2>6. TasksHoldReferences'
    BY <2>2, <2>3, <2>4, Counted DEF IInv, TypeOK, TasksHoldReferences, Holders
  <2>7. QED
    BY <2>5, <2>6
<1>3. ASSUME t \in Callers, Endcall(t)
      PROVE  TypesInt' /\ TimerInv' /\ TasksHoldReferences'
  <2>1. Cardinality(Holding') = Cardinality(Holding) + 1
    BY <1>3, EntersHolding DEF Endcall, IInv
  <2>2. TypesInt' /\ TimerInv'
    BY <1>3, SchedulingAssumption
    DEF Endcall, scheduler, Goto, IInv, TimerInv, TypeOK, TypesInt, Threads, CallerPCs
  <2>3. TasksHoldReferences'
    BY <1>3, <2>1, Counted
    DEF Endcall, scheduler, IInv, TypeOK, TasksHoldReferences, Holders
  <2>4. QED
    BY <2>2, <2>3
<1>4. ASSUME StopCfwd(t)
      PROVE  TypesInt' /\ TimerInv' /\ TasksHoldReferences'
  <2>1. Holding' = Holding
    BY <1>4, StaysHolding DEF StopCfwd, IInv
  <2>2. /\ refcount' \in Int
        /\ Cardinality(due') \in Int
        /\ refcount' - Cardinality(due') = refcount - Cardinality(due) + (-1)
        /\ due' \in SUBSET Tasks
        /\ id' \in [AllKinds -> Tasks \cup {Unset, Spent}]
    BY <1>4, Cancelled DEF StopCfwd, IInv, AllKinds
  <2>3. TypesInt' /\ TimerInv'
    BY <1>4, <2>2, SchedulingAssumption
    DEF StopCfwd, Goto, IInv, TimerInv, TypeOK, TypesInt, Threads, CallerPCs
  <2>4. owned /\ ~owned'
    BY <1>4 DEF StopCfwd, IInv, HangupInv
  <2>5. TasksHoldReferences'
    BY <1>4, <2>1, <2>2, <2>4, Counted
    DEF StopCfwd, IInv, TypeOK, TasksHoldReferences, Holders
  <2>6. QED
    BY <2>3, <2>5
<1>5. ASSUME CancelAll(t)
      PROVE  TypesInt' /\ TimerInv' /\ TasksHoldReferences'
  <2>1. PICK p \in {"unhangup", "uncfwd", "request"} : Goto(t, p)
    BY <1>5 DEF CancelAll
  <2>2. Holding' = Holding
    BY <1>5, <2>1, StaysHolding DEF CancelAll, IInv
  <2>3. /\ refcount' \in Int
        /\ Cardinality(due') \in Int
        /\ refcount' - Cardinality(due') = refcount - Cardinality(due) + 0
        /\ due' \in SUBSET Tasks
        /\ id' \in [AllKinds -> Tasks \cup {Unset, Spent}]
    BY <1>5, Cancelled DEF CancelAll, IInv, AllKinds
  <2>4. pc[t] # "idle"
    BY <1>5 DEF CancelAll
  <2>5. UNCHANGED <<deny, firing, kind, calls, call, task>>
    BY <1>5 DEF CancelAll
  <2>6. TypesInt' /\ TimerInv'
    BY <2>1, <2>3, <2>4, <2>5, SchedulingAssumption
    DEF call, Goto, IInv, TimerInv, TypeOK, TypesInt, Threads, CallerPCs
  <2>7. TasksHoldReferences'
    BY <2>2, <2>3, <2>5, Counted
    DEF call, IInv, TypeOK, TasksHoldReferences, Holders
  <2>8. QED
    BY <2>6, <2>7
<1>6. ASSUME TestDeny(t) \/ Deny(t)
      PROVE  TypesInt' /\ TimerInv' /\ TasksHoldReferences'
  <2>1. PICK p \in {"request", "deny", "undigit"} : Goto(t, p)
    BY <1>6 DEF TestDeny, Deny
  <2>2. Holding' = Holding
    BY <1>6, <2>1, StaysHolding DEF TestDeny, Deny, IInv
  <2>3. deny' \in BOOLEAN /\ pc[t] # "idle"
        /\ UNCHANGED <<refcount, id, scheduler, call, task>>
    BY <1>6 DEF TestDeny, Deny, IInv, TypeOK
  <2>4. TypesInt' /\ TimerInv'
    BY <2>1, <2>3, SchedulingAssumption
    DEF scheduler, call, Goto, IInv, TimerInv, TypeOK, TypesInt, Threads, CallerPCs
  <2>5. TasksHoldReferences'
    BY <2>2, <2>3, Counted DEF scheduler, call, IInv, TasksHoldReferences, Holders
  <2>6. QED
    BY <2>4, <2>5
<1>7. ASSUME Request(t) \/ Answering(t)
      PROVE  TypesInt' /\ TimerInv' /\ TasksHoldReferences'
  <2>1. Cardinality(Holding') = Cardinality(Holding) - Own(t)
    BY <1>7, LeavesHolding DEF Request, Answering, IInv
  <2>2. /\ refcount' \in Int /\ answering' \in BOOLEAN /\ asked' \in BOOLEAN
        /\ refcount' = refcount - Own(t)
        /\ UNCHANGED <<deny, id, scheduler, owned, takesDigits, isHangingUp, task>>
    <3>1. refcount' = refcount - Own(t) /\ refcount' \in Int
      <4>1. refcount' = refcount - Own(t)
        BY <1>7 DEF Request, Answering
      <4>2. Own(t) \in Int /\ refcount \in Int
        BY DEF Own, IInv, TypeOK
      <4>3. QED
        BY <4>1, <4>2
    <3>2. answering' \in BOOLEAN /\ asked' \in BOOLEAN
      <4>1. CASE Request(t)
        BY <4>1 DEF Request, IInv, TypeOK
      <4>2. CASE Answering(t)
        <5>1. asked' = asked /\ (answering' = answering \/ answering' = TRUE)
          BY <4>2 DEF Answering
        <5>2. QED
          BY <5>1 DEF IInv, TypeOK
      <4>3. QED
        BY <1>7, <4>1, <4>2
    <3>3. UNCHANGED <<deny, id, scheduler, owned, takesDigits, isHangingUp, task>>
      BY <1>7 DEF Request, Answering
    <3>4. QED
      BY <3>1, <3>2, <3>3
  <2>3. Leave(t) /\ pc[t] \notin {"idle", "cfwd", "freed"}
    BY <1>7 DEF Request, Answering
  <2>4. TypesInt' /\ TimerInv'
    BY <2>2, <2>3, SchedulingAssumption
    DEF Leave, scheduler, Goto, IInv, TimerInv, TypeOK, TypesInt, Threads, CallerPCs,
        TimerPCs
  <2>5. TasksHoldReferences'
    BY <2>1, <2>2, Counted
    DEF Own, scheduler, IInv, TypeOK, TasksHoldReferences, Holders
  <2>6. QED
    BY <2>4, <2>5
<1>8. QED
  BY <1>1, <1>2, <1>3, <1>4, <1>5, <1>6, <1>7 DEF Ending

(* The steps of the timer, but those it shares with the callers            *)
(* (sccp_pbx.c:851-872, sccp_channel.c:1233-1247).                         *)
LEMMA TimerSteps ==
  ASSUME IInv, pc[Timer] # "freed", TimerStep
  PROVE  TypesInt' /\ TimerInv' /\ TasksHoldReferences'
<1>1. ASSUME NEW n \in Tasks, Fire(n)
      PROVE  TypesInt' /\ TimerInv' /\ TasksHoldReferences'
  <2>1. Cardinality(due') = Cardinality(due) - 1
    BY <1>1, Counted, FS_RemoveElement DEF Fire, IInv
  <2>2. Holding' = Holding
    BY <1>1, SchedulingAssumption DEF Fire, Goto, Holding, IInv, TypeOK, Threads
  <2>3. Cardinality(due) # 0
    BY <1>1, Counted, FS_EmptySet DEF Fire, IInv
  <2>4. refcount > 0
    BY <2>3, Counted DEF IInv, TypeOK, TasksHoldReferences, Holders
  <2>5. PICK p \in {"digit", "sched_endcall"} : Goto(Timer, p)
    BY <1>1, <2>4 DEF Fire, IInv, TimerInv, TypeOK, AllKinds
  <2>6. n # NoTask
    BY DEF Tasks, NoTask
  <2>7. TypesInt' /\ TimerInv'
    BY <1>1, <2>5, <2>6, SchedulingAssumption
    DEF Fire, call, Goto, IInv, TimerInv, TypeOK, TypesInt, Threads, TimerPCs
  <2>8. firing = NoTask \/ firing # NoTask
    OBVIOUS
  <2>9. TasksHoldReferences'
    BY <1>1, <2>1, <2>2, <2>6, Counted
    DEF Fire, call, IInv, TypeOK, TasksHoldReferences, Holders
  <2>10. QED
    BY <2>7, <2>9
<1>2. ASSUME DigitTimeout \/ SchedEndcall
      PROVE  TypesInt' /\ TimerInv' /\ TasksHoldReferences'
  <2>1. PICK p \in {"dial", "done", "deny"} : Goto(Timer, p)
    BY <1>2 DEF DigitTimeout, SchedEndcall
  <2>2. Holding' = Holding
    BY <2>1, SchedulingAssumption DEF Goto, Holding, IInv, TypeOK, Threads
  <2>3. /\ UNCHANGED <<refcount, deny, scheduler, owned, takesDigits, answering, asked, task>>
        /\ isHangingUp' \in BOOLEAN
        /\ id' \in [AllKinds -> Tasks \cup {Unset, Spent}]
        /\ pc[Timer] \notin {"idle", "cfwd"}
    BY <1>2 DEF DigitTimeout, SchedEndcall, call, IInv, TypeOK
  <2>4. TypesInt' /\ TimerInv'
    BY <2>1, <2>3, SchedulingAssumption
    DEF scheduler, Goto, IInv, TimerInv, TypeOK, TypesInt, Threads, CallerPCs, TimerPCs
  <2>5. TasksHoldReferences'
    BY <2>2, <2>3, Counted DEF scheduler, IInv, TasksHoldReferences, Holders
  <2>6. QED
    BY <2>4, <2>5
<1>3. ASSUME Dial
      PROVE  TypesInt' /\ TimerInv' /\ TasksHoldReferences'
  <2>1. PICK p \in {"done", "schedule", "endcall"} : Goto(Timer, p) /\ pc[Timer] = "dial"
    BY <1>3 DEF Dial, EnterSchedule
  <2>2. Holding' = Holding
    BY <2>1, SchedulingAssumption DEF Goto, Holding, IInv, TypeOK, Threads
  <2>3. /\ refcount' \in Int
        /\ Cardinality(due') \in Int
        /\ refcount' - Cardinality(due') = refcount - Cardinality(due) + 0
        /\ due' \in SUBSET Tasks
        /\ id' \in [AllKinds -> Tasks \cup {Unset, Spent}]
    BY <1>3, Cancelled DEF Dial, IInv, AllKinds
  <2>4. /\ UNCHANGED <<deny, firing, owned, answering, asked>>
        /\ takesDigits' \in BOOLEAN /\ isHangingUp' \in BOOLEAN
    BY <1>3 DEF Dial, IInv, TypeOK
  <2>5. /\ kind' \in [Tasks -> AllKinds] /\ calls' \in 0..MaxCalls
        /\ \A n \in Tasks : kind'[n] # "cfwd"
        /\ task' \in [Threads -> Tasks \cup {NoTask}]
        /\ p = "schedule" => task'[Timer] \in Tasks
        /\ \A t \in Callers : task'[t] = task[t]
    <3>1. CASE UNCHANGED <<kind, calls, task>> /\ p # "schedule"
      BY <3>1 DEF IInv, TypeOK, TimerInv
    <3>2. CASE EnterSchedule(Timer, "hangup")
      <4>1. calls + 1 \in Tasks /\ calls + 1 \in 0..MaxCalls
        BY <3>2, SchedulingAssumption DEF EnterSchedule, IInv, TypeOK, Tasks
      <4>2. kind' \in [Tasks -> AllKinds] /\ calls' \in 0..MaxCalls
        BY <3>2, <4>1 DEF EnterSchedule, IInv, TypeOK, AllKinds
      <4>3. \A n \in Tasks : kind'[n] # "cfwd"
        BY <3>2, <4>1 DEF EnterSchedule, IInv, TypeOK, TimerInv
      <4>4. /\ task' \in [Threads -> Tasks \cup {NoTask}] /\ task'[Timer] \in Tasks
            /\ \A t \in Callers : task'[t] = task[t]
        BY <3>2, <4>1, SchedulingAssumption DEF EnterSchedule, IInv, TypeOK, Threads
      <4>5. QED
        BY <4>2, <4>3, <4>4
    <3>3. QED
      BY <1>3, <2>1, <3>1, <3>2 DEF Dial, Goto, IInv, TypeOK, Threads
  <2>6. TypesInt' /\ TimerInv'
    <3>1. pc' \in [Threads -> CallerPCs \cup TimerPCs]
      BY <2>1 DEF Goto, IInv, TypeOK, CallerPCs, TimerPCs
    <3>2. TypesInt'
      BY <2>3, <2>4, <2>5, <3>1 DEF IInv, TypeOK, TypesInt
    <3>3. TimerInv'
      BY <2>1, <2>4, <2>5, SchedulingAssumption
      DEF Goto, IInv, TimerInv, TypeOK, Threads
    <3>4. QED
      BY <3>2, <3>3
  <2>7. TasksHoldReferences'
    BY <2>2, <2>3, <2>4, Counted DEF IInv, TypeOK, TasksHoldReferences, Holders
  <2>8. QED
    BY <2>6, <2>7
<1>4. ASSUME InvalidNumber
      PROVE  TypesInt' /\ TimerInv' /\ TasksHoldReferences'
  <2>1. Holding' = Holding
    BY <1>4, SchedulingAssumption
    DEF InvalidNumber, EnterSchedule, Goto, Holding, IInv, TypeOK, Threads
  <2>2. calls + 1 \in Tasks /\ calls + 1 \in 0..MaxCalls
    BY <1>4, SchedulingAssumption DEF InvalidNumber, EnterSchedule, IInv, TypeOK, Tasks
  <2>3. TypesInt'
    <3>1. kind' \in [Tasks -> AllKinds] /\ calls' \in 0..MaxCalls
      BY <1>4, <2>2 DEF InvalidNumber, EnterSchedule, IInv, TypeOK, AllKinds
    <3>2. /\ task' \in [Threads -> Tasks \cup {NoTask}]
          /\ pc' \in [Threads -> CallerPCs \cup TimerPCs]
      BY <1>4, <2>2 DEF InvalidNumber, EnterSchedule, Goto, IInv, TypeOK, CallerPCs
    <3>3. takesDigits' \in BOOLEAN
          /\ UNCHANGED <<refcount, deny, id, due, firing, owned, answering, isHangingUp, asked>>
      BY <1>4 DEF InvalidNumber
    <3>4. QED
      BY <3>1, <3>2, <3>3 DEF IInv, TypeOK, TypesInt
  <2>4. TimerInv'
    <3>1. \A n \in Tasks : kind'[n] # "cfwd"
      BY <1>4, <2>2 DEF InvalidNumber, EnterSchedule, IInv, TimerInv, TypeOK
    <3>2. \A u \in Threads : pc'[u] \in {"schedule", "add"} => task'[u] \in Tasks
      BY <1>4, <2>2 DEF InvalidNumber, EnterSchedule, Goto, IInv, TimerInv, TypeOK
    <3>3. pc'[Timer] = "schedule" /\ firing' # NoTask
      BY <1>4 DEF InvalidNumber, EnterSchedule, Goto, IInv, TimerInv, TypeOK, Threads
    <3>4. QED
      BY <3>1, <3>2, <3>3 DEF TimerInv
  <2>5. TasksHoldReferences'
    BY <1>4, <2>1, Counted
    DEF InvalidNumber, EnterSchedule, IInv, TypeOK, TasksHoldReferences, Holders
  <2>6. QED
    BY <2>3, <2>4, <2>5
<1>5. ASSUME CallbackReturns
      PROVE  TypesInt' /\ TimerInv' /\ TasksHoldReferences'
  <2>1. Holding' = Holding
    BY <1>5, SchedulingAssumption DEF CallbackReturns, Goto, Holding, IInv, TypeOK, Threads
  <2>2. TypesInt' /\ TimerInv'
    BY <1>5, SchedulingAssumption
    DEF CallbackReturns, call, Goto, IInv, TimerInv, TypeOK, TypesInt, Threads, CallerPCs
  <2>3. firing # NoTask
    BY <1>5 DEF CallbackReturns, IInv, TimerInv
  <2>4. TasksHoldReferences'
    BY <1>5, <2>1, <2>3, Counted
    DEF CallbackReturns, call, IInv, TypeOK, TasksHoldReferences, Holders
  <2>5. QED
    BY <2>2, <2>4
<1>6. ~CfwdNoAnswer
  BY DEF CfwdNoAnswer, IInv, TimerInv
<1>7. QED
  BY <1>1, <1>2, <1>3, <1>4, <1>5, <1>6 DEF TimerStep

(* Every step keeps the lock's promise (sccp_pbx.c:446-545).               *)
LEMMA HangupSteps == IInv /\ Next => HangupInv'
<1> SUFFICES ASSUME IInv, Next
             PROVE  HangupInv'
  OBVIOUS
<1>1. ASSUME NEW t \in Callers, PbxHangup(t)
      PROVE  HangupInv'
  BY <1>1, SchedulingAssumption DEF PbxHangup, Goto, IInv, HangupInv, TypeOK, Threads
<1>2. ASSUME NEW t \in Threads, StopCfwd(t)
      PROVE  HangupInv'
  BY <1>2, SchedulingAssumption DEF StopCfwd, Goto, IInv, HangupInv, TypeOK, Threads
<1>3. ASSUME UNCHANGED owned,
             UNCHANGED pc \/ \E t \in Threads, p \in CallerPCs \cup TimerPCs :
                               p # "stopcfwd" /\ Goto(t, p)
      PROVE  HangupInv'
  BY <1>3, SchedulingAssumption DEF Goto, IInv, HangupInv, TypeOK, Threads
<1>4. ASSUME NEW t \in Threads,
             \/ ScheduleTest(t) \/ ScheduleAdd(t) \/ Answering(t) \/ Ending(t)
             \/ \E k \in Kinds : Schedule(t, k)
             \/ \E k \in {"digit", "cfwd"} : StopSchedule(t, k)
             \/ Answer(t) \/ Endcall(t)
      PROVE  HangupInv'
  <2>1. UNCHANGED owned
    BY <1>4
    DEF ScheduleTest, ScheduleAdd, Answering, Ending, TestDeny, Deny, CancelAll, Request,
        Schedule, StopSchedule, Answer, Endcall, call
  <2>2. UNCHANGED pc \/ \E p \in CallerPCs \cup TimerPCs : p # "stopcfwd" /\ Goto(t, p)
    BY <1>4
    DEF ScheduleTest, ScheduleAdd, Answering, Ending, TestDeny, Deny, CancelAll, Request,
        Schedule, EnterSchedule, StopSchedule, Answer, Endcall, Leave, CallerPCs, TimerPCs
  <2>3. QED
    BY <1>3, <2>1, <2>2
<1>5. ASSUME TimerStep
      PROVE  HangupInv'
  <2>1. UNCHANGED owned
    BY <1>5
    DEF TimerStep, Fire, DigitTimeout, Dial, InvalidNumber, SchedEndcall, CallbackReturns,
        CfwdNoAnswer, call
  <2>2. \E p \in CallerPCs \cup TimerPCs : p # "stopcfwd" /\ Goto(Timer, p)
    BY <1>5
    DEF TimerStep, Fire, DigitTimeout, Dial, InvalidNumber, SchedEndcall, CallbackReturns,
        CfwdNoAnswer, EnterSchedule, CallerPCs, TimerPCs
  <2>3. QED
    BY <1>3, <2>1, <2>2 DEF Threads
<1>6. QED
  BY <1>1, <1>2, <1>4, <1>5 DEF Next, Step, Begin, Threads

-----------------------------------------------------------------------------
(* Without forward on no answer, the invariant holds in every state.       *)
THEOREM Invariance == NoForward => (Spec => []IInv)
<1> SUFFICES ASSUME NoForward
             PROVE  Spec => []IInv
  OBVIOUS
<1>1. IInv /\ [Next]_vars => IInv'
  <2> SUFFICES ASSUME IInv, [Next]_vars
               PROVE  IInv'
    OBVIOUS
  <2>1. CASE Next
    <3>1. TypesInt' /\ TimerInv' /\ TasksHoldReferences'
      BY <2>1, ScheduleSteps, EndingSteps, TimerSteps, Zenon
      DEF Next, Step, Begin, Ending, Threads
    <3>2. QED
      BY <2>1, <3>1, HangupSteps, CountIsNat, PTL DEF IInv
  <2>2. CASE UNCHANGED vars
    BY <2>2
    DEF vars, IInv, TypeOK, TimerInv, HangupInv, TasksHoldReferences, Holders, Holding
  <2>3. QED
    BY <2>1, <2>2
<1>2. QED
  BY <1>1, Initially, PTL DEF Spec

(* Without forward on no answer every task that is scheduled or runs, and  *)
(* every thread in a function of the channel, has a reference, for any     *)
(* number of threads and tasks (sccp_channel.c:1233-1346, ast120.c:        *)
(* 2524-2556).                                                             *)
THEOREM ReferencesHeld == NoForward => (Spec => []TasksHoldReferences)
BY Invariance, PTL DEF IInv

(* Its type invariant: the count never goes below zero.                    *)
THEOREM SchedulingTypes == NoForward => (Spec => []TypeOK)
BY Invariance, PTL DEF IInv

(* The timer never calls back on a channel that was destroyed              *)
(* (sccp_pbx.c:851-872, sccp_channel.c:1233-1247).                         *)
THEOREM NoCallbackAfterFree == NoForward => (Spec => [](pc[Timer] # "freed"))
<1>1. IInv => pc[Timer] # "freed"
  BY DEF IInv, TimerInv
<1>2. QED
  BY <1>1, Invariance, PTL
=============================================================================
