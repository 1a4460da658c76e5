----------------------------- MODULE Scheduling -----------------------------
(***************************************************************************)
(* The tasks a channel schedules for itself (sccp_channel.c,               *)
(* sccp_pbx.c): dial when no more digits come, hang up, forward when       *)
(* nobody answers; and the ways a call ends.                               *)
(*                                                                         *)
(* A task owns a reference to the channel.  The threads of the phone and   *)
(* of Asterisk schedule and cancel tasks while the scheduler's thread, the *)
(* timer, runs one; only the deny flag is atomic, the ids are not guarded, *)
(* so each test and each change of them is a step.                         *)
(***************************************************************************)
EXTENDS Integers, FiniteSets

CONSTANTS
  Callers,   \* threads other than the timer
  Timer,     \* the thread that runs the tasks
  Kinds,     \* the tasks the callers schedule
  MaxCalls   \* bound: how many times one is scheduled

ASSUME SchedulingAssumption ==
  /\ IsFiniteSet(Callers)
  /\ Timer \notin Callers
  /\ Kinds \subseteq {"digit", "hangup", "cfwd"}
  /\ MaxCalls \in Nat

Threads == Callers \cup {Timer}
AllKinds == {"digit", "hangup", "cfwd"}
Tasks == 1..MaxCalls   \* a task is named by the call that made it
NoTask == 0
Unset == -1
Spent == -3            \* set by a callback that begins

VARIABLES
  refcount,
  deny,         \* scheduler.deny is not zero
  id,           \* digittimeout_id, hangup_id, cfwd_noanswer_id
  due,          \* the tasks in the scheduler
  firing,       \* the task the timer runs
  kind,         \* of each task
  calls,        \* calls of the schedule functions
  owned,        \* the Asterisk channel and the line refer to the channel
  takesDigits,  \* offhook or getting digits, and no pbx runs
  answering,    \* isAnswering
  isHangingUp,
  asked,        \* a hangup was requested from Asterisk
  pc, task      \* of each thread: place, and the task it schedules

vars == <<refcount, deny, id, due, firing, kind, calls, owned, takesDigits,
          answering, isHangingUp, asked, pc, task>>
call == <<owned, takesDigits, answering, isHangingUp, asked>>
scheduler == <<due, firing, kind, calls>>

CallerPCs == {"idle", "schedule", "add", "answer", "stopcfwd", "endcall", "deny",
              "undigit", "unhangup", "uncfwd", "request"}
TimerPCs == {"digit", "dial", "sched_endcall", "cfwd", "done", "freed"}

(* The types; the count of references never goes below zero when no task   *)
(* forwards (sccp_channel.c:205-262, 1233-1346).                           *)
TypeOK ==
  /\ refcount \in Nat
  /\ deny \in BOOLEAN
  /\ id \in [AllKinds -> Tasks \cup {Unset, Spent}]
  /\ due \in SUBSET Tasks
  /\ firing \in Tasks \cup {NoTask}
  /\ kind \in [Tasks -> AllKinds]
  /\ calls \in 0..MaxCalls
  /\ owned \in BOOLEAN /\ takesDigits \in BOOLEAN /\ answering \in BOOLEAN
  /\ isHangingUp \in BOOLEAN /\ asked \in BOOLEAN
  /\ pc \in [Threads -> CallerPCs \cup TimerPCs]
  /\ task \in [Threads -> Tasks \cup {NoTask}]

(* sccp_channel_allocate; the one reference is the owner's. *)
Init ==
  /\ refcount = 1
  /\ deny = FALSE
  /\ id = [k \in AllKinds |-> Unset]
  /\ due = {}
  /\ firing = NoTask
  /\ kind = [n \in Tasks |-> "hangup"]
  /\ calls = 0
  /\ owned = TRUE
  /\ takesDigits \in BOOLEAN
  /\ answering = FALSE
  /\ isHangingUp = FALSE
  /\ asked = FALSE
  /\ pc = [t \in Threads |-> "idle"]
  /\ task = [t \in Threads |-> NoTask]

-----------------------------------------------------------------------------
Goto(t, p) == pc' = [pc EXCEPT ![t] = p]

(* The function a thread is in returns and, if it is a caller's, releases  *)
(* the reference it took; the timer goes back to its callback's end.       *)
Leave(t) == Goto(t, IF t = Timer THEN "done" ELSE "idle")
Own(t) == IF t = Timer THEN 0 ELSE 1

Pending(k) == id[k] \in due

(* sched_del_ref, called for an id that is set: a task that has not begun  *)
(* is removed and its reference released; the thread takes so many.        *)
Cancel(k, taken) ==
  /\ due' = due \ {id[k]}
  /\ id' = [id EXCEPT ![k] = IF @ > Unset THEN Unset ELSE @]
  /\ refcount' = refcount + taken - (IF Pending(k) THEN 1 ELSE 0)

(* The schedule functions begin with a retain of the channel. *)
EnterSchedule(t, k) ==
  /\ calls < MaxCalls
  /\ calls' = calls + 1
  /\ kind' = [kind EXCEPT ![calls + 1] = k]
  /\ task' = [task EXCEPT ![t] = calls + 1]
  /\ Goto(t, "schedule")

(* "only schedule if allowed and not already scheduled" *)
MaySchedule(k) ==
  /\ ~deny
  /\ id[IF k = "cfwd" THEN "cfwd" ELSE "hangup"] = Unset

-----------------------------------------------------------------------------
(* A key, a failed feature or a ringing line schedules a task of kind k. *)
Schedule(t, k) ==
  /\ pc[t] = "idle"
  /\ owned
  /\ k = "digit" => takesDigits
  /\ EnterSchedule(t, k)
  /\ refcount' = refcount + 1
  /\ UNCHANGED <<deny, id, due, firing, call>>

(* sccp_channel_schedule_hangup, _digittimeout, _cfwd_noanswer: the test.  *)
(* Only the first gives its reference back when it may not schedule.       *)
ScheduleTest(t) ==
  /\ pc[t] = "schedule"
  /\ IF MaySchedule(kind[task[t]])
     THEN /\ Goto(t, "add")
          /\ UNCHANGED <<refcount, task>>
     ELSE /\ Leave(t)
          /\ task' = [task EXCEPT ![t] = NoTask]
          /\ refcount' = refcount - (IF kind[task[t]] = "hangup" THEN Own(t) ELSE 0)
  /\ UNCHANGED <<deny, id, scheduler, call>>

(* Mutant: the task is scheduled without a reference of its own. *)
ScheduleAddUnretained(t) ==
  /\ pc[t] = "add"
  /\ due' = due \cup {task[t]}
  /\ id' = [id EXCEPT ![kind[task[t]]] = task[t]]
  /\ refcount' = refcount - Own(t)
  /\ Leave(t)
  /\ task' = [task EXCEPT ![t] = NoTask]
  /\ UNCHANGED <<deny, firing, kind, calls, call>>

(* sched_add_ref or, for a digit timeout whose id is not -1, the           *)
(* replacement of the old task by the new; the scheduler may be out of     *)
(* memory.  The no-answer forward looks at its id once more.               *)
ScheduleAdd(t) ==
  /\ pc[t] = "add"
  /\ LET k == kind[task[t]]
         replaced == IF k = "digit" THEN due \cap {id[k]} ELSE {}
     IN  IF k = "cfwd" /\ id[k] # Unset
         THEN /\ refcount' = refcount - Own(t)
              /\ UNCHANGED <<due, id>>
         ELSE \/ /\ due' = (due \ replaced) \cup {task[t]}
                 /\ id' = [id EXCEPT ![k] = task[t]]
                 /\ refcount' = refcount + 1 - Cardinality(replaced) - Own(t)
              \/ /\ due' = due \ replaced
                 /\ id' = [id EXCEPT ![k] = Unset]
                 /\ refcount' = refcount - Cardinality(replaced) - Own(t)
  /\ Leave(t)
  /\ task' = [task EXCEPT ![t] = NoTask]
  /\ UNCHANGED <<deny, firing, kind, calls, call>>

(* sccp_channel_stop_schedule_digittimout, _cfwd_noanswer *)
StopSchedule(t, k) ==
  /\ pc[t] = "idle"
  /\ t \in Callers
  /\ owned
  /\ Cancel(k, 0)
  /\ UNCHANGED <<deny, firing, kind, calls, call, pc, task>>

(* sccp_channel_answer: nobody forwards the call any more ... *)
Answer(t) ==
  /\ pc[t] = "idle"
  /\ t \in Callers
  /\ owned
  /\ Cancel("cfwd", 1)
  /\ Goto(t, "answer")
  /\ UNCHANGED <<deny, firing, kind, calls, call, task>>

(* ... and it is being answered, unless another call could not be held or  *)
(* the call is no longer ringing.                                          *)
Answering(t) ==
  /\ pc[t] = "answer"
  /\ answering' \in {answering, TRUE}
  /\ refcount' = refcount - Own(t)
  /\ Leave(t)
  /\ UNCHANGED <<deny, id, scheduler, owned, takesDigits, isHangingUp, asked, task>>

-----------------------------------------------------------------------------
(* sccp_channel_endcall, by a thread that holds the channel. *)
Endcall(t) ==
  /\ pc[t] = "idle"
  /\ t \in Callers
  /\ owned
  /\ isHangingUp' = TRUE
  /\ refcount' = refcount + 1
  /\ Goto(t, "endcall")
  /\ UNCHANGED <<deny, id, scheduler, owned, takesDigits, answering, asked, task>>

(* sccp_pbx_hangup: Asterisk ends the call, on request or because the      *)
(* other party did, and holds the channel's lock; it stops two of the      *)
(* tasks before it denies the rest.                                        *)
PbxHangup(t) ==
  /\ pc[t] = "idle"
  /\ t \in Callers
  /\ owned
  /\ \A u \in Callers : pc[u] # "stopcfwd"
  /\ isHangingUp' = TRUE
  /\ Cancel("digit", 1)
  /\ Goto(t, "stopcfwd")
  /\ UNCHANGED <<deny, firing, kind, calls, owned, takesDigits, answering, asked, task>>

(* The line and the Asterisk channel let go of the channel: the thread has *)
(* the owner's reference instead of its own.                               *)
StopCfwd(t) ==
  /\ pc[t] = "stopcfwd"
  /\ owned' = FALSE
  /\ Cancel("cfwd", -1)
  /\ Goto(t, "endcall")
  /\ UNCHANGED <<deny, firing, kind, calls, takesDigits, answering, isHangingUp, asked, task>>

(* ATOMIC_FETCH(&scheduler.deny) *)
TestDeny(t) ==
  /\ pc[t] = "endcall"
  /\ Goto(t, IF deny THEN "request" ELSE "deny")
  /\ UNCHANGED <<refcount, deny, id, scheduler, call, task>>

(* sccp_channel_stop_and_deny_scheduled_tasks *)
Deny(t) ==
  /\ pc[t] = "deny"
  /\ deny' = TRUE
  /\ Goto(t, "undigit")
  /\ UNCHANGED <<refcount, id, scheduler, call, task>>

(* Mutant: sccp_channel_endcall returns when the tasks are denied already, *)
(* as they are when the hangup task itself denied them.                    *)
CancelAllOnly(t) ==
  /\ \/ pc[t] = "undigit" /\ Cancel("digit", 0) /\ Goto(t, "unhangup")
     \/ pc[t] = "unhangup" /\ Cancel("hangup", 0) /\ Goto(t, "uncfwd")
     \/ /\ pc[t] = "uncfwd"
        /\ Cancel("cfwd", 0)
        /\ Goto(t, IF t = Timer THEN "done" ELSE "request")
  /\ UNCHANGED <<deny, firing, kind, calls, call, task>>

(* ... and its cancellation of the three tasks, one after the other. *)
CancelAll(t) ==
  /\ \/ pc[t] = "undigit" /\ Cancel("digit", 0) /\ Goto(t, "unhangup")
     \/ pc[t] = "unhangup" /\ Cancel("hangup", 0) /\ Goto(t, "uncfwd")
     \/ pc[t] = "uncfwd" /\ Cancel("cfwd", 0) /\ Goto(t, "request")
  /\ UNCHANGED <<deny, firing, kind, calls, call, task>>

(* hangupRequest; or, at the end of sccp_pbx_hangup, the hangup is done.   *)
(* The thread's reference is released.                                     *)
Request(t) ==
  /\ pc[t] = "request"
  /\ asked' = TRUE
  /\ refcount' = refcount - Own(t)
  /\ Leave(t)
  /\ UNCHANGED <<deny, id, scheduler, owned, takesDigits, answering, isHangingUp, task>>

-----------------------------------------------------------------------------
(* The timer takes a task and calls back.  A task of a freed channel reads *)
(* freed memory.                                                           *)
Fire(n) ==
  /\ pc[Timer] = "idle"
  /\ n \in due
  /\ due' = due \ {n}
  /\ firing' = n
  /\ Goto(Timer, CASE refcount <= 0 -> "freed"
                   [] kind[n] = "digit" -> "digit"
                   [] kind[n] = "hangup" -> "sched_endcall"
                   [] OTHER -> "cfwd")
  /\ UNCHANGED <<refcount, deny, id, kind, calls, call, task>>

(* sccp_pbx_sched_dial: "prevent further digittimeout scheduling" *)
DigitTimeout ==
  /\ pc[Timer] = "digit"
  /\ IF ~deny /\ id["hangup"] = Unset
     THEN id' = [id EXCEPT !["digit"] = Spent] /\ Goto(Timer, "dial")
     ELSE UNCHANGED id /\ Goto(Timer, "done")
  /\ UNCHANGED <<refcount, deny, scheduler, call, task>>

(* What was dialed starts the pbx; what cannot be done with it schedules a *)
(* hangup or ends the call at once (sccp_pbx_softswitch) ...               *)
Dial ==
  /\ pc[Timer] = "dial"
  /\ takesDigits' = FALSE
  /\ Cancel("digit", 0)
  /\ \/ Goto(Timer, "done") /\ UNCHANGED <<kind, calls, isHangingUp, task>>
     \/ EnterSchedule(Timer, "hangup") /\ UNCHANGED isHangingUp
     \/ /\ isHangingUp' = TRUE
        /\ Goto(Timer, "endcall")
        /\ UNCHANGED <<kind, calls, task>>
  /\ UNCHANGED <<deny, firing, owned, answering, asked>>

(* ... and nothing dialed is an invalid number: sccp_indicate schedules a  *)
(* hangup.                                                                 *)
InvalidNumber ==
  /\ pc[Timer] = "dial"
  /\ takesDigits' = FALSE
  /\ EnterSchedule(Timer, "hangup")
  /\ UNCHANGED <<refcount, deny, id, due, firing, owned, answering, isHangingUp, asked>>

(* _sccp_channel_sched_endcall: stop_and_deny and endcall. *)
SchedEndcall ==
  /\ pc[Timer] = "sched_endcall"
  /\ id' = [id EXCEPT !["hangup"] = Spent]
  /\ IF deny
     THEN Goto(Timer, "done") /\ UNCHANGED isHangingUp
     ELSE Goto(Timer, "deny") /\ isHangingUp' = TRUE
  /\ UNCHANGED <<refcount, deny, scheduler, owned, takesDigits, answering, asked, task>>

(* The callback releases the reference of its task and returns 0. *)
CallbackReturns ==
  /\ pc[Timer] = "done"
  /\ refcount' = refcount - 1
  /\ firing' = NoTask
  /\ Goto(Timer, "idle")
  /\ UNCHANGED <<deny, id, due, kind, calls, call, task>>

(* sccp_pbx_cfwdnoanswer_cb: it forwards the call and returns 0, or        *)
(* returns a negative number, with which the scheduler keeps the task; the *)
(* reference is released either way.  With the Asterisk channel gone the   *)
(* id is left alone.                                                       *)
CfwdNoAnswer ==
  /\ pc[Timer] = "cfwd"
  /\ id' = [id EXCEPT !["cfwd"] = IF owned /\ ~deny THEN Spent ELSE @]
  /\ due' = IF owned /\ ~answering /\ ~isHangingUp THEN due ELSE due \cup {firing}
  /\ refcount' = refcount - 1
  /\ firing' = NoTask
  /\ Goto(Timer, "idle")
  /\ UNCHANGED <<deny, kind, calls, call, task>>

-----------------------------------------------------------------------------
TimerStep ==
  \/ \E n \in Tasks : Fire(n)
  \/ DigitTimeout \/ Dial \/ InvalidNumber \/ SchedEndcall \/ CallbackReturns
  \/ CfwdNoAnswer

Ending(t) == TestDeny(t) \/ Deny(t) \/ CancelAll(t) \/ Request(t)

Step(t) == ScheduleTest(t) \/ ScheduleAdd(t) \/ Answering(t) \/ StopCfwd(t) \/ Ending(t)

Begin(t) ==
  \/ \E k \in Kinds : Schedule(t, k)
  \/ \E k \in {"digit", "cfwd"} : StopSchedule(t, k)
  \/ Answer(t) \/ Endcall(t) \/ PbxHangup(t)

Next ==
  /\ pc[Timer] # "freed"
  /\ \/ \E t \in Threads : Step(t)
     \/ \E t \in Callers : Begin(t)
     \/ TimerStep

Spec == Init /\ [][Next]_vars

(* Functions return, and the scheduler's thread runs what is due. *)
Fairness == WF_vars(TimerStep \/ Step(Timer)) /\ \A t \in Callers : WF_vars(Step(t))

FairSpec == Spec /\ Fairness

-----------------------------------------------------------------------------
(* Who must have a reference: the owner, every task that is scheduled or   *)
(* runs, and every thread inside a function that took one.                 *)
Holding == {t \in Callers : pc[t] # "idle"}
Holders ==
  Cardinality(due) + Cardinality(Holding)
    + (IF owned THEN 1 ELSE 0) + (IF firing # NoTask THEN 1 ELSE 0)

(* A channel is alive as long as a task, a caller or Asterisk may follow a *)
(* pointer to it, although ids are overwritten and tasks are cancelled     *)
(* while they begin: tasks "retain on channel to pass it on"               *)
(* (sccp_channel.c:1259-1346, sccp_pbx.c:851-872, ast120.c:2524-2556).     *)
TasksHoldReferences == refcount >= Holders

(* A hangup that was scheduled is asked for in the end, by its task or by  *)
(* whoever denied the task, whichever thread comes first                   *)
(* (sccp_channel.c:1233-1247, 1262-1274, 1296-1312).                       *)
ScheduledHangupHappens ==
  id["hangup"] \in Tasks ~> asked \/ pc[Timer] = "freed"
=============================================================================
