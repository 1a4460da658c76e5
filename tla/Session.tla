------------------------------ MODULE Session ------------------------------
(***************************************************************************)
(* The life of a phone's connection (sccp_session.c) and its tie to the    *)
(* device that registers over it (handle_register in sccp_actions.c,       *)
(* _sccp_dev_clean in sccp_device.c).                                      *)
(*                                                                         *)
(* Every session has a thread of its own, which reads messages, runs their *)
(* handlers and at its end destroys the session.  Other threads (the       *)
(* callers: pbx, CLI, reload, the worker pool) send to devices and clean   *)
(* devices.  A critical section under GLOB(sessions) or send_lock is one   *)
(* step; device->session is guarded by no lock, so each place that reads   *)
(* it is a step of its own.                                                *)
(***************************************************************************)
EXTENDS Integers, FiniteSets

CONSTANTS
  Sessions,   \* connections, each used once
  Devices,
  Callers,    \* the threads that are not session threads
  NoSession, NoDevice   \* NULL

ASSUME SessionAssumption ==
  /\ NoSession \notin Sessions
  /\ NoDevice \notin Devices
  /\ IsFiniteSet(Callers)
  /\ Sessions \cap Callers = {}

(* The thread of a session goes by the session's name. *)
Threads == Sessions \cup Callers

VARIABLES
  memory,          \* of each session: not allocated, in use, freed
  listed,          \* GLOB(sessions)
  open,            \* s->sc.fd > 0
  session_stop,
  session_thread,  \* the sessions whose session_thread is not NULL
  cancelled,       \* the sessions whose thread has a cancellation pending
  active_sends,
  device,          \* s->device
  session,         \* d->session
  registrationState,
  lines,           \* the devices with a button template, lines and calls
  pc, dev, hand    \* of each thread: place, device and session at work

vars == <<memory, listed, open, session_stop, session_thread, cancelled,
          active_sends, device, session, registrationState, lines, pc, dev, hand>>
connection == <<memory, listed, open, session_thread>>
locals == <<dev, hand>>

(* RS_PROGRESS and RS_OK are one state here: no guard tells them apart. *)
RegStates == {"NONE", "OK", "FAILED", "TIMEOUT", "CLEANING"}
CallerPCs == {"idle", "send", "release"}
CleanPCs == {"undo", "backpointer", "unbind", "stop", "cleaned"}
SessionPCs == {"unborn", "loop", "crossover", "reject", "attach", "answer", "exit", "remove",
               "drain", "owner", "unlink", "devclean", "detach", "close", "gone"}

TypeOK ==
  /\ memory \in [Sessions -> {"none", "live", "freed"}]
  /\ listed \in SUBSET Sessions
  /\ open \in SUBSET Sessions
  /\ session_stop \in SUBSET Sessions
  /\ session_thread \in SUBSET Sessions
  /\ cancelled \in SUBSET Sessions
  /\ active_sends \in [Sessions -> Nat]
  /\ device \in [Sessions -> Devices \cup {NoDevice}]
  /\ session \in [Devices -> Sessions \cup {NoSession}]
  /\ registrationState \in [Devices -> RegStates]
  /\ lines \in SUBSET Devices
  /\ pc \in [Threads -> CallerPCs \cup CleanPCs \cup SessionPCs \cup {"crashed"}]
  /\ dev \in [Threads -> Devices \cup {NoDevice}]
  /\ hand \in [Threads -> Sessions \cup {NoSession}]

Init ==
  /\ memory = [s \in Sessions |-> "none"]
  /\ listed = {}
  /\ open = {}
  /\ session_stop = {}
  /\ session_thread = {}
  /\ cancelled = {}
  /\ active_sends = [s \in Sessions |-> 0]
  /\ device = [s \in Sessions |-> NoDevice]
  /\ session = [d \in Devices |-> NoSession]
  /\ registrationState = [d \in Devices |-> "NONE"]
  /\ lines = {}
  /\ pc = [t \in Threads |-> IF t \in Sessions THEN "unborn" ELSE "idle"]
  /\ dev = [t \in Threads |-> NoDevice]
  /\ hand = [t \in Threads |-> NoSession]

-----------------------------------------------------------------------------
Goto(t, p) == pc' = [pc EXCEPT ![t] = p]

(* A thread that follows a pointer to a freed session ends the process. *)
Follow(t, p) == Goto(t, IF memory[hand[t]] = "freed" THEN "crashed" ELSE p)

(* sccp_device_setRegistrationState; d may be NULL, then there is nothing  *)
(* to set.                                                                 *)
SetRegistrationState(d, state) ==
  registrationState' = [e \in Devices |->
                          IF e = d THEN state ELSE registrationState[e]]

(* __sccp_session_stopthread: s stops its loop and its device, if it has   *)
(* one, changes state.                                                     *)
StopThread(s, state) ==
  /\ session_stop' = session_stop \cup {s}
  /\ SetRegistrationState(device[s], state)

(* __sccp_netsock_end_device_thread: the thread is cancelled.  It was      *)
(* created detached, so pthread_join fails at once and nobody waits.       *)
Cancel(s) == cancelled' = cancelled \cup ({s} \cap session_thread)

(* sccp_session_check_crossdevice *)
Crossdevice(s, d) ==
  \/ device[s] \notin {NoDevice, d}
  \/ session[d] \notin {NoSession, s}

-----------------------------------------------------------------------------
(* accept_thread: the new session is listed and gets its thread; when the  *)
(* thread cannot be created, the accept thread destroys the session.       *)
Accept(s) ==
  /\ pc[s] = "unborn"
  /\ memory' = [memory EXCEPT ![s] = "live"]
  /\ listed' = listed \cup {s}
  /\ open' = open \cup {s}
  /\ \/ /\ Goto(s, "loop")
        /\ session_thread' = session_thread \cup {s}
     \/ /\ Goto(s, "remove")
        /\ UNCHANGED session_thread
  /\ UNCHANGED <<session_stop, cancelled, active_sends, device, session,
                 registrationState, lines, locals>>

(* The loop of sccp_session_device_thread ends, or the cancellation is     *)
(* taken at one of the two points where it is enabled.                     *)
LeaveLoop(s) ==
  /\ pc[s] = "loop"
  /\ s \in session_stop \cup cancelled
  /\ Goto(s, "exit")
  /\ UNCHANGED <<connection, session_stop, cancelled, active_sends, device,
                 session, registrationState, lines, locals>>

(* The peer closed, the socket or the data is bad, or no keepalive came;   *)
(* UnregisterMessage ends the session the same way.                        *)
Disconnect(s) ==
  /\ pc[s] = "loop"
  /\ s \notin session_stop
  /\ \E state \in {"NONE", "FAILED", "TIMEOUT"} : StopThread(s, state)
  /\ UNCHANGED <<connection, cancelled, active_sends, device, session, lines,
                 pc, locals>>

(* check_session_message_device for a message that needs the device: a     *)
(* session that finds its device on another one closes that other one.     *)
Message(s) ==
  /\ pc[s] = "loop"
  /\ s \notin session_stop
  /\ device[s] # NoDevice
  /\ Crossdevice(s, device[s])
  /\ hand' = [hand EXCEPT ![s] = session[device[s]]]
  /\ Goto(s, "crossover")
  /\ UNCHANGED <<connection, session_stop, cancelled, active_sends, device,
                 session, registrationState, lines, dev>>

(* ButtonTemplateReqMessage: the lines are built once per registration. *)
ButtonTemplateReq(s) ==
  /\ pc[s] = "loop"
  /\ s \notin session_stop
  /\ device[s] # NoDevice
  /\ ~Crossdevice(s, device[s])
  /\ registrationState[device[s]] = "OK"
  /\ lines' = lines \cup {device[s]}
  /\ UNCHANGED <<connection, session_stop, cancelled, active_sends, device,
                 session, registrationState, pc, locals>>

-----------------------------------------------------------------------------
(* handle_register: a device that is attached elsewhere or registered is   *)
(* refused.                                                                *)
Register(s, d) ==
  /\ pc[s] = "loop"
  /\ s \notin session_stop
  /\ dev' = [dev EXCEPT ![s] = d]
  /\ IF Crossdevice(s, d) \/ registrationState[d] = "OK"
     THEN /\ hand' = [hand EXCEPT ![s] = session[d]]
          /\ Goto(s, "crossover")
     ELSE /\ UNCHANGED hand
          /\ Goto(s, "attach")
  /\ UNCHANGED <<connection, session_stop, cancelled, active_sends, device,
                 session, registrationState, lines>>

(* sccp_session_crossdevice_cleanup of the session in hand: it is not this *)
(* one, and its thread is still there.  Then a refused registration goes   *)
(* on; for any other message the connection is closed.                     *)
Crossover(s) ==
  /\ pc[s] = "crossover"
  /\ IF hand[s] \in {NoSession, s}
     THEN /\ UNCHANGED cancelled
          /\ Goto(s, "reject")
     ELSE /\ Cancel(hand[s])
          /\ Follow(s, "reject")
  /\ hand' = [hand EXCEPT ![s] = NoSession]
  /\ UNCHANGED <<connection, session_stop, active_sends, device, session,
                 registrationState, lines, dev>>

(* The refusal of handle_register up to its end; when dev is NULL it is    *)
(* the message that could not be handled, and no device is detached.       *)
Reject(s) ==
  /\ pc[s] = "reject"
  /\ session_stop' = session_stop \cup {s}
  /\ registrationState' = [d \in Devices |->
       IF d \in {dev[s], device[s]} THEN "FAILED" ELSE registrationState[d]]
  /\ session' = [d \in Devices |-> IF d = dev[s] THEN NoSession ELSE session[d]]
  /\ dev' = [dev EXCEPT ![s] = NoDevice]
  /\ Goto(s, "loop")
  /\ UNCHANGED <<connection, cancelled, active_sends, device, lines, hand>>

(* sccp_session_retainDevice: the device and the session know each other. *)
Attach(s) ==
  /\ pc[s] = "attach"
  /\ device' = [device EXCEPT ![s] = dev[s]]
  /\ session' = IF device[s] = dev[s] THEN session
                ELSE [session EXCEPT ![dev[s]] = s]
  /\ Goto(s, "answer")
  /\ UNCHANGED <<connection, session_stop, cancelled, active_sends,
                 registrationState, lines, locals>>

(* The ACL of the device refuses the address: FUNC_EXIT as above. *)
Refuse(s) ==
  /\ pc[s] = "answer"
  /\ session_stop' = session_stop \cup {s}
  /\ SetRegistrationState(dev[s], "FAILED")
  /\ session' = [session EXCEPT ![dev[s]] = NoSession]
  /\ dev' = [dev EXCEPT ![s] = NoDevice]
  /\ Goto(s, "loop")
  /\ UNCHANGED <<connection, cancelled, active_sends, device, lines, hand>>

(* RegisterAck, which may fail to be written, and the new state. *)
Acknowledge(s) ==
  /\ pc[s] = "answer"
  /\ session_stop' \in {session_stop, session_stop \cup {s}}
  /\ SetRegistrationState(dev[s], "OK")
  /\ dev' = [dev EXCEPT ![s] = NoDevice]
  /\ Goto(s, "loop")
  /\ UNCHANGED <<connection, cancelled, active_sends, device, session, lines, hand>>

-----------------------------------------------------------------------------
(* _sccp_dev_clean by thread t of device d, begun by a reload or the         *)
(* unload, by the session's own loop (sccp_device_check_update), or when   *)
(* the session is destroyed.                                               *)
CleanDevice(t, d) ==
  /\ \/ pc[t] = "idle"
     \/ /\ pc[t] = "loop"
        /\ t \notin session_stop
        /\ device[t] = d
     \/ /\ pc[t] = "devclean"
        /\ dev[t] = d
  /\ SetRegistrationState(d, "CLEANING")
  /\ dev' = [dev EXCEPT ![t] = d]
  /\ Goto(t, "undo")
  /\ UNCHANGED <<connection, session_stop, cancelled, active_sends, device,
                 session, lines, hand>>

(* Calls end, lines and buttons go. *)
CleanUndo(t) ==
  /\ pc[t] = "undo"
  /\ lines' = lines \ {dev[t]}
  /\ Goto(t, "backpointer")
  /\ UNCHANGED <<connection, session_stop, cancelled, active_sends, device,
                 session, registrationState, locals>>

(* s = d->session *)
CleanBackpointer(t) ==
  /\ pc[t] = "backpointer"
  /\ hand' = [hand EXCEPT ![t] = session[dev[t]]]
  /\ Goto(t, IF hand'[t] = NoSession THEN "cleaned" ELSE "unbind")
  /\ UNCHANGED <<connection, session_stop, cancelled, active_sends, device,
                 session, registrationState, lines, dev>>

(* __sccp_session_removeDevice of s: the device forgets s if s is its      *)
(* session.                                                                *)
RemoveDevice(s) ==
  /\ device' = [device EXCEPT ![s] = NoDevice]
  /\ registrationState' = [d \in Devices |->
       IF d = device[s] /\ session[d] = s THEN "NONE" ELSE registrationState[d]]

(* Mutant: no device forgets the session that is released. *)
NoneForgottenBy(s) == {}

ForgottenBy(s) == {d \in Devices : d = device[s] /\ session[d] = s}

(* sccp_session_releaseDevice(s) and d->session = NULL *)
CleanUnbind(t) ==
  /\ pc[t] = "unbind"
  /\ RemoveDevice(hand[t])
  /\ session' = [d \in Devices |->
       IF d \in ForgottenBy(hand[t]) \cup {dev[t]} THEN NoSession ELSE session[d]]
  /\ Follow(t, "stop")
  /\ UNCHANGED <<connection, session_stop, cancelled, active_sends, lines, locals>>

(* sccp_session_stopthread: its own thread stops, another one's is         *)
(* cancelled.                                                              *)
CleanStop(t) ==
  /\ pc[t] = "stop"
  /\ IF t = hand[t] /\ t \in session_thread
     THEN /\ StopThread(t, "NONE")
          /\ UNCHANGED cancelled
     ELSE /\ Cancel(hand[t])
          /\ UNCHANGED <<session_stop, registrationState>>
  /\ Follow(t, "cleaned")
  /\ UNCHANGED <<connection, active_sends, device, session, lines, locals>>

CleanEnd(t) ==
  /\ pc[t] = "cleaned"
  /\ SetRegistrationState(dev[t], "NONE")
  /\ Goto(t, IF t \in Callers THEN "idle"
             ELSE IF t \in session_thread THEN "loop" ELSE "detach")
  /\ dev' = [dev EXCEPT ![t] = NoDevice]
  /\ hand' = [hand EXCEPT ![t] = NoSession]
  /\ UNCHANGED <<connection, session_stop, cancelled, active_sends, device,
                 session, lines>>
-----------------------------------------------------------------------------
(* sccp_session_device_thread_exit *)
Exit(s) ==
  /\ pc[s] = "exit"
  /\ session_stop' = session_stop \cup {s}
  /\ session_thread' = session_thread \ {s}
  /\ Goto(s, "remove")
  /\ UNCHANGED <<memory, listed, open, cancelled, active_sends, device, session,
                 registrationState, lines, locals>>

(* destroy_session: no new send can acquire the session after removal. *)
Remove(s) ==
  /\ pc[s] = "remove"
  /\ listed' = listed \ {s}
  /\ Goto(s, "drain")
  /\ UNCHANGED <<memory, open, session_stop, session_thread, cancelled,
                 active_sends, device, session, registrationState, lines, locals>>

(* Mutant: sends in flight are not waited for. *)
DrainAtOnce(s) ==
  /\ pc[s] = "drain"
  /\ Goto(s, "owner")
  /\ UNCHANGED <<connection, session_stop, cancelled, active_sends, device,
                 session, registrationState, lines, locals>>

(* Existing sends are waited for. *)
Drain(s) ==
  /\ pc[s] = "drain"
  /\ active_sends[s] = 0
  /\ Goto(s, "owner")
  /\ UNCHANGED <<connection, session_stop, cancelled, active_sends, device,
                 session, registrationState, lines, locals>>

(* d && d->session == s *)
Owner(s) ==
  /\ pc[s] = "owner"
  /\ LET owned == device[s] # NoDevice /\ ForgottenBy(s) # {}
     IN  /\ dev' = [dev EXCEPT ![s] = IF owned THEN device[s] ELSE NoDevice]
         /\ Goto(s, IF owned THEN "unlink" ELSE "detach")
  /\ UNCHANGED <<connection, session_stop, cancelled, active_sends, device,
                 session, registrationState, lines, hand>>

(* d->session = NULL, and then sccp_dev_clean *)
Unlink(s) ==
  /\ pc[s] = "unlink"
  /\ session' = [session EXCEPT ![dev[s]] = NoSession]
  /\ Goto(s, "devclean")
  /\ UNCHANGED <<connection, session_stop, cancelled, active_sends, device,
                 registrationState, lines, locals>>

(* sccp_session_releaseDevice *)
Detach(s) ==
  /\ pc[s] = "detach"
  /\ RemoveDevice(s)
  /\ session' = [d \in Devices |-> IF d \in ForgottenBy(s) THEN NoSession
                                  ELSE session[d]]
  /\ Goto(s, "close")
  /\ UNCHANGED <<connection, session_stop, cancelled, active_sends, lines, locals>>

(* The socket is closed and the session freed. *)
Close(s) ==
  /\ pc[s] = "close"
  /\ open' = open \ {s}
  /\ memory' = [memory EXCEPT ![s] = "freed"]
  /\ Goto(s, "gone")
  /\ UNCHANGED <<listed, session_stop, session_thread, cancelled, active_sends,
                 device, session, registrationState, lines, locals>>

-----------------------------------------------------------------------------
(* sccp_session_acquireForSend of a session that device d is attached to. *)
AcquireForSend(t, d, s) ==
  /\ pc[t] = "idle"
  /\ s \in listed
  /\ device[s] = d
  /\ active_sends' = [active_sends EXCEPT ![s] = @ + 1]
  /\ hand' = [hand EXCEPT ![t] = s]
  /\ Goto(t, "send")
  /\ UNCHANGED <<connection, session_stop, cancelled, device, session,
                 registrationState, lines, dev>>

(* Mutants: an early return of the send forgets to release the session; it *)
(* is released twice.                                                      *)
SendLeaks(t) ==
  /\ pc[t] = "send"
  /\ \/ /\ UNCHANGED <<session_stop, registrationState>>
        /\ Goto(t, "release")
     \/ /\ hand[t] \notin session_stop
        /\ StopThread(hand[t], "FAILED")
        /\ Goto(t, "idle")
  /\ UNCHANGED <<connection, cancelled, active_sends, device, session, lines, locals>>

(* sccp_session_sendOwned: nothing for a stopped session, else the frame   *)
(* is written or the session stopped.                                      *)
Send(t) ==
  /\ pc[t] = "send"
  /\ \/ UNCHANGED <<session_stop, registrationState>>
     \/ /\ hand[t] \notin session_stop
        /\ StopThread(hand[t], "FAILED")
  /\ Goto(t, "release")
  /\ UNCHANGED <<connection, cancelled, active_sends, device, session, lines, locals>>

ReleaseSend(t) ==
  /\ pc[t] = "release"
  /\ active_sends' = [active_sends EXCEPT ![hand[t]] = @ - 1]
  /\ hand' = [hand EXCEPT ![t] = NoSession]
  /\ Goto(t, "idle")
  /\ UNCHANGED <<connection, session_stop, cancelled, device, session,
                 registrationState, lines, dev>>

-----------------------------------------------------------------------------
Clean(t) ==
  \/ \E d \in Devices : CleanDevice(t, d)
  \/ CleanUndo(t) \/ CleanBackpointer(t) \/ CleanUnbind(t) \/ CleanStop(t)
  \/ CleanEnd(t)

Teardown(s) ==
  \/ Exit(s) \/ Remove(s) \/ Drain(s) \/ Owner(s) \/ Unlink(s) \/ Detach(s)
  \/ Close(s)

Handle(s) ==
  \/ Message(s) \/ ButtonTemplateReq(s)
  \/ \E d \in Devices : Register(s, d)
  \/ Crossover(s) \/ Reject(s) \/ Attach(s) \/ Refuse(s) \/ Acknowledge(s)

SessionThread(s) ==
  Accept(s) \/ LeaveLoop(s) \/ Disconnect(s) \/ Handle(s) \/ Teardown(s)

Caller(t) ==
  \/ \E d \in Devices, s \in Sessions : AcquireForSend(t, d, s)
  \/ Send(t) \/ ReleaseSend(t)

Next ==
  /\ \A t \in Threads : pc[t] # "crashed"
  /\ \/ \E s \in Sessions : SessionThread(s)
     \/ \E t \in Callers : Caller(t)
     \/ \E t \in Threads : Clean(t)

Spec == Init /\ [][Next]_vars

(* Threads are scheduled, a send returns, and every turn of a session's    *)
(* loop passes its test of session_stop and two cancellation points.       *)
Fairness ==
  /\ \A s \in Sessions :
       /\ WF_vars(Teardown(s) \/ Crossover(s) \/ Reject(s) \/ Attach(s)
                  \/ Refuse(s) \/ Acknowledge(s))
       /\ SF_vars(LeaveLoop(s))
  /\ \A t \in Callers : WF_vars(Send(t) \/ ReleaseSend(t))
  /\ \A t \in Threads :
       /\ WF_vars(CleanUndo(t) \/ CleanBackpointer(t) \/ CleanUnbind(t)
                  \/ CleanStop(t) \/ CleanEnd(t))
       /\ WF_vars(pc[t] = "devclean" /\ \E d \in Devices : CleanDevice(t, d))

FairSpec == Spec /\ Fairness

-----------------------------------------------------------------------------
Senders(s) == {t \in Callers : pc[t] \in {"send", "release"} /\ hand[t] = s}

(* Whoever is inside a send works on a session that is neither closed nor  *)
(* freed, whatever its thread does meanwhile (sccp_session.c:471-499,      *)
(* 612-619).                                                               *)
SendsOnLiveSessions ==
  \A s \in Sessions : Senders(s) # {} => memory[s] = "live" /\ s \in open

(* "The device backpointer is cleared when its owning session is released" *)
(* (doc/history/BUILD_AND_THREADPOOL_PROGRESS.md:472): no device keeps a   *)
(* session that was freed (sccp_session.c:534-555, 623-629).               *)
NoDanglingBackpointer ==
  \A d \in Devices : session[d] # NoSession => memory[session[d]] = "live"

(* A session that is stopped or cancelled is in the end destroyed, however *)
(* many sends were in flight: its thread never waits for a send that will  *)
(* not come back, unless the process crashed (sccp_session.c:606-657,      *)
(* 833-873).                                                               *)
StoppedSessionsEnd ==
  \A s \in Sessions :
    s \in session_stop \cup cancelled ~>
      (memory[s] = "freed" \/ \E t \in Threads : pc[t] = "crashed")
=============================================================================
