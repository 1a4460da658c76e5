--------------------------- MODULE SessionProofs ---------------------------
(* Proofs about Session: the in-flight references of sends, and the        *)
(* backpointers of devices.                                                *)
EXTENDS Session, FiniteSetTheorems, TLAPS

HandlerPCs == {"loop", "crossover", "reject", "attach", "answer", "exit"}

(* The thread of s is still serving it. *)
Serving(s) ==
  /\ s \in session_thread
  /\ pc[s] \in HandlerPCs \cup CleanPCs \cup {"crashed"}

(* Until its thread exits a session is served; then it is destroyed. *)
ThreadsServe ==
  \A s \in Sessions :
    /\ s \in session_thread => Serving(s)
    /\ pc[s] \in HandlerPCs => s \in session_thread
    /\ s \in listed => Serving(s) \/ pc[s] = "remove"
    /\ Senders(s) # {} => Serving(s) \/ pc[s] \in {"remove", "drain"}
    /\ pc[s] \notin {"unborn", "gone"} => memory[s] = "live" /\ s \in open

(* active_sends counts the threads inside a send. *)
SendsCounted == \A s \in Sessions : active_sends[s] = Cardinality(Senders(s))

(* A device whose backpointer is set is attached to that session. *)
BackpointerMatches ==
  \A d \in Devices : session[d] # NoSession => device[session[d]] = d

(* A session has no device before it starts and after releasing it, and a *)
(* registration attaches no second one.                                   *)
Attachments ==
  \A s \in Sessions :
    /\ pc[s] \in {"unborn", "close", "gone"} => device[s] = NoDevice
    /\ pc[s] = "attach" => device[s] \in {NoDevice, dev[s]} /\ dev[s] \in Devices

(* What a thread may have in its hands at its place. *)
HandsFull ==
  \A t \in Threads :
    /\ t \in Callers => pc[t] \in CallerPCs \cup CleanPCs \cup {"crashed"}
    /\ t \in Sessions => pc[t] \notin CallerPCs
    /\ pc[t] \in {"send", "release", "unbind", "stop"} => hand[t] \in Sessions
    /\ pc[t] \in CleanPCs => dev[t] \in Devices

(* The inductive invariant: the conjuncts above, which hold together in    *)
(* every reachable state (sccp_session.c:471-657, sccp_device.c:1931-2062, *)
(* sccp_actions.c:751-917).                                                *)
IInv == /\ TypeOK /\ ThreadsServe /\ SendsCounted /\ BackpointerMatches
        /\ Attachments /\ HandsFull

-----------------------------------------------------------------------------
(* Nothing holds a session, a device or a send before the first connection *)
(* (sccp_session.c:907-931).                                               *)
LEMMA InitInv == Init => IInv
<1> SUFFICES ASSUME Init PROVE IInv
  OBVIOUS
<1> USE SessionAssumption
<1>1. TypeOK
  BY DEF Init, TypeOK, Threads, RegStates, CallerPCs, SessionPCs
<1>2. \A s \in Sessions : Senders(s) = {}
  BY DEF Init, Senders, Threads
<1>3. SendsCounted
  BY <1>2, FS_EmptySet DEF Init, SendsCounted
<1>4. ThreadsServe
  BY <1>2 DEF Init, ThreadsServe, Serving, HandlerPCs, Threads
<1>5. BackpointerMatches /\ Attachments
  BY DEF Init, BackpointerMatches, Attachments, Threads
<1>6. HandsFull
  BY DEF Init, HandsFull, CallerPCs, CleanPCs, Threads
<1> QED
  BY <1>1, <1>3, <1>4, <1>5, <1>6 DEF IInv

-----------------------------------------------------------------------------
(* A backpointer is set only together with s->device, and s->device is     *)
(* cleared only with the backpointers to s (sccp_session.c:534-581).       *)
LEMMA BackpointerStep ==
  ASSUME IInv, [Next]_vars PROVE BackpointerMatches'
<1> USE SessionAssumption DEF IInv, TypeOK, BackpointerMatches
<1>1. CASE UNCHANGED <<device, session>>
  BY <1>1
<1>2. ASSUME NEW s \in Sessions, Reject(s) \/ Refuse(s) \/ Unlink(s)
      PROVE  BackpointerMatches'
  BY <1>2 DEF Reject, Refuse, Unlink
<1>3. ASSUME NEW s \in Sessions, Attach(s) PROVE BackpointerMatches'
  <2>1. /\ device[s] \in {NoDevice, dev[s]} /\ dev[s] \in Devices
        /\ device' = [device EXCEPT ![s] = dev[s]]
        /\ session' = IF device[s] = dev[s] THEN session
                      ELSE [session EXCEPT ![dev[s]] = s]
    BY <1>3 DEF Attach, Attachments
  <2> QED
    BY <2>1
<1>4. ASSUME NEW s \in Sessions, Detach(s) PROVE BackpointerMatches'
  BY <1>4 DEF Detach, RemoveDevice, ForgottenBy
<1>5. ASSUME NEW t \in Threads, CleanUnbind(t) PROVE BackpointerMatches'
  <2>1. hand[t] \in Sessions
    BY <1>5 DEF CleanUnbind, HandsFull
  <2> QED
    BY <1>5, <2>1 DEF CleanUnbind, RemoveDevice, ForgottenBy
<1>6. ASSUME NEW s \in Sessions,
             \/ Accept(s) \/ LeaveLoop(s) \/ Disconnect(s) \/ Message(s)
             \/ ButtonTemplateReq(s) \/ (\E d \in Devices : Register(s, d))
             \/ Crossover(s) \/ Acknowledge(s) \/ Exit(s) \/ Remove(s) \/ Drain(s)
             \/ Owner(s) \/ Close(s)
      PROVE  UNCHANGED <<device, session>>
  BY <1>6 DEF Accept, LeaveLoop, Disconnect, Message, ButtonTemplateReq, Register,
     Crossover, Acknowledge, Exit, Remove, Drain, Owner, Close
<1>7. ASSUME NEW t \in Threads,
             \/ \E d \in Devices, s \in Sessions : AcquireForSend(t, d, s)
             \/ Send(t) \/ ReleaseSend(t) \/ (\E d \in Devices : CleanDevice(t, d))
             \/ CleanUndo(t) \/ CleanBackpointer(t) \/ CleanStop(t) \/ CleanEnd(t)
      PROVE  UNCHANGED <<device, session>>
  BY <1>7 DEF AcquireForSend, Send, ReleaseSend, CleanDevice, CleanUndo,
     CleanBackpointer, CleanStop, CleanEnd
<1> QED
  BY <1>1, <1>2, <1>3, <1>4, <1>5, <1>6, <1>7
  DEF Next, vars, SessionThread, Handle, Teardown, Caller, Clean, Threads

-----------------------------------------------------------------------------
(* A session is attached by its own thread, which has not started, or is   *)
(* at its end, when the session must have no device                        *)
(* (sccp_actions.c:779-808, sccp_session.c:629).                           *)
LEMMA AttachmentsStep ==
  ASSUME IInv, [Next]_vars PROVE Attachments'
<1> USE SessionAssumption DEF IInv, TypeOK, Attachments, Threads
<1>1. CASE UNCHANGED vars
  BY <1>1 DEF vars
<1>2. ASSUME NEW s \in Sessions,
             \/ Accept(s) \/ LeaveLoop(s) \/ Disconnect(s) \/ Message(s)
             \/ ButtonTemplateReq(s) \/ Crossover(s) \/ Reject(s) \/ Attach(s)
             \/ Refuse(s) \/ Acknowledge(s)
      PROVE  Attachments'
  BY <1>2 DEF Accept, LeaveLoop, Disconnect, Message, ButtonTemplateReq, Crossover,
     Reject, Attach, Refuse, Acknowledge, Goto, Follow, locals
<1>3. ASSUME NEW s \in Sessions, NEW d \in Devices, Register(s, d)
      PROVE  Attachments'
  BY <1>3 DEF Register, Crossdevice, Goto
<1>4. ASSUME NEW s \in Sessions,
             \/ Exit(s) \/ Remove(s) \/ Drain(s) \/ Owner(s) \/ Unlink(s) \/ Detach(s)
             \/ Close(s)
      PROVE  Attachments'
  BY <1>4 DEF Exit, Remove, Drain, Owner, Unlink, Detach, RemoveDevice, Close, Goto,
     locals
<1>5. ASSUME NEW t \in Callers, Caller(t)
      PROVE  Attachments'
  BY <1>5 DEF Caller, AcquireForSend, Send, ReleaseSend, Goto, locals
<1>6. ASSUME NEW t \in Threads, Clean(t)
      PROVE  Attachments'
  <2>1. pc' = [pc EXCEPT ![t] = pc'[t]]
    BY <1>6 DEF Clean, CleanDevice, CleanUndo, CleanBackpointer, CleanUnbind,
       CleanStop, CleanEnd, Goto, Follow
  <2>2. pc[t] \notin {"attach"} /\ pc'[t] \notin {"attach", "unborn", "close", "gone"}
    BY <1>6 DEF Clean, CleanDevice, CleanUndo, CleanBackpointer, CleanUnbind,
       CleanStop, CleanEnd, Goto, Follow
  <2>3. \A s \in Sessions : device'[s] \in {device[s], NoDevice}
    BY <1>6 DEF Clean, CleanDevice, CleanUndo, CleanBackpointer, CleanUnbind,
       CleanStop, CleanEnd, RemoveDevice
  <2>4. \A s \in Sessions \ {t} : dev'[s] = dev[s]
    BY <1>6 DEF Clean, CleanDevice, CleanUndo, CleanBackpointer, CleanUnbind,
       CleanStop, CleanEnd, locals
  <2> QED
    BY <2>1, <2>2, <2>3, <2>4
<1> QED
  BY <1>1, <1>2, <1>3, <1>4, <1>5, <1>6
  DEF Next, SessionThread, Handle, Teardown

(* A thread takes a session or a device in its hands before it goes where  *)
(* it follows them (sccp_session.c:472-490, sccp_device.c:1931-2060).      *)
LEMMA HandsFullStep ==
  ASSUME IInv, [Next]_vars PROVE HandsFull'
<1> USE SessionAssumption DEF IInv, TypeOK, HandsFull, Threads, CallerPCs, CleanPCs
<1>1. CASE UNCHANGED vars
  BY <1>1 DEF vars
<1>2. ASSUME NEW s \in Sessions,
             \/ Accept(s) \/ LeaveLoop(s) \/ Disconnect(s) \/ Message(s)
             \/ ButtonTemplateReq(s) \/ Crossover(s) \/ Reject(s) \/ Attach(s)
             \/ Refuse(s) \/ Acknowledge(s) \/ (\E d \in Devices : Register(s, d))
      PROVE  HandsFull'
  BY <1>2 DEF Accept, LeaveLoop, Disconnect, Message, ButtonTemplateReq, Crossover,
     Reject, Attach, Refuse, Acknowledge, Register, Goto, Follow, locals
<1>3. ASSUME NEW s \in Sessions,
             \/ Exit(s) \/ Remove(s) \/ Drain(s) \/ Owner(s) \/ Unlink(s) \/ Detach(s)
             \/ Close(s)
      PROVE  HandsFull'
  BY <1>3 DEF Exit, Remove, Drain, Owner, Unlink, Detach, Close, Goto, locals
<1>4. ASSUME NEW t \in Callers, Caller(t)
      PROVE  HandsFull'
  BY <1>4 DEF Caller, AcquireForSend, Send, ReleaseSend, Goto, locals
<1>5. ASSUME NEW t \in Threads, Clean(t)
      PROVE  HandsFull'
  <2>1. /\ pc' = [pc EXCEPT ![t] = pc'[t]]
        /\ \A u \in Threads \ {t} : dev'[u] = dev[u] /\ hand'[u] = hand[u]
    BY <1>5 DEF Clean, CleanDevice, CleanUndo, CleanBackpointer, CleanUnbind,
       CleanStop, CleanEnd, Goto, Follow, locals
  <2>2. /\ t \in Callers => pc'[t] \in CallerPCs \cup CleanPCs \cup {"crashed"}
        /\ pc'[t] \in CallerPCs => t \in Callers /\ pc'[t] = "idle"
    BY <1>5 DEF Clean, CleanDevice, CleanUndo, CleanBackpointer, CleanUnbind,
       CleanStop, CleanEnd, Goto, Follow
  <2>3. pc'[t] \in {"unbind", "stop"} => hand'[t] \in Sessions
    BY <1>5 DEF Clean, CleanDevice, CleanUndo, CleanBackpointer, CleanUnbind,
       CleanStop, CleanEnd, Goto, Follow, locals
  <2>4. pc'[t] \in CleanPCs => dev'[t] \in Devices
    BY <1>5 DEF Clean, CleanDevice, CleanUndo, CleanBackpointer, CleanUnbind,
       CleanStop, CleanEnd, Goto, Follow, locals
  <2> QED
    BY <2>1, <2>2, <2>3, <2>4
<1> QED
  BY <1>1, <1>2, <1>3, <1>4, <1>5
  DEF Next, SessionThread, Handle, Teardown

-----------------------------------------------------------------------------
(* A thread that is not sending does not change who sends                  *)
(* (sccp_session.c:471-499).                                               *)
LEMMA SendersUnchanged ==
  ASSUME IInv,
         \A t \in Callers : pc[t] \in {"send", "release"} =>
           pc'[t] \in {"send", "release"} /\ hand'[t] = hand[t],
         \A t \in Callers : pc'[t] \in {"send", "release"} =>
           pc[t] \in {"send", "release"}
  PROVE  \A s \in Sessions : Senders(s)' = Senders(s)
BY DEF Senders

(* Only acquireForSend and releaseSend change who sends: the session loop, *)
(* its end and a cleaning thread do not (sccp_session.c:471-499).          *)
LEMMA OnlySendsChangeSenders ==
  ASSUME IInv, [Next]_vars,
         ~ \E t \in Callers : \/ \E d \in Devices, s \in Sessions : AcquireForSend(t, d, s)
                              \/ ReleaseSend(t)
  PROVE  UNCHANGED active_sends /\ \A s \in Sessions : Senders(s)' = Senders(s)
<1> USE SessionAssumption DEF TypeOK, Threads
<1> DEFINE Kept ==
      /\ \A t \in Callers : pc[t] \in {"send", "release"} =>
           pc'[t] \in {"send", "release"} /\ hand'[t] = hand[t]
      /\ \A t \in Callers : pc'[t] \in {"send", "release"} =>
           pc[t] \in {"send", "release"}
<1>0. TypeOK
  BY DEF IInv
<1>1. CASE UNCHANGED vars
  BY <1>1 DEF vars, Senders
<1>2. ASSUME NEW s \in Sessions, SessionThread(s)
      PROVE  UNCHANGED active_sends /\ Kept
  <2>1. \A t \in Callers : pc'[t] = pc[t] /\ hand'[t] = hand[t]
    BY <1>0, <1>2 DEF SessionThread, Handle, Teardown, Accept, LeaveLoop, Disconnect, Message,
       ButtonTemplateReq, Register, Crossover, Reject, Attach, Refuse, Acknowledge,
       Exit, Remove, Drain, Owner, Unlink, Detach, Close, Goto, Follow, locals
  <2>2. UNCHANGED active_sends
    BY <1>2 DEF SessionThread, Handle, Teardown, Accept, LeaveLoop, Disconnect, Message,
       ButtonTemplateReq, Register, Crossover, Reject, Attach, Refuse, Acknowledge,
       Exit, Remove, Drain, Owner, Unlink, Detach, Close
  <2> QED
    BY <2>1, <2>2
<1>3. ASSUME NEW t \in Callers, Send(t)
      PROVE  UNCHANGED active_sends /\ Kept
  BY <1>0, <1>3 DEF Send, Goto, locals
<1>4. ASSUME NEW t \in Threads, Clean(t)
      PROVE  UNCHANGED active_sends /\ Kept
  <2>1. /\ pc' = [pc EXCEPT ![t] = pc'[t]]
        /\ \A u \in Threads \ {t} : hand'[u] = hand[u]
        /\ UNCHANGED active_sends
    BY <1>0, <1>4 DEF Clean, CleanDevice, CleanUndo, CleanBackpointer, CleanUnbind,
       CleanStop, CleanEnd, Goto, Follow, locals
  <2>2. pc[t] \notin {"send", "release"} /\ pc'[t] \notin {"send", "release"}
    BY <1>0, <1>4 DEF Clean, CleanDevice, CleanUndo, CleanBackpointer, CleanUnbind,
       CleanStop, CleanEnd, Goto, Follow, CleanPCs
  <2> QED
    BY <1>0, <2>1, <2>2
<1>5. CASE ~UNCHANGED vars
  <2>1. UNCHANGED active_sends /\ Kept
    BY <1>2, <1>3, <1>4, <1>5 DEF Next, Caller
  <2> QED
    BY <2>1, SendersUnchanged
<1> QED
  BY <1>1, <1>5

(* A session has at least one reference while a thread sends over it, and  *)
(* loses one with each release (sccp_session.c:479, 495).                  *)
LEMMA SendsCountedStep ==
  ASSUME IInv, [Next]_vars PROVE SendsCounted'
<1> USE SessionAssumption
<1>0. TypeOK /\ SendsCounted
  BY DEF IInv
<1>a. \A s \in Sessions : IsFiniteSet(Senders(s))
  BY FS_Subset DEF Senders
<1>1. CASE ~ \E t \in Callers :
               \/ \E d \in Devices, s \in Sessions : AcquireForSend(t, d, s)
               \/ ReleaseSend(t)
  BY <1>0, <1>1, OnlySendsChangeSenders DEF SendsCounted
<1>2. ASSUME NEW t \in Callers, NEW d \in Devices, NEW s \in Sessions,
             AcquireForSend(t, d, s)
      PROVE  SendsCounted'
  <2>1. Senders(s)' = Senders(s) \cup {t} /\ t \notin Senders(s)
    BY <1>0, <1>2 DEF AcquireForSend, Senders, Goto, TypeOK, Threads
  <2>2. \A u \in Sessions \ {s} : Senders(u)' = Senders(u)
    BY <1>0, <1>2 DEF AcquireForSend, Senders, Goto, TypeOK, Threads
  <2>3. active_sends' = [active_sends EXCEPT ![s] = @ + 1]
    BY <1>2 DEF AcquireForSend
  <2>4. Cardinality(Senders(s)') = Cardinality(Senders(s)) + 1
    BY <1>a, <2>1, FS_AddElement
  <2> QED
    BY <1>0, <2>2, <2>3, <2>4 DEF SendsCounted, TypeOK
<1>3. ASSUME NEW t \in Callers, NEW s \in Sessions, hand[t] = s, ReleaseSend(t)
      PROVE  SendsCounted'
  <2>1. Senders(s)' = Senders(s) \ {t} /\ t \in Senders(s)
    BY <1>0, <1>3 DEF ReleaseSend, Senders, Goto, TypeOK, Threads
  <2>2. \A u \in Sessions \ {s} : Senders(u)' = Senders(u)
    BY <1>0, <1>3 DEF ReleaseSend, Senders, Goto, TypeOK, Threads
  <2>3. active_sends' = [active_sends EXCEPT ![s] = @ - 1]
    BY <1>3 DEF ReleaseSend
  <2>4. Cardinality(Senders(s)') = Cardinality(Senders(s)) - 1
    BY <1>a, <2>1, FS_RemoveElement
  <2> QED
    BY <1>0, <2>2, <2>3, <2>4 DEF SendsCounted, TypeOK
<1>4. ASSUME NEW t \in Callers, ReleaseSend(t) PROVE hand[t] \in Sessions
  BY <1>4 DEF ReleaseSend, IInv, HandsFull, Threads
<1> QED
  BY <1>1, <1>2, <1>3, <1>4

(* The count of a session never goes below zero (sccp_session.c:495).      *)
LEMMA SendersNonNegative ==
  ASSUME IInv, NEW t \in Callers, pc[t] = "release" PROVE active_sends[hand[t]] \in Nat \ {0}
<1> USE SessionAssumption
<1>1. hand[t] \in Sessions
  BY DEF IInv, HandsFull, Threads
<1>2. t \in Senders(hand[t])
  BY DEF Senders
<1>3. IsFiniteSet(Senders(hand[t]))
  BY FS_Subset DEF Senders
<1>4. Cardinality(Senders(hand[t])) # 0
  BY <1>2, <1>3, FS_EmptySet
<1> QED
  BY <1>1, <1>4 DEF IInv, TypeOK, SendsCounted

-----------------------------------------------------------------------------
(* The variables keep their types (sccp_session.c:451-1006,                *)
(* sccp_device.c:1931-2062).                                               *)
LEMMA TypeStep ==
  ASSUME IInv, [Next]_vars PROVE TypeOK'
<1> USE SessionAssumption DEF TypeOK, Threads
<1>0. TypeOK
  BY DEF IInv
<1>1. CASE UNCHANGED vars
  BY <1>0, <1>1 DEF vars
<1>2. ASSUME NEW s \in Sessions,
             Accept(s) \/ LeaveLoop(s) \/ Disconnect(s) \/ Message(s) \/ ButtonTemplateReq(s)
      PROVE  TypeOK'
  BY <1>0, <1>2 DEF Accept, LeaveLoop, Disconnect, Message, ButtonTemplateReq,
     StopThread, SetRegistrationState, RegStates, SessionPCs, Goto, connection, locals
<1>3. ASSUME NEW s \in Sessions, NEW d \in Devices, Register(s, d)
      PROVE  TypeOK'
  BY <1>0, <1>3 DEF Register, SessionPCs, Goto, connection
<1>4. ASSUME NEW s \in Sessions,
             Crossover(s) \/ Reject(s) \/ Refuse(s) \/ Acknowledge(s)
      PROVE  TypeOK'
  BY <1>0, <1>4 DEF Crossover, Reject, Refuse, Acknowledge, Cancel,
     SetRegistrationState, RegStates, SessionPCs, Goto, Follow, connection, locals
<1>5. ASSUME NEW s \in Sessions, Attach(s)
      PROVE  TypeOK'
  BY <1>0, <1>5 DEF Attach, SessionPCs, Goto, connection, locals
<1>6. ASSUME NEW s \in Sessions,
             Exit(s) \/ Remove(s) \/ Drain(s) \/ Owner(s) \/ Unlink(s) \/ Close(s)
      PROVE  TypeOK'
  BY <1>0, <1>6 DEF Exit, Remove, Drain, Owner, Unlink, Close, SessionPCs, Goto,
     connection, locals
<1>7. ASSUME NEW s \in Sessions, Detach(s)
      PROVE  TypeOK'
  BY <1>0, <1>7 DEF Detach, RemoveDevice, ForgottenBy, RegStates, SessionPCs, Goto,
     connection, locals
<1>8. ASSUME NEW t \in Callers, NEW d \in Devices, NEW s \in Sessions,
             AcquireForSend(t, d, s)
      PROVE  TypeOK'
  BY <1>0, <1>8 DEF AcquireForSend, CallerPCs, Goto, connection
<1>9. ASSUME NEW t \in Callers, Send(t)
      PROVE  TypeOK'
  <2>1. hand[t] \in Sessions
    BY <1>9 DEF Send, IInv, HandsFull
  <2> QED
    BY <1>0, <1>9, <2>1 DEF Send, StopThread, SetRegistrationState, RegStates,
       CallerPCs, Goto, connection, locals
<1>10. ASSUME NEW t \in Callers, ReleaseSend(t)
      PROVE  TypeOK'
  <2>1. hand[t] \in Sessions /\ active_sends[hand[t]] \in Nat \ {0}
    BY <1>10, SendersNonNegative DEF ReleaseSend, IInv, HandsFull
  <2>2. active_sends[hand[t]] - 1 \in Nat
    BY <2>1
  <2> QED
    BY <1>0, <1>10, <2>1, <2>2 DEF ReleaseSend, CallerPCs, Goto, connection
<1>11. ASSUME NEW t \in Threads,
              \/ \E d \in Devices : CleanDevice(t, d)
              \/ CleanUndo(t) \/ CleanBackpointer(t) \/ CleanEnd(t)
      PROVE  TypeOK'
  <2>1. pc[t] = "backpointer" => dev[t] \in Devices
    BY DEF IInv, HandsFull, CleanPCs
  <2> QED
    BY <1>0, <1>11, <2>1 DEF CleanDevice, CleanUndo, CleanBackpointer, CleanEnd,
       SetRegistrationState, RegStates, CallerPCs, CleanPCs, SessionPCs, Goto,
       connection, locals
<1>12. ASSUME NEW t \in Threads, CleanUnbind(t) \/ CleanStop(t)
      PROVE  TypeOK'
  BY <1>0, <1>12 DEF CleanUnbind, CleanStop, RemoveDevice, ForgottenBy, StopThread,
     Cancel, SetRegistrationState, RegStates, CleanPCs, Goto, Follow, connection, locals
<1> QED
  BY <1>1, <1>2, <1>3, <1>4, <1>5, <1>6, <1>7, <1>8, <1>9, <1>10, <1>11, <1>12
  DEF Next, SessionThread, Handle, Teardown, Caller, Clean

-----------------------------------------------------------------------------
(* A session is freed only after its thread left the list, drained the     *)
(* sends and closed the socket (sccp_session.c:606-674, 907-1006).         *)
LEMMA ThreadsServeStep ==
  ASSUME IInv, [Next]_vars PROVE ThreadsServe'
<1> USE SessionAssumption DEF Threads
<1>0. TypeOK /\ ThreadsServe
  BY DEF IInv
<1>1. CASE UNCHANGED vars
  BY <1>0, <1>1 DEF vars, ThreadsServe, Serving, Senders
<1>2. ASSUME NEW s \in Sessions,
             \/ Accept(s) \/ LeaveLoop(s) \/ Disconnect(s) \/ Message(s)
             \/ ButtonTemplateReq(s) \/ (\E d \in Devices : Register(s, d)) \/ Crossover(s)
             \/ Reject(s) \/ Attach(s) \/ Refuse(s) \/ Acknowledge(s)
      PROVE  ThreadsServe'
  <2>1. \A u \in Sessions : Senders(u)' = Senders(u)
    BY <1>0, <1>2 DEF Senders, TypeOK, Accept, LeaveLoop, Disconnect, Message,
       ButtonTemplateReq, Register, Crossover, Reject, Attach, Refuse, Acknowledge,
       Goto, Follow, locals
  <2> QED
    BY <1>0, <1>2, <2>1 DEF ThreadsServe, Serving, HandlerPCs, CleanPCs, TypeOK, Accept,
       LeaveLoop, Disconnect, Message, ButtonTemplateReq, Register, Crossover, Reject,
       Attach, Refuse, Acknowledge, Goto, Follow, connection
<1>3. ASSUME NEW s \in Sessions,
             \/ Exit(s) \/ Remove(s) \/ Owner(s) \/ Unlink(s) \/ Detach(s) \/ Close(s)
      PROVE  ThreadsServe'
  <2>1. \A u \in Sessions : Senders(u)' = Senders(u)
    BY <1>0, <1>3 DEF Senders, TypeOK, Exit, Remove, Owner, Unlink, Detach, Close,
       Goto, locals
  <2> QED
    BY <1>0, <1>3, <2>1 DEF ThreadsServe, Serving, HandlerPCs, CleanPCs, TypeOK, Exit,
       Remove, Owner, Unlink, Detach, Close, Goto, connection
<1>4. ASSUME NEW s \in Sessions, Drain(s)
      PROVE  ThreadsServe'
  <2>1. \A u \in Sessions : Senders(u)' = Senders(u)
    BY <1>0, <1>4 DEF Senders, TypeOK, Drain, Goto, locals
  <2>2. Senders(s) = {}
    <3>1. IsFiniteSet(Senders(s))
      BY FS_Subset DEF Senders
    <3> QED
      BY <1>4, <3>1, FS_EmptySet DEF Drain, IInv, SendsCounted
  <2> QED
    BY <1>0, <1>4, <2>1, <2>2 DEF ThreadsServe, Serving, HandlerPCs, CleanPCs, TypeOK,
       Drain, Goto, connection
<1>5. ASSUME NEW t \in Callers, NEW d \in Devices, NEW s \in Sessions,
             AcquireForSend(t, d, s)
      PROVE  ThreadsServe'
  <2>1. \A u \in Sessions \ {s} : Senders(u)' = Senders(u)
    BY <1>0, <1>5 DEF Senders, TypeOK, AcquireForSend, Goto
  <2> QED
    BY <1>0, <1>5, <2>1 DEF ThreadsServe, Serving, TypeOK, AcquireForSend, Goto, connection
<1>6. ASSUME NEW t \in Callers, Send(t) \/ ReleaseSend(t)
      PROVE  ThreadsServe'
  <2>1. \A u \in Sessions : Senders(u)' \subseteq Senders(u)
    BY <1>0, <1>6 DEF Senders, TypeOK, Send, ReleaseSend, Goto, locals
  <2> QED
    BY <1>0, <1>6, <2>1 DEF ThreadsServe, Serving, TypeOK, Send, ReleaseSend, Goto,
       connection
<1>7. ASSUME NEW t \in Threads, Clean(t)
      PROVE  ThreadsServe'
  <2>1. UNCHANGED connection
    BY <1>7 DEF Clean, CleanDevice, CleanUndo, CleanBackpointer, CleanUnbind,
       CleanStop, CleanEnd
  <2>2. /\ pc' = [pc EXCEPT ![t] = pc'[t]]
        /\ \A u \in Threads \ {t} : hand'[u] = hand[u]
        /\ pc[t] \notin {"send", "release"} /\ pc'[t] \notin {"send", "release"}
    BY <1>0, <1>7 DEF TypeOK, Clean, CleanDevice, CleanUndo, CleanBackpointer,
       CleanUnbind, CleanStop, CleanEnd, Goto, Follow, locals
  <2>3. \A u \in Sessions : Senders(u)' = Senders(u)
    BY <1>0, <2>2 DEF Senders, TypeOK
  <2>4. t \in Sessions =>
          /\ pc[t] \in CleanPCs \cup {"idle", "loop", "devclean"}
          /\ pc'[t] \in CleanPCs \cup {"crashed", "loop", "detach"}
          /\ pc'[t] = "loop" => t \in session_thread
          /\ pc'[t] = "detach" => t \notin session_thread
    BY <1>0, <1>7 DEF TypeOK, Clean, CleanDevice, CleanUndo, CleanBackpointer,
       CleanUnbind, CleanStop, CleanEnd, CleanPCs, Goto, Follow
  <2> QED
    BY <1>0, <2>1, <2>2, <2>3, <2>4 DEF ThreadsServe, Serving, HandlerPCs, CleanPCs,
       TypeOK, connection, IInv, HandsFull
<1> QED
  BY <1>1, <1>2, <1>3, <1>4, <1>5, <1>6, <1>7
  DEF Next, SessionThread, Handle, Teardown, Caller

(* The invariant holds in every reachable state, for any number of         *)
(* connections, devices and other threads (sccp_session.c:451-1006).       *)
THEOREM Invariance == Spec => []IInv
<1>1. IInv /\ [Next]_vars => IInv'
  BY TypeStep, ThreadsServeStep, SendsCountedStep, BackpointerStep, AttachmentsStep,
     HandsFullStep DEF IInv
<1> QED
  BY InitInv, <1>1, PTL DEF Spec

(* The variables of the session module always have their types             *)
(* (sccp_session.c:451-1006, sccp_device.c:1931-2062).                     *)
THEOREM SessionTypes == Spec => []TypeOK
<1>1. IInv => TypeOK
  BY DEF IInv
<1> QED
  BY Invariance, <1>1, PTL

(* A thread inside a send always works on a session that is neither closed *)
(* nor freed, however its thread, its peer and a cleaning thread interfere *)
(* (sccp_session.c:471-499, 612-619).                                      *)
THEOREM SendsSafe == Spec => []SendsOnLiveSessions
<1>1. IInv => SendsOnLiveSessions
  BY DEF IInv, ThreadsServe, Serving, HandlerPCs, CleanPCs, SendsOnLiveSessions
<1> QED
  BY Invariance, <1>1, PTL

(* No device keeps a pointer to a freed session, although no lock guards   *)
(* the pointer (sccp_session.c:534-581, 623-629).                          *)
THEOREM BackpointersSafe == Spec => []NoDanglingBackpointer
<1>1. IInv => NoDanglingBackpointer
  <2> SUFFICES ASSUME IInv, NEW d \in Devices, session[d] # NoSession
               PROVE  memory[session[d]] = "live"
    BY DEF NoDanglingBackpointer
  <2>1. session[d] \in Sessions /\ device[session[d]] = d
    BY DEF IInv, TypeOK, BackpointerMatches
  <2>2. pc[session[d]] \notin {"unborn", "close", "gone"}
    BY <2>1, SessionAssumption DEF IInv, Attachments
  <2> QED
    BY <2>1, <2>2 DEF IInv, ThreadsServe
<1> QED
  BY Invariance, <1>1, PTL
=============================================================================
