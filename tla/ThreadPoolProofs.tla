-------------------------- MODULE ThreadPoolProofs --------------------------
(***************************************************************************)
(* Proofs about ThreadPool, for every set of jobs and every pool size.     *)
(***************************************************************************)
EXTENDS ThreadPool, FiniteSetTheorems, SequenceTheorems, TLAPS

(* Threads exist up to thread_count and hold a job exactly while running. *)
ThreadsMatchCount ==
  \A w \in Workers :
    /\ worker[w] = "none" <=> w > thread_count
    /\ worker[w] = "running" <=> running[w] # NoJob

(* What each phase of init and destroy implies. *)
PhaseInv ==
  /\ phase = "creating" => ~shutting_down /\ queue = <<>> /\ joined = 0
  /\ phase = "up" => thread_count = PoolSize /\ joined = 0
  /\ phase \in {"joining", "freed", "joinfailed"} => shutting_down
  /\ phase = "freed" => joined = thread_count
  /\ destroyer \in {Owner, NoThread}
  /\ thread_count = 0 => queue = <<>>

(* A worker leaves only when nothing can be queued any more. *)
ExitInv ==
  /\ shutting_down => Waiting = {}
  /\ \A w \in Workers : worker[w] = "exited" => shutting_down /\ queue = <<>>
  /\ joined <= thread_count
  /\ \A w \in 1..joined : worker[w] = "exited"

(* The inductive invariant: what the phases of init and destroy, the       *)
(* threads and the queue have to do with each other                        *)
(* (sccp_threadpool.c:25-170).                                             *)
IInv ==
  /\ TypeOK
  /\ ThreadsMatchCount
  /\ PhaseInv
  /\ ExitInv
  /\ JobsInOnePlace

-----------------------------------------------------------------------------
(* The clamps of sccp_threadpool_init leave at least one worker. *)
LEMMA PoolSizePos == PoolSize \in Nat \ {0}
BY SizeAssumption DEF PoolSize

(* What Append and Tail do to a list, in the form the steps need. *)
LEMMA AppendFacts ==
  ASSUME NEW q \in Seq(Jobs), NEW j \in Jobs
  PROVE  /\ Append(q, j) \in Seq(Jobs)
         /\ Len(q) \in Nat
         /\ Len(Append(q, j)) = Len(q) + 1
         /\ \A i \in 1..Len(q) : Append(q, j)[i] = q[i]
         /\ Append(q, j)[Len(q) + 1] = j
BY AppendProperties, LenProperties

LEMMA TailFacts ==
  ASSUME NEW q \in Seq(Jobs), q # <<>>
  PROVE  /\ Head(q) \in Jobs /\ Head(q) = q[1]
         /\ Tail(q) \in Seq(Jobs)
         /\ Len(q) \in Nat \ {0}
         /\ Len(Tail(q)) = Len(q) - 1
         /\ \A i \in 1..Len(Tail(q)) : Tail(q)[i] = q[i + 1]
<1>1. Len(q) \in Nat \ {0}
  BY EmptySeq
<1>2. Head(q) = q[1]
  OBVIOUS
<1> QED
  BY <1>1, <1>2, HeadTailProperties

(* Type correctness of the pool's state (sccp_threadpool.c:15-23). *)
LEMMA TypeStep == TypeOK /\ [Next]_vars => TypeOK'
<1> SUFFICES ASSUME TypeOK, [Next]_vars PROVE TypeOK'
  OBVIOUS
<1> USE DEF TypeOK, Phases, WorkerStates, JobStates
<1>1. CASE CreateWorker
  BY <1>1, PoolSizePos DEF CreateWorker, Workers
<1>2. CASE InitReturns
  BY <1>2 DEF InitReturns
<1>3. ASSUME NEW t \in Workers \cup {Owner}, BeginDestroy(t) PROVE TypeOK'
  <2>1. \A w \in Workers : worker'[w] \in WorkerStates
    BY <1>3 DEF BeginDestroy, WakeAll
  <2>2. worker' \in [Workers -> WorkerStates]
    BY <1>3, <2>1 DEF BeginDestroy, WakeAll
  <2> QED
    BY <1>3, <2>2 DEF BeginDestroy
<1>4. CASE CreateFails
  BY <1>4, <1>3 DEF CreateFails
<1>5. ASSUME NEW w \in Workers, WorkerTake(w) PROVE TypeOK'
  BY <1>5, TailFacts DEF WorkerTake
<1>6. ASSUME NEW w \in Workers, WorkerWait(w) \/ WorkerExit(w) \/ SpuriousWakeup(w)
      PROVE TypeOK'
  BY <1>6 DEF WorkerWait, WorkerExit, SpuriousWakeup
<1>7. ASSUME NEW w \in Workers, FinishJob(w) PROVE TypeOK'
  BY <1>7 DEF FinishJob
<1>8. ASSUME NEW j \in Jobs, AddWork(j) PROVE TypeOK'
  BY <1>8, AppendFacts DEF AddWork, SignalOne, Waiting
<1>9. ASSUME NEW j \in Jobs, AddWorkRejected(j) PROVE TypeOK'
  BY <1>9 DEF AddWorkRejected
<1>10. CASE Stop
  <2>1. \A w \in Workers : worker'[w] \in WorkerStates
    BY <1>10 DEF Stop, WakeAll
  <2>2. worker' \in [Workers -> WorkerStates]
    BY <1>10, <2>1 DEF Stop, WakeAll
  <2> QED
    BY <1>10, <2>2 DEF Stop
<1>11. ASSUME NEW t \in Workers \cup {Owner}, Destroy(t) PROVE TypeOK'
  BY <1>11, <1>3 DEF Destroy
<1>12. CASE Joining \/ JoinFails
  BY <1>12, PoolSizePos DEF Joining, JoinWorker, FreePool, JoinFails
<1>13. CASE UNCHANGED vars
  BY <1>13 DEF vars
<1> QED
  BY <1>1, <1>2, <1>4, <1>5, <1>6, <1>7, <1>8, <1>9, <1>10, <1>11, <1>12, <1>13
     DEF Next, Building, WorkerStep

-----------------------------------------------------------------------------
(* The pool starts in the inductive invariant. *)
LEMMA InitIInv == Init => IInv
<1> SUFFICES ASSUME Init PROVE IInv
  OBVIOUS
<1>1. TypeOK
  <2>1. queue \in Seq(Jobs)
    BY EmptySeq DEF Init
  <2>2. worker \in [Workers -> WorkerStates]
    BY DEF Init, WorkerStates
  <2>3. running \in [Workers -> Jobs \cup {NoJob}]
    BY DEF Init
  <2>4. job \in [Jobs -> JobStates]
    BY DEF Init, JobStates
  <2>5. thread_count \in 0..PoolSize /\ joined \in 0..PoolSize
    BY PoolSizePos DEF Init
  <2> QED
    BY <2>1, <2>2, <2>3, <2>4, <2>5 DEF Init, TypeOK, Phases
<1>2. ThreadsMatchCount /\ PhaseInv /\ ExitInv /\ JobsInOnePlace
  BY PoolSizePos DEF Init, ThreadsMatchCount, PhaseInv, ExitInv, JobsInOnePlace,
     Workers, Waiting
<1> QED
  BY <1>1, <1>2 DEF IInv

(* No step breaks the match of threads, their count and their jobs        *)
(* (sccp_threadpool.c:25-47, 75-82).                                       *)
LEMMA ThreadsStep == IInv /\ [Next]_vars => ThreadsMatchCount'
<1> SUFFICES ASSUME IInv, [Next]_vars PROVE ThreadsMatchCount'
  OBVIOUS
<1> USE PoolSizePos, NoJobAssumption DEF IInv, TypeOK, ThreadsMatchCount
<1>1. CASE CreateWorker
  BY <1>1 DEF CreateWorker, Workers
<1>2. CASE InitReturns
  BY <1>2 DEF InitReturns
<1>3. ASSUME NEW t, BeginDestroy(t) PROVE ThreadsMatchCount'
  BY <1>3 DEF BeginDestroy, WakeAll
<1>4. CASE CreateFails
  BY <1>4, <1>3 DEF CreateFails
<1>5. ASSUME NEW w \in Workers, WorkerTake(w) PROVE ThreadsMatchCount'
  BY <1>5, TailFacts DEF WorkerTake
<1>6. ASSUME NEW w \in Workers, WorkerWait(w) \/ WorkerExit(w) \/ SpuriousWakeup(w)
      PROVE ThreadsMatchCount'
  BY <1>6 DEF WorkerWait, WorkerExit, SpuriousWakeup
<1>7. ASSUME NEW w \in Workers, FinishJob(w) PROVE ThreadsMatchCount'
  BY <1>7 DEF FinishJob
<1>8. ASSUME NEW j \in Jobs, AddWork(j) PROVE ThreadsMatchCount'
  BY <1>8 DEF AddWork, SignalOne, Waiting
<1>9. ASSUME NEW j \in Jobs, AddWorkRejected(j) PROVE ThreadsMatchCount'
  BY <1>9 DEF AddWorkRejected
<1>10. CASE Stop
  BY <1>10 DEF Stop, WakeAll
<1>11. ASSUME NEW t \in Workers \cup {Owner}, Destroy(t) PROVE ThreadsMatchCount'
  BY <1>11, <1>3 DEF Destroy
<1>12. CASE Joining \/ JoinFails
  BY <1>12 DEF Joining, JoinWorker, FreePool, JoinFails
<1>13. CASE UNCHANGED vars
  BY <1>13 DEF vars
<1> QED
  BY <1>1, <1>2, <1>4, <1>5, <1>6, <1>7, <1>8, <1>9, <1>10, <1>11, <1>12, <1>13
     DEF Next, Building, WorkerStep

(* No step breaks what a phase implies (sccp_threadpool.c:52-98, 143-170). *)
LEMMA PhaseStep == IInv /\ [Next]_vars => PhaseInv'
<1> SUFFICES ASSUME IInv, [Next]_vars PROVE PhaseInv'
  OBVIOUS
<1> USE PoolSizePos DEF IInv, TypeOK, PhaseInv, Phases
<1>1. CASE CreateWorker
  BY <1>1 DEF CreateWorker
<1>2. CASE InitReturns
  BY <1>2 DEF InitReturns
<1>3. CASE CreateFails
  BY <1>3 DEF CreateFails, BeginDestroy
<1>4. ASSUME NEW w \in Workers, WorkerTake(w) PROVE PhaseInv'
  BY <1>4, TailFacts DEF WorkerTake
<1>5. ASSUME NEW w \in Workers,
             WorkerWait(w) \/ WorkerExit(w) \/ SpuriousWakeup(w) \/ FinishJob(w)
      PROVE PhaseInv'
  BY <1>5 DEF WorkerWait, WorkerExit, SpuriousWakeup, FinishJob
<1>6. ASSUME NEW j \in Jobs, AddWork(j) PROVE PhaseInv'
  <2>1. phase = "up"
    BY <1>6 DEF AddWork, MayProduce
  <2> QED
    BY <1>6, <2>1 DEF AddWork
<1>7. ASSUME NEW j \in Jobs, AddWorkRejected(j) PROVE PhaseInv'
  BY <1>7 DEF AddWorkRejected
<1>8. CASE Stop
  BY <1>8 DEF Stop
<1>9. ASSUME NEW t \in Workers \cup {Owner}, Destroy(t) PROVE PhaseInv'
  BY <1>9 DEF Destroy, BeginDestroy, Workers
<1>10. CASE Joining \/ JoinFails
  BY <1>10 DEF Joining, JoinWorker, FreePool, JoinFails
<1>11. CASE UNCHANGED vars
  BY <1>11 DEF vars
<1> QED
  BY <1>1, <1>2, <1>3, <1>4, <1>5, <1>6, <1>7, <1>8, <1>9, <1>10, <1>11
     DEF Next, Building, WorkerStep

(* No step lets a worker leave while work may still arrive, nor sleep      *)
(* through a shutdown (sccp_threadpool.c:31-36, 94-97).                    *)
LEMMA ExitStep == IInv /\ [Next]_vars => ExitInv'
<1> SUFFICES ASSUME IInv, [Next]_vars PROVE ExitInv'
  OBVIOUS
<1> USE PoolSizePos DEF IInv, TypeOK, ExitInv, Waiting
<1>1. CASE CreateWorker
  BY <1>1 DEF CreateWorker, PhaseInv, Workers
<1>2. CASE InitReturns
  BY <1>2 DEF InitReturns
<1>3. ASSUME NEW t, BeginDestroy(t) PROVE ExitInv'
  <2>1. \A w \in Workers : /\ worker'[w] # "waiting"
                           /\ worker'[w] = "exited" <=> worker[w] = "exited"
    BY <1>3 DEF BeginDestroy, WakeAll
  <2> QED
    BY <1>3, <2>1 DEF BeginDestroy, Workers
<1>4. CASE CreateFails
  BY <1>4, <1>3 DEF CreateFails
<1>5. ASSUME NEW w \in Workers, WorkerTake(w) PROVE ExitInv'
  BY <1>5, TailFacts DEF WorkerTake, Workers
<1>6. ASSUME NEW w \in Workers,
             WorkerWait(w) \/ WorkerExit(w) \/ SpuriousWakeup(w) \/ FinishJob(w)
      PROVE ExitInv'
  BY <1>6 DEF WorkerWait, WorkerExit, SpuriousWakeup, FinishJob, Workers
<1>7. ASSUME NEW j \in Jobs, AddWork(j) PROVE ExitInv'
  BY <1>7 DEF AddWork, SignalOne, Workers
<1>8. ASSUME NEW j \in Jobs, AddWorkRejected(j) PROVE ExitInv'
  BY <1>8 DEF AddWorkRejected
<1>9. CASE Stop
  <2>1. \A w \in Workers : /\ worker'[w] # "waiting"
                           /\ worker'[w] = "exited" <=> worker[w] = "exited"
    BY <1>9 DEF Stop, WakeAll
  <2> QED
    BY <1>9, <2>1 DEF Stop, Workers
<1>10. ASSUME NEW t \in Workers \cup {Owner}, Destroy(t) PROVE ExitInv'
  BY <1>10, <1>3 DEF Destroy
<1>11. CASE Joining \/ JoinFails
  BY <1>11 DEF Joining, JoinWorker, FreePool, JoinFails
<1>12. CASE UNCHANGED vars
  BY <1>12 DEF vars
<1> QED
  BY <1>1, <1>2, <1>4, <1>5, <1>6, <1>7, <1>8, <1>9, <1>10, <1>11, <1>12
     DEF Next, Building, WorkerStep

(* No step loses or duplicates a job (sccp_threadpool.c:37-45, 110-121). *)
LEMMA PlaceStep == IInv /\ [Next]_vars => JobsInOnePlace'
<1> SUFFICES ASSUME IInv, [Next]_vars PROVE JobsInOnePlace'
  OBVIOUS
<1> USE NoJobAssumption DEF IInv, TypeOK, JobsInOnePlace
<1>1. CASE UNCHANGED <<queue, running, job>>
  BY <1>1
<1>2. ASSUME NEW w \in Workers, WorkerTake(w) PROVE JobsInOnePlace'
  <2> DEFINE n == Len(queue)
  <2>1. /\ queue[1] \in Jobs
        /\ n \in Nat \ {0}
        /\ Len(queue') = n - 1
        /\ \A i \in 1..(n - 1) : queue'[i] = queue[i + 1]
        /\ running' = [running EXCEPT ![w] = queue[1]]
        /\ job' = job
    BY <1>2, TailFacts DEF WorkerTake
  <2>2. \A v \in Workers : running[v] # queue[1]
    BY <2>1
  <2>3. \A i \in 1..(n - 1) : queue'[i] # queue[1]
    BY <2>1
  <2>4. running[w] = NoJob
    BY <1>2 DEF WorkerTake, ThreadsMatchCount
  <2>5. \A i, k \in 1..Len(queue') : queue'[i] = queue'[k] => i = k
    BY <2>1
  <2>6. \A i \in 1..Len(queue') : job'[queue'[i]] = "accepted"
    BY <2>1
  <2>7. \A v \in Workers : running'[v] # NoJob =>
          /\ job'[running'[v]] = "accepted"
          /\ \A i \in 1..Len(queue') : queue'[i] # running'[v]
          /\ \A u \in Workers : running'[u] = running'[v] => u = v
    BY <2>1, <2>2, <2>3
  <2>8. ASSUME NEW j \in Jobs, job'[j] = "accepted"
        PROVE  \/ \E i \in 1..Len(queue') : queue'[i] = j
               \/ \E v \in Workers : running'[v] = j
    <3>1. CASE j = queue[1]
      BY <3>1, <2>1
    <3>2. ASSUME NEW i \in 1..n, queue[i] = j, i # 1
          PROVE \E k \in 1..Len(queue') : queue'[k] = j
      <4>1. i - 1 \in 1..(n - 1) /\ queue'[i - 1] = queue[i]
        BY <3>2, <2>1
      <4> QED
        BY <4>1, <3>2, <2>1
    <3>3. ASSUME NEW v \in Workers, running[v] = j
          PROVE \E u \in Workers : running'[u] = j
      BY <3>3, <2>1, <2>4, <2>8
    <3> QED
      BY <2>1, <2>8, <3>1, <3>2, <3>3
  <2> QED
    BY <2>5, <2>6, <2>7, <2>8
<1>3. ASSUME NEW w \in Workers, FinishJob(w) PROVE JobsInOnePlace'
  <2>1. running[w] \in Jobs
    BY <1>3 DEF FinishJob, ThreadsMatchCount
  <2>2. /\ job' = [job EXCEPT ![running[w]] = "done"]
        /\ running' = [running EXCEPT ![w] = NoJob]
        /\ queue' = queue
    BY <1>3 DEF FinishJob
  <2>3. \A i \in 1..Len(queue) : queue[i] \in Jobs
    BY ElementOfSeq
  <2> QED
    BY <2>1, <2>2, <2>3
<1>4. ASSUME NEW j \in Jobs, AddWork(j) PROVE JobsInOnePlace'
  <2> DEFINE n == Len(queue)
  <2>1. /\ n \in Nat
        /\ Len(queue') = n + 1
        /\ \A i \in 1..n : queue'[i] = queue[i]
        /\ queue'[n + 1] = j
        /\ job' = [job EXCEPT ![j] = "accepted"]
        /\ running' = running
        /\ job[j] = "caller"
    BY <1>4, AppendFacts DEF AddWork
  <2>2. \A i \in 1..n : queue[i] \in Jobs /\ queue[i] # j
    BY <2>1, ElementOfSeq
  <2>3. \A w \in Workers : running[w] # j
    BY <2>1
  <2>4. \A i \in 1..(n + 1) : i \in 1..n \/ i = n + 1
    BY <2>1
  <2>5. \A i, k \in 1..Len(queue') : queue'[i] = queue'[k] => i = k
    BY <2>1, <2>2, <2>4
  <2>6. \A i \in 1..Len(queue') : job'[queue'[i]] = "accepted"
    BY <2>1, <2>2, <2>4
  <2>7. \A v \in Workers : running'[v] # NoJob =>
          /\ job'[running'[v]] = "accepted"
          /\ \A i \in 1..Len(queue') : queue'[i] # running'[v]
          /\ \A u \in Workers : running'[u] = running'[v] => u = v
    BY <2>1, <2>2, <2>3, <2>4
  <2>8. \A l \in Jobs : job'[l] = "accepted" =>
          \/ \E i \in 1..Len(queue') : queue'[i] = l
          \/ \E v \in Workers : running'[v] = l
    BY <2>1
  <2> QED
    BY <2>5, <2>6, <2>7, <2>8
<1>5. ASSUME NEW j \in Jobs, AddWorkRejected(j) PROVE JobsInOnePlace'
  <2>1. \A i \in 1..Len(queue) : queue[i] \in Jobs
    BY ElementOfSeq
  <2> QED
    BY <1>5, <2>1 DEF AddWorkRejected
<1>6. CASE Building \/ CreateFails \/ Stop \/ Joining \/ JoinFails
  BY <1>6, <1>1 DEF Building, CreateWorker, InitReturns, CreateFails, BeginDestroy,
     Stop, Joining, JoinWorker, FreePool, JoinFails
<1>7. ASSUME NEW w \in Workers, WorkerWait(w) \/ WorkerExit(w) \/ SpuriousWakeup(w)
      PROVE JobsInOnePlace'
  BY <1>7, <1>1 DEF WorkerWait, WorkerExit, SpuriousWakeup
<1>8. ASSUME NEW t \in Workers \cup {Owner}, Destroy(t) PROVE JobsInOnePlace'
  BY <1>8, <1>1 DEF Destroy, BeginDestroy
<1>9. CASE UNCHANGED vars
  BY <1>9, <1>1 DEF vars
<1> QED
  BY <1>2, <1>3, <1>4, <1>5, <1>6, <1>7, <1>8, <1>9 DEF Next, WorkerStep

(* The inductive invariant holds in every state, for every pool. *)
THEOREM Inductive == Spec => []IInv
<1>1. IInv /\ [Next]_vars => IInv'
  BY TypeStep, ThreadsStep, PhaseStep, ExitStep, PlaceStep DEF IInv
<1> QED
  BY InitIInv, <1>1, PTL DEF Spec

(* The pool's fields keep their types. *)
THEOREM Typing == Spec => []TypeOK
<1>1. IInv => TypeOK
  BY DEF IInv
<1> QED
  BY Inductive, <1>1, PTL

(* Accepted jobs are never lost, duplicated or run twice, whatever workers *)
(* and callers do (sccp_threadpool.c:34-45, 106-121).                      *)
THEOREM JobsNeverDuplicated == Spec => []JobsInOnePlace
<1>1. IInv => JobsInOnePlace
  BY DEF IInv
<1> QED
  BY Inductive, <1>1, PTL

(* A freed pool has no worker left and no accepted job unfinished          *)
(* (sccp_threadpool.c:157-168).                                            *)
LEMMA FreedImplies == IInv => FreedMeansDrained
<1> SUFFICES ASSUME IInv, phase = "freed"
    PROVE  /\ \A w \in Workers : worker[w] \in {"none", "exited"}
           /\ \A j \in Jobs : job[j] # "accepted"
  BY DEF FreedMeansDrained
<1> USE PoolSizePos DEF IInv, TypeOK
<1>1. \A w \in Workers : worker[w] \in {"none", "exited"}
  BY DEF PhaseInv, ExitInv, ThreadsMatchCount, Workers
<1>2. queue = <<>>
  BY <1>1 DEF PhaseInv, ExitInv, Workers
<1>3. \A w \in Workers : running[w] = NoJob
  BY <1>1 DEF ThreadsMatchCount
<1>4. \A j \in Jobs : job[j] # "accepted"
  BY <1>2, <1>3, NoJobAssumption, EmptySeq DEF JobsInOnePlace
<1> QED
  BY <1>1, <1>4

(* destroy frees the pool only after every worker returned and every       *)
(* accepted job ran (sccp_threadpool.c:157-168).                           *)
THEOREM FreedSafely == Spec => []FreedMeansDrained
BY Inductive, FreedImplies, PTL

-----------------------------------------------------------------------------
(* The awake workers can be counted. *)
LEMMA AwakeFinite == IsFiniteSet(Workers) /\ IsFiniteSet(Awake)
<1>1. IsFiniteSet(Workers)
  BY FS_Interval, PoolSizePos DEF Workers
<1>2. Awake \in SUBSET Workers
  BY DEF Awake
<1> QED
  BY <1>1, <1>2, FS_Subset

(* A worker that wakes up adds one to the awake ones. *)
LEMMA WakeCounts ==
  ASSUME NEW w \in Workers, worker \in [Workers -> WorkerStates],
         worker[w] # "awake", worker' = [worker EXCEPT ![w] = "awake"]
  PROVE  Cardinality(Awake') = Cardinality(Awake) + 1
<1>1. Awake' = Awake \cup {w} /\ w \notin Awake
  BY DEF Awake
<1> QED
  BY <1>1, AwakeFinite, FS_AddElement

(* A worker that stops being awake takes one from them. *)
LEMMA SleepCounts ==
  ASSUME NEW w \in Workers, worker \in [Workers -> WorkerStates],
         worker[w] = "awake", NEW s, s # "awake",
         worker' = [worker EXCEPT ![w] = s]
  PROVE  Cardinality(Awake') = Cardinality(Awake) - 1
<1>1. Awake' = Awake \ {w} /\ w \in Awake
  BY DEF Awake
<1> QED
  BY <1>1, AwakeFinite, FS_RemoveElement

(* No step leaves a sleeper with more jobs than awake workers             *)
(* (sccp_threadpool.c:31-33, 117-120).                                     *)
LEMMA SleeperStep ==
  IInv /\ NoSleeperWhileJobsWait /\ [Next]_vars => NoSleeperWhileJobsWait'
<1> SUFFICES ASSUME IInv, NoSleeperWhileJobsWait, [Next]_vars, Waiting' # {}
    PROVE  Len(queue') <= Cardinality(Awake')
  BY DEF NoSleeperWhileJobsWait
<1> USE DEF IInv, TypeOK, NoSleeperWhileJobsWait, Waiting
<1>1. Len(queue) \in Nat /\ Cardinality(Awake) \in Nat
  BY AwakeFinite, FS_CardinalityType, EmptySeq
<1>2. CASE CreateWorker
  <2>1. Waiting # {}
    BY <1>2 DEF CreateWorker
  <2>2. thread_count + 1 \in Workers /\ worker[thread_count + 1] = "none"
    BY <1>2, PoolSizePos DEF CreateWorker, Workers, ThreadsMatchCount
  <2>3. Cardinality(Awake') = Cardinality(Awake) + 1
    BY <1>2, <2>2, WakeCounts DEF CreateWorker
  <2>4. queue' = queue
    BY <1>2 DEF CreateWorker
  <2> QED
    BY <2>1, <2>3, <2>4, <1>1
<1>3. ASSUME NEW w \in Workers, WorkerTake(w)
      PROVE Len(queue') <= Cardinality(Awake')
  <2>1. Waiting # {}
    BY <1>3 DEF WorkerTake
  <2>2. Len(queue') = Len(queue) - 1
    BY <1>3, TailFacts DEF WorkerTake
  <2>3. Cardinality(Awake') = Cardinality(Awake) - 1
    BY <1>3, SleepCounts DEF WorkerTake
  <2> QED
    BY <2>1, <2>2, <2>3, <1>1
<1>4. ASSUME NEW w \in Workers, WorkerWait(w) \/ WorkerExit(w)
      PROVE Len(queue') <= Cardinality(Awake')
  <2>1. Len(queue') = 0
    BY <1>4 DEF WorkerWait, WorkerExit
  <2>2. Cardinality(Awake') = Cardinality(Awake) - 1
    BY <1>4, SleepCounts DEF WorkerWait, WorkerExit
  <2>3. Cardinality(Awake) >= 1
    <3>1. w \in Awake
      BY <1>4 DEF WorkerWait, WorkerExit, Awake
    <3> QED
      BY <3>1, <1>1, AwakeFinite, FS_EmptySet
  <2> QED
    BY <2>1, <2>2, <2>3, <1>1
<1>5. ASSUME NEW w \in Workers, SpuriousWakeup(w) \/ FinishJob(w)
      PROVE Len(queue') <= Cardinality(Awake')
  <2>1. Waiting # {}
    BY <1>5 DEF SpuriousWakeup, FinishJob
  <2>2. Cardinality(Awake') = Cardinality(Awake) + 1
    BY <1>5, WakeCounts DEF SpuriousWakeup, FinishJob
  <2>3. queue' = queue
    BY <1>5 DEF SpuriousWakeup, FinishJob
  <2> QED
    BY <2>1, <2>2, <2>3, <1>1
<1>6. ASSUME NEW j \in Jobs, AddWork(j)
      PROVE Len(queue') <= Cardinality(Awake')
  <2>1. Len(queue') = Len(queue) + 1
    BY <1>6, AppendFacts DEF AddWork
  <2>2. Waiting # {}
    BY <1>6 DEF AddWork, SignalOne
  <2>3. PICK w \in Waiting : worker' = [worker EXCEPT ![w] = "awake"]
    BY <1>6, <2>2 DEF AddWork, SignalOne
  <2>4. Cardinality(Awake') = Cardinality(Awake) + 1
    BY <2>3, WakeCounts
  <2> QED
    BY <2>1, <2>2, <2>4, <1>1
<1>7. CASE Stop
  BY <1>7 DEF Stop, WakeAll
<1>8. CASE CreateFails
  BY <1>8 DEF CreateFails, BeginDestroy, WakeAll
<1>9. ASSUME NEW t \in Workers \cup {Owner}, Destroy(t)
      PROVE Len(queue') <= Cardinality(Awake')
  BY <1>9 DEF Destroy, BeginDestroy, WakeAll
<1>10. CASE UNCHANGED <<queue, worker>>
  BY <1>10 DEF Awake
<1>11. ASSUME NEW j \in Jobs, AddWorkRejected(j)
       PROVE Len(queue') <= Cardinality(Awake')
  BY <1>11, <1>10 DEF AddWorkRejected
<1>12. CASE InitReturns \/ Joining \/ JoinFails \/ UNCHANGED vars
  BY <1>12, <1>10 DEF InitReturns, Joining, JoinWorker, FreePool, JoinFails, vars
<1> QED
  BY <1>2, <1>3, <1>4, <1>5, <1>6, <1>7, <1>8, <1>9, <1>11, <1>12
     DEF Next, Building, WorkerStep

(* No wakeup is lost: one signal per accepted job is enough for any number *)
(* of workers (sccp_threadpool.c:31-33, 117-120).                          *)
THEOREM NoLostWakeup == Spec => []NoSleeperWhileJobsWait
<1>1. Init => NoSleeperWhileJobsWait
  BY DEF Init, NoSleeperWhileJobsWait, Waiting
<1> QED
  BY <1>1, Inductive, SleeperStep, PTL DEF Spec

-----------------------------------------------------------------------------
(* FreedImplies in the state a step leads to. *)
LEMMA FreedImpliesNext == IInv' => FreedMeansDrained'
<1>1. IInv => FreedMeansDrained
  BY FreedImplies
<1> QED
  BY <1>1, PTL

(* Every step of the pool is a step of JobPool or changes nothing of it. *)
LEMMA RefinementStep == IInv /\ IInv' /\ [Next]_vars => [Promise!Next]_(Promise!vars)
<1> SUFFICES ASSUME IInv, IInv', [Next]_vars PROVE [Promise!Next]_(Promise!vars)
  OBVIOUS
<1> USE DEF Promise!Next, Promise!vars
<1>1. CASE UNCHANGED <<job, shutting_down, phase>>
  BY <1>1
<1>2. CASE CreateWorker
  BY <1>2, <1>1 DEF CreateWorker
<1>3. CASE InitReturns
  BY <1>3 DEF InitReturns
<1>4. ASSUME NEW t, BeginDestroy(t), phase # "freed" PROVE Promise!Close
  BY <1>4 DEF BeginDestroy, Promise!Close
<1>5. CASE CreateFails
  BY <1>5, <1>4 DEF CreateFails
<1>6. ASSUME NEW w \in Workers,
             WorkerTake(w) \/ WorkerWait(w) \/ WorkerExit(w) \/ SpuriousWakeup(w)
      PROVE [Promise!Next]_(Promise!vars)
  BY <1>6, <1>1 DEF WorkerTake, WorkerWait, WorkerExit, SpuriousWakeup
<1>7. ASSUME NEW w \in Workers, FinishJob(w) PROVE [Promise!Next]_(Promise!vars)
  <2>1. running[w] \in Jobs /\ job[running[w]] = "accepted"
    BY <1>7 DEF FinishJob, IInv, TypeOK, ThreadsMatchCount, JobsInOnePlace
  <2>2. phase # "freed"
    BY <1>7, FreedImplies DEF FinishJob, FreedMeansDrained
  <2>3. Promise!Execute(running[w])
    BY <1>7, <2>1, <2>2 DEF FinishJob, Promise!Execute
  <2> QED
    BY <2>1, <2>3
<1>8. ASSUME NEW j \in Jobs, AddWork(j) PROVE [Promise!Next]_(Promise!vars)
  <2>1. Promise!Accept(j)
    BY <1>8 DEF AddWork, Promise!Accept
  <2> QED
    BY <2>1
<1>9. ASSUME NEW j \in Jobs, AddWorkRejected(j) PROVE [Promise!Next]_(Promise!vars)
  <2>1. phase # "freed"
    BY <1>9 DEF AddWorkRejected, MayProduce
  <2>2. Promise!Refuse(j)
    BY <1>9, <2>1 DEF AddWorkRejected, Promise!Refuse
  <2> QED
    BY <2>2
<1>10. CASE Stop
  BY <1>10 DEF Stop, Promise!Close
<1>11. ASSUME NEW t \in Workers \cup {Owner}, Destroy(t)
       PROVE [Promise!Next]_(Promise!vars)
  BY <1>11, <1>4 DEF Destroy
<1>12. CASE JoinWorker
  BY <1>12, <1>1 DEF JoinWorker
<1>13. CASE FreePool
  <2>1. shutting_down /\ phase' = "freed"
    BY <1>13 DEF FreePool, IInv, PhaseInv
  <2>2. \A j \in Jobs : job'[j] # "accepted"
    BY <2>1, FreedImpliesNext DEF FreedMeansDrained
  <2> QED
    BY <1>13, <2>1, <2>2 DEF FreePool, Promise!Reclaim
<1>14. CASE JoinFails
  BY <1>14 DEF JoinFails
<1>15. CASE UNCHANGED vars
  BY <1>15, <1>1 DEF vars
<1> QED
  BY <1>2, <1>3, <1>5, <1>6, <1>7, <1>8, <1>9, <1>10, <1>11, <1>12, <1>13,
     <1>14, <1>15 DEF Next, Building, Joining, WorkerStep

(* The thread pool implements JobPool (sccp_threadpool.c:25-170). *)
THEOREM ImplementsPromise == Spec => KeepsPromise
<1>1. Init => Promise!Init
  BY DEF Init, Promise!Init
<1> QED
  BY <1>1, Inductive, RefinementStep, PTL DEF Spec, KeepsPromise, Promise!Spec
=============================================================================
