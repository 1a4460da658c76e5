----------------------------- MODULE ThreadPool -----------------------------
(***************************************************************************)
(* The worker pool of sccp_threadpool.c: worker threads take jobs from a   *)
(* linked list under one mutex, sleep on a condition variable when it is   *)
(* empty, and drain what was accepted before they exit.                    *)
(*                                                                         *)
(* Every field of the pool is read and written under pool->lock, so one    *)
(* critical section is one action.  pthread_cond_wait is two: going to     *)
(* sleep (WorkerWait) and, once signalled, taking the mutex again (the     *)
(* worker is "awake" until it does).                                       *)
(***************************************************************************)
EXTENDS Integers, Sequences, FiniteSets

CONSTANTS
  Jobs,      \* the jobs callers will try to queue
  NoJob,     \* no job in a worker's hands
  Cpus,      \* get_nprocs_conf()
  MinSize,   \* THREADPOOL_MIN_SIZE
  MaxSize    \* THREADPOOL_MAX_SIZE

ASSUME NoJobAssumption == NoJob \notin Jobs
ASSUME SizeAssumption ==
  /\ Cpus \in Int
  /\ MinSize \in Nat \ {0}
  /\ MaxSize \in Nat
  /\ MinSize <= MaxSize

(* threadsN after the two clamps of sccp_threadpool_init. *)
PoolSize == IF Cpus < MinSize THEN MinSize
            ELSE IF Cpus > MaxSize THEN MaxSize
            ELSE Cpus

Workers == 1..PoolSize
Owner == 0   \* the thread that loads and unloads the module

VARIABLES
  phase,          \* what the owner does with the pool
  thread_count,   \* threads created so far
  joined,         \* threads joined so far by destroy
  shutting_down,
  queue,          \* head .. tail
  worker,         \* where each worker thread is
  running,        \* the job in a worker's hands
  job,            \* who answers for each job
  destroyer       \* the thread that is inside sccp_threadpool_destroy

vars == <<phase, thread_count, joined, shutting_down, queue, worker,
          running, job, destroyer>>

Phases == {"creating", "up", "joining", "freed", "joinfailed"}
WorkerStates == {"none", "awake", "waiting", "running", "exited"}
JobStates == {"caller", "accepted", "done", "rejected"}
NoThread == -1

TypeOK ==
  /\ phase \in Phases
  /\ thread_count \in 0..PoolSize
  /\ joined \in 0..PoolSize
  /\ shutting_down \in BOOLEAN
  /\ queue \in Seq(Jobs)
  /\ worker \in [Workers -> WorkerStates]
  /\ running \in [Workers -> Jobs \cup {NoJob}]
  /\ job \in [Jobs -> JobStates]
  /\ destroyer \in Workers \cup {Owner, NoThread}

Init ==
  /\ phase = "creating"
  /\ thread_count = 0
  /\ joined = 0
  /\ shutting_down = FALSE
  /\ queue = <<>>
  /\ worker = [w \in Workers |-> "none"]
  /\ running = [w \in Workers |-> NoJob]
  /\ job = [j \in Jobs |-> "caller"]
  /\ destroyer = NoThread

Waiting == {w \in Workers : worker[w] = "waiting"}
Awake == {w \in Workers : worker[w] = "awake"}

-----------------------------------------------------------------------------
(* sccp_threadpool_init, one pthread_create per step: the workers already  *)
(* created run meanwhile.                                                  *)
CreateWorker ==
  /\ phase = "creating"
  /\ thread_count < PoolSize
  /\ worker' = [worker EXCEPT ![thread_count + 1] = "awake"]
  /\ thread_count' = thread_count + 1
  /\ UNCHANGED <<phase, joined, shutting_down, queue, running, job, destroyer>>

InitReturns ==
  /\ phase = "creating"
  /\ thread_count = PoolSize
  /\ phase' = "up"
  /\ UNCHANGED <<thread_count, joined, shutting_down, queue, worker, running,
                 job, destroyer>>

(* The broadcast wakes every sleeper. *)
WakeAll == worker' = [w \in Workers |->
                        IF worker[w] = "waiting" THEN "awake" ELSE worker[w]]

(* stop() as destroy calls it, and then the first join. *)
BeginDestroy(t) ==
  /\ phase' = "joining"
  /\ destroyer' = t
  /\ shutting_down' = TRUE
  /\ WakeAll
  /\ UNCHANGED <<thread_count, joined, queue, running, job>>

(* pthread_create fails: init destroys what it built and returns NULL. *)
CreateFails ==
  /\ phase = "creating"
  /\ thread_count < PoolSize
  /\ BeginDestroy(Owner)

-----------------------------------------------------------------------------
(* A worker holds the mutex and finds a job at the head. *)
WorkerTake(w) ==
  /\ worker[w] = "awake"
  /\ queue # <<>>
  /\ running' = [running EXCEPT ![w] = Head(queue)]
  /\ queue' = Tail(queue)
  /\ worker' = [worker EXCEPT ![w] = "running"]
  /\ UNCHANGED <<phase, thread_count, joined, shutting_down, job, destroyer>>

(* Nothing queued and no shutdown: pthread_cond_wait. *)
WorkerWait(w) ==
  /\ worker[w] = "awake"
  /\ queue = <<>>
  /\ ~shutting_down
  /\ worker' = [worker EXCEPT ![w] = "waiting"]
  /\ UNCHANGED <<phase, thread_count, joined, shutting_down, queue, running,
                 job, destroyer>>

(* Mutant: the worker leaves on shutdown without draining the list. *)
WorkerExitUndrained(w) ==
  /\ worker[w] = "awake"
  /\ shutting_down
  /\ worker' = [worker EXCEPT ![w] = "exited"]
  /\ UNCHANGED <<phase, thread_count, joined, shutting_down, queue, running,
                 job, destroyer>>

(* Shutdown and an empty list: the thread returns. *)
WorkerExit(w) ==
  /\ worker[w] = "awake"
  /\ queue = <<>>
  /\ shutting_down
  /\ worker' = [worker EXCEPT ![w] = "exited"]
  /\ UNCHANGED <<phase, thread_count, joined, shutting_down, queue, running,
                 job, destroyer>>

(* pthread_cond_wait may return without a signal. *)
SpuriousWakeup(w) ==
  /\ worker[w] = "waiting"
  /\ worker' = [worker EXCEPT ![w] = "awake"]
  /\ UNCHANGED <<phase, thread_count, joined, shutting_down, queue, running,
                 job, destroyer>>

(* job->function returns and the job is freed.  A callback that is inside  *)
(* destroy has not returned.                                               *)
FinishJob(w) ==
  /\ worker[w] = "running"
  /\ destroyer # w
  /\ job' = [job EXCEPT ![running[w]] = "done"]
  /\ running' = [running EXCEPT ![w] = NoJob]
  /\ worker' = [worker EXCEPT ![w] = "awake"]
  /\ UNCHANGED <<phase, thread_count, joined, shutting_down, queue, destroyer>>

-----------------------------------------------------------------------------
(* The header's contract: external producers have stopped before destroy;  *)
(* callbacks still running in the pool may try to queue more work.         *)
MayProduce ==
  \/ phase = "up"
  \/ phase \in {"joining", "joinfailed"} /\ \E w \in Workers : worker[w] = "running"

(* Mutants: no signal, and a signal only for the first job of the list. *)
SignalLost == UNCHANGED worker

(* pthread_cond_signal wakes one sleeper if there is one. *)
SignalOne ==
  IF Waiting = {} THEN UNCHANGED worker
  ELSE \E w \in Waiting : worker' = [worker EXCEPT ![w] = "awake"]

(* Mutant: shutting_down is not looked at. *)
AddWorkDuringShutdown(j) ==
  /\ MayProduce
  /\ job[j] = "caller"
  /\ queue' = Append(queue, j)
  /\ job' = [job EXCEPT ![j] = "accepted"]
  /\ SignalOne
  /\ UNCHANGED <<phase, thread_count, joined, shutting_down, running, destroyer>>

(* sccp_threadpool_add_work: the pool takes the job and answers for arg. *)
AddWork(j) ==
  /\ MayProduce
  /\ job[j] = "caller"
  /\ ~shutting_down
  /\ queue' = Append(queue, j)
  /\ job' = [job EXCEPT ![j] = "accepted"]
  /\ SignalOne
  /\ UNCHANGED <<phase, thread_count, joined, shutting_down, running, destroyer>>

(* Shutdown, or no memory for the job: 0, and arg stays with the caller. *)
AddWorkRejected(j) ==
  /\ MayProduce
  /\ job[j] = "caller"
  /\ job' = [job EXCEPT ![j] = "rejected"]
  /\ UNCHANGED <<phase, thread_count, joined, shutting_down, queue, worker,
                 running, destroyer>>

-----------------------------------------------------------------------------
(* sccp_threadpool_stop, called by sccp_preUnload long before destroy. *)
Stop ==
  /\ phase = "up"
  /\ shutting_down' = TRUE
  /\ WakeAll
  /\ UNCHANGED <<phase, thread_count, joined, queue, running, job, destroyer>>

(* Mutant: the check that the caller is none of the workers is missing. *)
DestroyFromAnywhere(t) ==
  /\ phase = "up"
  /\ t \in Workers => worker[t] = "running"
  /\ BeginDestroy(t)

(* sccp_threadpool_destroy called by thread t: refused inside a callback. *)
Destroy(t) ==
  /\ phase = "up"
  /\ t \in Workers => worker[t] = "running"
  /\ t \notin 1..thread_count
  /\ BeginDestroy(t)

JoinWorker ==
  /\ phase = "joining"
  /\ joined < thread_count
  /\ worker[joined + 1] = "exited"
  /\ joined' = joined + 1
  /\ UNCHANGED <<phase, thread_count, shutting_down, queue, worker, running,
                 job, destroyer>>

(* pthread_join reports an error: the pool is not freed. *)
JoinFails ==
  /\ phase = "joining"
  /\ joined < thread_count
  /\ phase' = "joinfailed"
  /\ destroyer' = NoThread
  /\ UNCHANGED <<thread_count, joined, shutting_down, queue, worker, running, job>>

FreePool ==
  /\ phase = "joining"
  /\ joined = thread_count
  /\ phase' = "freed"
  /\ destroyer' = NoThread
  /\ UNCHANGED <<thread_count, joined, shutting_down, queue, worker, running, job>>

-----------------------------------------------------------------------------
WorkerStep(w) ==
  WorkerTake(w) \/ WorkerWait(w) \/ WorkerExit(w) \/ FinishJob(w)

Building == CreateWorker \/ InitReturns
Joining == JoinWorker \/ FreePool

Next ==
  \/ Building
  \/ CreateFails
  \/ \E w \in Workers : WorkerStep(w) \/ SpuriousWakeup(w)
  \/ \E j \in Jobs : AddWork(j) \/ AddWorkRejected(j)
  \/ Stop
  \/ \E t \in Workers \cup {Owner} : Destroy(t)
  \/ Joining
  \/ JoinFails

(* Threads are scheduled and callbacks return (the header requires it); a  *)
(* thread inside init or destroy goes on.  Nobody has to queue work, to    *)
(* stop or to destroy the pool, and no fault has to happen.                *)
Fairness ==
  /\ \A w \in Workers : WF_vars(WorkerStep(w))
  /\ WF_vars(Building)
  /\ WF_vars(Joining)

Spec == Init /\ [][Next]_vars
FairSpec == Spec /\ Fairness

-----------------------------------------------------------------------------
(* A job the pool accepted is in exactly one place until its callback      *)
(* returned: once in the list or in one worker's hands; a job it refused   *)
(* or finished is in none, so it can run neither twice nor after the       *)
(* caller took its argument back (sccp_threadpool.c:34-45, 106-109).       *)
JobsInOnePlace ==
  /\ \A i, k \in 1..Len(queue) : queue[i] = queue[k] => i = k
  /\ \A i \in 1..Len(queue) : job[queue[i]] = "accepted"
  /\ \A w \in Workers : running[w] # NoJob =>
       /\ job[running[w]] = "accepted"
       /\ \A i \in 1..Len(queue) : queue[i] # running[w]
       /\ \A v \in Workers : running[v] = running[w] => v = w
  /\ \A j \in Jobs : job[j] = "accepted" =>
       \/ \E i \in 1..Len(queue) : queue[i] = j
       \/ \E w \in Workers : running[w] = j

(* Once destroy frees the pool no worker can touch it again and nothing it *)
(* accepted is left undone (sccp_threadpool.c:158-168).                    *)
FreedMeansDrained ==
  phase = "freed" =>
    /\ \A w \in Workers : worker[w] \in {"none", "exited"}
    /\ \A j \in Jobs : job[j] # "accepted"

(* No worker sleeps while a job waits that the awake workers do not cover: *)
(* a signal per accepted job is enough, none is lost                       *)
(* (sccp_threadpool.c:31-33, 117-120).                                     *)
NoSleeperWhileJobsWait ==
  Waiting # {} => Len(queue) <= Cardinality(Awake)

(* Every accepted job is run to its end, shutdown or not. *)
AcceptedJobsRun == \A j \in Jobs : job[j] = "accepted" ~> job[j] = "done"

(* A destroy that began returns: it never waits for itself, nor for a      *)
(* sleeper nobody wakes (sccp_threadpool.c:148-165).                       *)
DestroyReturns == phase = "joining" ~> phase \in {"freed", "joinfailed"}

(* Seen from its callers the pool is JobPool. *)
Promise == INSTANCE JobPool WITH
  state <- job,
  open <- ~shutting_down,
  gone <- phase = "freed"

(* The pool keeps what JobPool promises: every step of init, the workers,  *)
(* add_work, stop and destroy is a step of it or none                      *)
(* (sccp_threadpool.c:25-170).                                             *)
KeepsPromise == Promise!Spec

=============================================================================
