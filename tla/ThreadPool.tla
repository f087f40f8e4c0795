----------------------------- MODULE ThreadPool -----------------------------
(***************************************************************************)
(* The workers, the task queue and the public operations of                *)
(* yacul/concurrency/threadpool.{h,cc}; delayed tasks are left out here.   *)
(*                                                                         *)
(* One action is one critical section or one access to a shared atomic.    *)
(* Two mutexes matter beyond a critical section.  queue_mutex_ is held     *)
(* between the test of a wait predicate and the moment the thread is on    *)
(* the condition variable's list; notifiers do not take it.  threads_mutex_*)
(* is held by Shutdown while it joins.                                     *)
(*                                                                         *)
(* The queue is a set: the properties do not tell the FIFO queue from the  *)
(* priority queue.  queue_size changes with the queue under queue_mutex_   *)
(* and active_threads counts the workers inside a task, so both are read   *)
(* off the other variables.  Nothing ever fills the per-thread queues of   *)
(* work stealing: those branches are dead.  condition_ is only waited on   *)
(* with a 50 ms timeout, so its notifications decide nothing.              *)
(***************************************************************************)
EXTENDS Integers, FiniteSets

CONSTANTS Clients,         \* threads that call the public operations
          Tasks,           \* tasks, each submitted at most once
          MinThreads,      \* config_.min_threads
          MaxThreads,      \* config_.max_threads
          InitialThreads,  \* config_.initial_threads, clamped
          MaxQueueSize,    \* config_.max_queue_size, 0 for no limit
          ThreadBound,     \* bound on next_thread_id_
          IdleTimeout,     \* whether a worker is ever idle for that long
          PoolOps,             \* the operations clients call besides Submit
          NoTask             \* no task in hand, no operation

OpNames == {"WaitForTasks", "Pause", "Resume", "Shutdown", "ShutdownWait",
            "ShutdownNow", "Resize"}

Workers == 0..(ThreadBound - 1)

ASSUME ThreadPoolAssumption ==
  /\ IsFiniteSet(Clients) /\ Clients # {} /\ IsFiniteSet(Tasks)
  /\ MinThreads \in Nat /\ MaxThreads \in Nat \ {0}
  /\ InitialThreads \in MinThreads..MaxThreads
  /\ ThreadBound \in Nat /\ InitialThreads <= ThreadBound
  /\ MaxQueueSize \in Nat
  /\ IdleTimeout \in BOOLEAN
  /\ PoolOps \subseteq OpNames
  /\ NoTask \notin Tasks

VARIABLES queue,      \* tasks_ or priority_tasks_
          threads,    \* threads_: the thread objects not yet joined
          wpc,        \* where each worker is
          hand,       \* the task a worker has taken
          poolPaused,     \* paused_
          shutdown,   \* shutdown_
          clientAt,        \* where each client is
          op,         \* the operation it is in
          snap,       \* the thread count or the target size it read
          submitted,  \* tasks passed to EnqueueTask
          dropped,    \* tasks refused by a full queue or drained unrun
          done,       \* tasks whose body has run
          due         \* what was submitted when the client began to wait

queueVars == <<queue, submitted, dropped>>
workerVars == <<wpc, hand, done>>
flagVars == <<poolPaused, shutdown>>
clientVars == <<clientAt, op, snap, due>>
poolVars == <<queueVars, workerVars, threads, flagVars, clientVars>>

PoolInit ==
  /\ queue = {} /\ submitted = {} /\ dropped = {} /\ done = {}
  /\ threads = 0..(InitialThreads - 1)
  /\ wpc = [w \in Workers |-> IF w \in threads THEN "top" ELSE "none"]
  /\ hand = [w \in Workers |-> NoTask]
  /\ poolPaused = FALSE /\ shutdown = FALSE
  /\ clientAt = [c \in Clients |-> "idle"]
  /\ op = [c \in Clients |-> NoTask]
  /\ snap = [c \in Clients |-> 0]
  /\ due = [c \in Clients |-> {}]

\* stats_.active_threads, raised and lowered by the task's wrapper.
Active == Cardinality({w \in Workers : wpc[w] = "running"})

\* A thread that found its predicate false holds queue_mutex_ until it is on
\* the condition variable's list.
QueueMutexFree ==
  /\ \A w \in Workers : wpc[w] # "pausing"
  /\ \A c \in Clients : clientAt[c] # "blocking"

ThreadsMutexFree == \A c \in Clients : clientAt[c] # "joining"

WorkerAt(w, here, there) == wpc[w] = here /\ wpc' = [wpc EXCEPT ![w] = there]

\* A client goes on inside its call, or returns and its locals are gone.
ClientAt(c, here, there) ==
  /\ clientAt[c] = here
  /\ clientAt' = [clientAt EXCEPT ![c] = there]
  /\ UNCHANGED <<op, snap, due>>

Return(c, here) ==
  /\ clientAt[c] = here
  /\ clientAt' = [clientAt EXCEPT ![c] = "idle"]
  /\ op' = [op EXCEPT ![c] = NoTask]
  /\ snap' = [snap EXCEPT ![c] = 0]
  /\ due' = [due EXCEPT ![c] = {}]

-----------------------------------------------------------------------------
(* WorkerLoop. *)

\* The worker is not paused, or shutdown overrides the pause.
PassPause(w) ==
  /\ ~poolPaused \/ shutdown
  /\ WorkerAt(w, "top", "checked")
  /\ UNCHANGED <<queueVars, hand, done, threads, flagVars, clientVars>>

\* pause_condition_.wait: the predicate is false, before and after a wakeup.
EnterPause(w) ==
  /\ poolPaused /\ ~shutdown
  /\ QueueMutexFree
  /\ \/ WorkerAt(w, "top", "pausing")
     \/ WorkerAt(w, "woken", "pausing")
  /\ UNCHANGED <<queueVars, hand, done, threads, flagVars, clientVars>>

BlockOnPause(w) ==
  /\ WorkerAt(w, "pausing", "asleep")
  /\ UNCHANGED <<queueVars, hand, done, threads, flagVars, clientVars>>

LeavePause(w) ==
  /\ ~poolPaused \/ shutdown
  /\ QueueMutexFree
  /\ WorkerAt(w, "woken", "checked")
  /\ UNCHANGED <<queueVars, hand, done, threads, flagVars, clientVars>>

\* pause_condition_.notify_all()
NotifyPaused ==
  wpc' = [w \in Workers |-> IF wpc[w] = "asleep" THEN "woken" ELSE wpc[w]]

\* Mutant: the worker leaves with tasks still queued.
CheckShutdown_LeavesTasks(w) ==
  /\ \/ shutdown /\ WorkerAt(w, "checked", "exited")
     \/ ~shutdown /\ WorkerAt(w, "checked", "fetching")
  /\ UNCHANGED <<queueVars, hand, done, threads, flagVars, clientVars>>

\* The worker leaves when the pool is shut down and the queue is empty.
CheckShutdown(w) ==
  /\ \/ (shutdown /\ queue = {}) /\ WorkerAt(w, "checked", "exited")
     \/ ~(shutdown /\ queue = {}) /\ WorkerAt(w, "checked", "fetching")
  /\ UNCHANGED <<queueVars, hand, done, threads, flagVars, clientVars>>

\* Mutant: the task is copied and not popped.
DequeueTask_NoPop(w) ==
  /\ QueueMutexFree
  /\ \/ \E t \in queue : /\ WorkerAt(w, "fetching", "got")
                         /\ hand' = [hand EXCEPT ![w] = t]
                         /\ UNCHANGED queue
     \/ queue = {} /\ WorkerAt(w, "fetching", "no_task") /\ UNCHANGED <<queue, hand>>
  /\ UNCHANGED <<submitted, dropped, done, threads, flagVars, clientVars>>

\* DequeueTask under queue_mutex_; from here until the task starts nothing
\* counts it.
DequeueTask(w) ==
  /\ QueueMutexFree
  /\ \/ \E t \in queue : /\ WorkerAt(w, "fetching", "got")
                         /\ hand' = [hand EXCEPT ![w] = t]
                         /\ queue' = queue \ {t}
     \/ queue = {} /\ WorkerAt(w, "fetching", "no_task") /\ UNCHANGED <<queue, hand>>
  /\ UNCHANGED <<submitted, dropped, done, threads, flagVars, clientVars>>

\* The task's wrapper: active_threads is raised, then the body runs.
StartTask(w) ==
  /\ WorkerAt(w, "got", "running")
  /\ UNCHANGED <<queueVars, hand, done, threads, flagVars, clientVars>>

\* The body has run and active_threads is lowered; the packaged_task keeps
\* any exception.
FinishTask(w) ==
  /\ WorkerAt(w, "running", "finished")
  /\ done' = done \cup {hand[w]}
  /\ hand' = [hand EXCEPT ![w] = NoTask]
  /\ UNCHANGED <<queueVars, threads, flagVars, clientVars>>

\* finish_condition_.notify_all(), without queue_mutex_.
NotifyFinish(w) ==
  /\ WorkerAt(w, "finished", "top")
  /\ clientAt' = [c \in Clients |-> IF clientAt[c] = "waiting" THEN "checking" ELSE clientAt[c]]
  /\ UNCHANGED <<queueVars, hand, done, threads, flagVars, op, snap, due>>

\* The wait for work ends after 50 ms at the latest.
WaitForWork(w) ==
  /\ QueueMutexFree
  /\ \/ WorkerAt(w, "no_task", "top")
     \/ WorkerAt(w, "staying", "top")
  /\ UNCHANGED <<queueVars, hand, done, threads, flagVars, clientVars>>

\* The worker has been idle for longer than thread_idle_timeout.
IdleTooLong(w) ==
  /\ IdleTimeout
  /\ WorkerAt(w, "no_task", "retiring")
  /\ UNCHANGED <<queueVars, hand, done, threads, flagVars, clientVars>>

\* Under threads_mutex_: retire if there are more threads than min_threads.
\* The thread object stays in threads_.
Retire(w) ==
  /\ ThreadsMutexFree
  /\ \/ Cardinality(threads) > MinThreads /\ WorkerAt(w, "retiring", "exited")
     \/ Cardinality(threads) <= MinThreads /\ WorkerAt(w, "retiring", "staying")
  /\ UNCHANGED <<queueVars, hand, done, threads, flagVars, clientVars>>

\* The condition variable may wake a paused worker for no reason.
WakeWorker(w) ==
  /\ WorkerAt(w, "asleep", "woken")
  /\ UNCHANGED <<queueVars, hand, done, threads, flagVars, clientVars>>

WorkerStep(w) ==
  \/ PassPause(w)
  \/ EnterPause(w)
  \/ BlockOnPause(w)
  \/ LeavePause(w)
  \/ CheckShutdown(w)
  \/ DequeueTask(w)
  \/ StartTask(w)
  \/ FinishTask(w)
  \/ NotifyFinish(w)
  \/ WaitForWork(w)
  \/ Retire(w)

-----------------------------------------------------------------------------
(* The public operations. *)

\* Submit, SubmitWithPriority and SubmitBatch, task by task.  A full queue
\* drops the task; a call after shutdown aborts the process.
EnqueueTask(c, t) ==
  /\ ~shutdown
  /\ QueueMutexFree
  /\ t \notin submitted
  /\ submitted' = submitted \cup {t}
  /\ \/ /\ MaxQueueSize > 0 /\ Cardinality(queue) >= MaxQueueSize
        /\ Return(c, "idle")
        /\ dropped' = dropped \cup {t}
        /\ UNCHANGED queue
     \/ /\ ~(MaxQueueSize > 0 /\ Cardinality(queue) >= MaxQueueSize)
        /\ ClientAt(c, "idle", "expanding")
        /\ queue' = queue \cup {t}
        /\ UNCHANGED dropped
  /\ UNCHANGED <<workerVars, threads, flagVars>>

\* TryExpandPool reads the thread count ...
TryExpandPool(c) ==
  /\ ThreadsMutexFree
  /\ \/ Cardinality(threads) >= MaxThreads /\ Return(c, "expanding")
     \/ /\ Cardinality(threads) < MaxThreads
        /\ clientAt[c] = "expanding"
        /\ clientAt' = [clientAt EXCEPT ![c] = "counted"]
        /\ snap' = [snap EXCEPT ![c] = Cardinality(threads)]
        /\ UNCHANGED <<op, due>>
  /\ UNCHANGED <<queueVars, workerVars, threads, flagVars>>

\* ... then compares the queue and the active workers with it ...
CheckLoad(c) ==
  /\ \/ /\ Cardinality(queue) > 2 * snap[c] /\ Active >= snap[c]
        /\ ClientAt(c, "counted", "adding")
     \/ /\ ~(Cardinality(queue) > 2 * snap[c] /\ Active >= snap[c])
        /\ Return(c, "counted")
  /\ UNCHANGED <<queueVars, workerVars, threads, flagVars>>

\* ... and adds a thread, whatever others have added since.
AddWorkerThread(c) ==
  LET w == Cardinality({v \in Workers : wpc[v] # "none"})
  IN  /\ ThreadsMutexFree
      /\ w \in Workers
      /\ threads' = threads \cup {w}
      /\ wpc' = [wpc EXCEPT ![w] = "top"]
      /\ \/ Return(c, "adding")
         \/ ClientAt(c, "growing", "resizing")
      /\ UNCHANGED <<queueVars, hand, done, flagVars>>

\* Resize: the target is clamped; each turn of its loop reads the count again.
\* Asking for fewer threads changes nothing.
Resize(c, n) ==
  /\ n \in MinThreads..MaxThreads
  /\ clientAt[c] = "idle"
  /\ clientAt' = [clientAt EXCEPT ![c] = "resizing"]
  /\ snap' = [snap EXCEPT ![c] = n]
  /\ UNCHANGED <<queueVars, workerVars, threads, flagVars, op, due>>

\* Mutant: the loop makes one turn too many.
ResizeLoop_OneMore(c) ==
  /\ ThreadsMutexFree
  /\ \/ Cardinality(threads) <= snap[c] /\ ClientAt(c, "resizing", "growing")
     \/ Cardinality(threads) > snap[c] /\ Return(c, "resizing")
  /\ UNCHANGED <<queueVars, workerVars, threads, flagVars>>

ResizeLoop(c) ==
  /\ ThreadsMutexFree
  /\ \/ Cardinality(threads) < snap[c] /\ ClientAt(c, "resizing", "growing")
     \/ Cardinality(threads) >= snap[c] /\ Return(c, "resizing")
  /\ UNCHANGED <<queueVars, workerVars, threads, flagVars>>

PausePool(c) ==
  /\ ~poolPaused
  /\ poolPaused' = TRUE
  /\ Return(c, "idle")
  /\ UNCHANGED <<queueVars, workerVars, threads, shutdown>>

\* Resume clears the flag, then notifies; it does not take queue_mutex_.
ResumePool(c) ==
  /\ poolPaused
  /\ poolPaused' = FALSE
  /\ ClientAt(c, "idle", "resuming")
  /\ UNCHANGED <<queueVars, workerVars, threads, shutdown>>

NotifyResume(c) ==
  /\ Return(c, "resuming")
  /\ NotifyPaused
  /\ UNCHANGED <<queueVars, hand, done, threads, flagVars>>

\* WaitForTasks, called by itself or by Shutdown(true).
WaitForTasks(c, o) ==
  /\ clientAt[c] = "idle"
  /\ clientAt' = [clientAt EXCEPT ![c] = "checking"]
  /\ op' = [op EXCEPT ![c] = o]
  /\ due' = [due EXCEPT ![c] = submitted]
  /\ UNCHANGED <<queueVars, workerVars, threads, flagVars, snap>>

\* Mutant: the predicate looks at the queue only.
CheckFinished_QueueOnly(c) ==
  /\ QueueMutexFree
  /\ \/ /\ queue = {}
        /\ \/ op[c] = "WaitForTasks" /\ Return(c, "checking")
           \/ op[c] = "ShutdownWait" /\ ClientAt(c, "checking", "stopping")
     \/ /\ queue # {}
        /\ ClientAt(c, "checking", "blocking")
  /\ UNCHANGED <<queueVars, workerVars, threads, flagVars>>

\* The predicate of finish_condition_.wait: nothing queued, nobody active.
CheckFinished(c) ==
  /\ QueueMutexFree
  /\ \/ /\ queue = {} /\ Active = 0
        /\ \/ op[c] = "WaitForTasks" /\ Return(c, "checking")
           \/ op[c] = "ShutdownWait" /\ ClientAt(c, "checking", "stopping")
     \/ /\ ~(queue = {} /\ Active = 0)
        /\ ClientAt(c, "checking", "blocking")
  /\ UNCHANGED <<queueVars, workerVars, threads, flagVars>>

BlockOnFinish(c) ==
  /\ ClientAt(c, "blocking", "waiting")
  /\ UNCHANGED <<queueVars, workerVars, threads, flagVars>>

\* The condition variable may wake a waiting client for no reason.
WakeClient(c) ==
  /\ ClientAt(c, "waiting", "checking")
  /\ UNCHANGED <<queueVars, workerVars, threads, flagVars>>

\* Shutdown(false) and ShutdownNow.
Shutdown(c, o) ==
  /\ clientAt[c] = "idle"
  /\ clientAt' = [clientAt EXCEPT ![c] = "stopping"]
  /\ op' = [op EXCEPT ![c] = o]
  /\ UNCHANGED <<queueVars, workerVars, threads, flagVars, snap, due>>

\* The critical section that sets shutdown_; ShutdownNow drains the queue too.
SetShutdown(c) ==
  /\ QueueMutexFree
  /\ ClientAt(c, "stopping", "notifying")
  /\ shutdown' = TRUE
  /\ \/ /\ op[c] = "ShutdownNow"
        /\ dropped' = dropped \cup queue
        /\ queue' = {}
     \/ op[c] # "ShutdownNow" /\ UNCHANGED <<queue, dropped>>
  /\ UNCHANGED <<submitted, workerVars, threads, poolPaused>>

\* Mutant: paused workers are not notified.
NotifyShutdown_NotPaused(c) ==
  /\ ClientAt(c, "notifying", "locking")
  /\ UNCHANGED <<queueVars, workerVars, threads, flagVars>>

NotifyShutdown(c) ==
  /\ ClientAt(c, "notifying", "locking")
  /\ NotifyPaused
  /\ UNCHANGED <<queueVars, hand, done, threads, flagVars>>

\* threads_mutex_ is taken and kept while the workers are joined.
LockThreads(c) ==
  /\ ThreadsMutexFree
  /\ ClientAt(c, "locking", "joining")
  /\ UNCHANGED <<queueVars, workerVars, threads, flagVars>>

JoinThreads(c) ==
  /\ \A w \in threads : wpc[w] = "exited"
  /\ ClientAt(c, "joining", "stopped")
  /\ threads' = {}
  /\ UNCHANGED <<queueVars, workerVars, flagVars>>

\* The rest of an operation once it has begun.
ClientStep(c) ==
  \/ TryExpandPool(c)
  \/ CheckLoad(c)
  \/ AddWorkerThread(c)
  \/ ResizeLoop(c)
  \/ NotifyResume(c)
  \/ CheckFinished(c)
  \/ BlockOnFinish(c)
  \/ SetShutdown(c)
  \/ NotifyShutdown(c)
  \/ LockThreads(c)
  \/ JoinThreads(c)

Call(c) ==
  \/ \E t \in Tasks : EnqueueTask(c, t)
  \/ "WaitForTasks" \in PoolOps /\ WaitForTasks(c, "WaitForTasks")
  \/ "ShutdownWait" \in PoolOps /\ WaitForTasks(c, "ShutdownWait")
  \/ \E o \in PoolOps \cap {"Shutdown", "ShutdownNow"} : Shutdown(c, o)
  \/ "Pause" \in PoolOps /\ PausePool(c)
  \/ "Resume" \in PoolOps /\ ResumePool(c)
  \/ "Resize" \in PoolOps /\ \E n \in MinThreads..MaxThreads : Resize(c, n)

PoolNext ==
  \/ \E w \in Workers : WorkerStep(w) \/ IdleTooLong(w) \/ WakeWorker(w)
  \/ \E c \in Clients : ClientStep(c) \/ Call(c) \/ WakeClient(c)

PoolSpec == PoolInit /\ [][PoolNext]_poolVars

\* Every thread inside the pool's code runs on, gets a mutex that is free again
\* and again, and every task ends.  Nothing is assumed of when clients call, of
\* how long a worker stays idle or of spurious wakeups.
PoolFairSpec ==
  /\ PoolSpec
  /\ \A w \in Workers : SF_poolVars(WorkerStep(w))
  /\ \A c \in Clients : SF_poolVars(ClientStep(c))

-----------------------------------------------------------------------------
(* Properties. *)

WorkerPlaces == {"none", "top", "pausing", "asleep", "woken", "checked", "fetching",
                 "got", "running", "finished", "no_task", "retiring", "staying",
                 "exited"}

ClientPlaces == {"idle", "expanding", "counted", "adding", "resizing", "growing",
                 "resuming", "checking", "blocking", "waiting", "stopping",
                 "notifying", "locking", "joining", "stopped"}

\* The range of every variable.
PoolTypeOK ==
  /\ queue \subseteq Tasks /\ submitted \subseteq Tasks
  /\ dropped \subseteq Tasks /\ done \subseteq Tasks
  /\ threads \subseteq Workers
  /\ wpc \in [Workers -> WorkerPlaces]
  /\ hand \in [Workers -> Tasks \cup {NoTask}]
  /\ poolPaused \in BOOLEAN /\ shutdown \in BOOLEAN
  /\ clientAt \in [Clients -> ClientPlaces]
  /\ op \in [Clients -> OpNames \cup {NoTask}]
  /\ snap \in [Clients -> Nat]
  /\ due \in [Clients -> SUBSET Tasks]

InHand == {hand[w] : w \in {v \in Workers : hand[v] # NoTask}}

\* Every submitted task is in exactly one place: queued, in one worker's hands,
\* run, or dropped.  No interleaving of workers, submissions and shutdowns runs
\* a task twice or loses it.
TasksConserved ==
  /\ submitted = queue \cup InHand \cup done \cup dropped
  /\ queue \cap (InHand \cup done \cup dropped) = {}
  /\ done \cap (InHand \cup dropped) = {}
  /\ dropped \cap InHand = {}
  /\ \A v, w \in Workers : v # w /\ hand[v] # NoTask => hand[v] # hand[w]

\* A worker that still runs is a thread Shutdown will join: the pool's memory
\* outlives every worker, those added while another thread shuts down included.
LiveWorkersAreJoinable ==
  \A w \in Workers : wpc[w] \notin {"none", "exited"} => w \in threads

\* max_queue_size bounds the queue, however many clients submit at once.
QueueBounded == MaxQueueSize > 0 => Cardinality(queue) <= MaxQueueSize

\* In a pool of fixed size, a task that is queued when the pool is shut down is
\* still run, paused workers or not, unless ShutdownNow drops it.
QueuedTasksRun ==
  \A t \in Tasks : (t \in queue /\ shutdown) ~> t \in done \cup dropped

\* A shutdown that has begun returns.
ShutdownReturns ==
  \A c \in Clients : clientAt[c] = "stopping" ~> clientAt[c] = "stopped"

InWait(c) == clientAt[c] \in {"checking", "blocking", "waiting"}

\* threadpool.h:445 of WaitForTasks, "Block until all queued and in-flight
\* regular tasks complete", as far as the code keeps it: when the wait returns,
\* what was submitted before the call has run or was dropped, or a worker has
\* just dequeued it and not started it.
WaitLeavesOnlyUnstarted ==
  [][\A c \in Clients : InWait(c) /\ ~InWait(c)' =>
       due[c] \subseteq done \cup dropped \cup {hand[w] : w \in {v \in Workers : wpc[v] = "got"}}]_poolVars

\* threadpool.h:29, "Maximum worker threads (pool auto-expands up to this)", as
\* far as the code keeps it: the clients that expand the pool at once exceed the
\* maximum by less than their number.
ThreadsBounded == Cardinality(threads) < MaxThreads + Cardinality(Clients)

\* Both limits of the configuration, under racing submissions, expansions and
\* resizes (EnqueueTask, TryExpandPool, Resize).
LimitsHold == QueueBounded /\ ThreadsBounded
=============================================================================
