--------------------------- MODULE ThreadPoolProofs ---------------------------
(***************************************************************************)
(* The safety properties of ThreadPool and DelayScheduler for every number *)
(* of clients, tasks and threads.                                          *)
(*                                                                         *)
(* Two invariants are proved one after the other.  PoolInv says where each *)
(* task and each worker is: a worker has a task in its hand exactly while  *)
(* it is about to run it or runs it, and worker numbers are given out in   *)
(* order, so that AddWorkerThread never takes a number in use.  LimitsInv  *)
(* counts: a client that has decided to add a thread holds a place, and    *)
(* threads and places together keep to the bound.                          *)
(*                                                                         *)
(* The delayed and recurring tasks of DelayScheduler come last: DelayInv   *)
(* ties every run to an older recurring task.                              *)
(***************************************************************************)
EXTENDS ThreadPool, DelayScheduler, FiniteSetTheorems, TLAPS

Started == {w \in Workers : wpc[w] # "none"}

\* Worker numbers are given out from 0 up.
StartedInOrder == \A v, w \in Workers : w \in Started /\ v < w => v \in Started

\* A worker holds a task from DequeueTask until it has run.
HandsMatch == \A w \in Workers : hand[w] # NoTask <=> wpc[w] \in {"got", "running"}

\* What a client waits for had been submitted.
DueSubmitted == \A c \in Clients : due[c] \subseteq submitted

PoolInv ==
  /\ PoolTypeOK
  /\ StartedInOrder
  /\ HandsMatch
  /\ TasksConserved
  /\ LiveWorkersAreJoinable
  /\ DueSubmitted

-----------------------------------------------------------------------------
(* Lemmas. *)

LEMMA WorkersFinite == IsFiniteSet(Workers)
BY ThreadPoolAssumption, FS_Interval DEF Workers

\* The library's facts about subsets and one more element, with the types of
\* the cardinalities.
LEMMA SubsetSize ==
  ASSUME NEW T, IsFiniteSet(T), NEW S \in SUBSET T
  PROVE  /\ IsFiniteSet(S) /\ Cardinality(S) \in Nat /\ Cardinality(T) \in Nat
         /\ Cardinality(S) <= Cardinality(T)
BY FS_Subset, FS_CardinalityType

LEMMA OneMoreSize ==
  ASSUME NEW S, IsFiniteSet(S), NEW x
  PROVE  /\ Cardinality(S) \in Nat /\ Cardinality(S \cup {x}) \in Nat
         /\ Cardinality(S \cup {x}) <= Cardinality(S) + 1
<1>1. Cardinality(S) \in Nat
  BY FS_CardinalityType
<1>2. CASE x \in S
  <2>1. S \cup {x} = S
    BY <1>2
  <2> QED
    BY <1>1, <2>1
<1>3. CASE x \notin S
  BY <1>1, <1>3, FS_AddElement
<1> QED
  BY <1>2, <1>3

\* If numbers are given out in order, their count is the next one, and it is
\* free.
LEMMA NextIsFree ==
  ASSUME PoolTypeOK, StartedInOrder,
         Cardinality({v \in Workers : wpc[v] # "none"}) \in Workers
  PROVE  LET w == Cardinality({v \in Workers : wpc[v] # "none"})
         IN  wpc[w] = "none" /\ \A v \in Workers : v < w => v \in Started
<1> DEFINE k == Cardinality(Started)
<1>1. IsFiniteSet(Started) /\ Started \subseteq 0..(ThreadBound - 1)
  BY WorkersFinite, FS_Subset DEF Started, Workers
<1>2. k \in Workers /\ k \in Nat
  BY DEF Started, Workers
<1>3. ASSUME wpc[k] # "none" PROVE FALSE
  <2>1. 0..k \subseteq Started
    <3>1. k \in Started
      BY <1>2, <1>3 DEF Started
    <3>2. ASSUME NEW v \in 0..k PROVE v \in Started
      BY <1>2, <3>1, ThreadPoolAssumption DEF StartedInOrder, Workers
    <3> QED
      BY <3>2
  <2>2. Cardinality(0..k) = k + 1
    BY <1>2, FS_Interval
  <2>3. Cardinality(0..k) <= k
    BY <1>1, <2>1, FS_Subset
  <2> QED
    BY <1>2, <2>2, <2>3
<1>4. ASSUME NEW v \in Workers, v < k, v \notin Started PROVE FALSE
  <2>1. Started \subseteq 0..(v - 1)
    BY <1>1, <1>4 DEF StartedInOrder, Started, Workers
  <2>2. IsFiniteSet(0..(v - 1)) /\ Cardinality(0..(v - 1)) = v
    <3>1. v \in Nat
      BY ThreadPoolAssumption DEF Workers
    <3> QED
      BY <3>1, FS_Interval
  <2>3. k <= v
    BY <2>1, <2>2, FS_Subset
  <2> QED
    BY <1>2, <1>4, <2>3 DEF Workers
<1> QED
  BY <1>3, <1>4 DEF Started

\* A client that goes on, whatever becomes of its locals other than due.
LEMMA ClientMoves ==
  ASSUME PoolInv, NEW c \in Clients, NEW p \in ClientPlaces,
         clientAt' = [clientAt EXCEPT ![c] = p],
         op' \in [Clients -> OpNames \cup {NoTask}],
         snap' \in [Clients -> Nat],
         due' = due \/ due' = [due EXCEPT ![c] = {}],
         UNCHANGED <<queueVars, workerVars, threads>>,
         poolPaused' \in BOOLEAN, shutdown' \in BOOLEAN
  PROVE  PoolInv'
<1>1. PoolTypeOK'
  BY DEF PoolInv, PoolTypeOK, queueVars, workerVars
<1>2. DueSubmitted'
  BY DEF PoolInv, PoolTypeOK, DueSubmitted, queueVars
<1> QED
  BY <1>1, <1>2 DEF PoolInv, StartedInOrder, Started, HandsMatch, TasksConserved, InHand,
                    LiveWorkersAreJoinable, queueVars, workerVars

\* A worker that goes on between two places in which it holds no task, or
\* starts the one it holds.
LEMMA WorkerMoves ==
  ASSUME PoolInv, NEW w \in Workers, NEW p \in WorkerPlaces \ {"none"},
         wpc' = [wpc EXCEPT ![w] = p],
         wpc[w] \notin {"none", "exited"},
         p \in {"got", "running"} <=> wpc[w] \in {"got", "running"},
         UNCHANGED <<queueVars, hand, done, threads, flagVars, clientVars>>
  PROVE  PoolInv'
BY DEF PoolInv, PoolTypeOK, StartedInOrder, Started, HandsMatch, TasksConserved, InHand,
       LiveWorkersAreJoinable, DueSubmitted, queueVars, flagVars, clientVars, Workers

-----------------------------------------------------------------------------
(* Every step keeps PoolInv. *)

\* Worker steps.
LEMMA WorkerKeepsInv ==
  ASSUME PoolInv, NEW w \in Workers,
         WorkerStep(w) \/ IdleTooLong(w) \/ WakeWorker(w)
  PROVE  PoolInv'
<1>t. wpc \in [Workers -> WorkerPlaces]
  BY DEF PoolInv, PoolTypeOK
<1>1. CASE PassPause(w)
  BY <1>1, <1>t, WorkerMoves, "checked" \in WorkerPlaces DEF PassPause, WorkerAt, WorkerPlaces
<1>2. CASE EnterPause(w)
  BY <1>2, <1>t, WorkerMoves DEF EnterPause, WorkerAt, WorkerPlaces
<1>3. CASE BlockOnPause(w)
  BY <1>3, <1>t, WorkerMoves DEF BlockOnPause, WorkerAt, WorkerPlaces
<1>4. CASE LeavePause(w)
  BY <1>4, <1>t, WorkerMoves DEF LeavePause, WorkerAt, WorkerPlaces
<1>5. CASE CheckShutdown(w)
  BY <1>5, <1>t, WorkerMoves DEF CheckShutdown, WorkerAt, WorkerPlaces
<1>6. CASE DequeueTask(w)
  <2>1. CASE queue = {}
    BY <1>6, <2>1, <1>t, WorkerMoves DEF DequeueTask, WorkerAt, WorkerPlaces, queueVars
  <2>2. ASSUME NEW t \in queue, WorkerAt(w, "fetching", "got"),
               hand' = [hand EXCEPT ![w] = t], queue' = queue \ {t}
        PROVE  PoolInv'
    <3>1. InHand' = InHand \cup {t}
        BY <2>2, ThreadPoolAssumption
      DEF WorkerAt, PoolInv, PoolTypeOK, HandsMatch, InHand
    <3> QED
      BY <1>6, <2>2, <3>1, ThreadPoolAssumption
      DEF DequeueTask, WorkerAt, PoolInv, PoolTypeOK, StartedInOrder, Started, HandsMatch,
          TasksConserved, InHand, LiveWorkersAreJoinable, DueSubmitted, WorkerPlaces,
          flagVars, clientVars
  <2> QED
    BY <1>6, <2>1, <2>2 DEF DequeueTask
<1>7. CASE StartTask(w)
  BY <1>7, <1>t, WorkerMoves DEF StartTask, WorkerAt, WorkerPlaces
<1>8. CASE FinishTask(w)
  <2>1. hand[w] \in Tasks /\ InHand' = InHand \ {hand[w]}
    BY <1>8 DEF FinishTask, WorkerAt, PoolInv, PoolTypeOK, HandsMatch, InHand, TasksConserved
  <2> QED
    BY <1>8, <2>1, ThreadPoolAssumption
    DEF FinishTask, WorkerAt, PoolInv, PoolTypeOK, StartedInOrder, Started, HandsMatch,
        TasksConserved, InHand, LiveWorkersAreJoinable, DueSubmitted, WorkerPlaces,
        queueVars, flagVars, clientVars
<1>9. CASE NotifyFinish(w)
  BY <1>9 DEF NotifyFinish, WorkerAt, PoolInv, PoolTypeOK, StartedInOrder, Started,
       HandsMatch, TasksConserved, InHand, LiveWorkersAreJoinable, DueSubmitted,
       WorkerPlaces, ClientPlaces, queueVars, flagVars, Workers
<1>10. CASE WaitForWork(w)
  BY <1>10, <1>t, WorkerMoves DEF WaitForWork, WorkerAt, WorkerPlaces
<1>11. CASE Retire(w)
  BY <1>11, <1>t, WorkerMoves DEF Retire, WorkerAt, WorkerPlaces
<1>12. CASE IdleTooLong(w)
  BY <1>12, <1>t, WorkerMoves DEF IdleTooLong, WorkerAt, WorkerPlaces
<1>13. CASE WakeWorker(w)
  BY <1>13, <1>t, WorkerMoves DEF WakeWorker, WorkerAt, WorkerPlaces
<1> QED
  BY <1>1, <1>2, <1>3, <1>4, <1>5, <1>6, <1>7, <1>8, <1>9, <1>10, <1>11, <1>12, <1>13
  DEF WorkerStep

\* NotifyPaused only moves workers that sleep, which hold no task.
LEMMA NotifyKeepsInv ==
  ASSUME PoolInv, NEW c \in Clients, NotifyResume(c) \/ NotifyShutdown(c)
  PROVE  PoolInv'
<1> USE DEF NotifyPaused, Return, ClientAt, queueVars, flagVars
<1>1. PoolTypeOK'
  BY DEF NotifyResume, NotifyShutdown, PoolInv, PoolTypeOK, WorkerPlaces, ClientPlaces
<1>2. \A w \in Workers : /\ wpc'[w] = "none" <=> wpc[w] = "none"
                         /\ wpc'[w] = "exited" <=> wpc[w] = "exited"
                         /\ wpc'[w] \in {"got", "running"} <=> wpc[w] \in {"got", "running"}
  BY DEF NotifyResume, NotifyShutdown
<1>3. UNCHANGED <<queue, submitted, dropped, hand, done, threads>>
  BY DEF NotifyResume, NotifyShutdown
<1>4. DueSubmitted'
  BY DEF NotifyResume, NotifyShutdown, PoolInv, PoolTypeOK, DueSubmitted
<1> QED
  BY <1>1, <1>2, <1>3, <1>4
  DEF PoolInv, StartedInOrder, Started, HandsMatch, TasksConserved, InHand,
      LiveWorkersAreJoinable

\* The new worker's number was free: no worker and no task is overwritten.
LEMMA AddKeepsInv ==
  ASSUME PoolInv, NEW c \in Clients, AddWorkerThread(c)
  PROVE  PoolInv'
<1> DEFINE w == Cardinality({v \in Workers : wpc[v] # "none"})
<1>1. w \in Workers /\ wpc[w] = "none" /\ \A v \in Workers : v < w => v \in Started
  BY NextIsFree DEF AddWorkerThread, PoolInv
<1>2. threads' = threads \cup {w} /\ wpc' = [wpc EXCEPT ![w] = "top"]
  BY DEF AddWorkerThread
<1> HIDE DEF w
<1>3. UNCHANGED <<queue, submitted, dropped, hand, done>>
  BY DEF AddWorkerThread, queueVars
<1>4. PoolTypeOK'
  BY <1>1, <1>2 DEF AddWorkerThread, Return, ClientAt, PoolInv, PoolTypeOK, WorkerPlaces,
                    ClientPlaces, queueVars, flagVars
<1>5. StartedInOrder'
  BY <1>1, <1>2, ThreadPoolAssumption
  DEF PoolInv, PoolTypeOK, StartedInOrder, Started, Workers
<1>6. HandsMatch' /\ LiveWorkersAreJoinable'
  BY <1>1, <1>2, <1>3 DEF PoolInv, PoolTypeOK, HandsMatch, LiveWorkersAreJoinable
<1>7. DueSubmitted'
  BY <1>3 DEF AddWorkerThread, Return, ClientAt, PoolInv, PoolTypeOK, DueSubmitted
<1> QED
  BY <1>3, <1>4, <1>5, <1>6, <1>7 DEF PoolInv, TasksConserved, InHand

\* Steps of an operation that has begun.
LEMMA ClientKeepsInv ==
  ASSUME PoolInv, NEW c \in Clients, ClientStep(c) \/ WakeClient(c)
  PROVE  PoolInv'
<1> USE DEF Return, ClientAt, ClientPlaces
<1>t. /\ clientAt \in [Clients -> ClientPlaces] /\ op \in [Clients -> OpNames \cup {NoTask}]
      /\ snap \in [Clients -> Nat] /\ poolPaused \in BOOLEAN /\ shutdown \in BOOLEAN
      /\ Cardinality(threads) \in Nat
  BY WorkersFinite, FS_Subset, FS_CardinalityType DEF PoolInv, PoolTypeOK
<1>1. CASE TryExpandPool(c)
  BY <1>1, <1>t, ClientMoves DEF TryExpandPool, flagVars
<1>2. CASE CheckLoad(c)
  BY <1>2, <1>t, ClientMoves DEF CheckLoad, flagVars
<1>3. CASE AddWorkerThread(c)
  BY <1>3, AddKeepsInv
<1>4. CASE ResizeLoop(c)
  BY <1>4, <1>t, ClientMoves DEF ResizeLoop, flagVars
<1>5. CASE NotifyResume(c) \/ NotifyShutdown(c)
  BY <1>5, NotifyKeepsInv
<1>6. CASE CheckFinished(c)
  BY <1>6, <1>t, ClientMoves DEF CheckFinished, flagVars
<1>7. CASE BlockOnFinish(c)
  BY <1>7, <1>t, ClientMoves DEF BlockOnFinish, flagVars
<1>8. CASE SetShutdown(c)
  BY <1>8, <1>t DEF SetShutdown, PoolInv, PoolTypeOK, StartedInOrder, Started, HandsMatch,
     TasksConserved, InHand, LiveWorkersAreJoinable, DueSubmitted, workerVars
<1>9. CASE LockThreads(c)
  BY <1>9, <1>t, ClientMoves DEF LockThreads, flagVars
<1>10. CASE JoinThreads(c)
  BY <1>10, <1>t DEF JoinThreads, PoolInv, PoolTypeOK, StartedInOrder, Started, HandsMatch,
     TasksConserved, InHand, LiveWorkersAreJoinable, DueSubmitted, queueVars, workerVars,
     flagVars
<1>11. CASE WakeClient(c)
  BY <1>11, <1>t, ClientMoves DEF WakeClient, flagVars
<1> QED
  BY <1>1, <1>2, <1>3, <1>4, <1>5, <1>6, <1>7, <1>8, <1>9, <1>10, <1>11 DEF ClientStep

\* Calls.
LEMMA CallKeepsInv ==
  ASSUME PoolInv, NEW c \in Clients, Call(c)
  PROVE  PoolInv'
<1> USE DEF Return, ClientAt, ClientPlaces
<1>t. /\ clientAt \in [Clients -> ClientPlaces] /\ op \in [Clients -> OpNames \cup {NoTask}]
      /\ snap \in [Clients -> Nat] /\ poolPaused \in BOOLEAN /\ shutdown \in BOOLEAN
  BY DEF PoolInv, PoolTypeOK
<1>1. ASSUME NEW t \in Tasks, EnqueueTask(c, t) PROVE PoolInv'
  <2>1. PoolTypeOK'
    BY <1>1, <1>t DEF EnqueueTask, PoolInv, PoolTypeOK, workerVars, flagVars
  <2>2. DueSubmitted'
    BY <1>1, <1>t DEF EnqueueTask, PoolInv, PoolTypeOK, DueSubmitted
  <2>3. TasksConserved'
    BY <1>1 DEF EnqueueTask, PoolInv, PoolTypeOK, TasksConserved, InHand, workerVars
  <2> QED
    BY <1>1, <2>1, <2>2, <2>3 DEF EnqueueTask, PoolInv, StartedInOrder, Started, HandsMatch,
       LiveWorkersAreJoinable, workerVars
<1>2. ASSUME NEW o \in OpNames, WaitForTasks(c, o) PROVE PoolInv'
  BY <1>2, <1>t DEF WaitForTasks, PoolInv, PoolTypeOK, StartedInOrder, Started, HandsMatch,
     TasksConserved, InHand, LiveWorkersAreJoinable, DueSubmitted, queueVars, workerVars,
     flagVars
<1>3. ASSUME NEW o \in OpNames, Shutdown(c, o) PROVE PoolInv'
  BY <1>3, <1>t, ClientMoves DEF Shutdown, flagVars
<1>4. CASE PausePool(c)
  BY <1>4, <1>t, ClientMoves DEF PausePool
<1>5. CASE ResumePool(c)
  BY <1>5, <1>t, ClientMoves DEF ResumePool
<1>6. ASSUME NEW n \in MinThreads..MaxThreads, Resize(c, n) PROVE PoolInv'
  <2>1. n \in Nat
    BY ThreadPoolAssumption
  <2> QED
    BY <1>6, <1>t, <2>1, ClientMoves DEF Resize, flagVars
<1> QED
  BY <1>1, <1>2, <1>3, <1>4, <1>5, <1>6 DEF Call, OpNames

\* What holds of every pool: where tasks and workers are.
THEOREM ThreadPoolInvariant == PoolSpec => []PoolInv
<1>1. ASSUME PoolInit PROVE PoolInv
  <2>1. threads \subseteq Workers
    BY <1>1, ThreadPoolAssumption DEF PoolInit, Workers
  <2>2. PoolTypeOK
    BY <1>1, <2>1 DEF PoolInit, PoolTypeOK, WorkerPlaces, ClientPlaces
  <2>3. StartedInOrder
    BY <1>1, ThreadPoolAssumption DEF PoolInit, StartedInOrder, Started, Workers
  <2>4. HandsMatch /\ LiveWorkersAreJoinable /\ DueSubmitted
    BY <1>1 DEF PoolInit, HandsMatch, LiveWorkersAreJoinable, DueSubmitted
  <2>5. TasksConserved
    BY <1>1 DEF PoolInit, TasksConserved, InHand
  <2> QED
    BY <2>2, <2>3, <2>4, <2>5 DEF PoolInv
<1>2. PoolInv /\ [PoolNext]_poolVars => PoolInv'
  <2>1. ASSUME PoolInv, UNCHANGED poolVars PROVE PoolInv'
    BY <2>1 DEF PoolInv, PoolTypeOK, StartedInOrder, Started, HandsMatch, TasksConserved,
       InHand, LiveWorkersAreJoinable, DueSubmitted, poolVars, queueVars, workerVars,
       flagVars, clientVars
  <2> QED
    BY <2>1, WorkerKeepsInv, ClientKeepsInv, CallKeepsInv DEF PoolNext
<1> QED
  BY <1>1, <1>2, PTL DEF PoolSpec

\* No task is lost, doubled or run twice, whatever interleaves.
THEOREM TasksAreConserved == PoolSpec => []TasksConserved
BY ThreadPoolInvariant, PTL DEF PoolInv

\* Shutdown joins every worker that still runs.
THEOREM LiveWorkersJoinable == PoolSpec => []LiveWorkersAreJoinable
BY ThreadPoolInvariant, PTL DEF PoolInv

-----------------------------------------------------------------------------
(* What a wait leaves. *)

\* When WaitForTasks returns, or Shutdown(true) goes on, what was submitted
\* before has run, was dropped, or is in the hand of a worker that has not
\* begun it: the predicate counts neither the queue's last task nor the hand.
THEOREM WaitIsAlmostComplete == PoolSpec => WaitLeavesOnlyUnstarted
<1> DEFINE Held == {hand[w] : w \in {v \in Workers : wpc[v] = "got"}}
           Leaves(c) == InWait(c) /\ ~InWait(c)' => due[c] \subseteq done \cup dropped \cup Held
<1>1. ASSUME PoolInv, PoolNext, NEW c \in Clients, InWait(c), ~InWait(c)'
      PROVE  due[c] \subseteq done \cup dropped \cup Held
  <2>t. clientAt \in [Clients -> ClientPlaces]
    BY <1>1 DEF PoolInv, PoolTypeOK
  <2>1. ASSUME NEW w \in Workers, WorkerStep(w) \/ IdleTooLong(w) \/ WakeWorker(w)
        PROVE  FALSE
    BY <1>1, <2>1, <2>t
    DEF InWait, WorkerStep, IdleTooLong, WakeWorker, PassPause, EnterPause, BlockOnPause,
        LeavePause, CheckShutdown, DequeueTask, StartTask, FinishTask, NotifyFinish,
        WaitForWork, Retire, clientVars
  <2>2. CheckFinished(c) /\ queue = {} /\ Active = 0
    <3>1. PICK d \in Clients : ClientStep(d) \/ Call(d) \/ WakeClient(d)
      BY <1>1, <2>1 DEF PoolNext
    <3>2. d = c
      BY <1>1, <2>t, <3>1
      DEF InWait, ClientStep, Call, WakeClient, TryExpandPool, CheckLoad, AddWorkerThread,
          ResizeLoop, NotifyResume, CheckFinished, BlockOnFinish, SetShutdown,
          NotifyShutdown, LockThreads, JoinThreads, EnqueueTask, WaitForTasks, Shutdown,
          PausePool, ResumePool, Resize, ClientAt, Return
    <3>3. ~Call(c)
      BY <1>1 DEF InWait, Call, EnqueueTask, WaitForTasks, Shutdown, PausePool, ResumePool,
         Resize, ClientAt, Return
    <3> QED
      BY <1>1, <2>t, <3>1, <3>2, <3>3
      DEF InWait, ClientStep, WakeClient, TryExpandPool, CheckLoad, AddWorkerThread,
          ResizeLoop, NotifyResume, CheckFinished, BlockOnFinish, SetShutdown,
          NotifyShutdown, LockThreads, JoinThreads, ClientAt, Return
  <2>3. \A w \in Workers : wpc[w] # "running"
    <3>1. IsFiniteSet({w \in Workers : wpc[w] = "running"})
      BY WorkersFinite, FS_Subset
    <3> QED
      BY <2>2, <3>1, FS_EmptySet DEF Active
  <2>4. InHand \subseteq Held
    BY <1>1, <2>3 DEF InHand, PoolInv, HandsMatch
  <2> QED
    BY <1>1, <2>2, <2>4 DEF PoolInv, DueSubmitted, TasksConserved
<1>2. ASSUME PoolInv, [PoolNext]_poolVars
      PROVE  [\A c \in Clients : Leaves(c)]_poolVars
  BY <1>1, <1>2
<1> QED
  BY <1>2, ThreadPoolInvariant, PTL DEF PoolSpec, WaitLeavesOnlyUnstarted

-----------------------------------------------------------------------------
(* The limits. *)

\* The clients that have decided to add a thread.
Adders == {c \in Clients : clientAt[c] \in {"counted", "adding", "growing"}}

LimitsInv ==
  /\ QueueBounded
  /\ \A c \in Clients : snap[c] <= MaxThreads
  /\ Cardinality(threads) + Cardinality(Adders) < MaxThreads + Cardinality(Clients)

LEMMA CountsAreNumbers ==
  ASSUME PoolTypeOK
  PROVE  /\ IsFiniteSet(queue) /\ IsFiniteSet(threads) /\ IsFiniteSet(Adders)
         /\ Cardinality(queue) \in Nat /\ Cardinality(threads) \in Nat
         /\ Cardinality(Adders) \in Nat /\ Cardinality(Clients) \in Nat \ {0}
         /\ Cardinality(Adders) <= Cardinality(Clients)
         /\ MaxThreads \in Nat
BY ThreadPoolAssumption, WorkersFinite, FS_Subset, FS_CardinalityType, FS_EmptySet
DEF PoolTypeOK, Adders

\* The test of EnqueueTask and its insertion are one critical section.
LEMMA QueueStaysBounded ==
  ASSUME PoolInv, QueueBounded, PoolNext
  PROVE  QueueBounded'
<1>f. IsFiniteSet(queue) /\ Cardinality(queue) \in Nat /\ MaxQueueSize \in Nat
  BY CountsAreNumbers, ThreadPoolAssumption DEF PoolInv
<1>1. ASSUME queue' \subseteq queue PROVE QueueBounded'
  BY <1>f, <1>1, SubsetSize DEF QueueBounded
<1>2. ASSUME NEW w \in Workers, WorkerStep(w) \/ IdleTooLong(w) \/ WakeWorker(w)
      PROVE  queue' \subseteq queue
  BY <1>2 DEF WorkerStep, IdleTooLong, WakeWorker, PassPause, EnterPause, BlockOnPause,
     LeavePause, CheckShutdown, DequeueTask, StartTask, FinishTask, NotifyFinish,
     WaitForWork, Retire, queueVars
<1>3. ASSUME NEW c \in Clients, ClientStep(c) \/ WakeClient(c) PROVE queue' \subseteq queue
  BY <1>3 DEF ClientStep, WakeClient, TryExpandPool, CheckLoad, AddWorkerThread,
     ResizeLoop, NotifyResume, CheckFinished, BlockOnFinish, SetShutdown,
     NotifyShutdown, LockThreads, JoinThreads, queueVars
<1>4. ASSUME NEW c \in Clients, NEW t \in Tasks, EnqueueTask(c, t) PROVE QueueBounded'
  <2>1. CASE queue' = queue
    BY <2>1, <1>1
  <2>2. CASE /\ ~(MaxQueueSize > 0 /\ Cardinality(queue) >= MaxQueueSize)
             /\ queue' = queue \cup {t}
    <3>1. Cardinality(queue') \in Nat /\ Cardinality(queue') <= Cardinality(queue) + 1
      BY <1>f, <2>2, OneMoreSize
    <3> QED
      BY <1>f, <2>2, <3>1 DEF QueueBounded
  <2> QED
    BY <1>4, <2>1, <2>2 DEF EnqueueTask
<1>5. ASSUME NEW c \in Clients, Call(c), ~\E t \in Tasks : EnqueueTask(c, t)
      PROVE  queue' \subseteq queue
  BY <1>5 DEF Call, WaitForTasks, Shutdown, PausePool, ResumePool, Resize, queueVars
<1> QED
  BY <1>1, <1>2, <1>3, <1>4, <1>5 DEF PoolNext

\* A place is taken only while there is room in threads_, and no more places
\* are taken than there are clients.
LEMMA RoomStays ==
  ASSUME PoolInv, LimitsInv, PoolNext
  PROVE  Cardinality(threads)' + Cardinality(Adders)' < MaxThreads + Cardinality(Clients)
<1>f. PoolTypeOK /\ PoolTypeOK'
  BY WorkerKeepsInv, ClientKeepsInv, CallKeepsInv DEF PoolNext, PoolInv
<1>n. /\ IsFiniteSet(threads) /\ IsFiniteSet(Adders)
      /\ Cardinality(threads) \in Nat /\ Cardinality(Adders) \in Nat
      /\ Cardinality(Clients) \in Nat \ {0}
      /\ Cardinality(Adders)' \in Nat /\ Cardinality(Adders)' <= Cardinality(Clients)
      /\ MaxThreads \in Nat
  <2>1. Adders' \subseteq Clients
    BY DEF Adders
  <2>2. Cardinality(Adders') \in Nat /\ Cardinality(Adders') <= Cardinality(Clients)
    BY <2>1, SubsetSize, ThreadPoolAssumption
  <2> QED
    BY <1>f, <2>2, CountsAreNumbers
<1>1. ASSUME threads' = threads, Adders' \subseteq Adders
      PROVE  Cardinality(threads)' + Cardinality(Adders)' < MaxThreads + Cardinality(Clients)
  <2>1. Cardinality(Adders') <= Cardinality(Adders)
    BY <1>n, <1>1, FS_Subset
  <2> QED
    BY <1>n, <1>1, <2>1 DEF LimitsInv
<1>2. ASSUME NEW w \in Workers, WorkerStep(w) \/ IdleTooLong(w) \/ WakeWorker(w)
      PROVE  threads' = threads /\ Adders' \subseteq Adders
  BY <1>2, <1>f DEF WorkerStep, IdleTooLong, WakeWorker, PassPause, EnterPause,
     BlockOnPause, LeavePause, CheckShutdown, DequeueTask, StartTask, FinishTask,
     NotifyFinish, WaitForWork, Retire, clientVars, Adders
<1>3. ASSUME NEW c \in Clients, Call(c) PROVE threads' = threads /\ Adders' \subseteq Adders
  BY <1>3, <1>f DEF Call, EnqueueTask, WaitForTasks, Shutdown, PausePool, ResumePool, Resize,
     Adders, ClientAt, Return, PoolTypeOK
<1>4. ASSUME NEW c \in Clients, TryExpandPool(c) \/ ResizeLoop(c)
      PROVE  Cardinality(threads)' + Cardinality(Adders)' < MaxThreads + Cardinality(Clients)
  <2>1. CASE Cardinality(threads) < MaxThreads /\ threads' = threads
    BY <1>n, <2>1
  <2>2. CASE threads' = threads /\ Adders' \subseteq Adders
    BY <1>1, <2>2
  <2>3. snap[c] \in Nat /\ snap[c] <= MaxThreads
    BY <1>f DEF LimitsInv, PoolTypeOK
  <2> QED
    BY <1>4, <1>f, <1>n, <2>1, <2>2, <2>3
    DEF TryExpandPool, ResizeLoop, ClientAt, Return, Adders, PoolTypeOK
<1>5. ASSUME NEW c \in Clients, AddWorkerThread(c)
      PROVE  Cardinality(threads)' + Cardinality(Adders)' < MaxThreads + Cardinality(Clients)
  <2>1. PICK w \in Workers : threads' = threads \cup {w}
    BY <1>5 DEF AddWorkerThread
  <2>2. Cardinality(threads') <= Cardinality(threads) + 1
    BY <1>n, <2>1, OneMoreSize
  <2>3. c \in Adders /\ Adders' = Adders \ {c}
    BY <1>5, <1>f DEF AddWorkerThread, ClientAt, Return, Adders, PoolTypeOK
  <2>4. Cardinality(Adders') = Cardinality(Adders) - 1
    BY <1>n, <2>3, FS_RemoveElement
  <2>5. Cardinality(threads') \in Nat
    BY <1>f, WorkersFinite, SubsetSize DEF PoolTypeOK
  <2> QED
    BY <1>n, <2>2, <2>4, <2>5 DEF LimitsInv
<1>6. ASSUME NEW c \in Clients, JoinThreads(c)
      PROVE  Cardinality(threads)' + Cardinality(Adders)' < MaxThreads + Cardinality(Clients)
  <2>1. threads' = {} /\ Adders' = Adders
    BY <1>6, <1>f DEF JoinThreads, ClientAt, Adders, PoolTypeOK
  <2>2. Cardinality(threads') = 0
    BY <2>1, FS_EmptySet
  <2> QED
    BY <1>n, <2>1, <2>2 DEF LimitsInv
<1>7. ASSUME NEW c \in Clients, ClientStep(c) \/ WakeClient(c),
             ~TryExpandPool(c), ~ResizeLoop(c), ~AddWorkerThread(c), ~JoinThreads(c)
      PROVE  threads' = threads /\ Adders' \subseteq Adders
  BY <1>7, <1>f DEF ClientStep, WakeClient, CheckLoad, NotifyResume, CheckFinished,
     BlockOnFinish, SetShutdown, NotifyShutdown, LockThreads, Adders, ClientAt, Return,
     PoolTypeOK
<1> QED
  BY <1>1, <1>2, <1>3, <1>4, <1>5, <1>6, <1>7 DEF PoolNext

\* What a client has read never exceeds the maximum.
LEMMA SnapStays ==
  ASSUME PoolInv, LimitsInv, PoolNext, NEW d \in Clients
  PROVE  snap'[d] <= MaxThreads
<1>1. /\ snap \in [Clients -> Nat] /\ snap[d] <= MaxThreads
      /\ Cardinality(threads) \in Nat /\ MaxThreads \in Nat
  BY CountsAreNumbers DEF PoolInv, PoolTypeOK, LimitsInv
<1>2. ASSUME NEW w \in Workers, WorkerStep(w) \/ IdleTooLong(w) \/ WakeWorker(w)
      PROVE  snap' = snap
  BY <1>2 DEF WorkerStep, IdleTooLong, WakeWorker, PassPause, EnterPause, BlockOnPause,
     LeavePause, CheckShutdown, DequeueTask, StartTask, FinishTask, NotifyFinish,
     WaitForWork, Retire, clientVars
<1>3. ASSUME NEW c \in Clients, ClientStep(c) \/ WakeClient(c)
      PROVE  \/ snap' = snap
             \/ \E n \in 0..MaxThreads : snap' = [snap EXCEPT ![c] = n]
  BY <1>1, <1>3 DEF ClientStep, WakeClient, TryExpandPool, CheckLoad, AddWorkerThread,
     ResizeLoop, NotifyResume, CheckFinished, BlockOnFinish, SetShutdown, NotifyShutdown,
     LockThreads, JoinThreads, ClientAt, Return
<1>4. ASSUME NEW c \in Clients, Call(c)
      PROVE  \/ snap' = snap
             \/ \E n \in 0..MaxThreads : snap' = [snap EXCEPT ![c] = n]
  <2>1. MinThreads..MaxThreads \subseteq 0..MaxThreads
    BY ThreadPoolAssumption
  <2> QED
    BY <1>1, <1>4, <2>1 DEF Call, EnqueueTask, WaitForTasks, Shutdown, PausePool, ResumePool,
       Resize, ClientAt, Return
<1> QED
  BY <1>1, <1>2, <1>3, <1>4 DEF PoolNext

\* The queue never exceeds its limit, nor the pool its maximum by as much as
\* the number of clients.
THEOREM LimitsAreKept == PoolSpec => []LimitsHold
<1>1. ASSUME PoolInit PROVE LimitsInv
  <2>1. Cardinality(threads) = InitialThreads
    BY <1>1, ThreadPoolAssumption, FS_Interval DEF PoolInit
  <2>2. Adders = {} /\ Cardinality(Adders) = 0
    BY <1>1, FS_EmptySet DEF PoolInit, Adders
  <2>3. Cardinality(Clients) \in Nat \ {0}
    BY ThreadPoolAssumption, FS_CardinalityType, FS_EmptySet
  <2>4. QueueBounded
    BY <1>1, FS_EmptySet, ThreadPoolAssumption DEF PoolInit, QueueBounded
  <2> QED
    BY <1>1, <2>1, <2>2, <2>3, <2>4, ThreadPoolAssumption DEF PoolInit, LimitsInv
<1>2. ASSUME PoolInv, LimitsInv, [PoolNext]_poolVars PROVE LimitsInv'
  <2>1. CASE PoolNext
    BY <1>2, <2>1, QueueStaysBounded, RoomStays, SnapStays DEF LimitsInv
  <2>2. CASE UNCHANGED poolVars
    BY <1>2, <2>2 DEF LimitsInv, QueueBounded, Adders, poolVars, queueVars, clientVars
  <2> QED
    BY <1>2, <2>1, <2>2
<1>3. PoolTypeOK /\ LimitsInv => LimitsHold
  BY CountsAreNumbers DEF LimitsInv, LimitsHold, ThreadsBounded
<1> QED
  BY <1>1, <1>2, <1>3, ThreadPoolInvariant, PTL DEF PoolSpec, PoolInv

-----------------------------------------------------------------------------
(* Delayed and recurring tasks. *)

Final == {"done", "cancelled", "dropped"}

Places == {"unused", "recurring", "delayed", "ready", "queued", "taken",
           "checked", "cleared", "running", "again", "done", "cancelled", "dropped"}

\* Ids are given out in order, and a run belongs to a recurring task with an
\* older id: no run can be given to a task that is submitted later.
RunsBelong ==
  /\ nextId \in Nat \ {0}
  /\ st \in [Ids -> Places] /\ rec \in [Ids -> Nat]
  /\ \A i \in Ids : i >= nextId <=> st[i] = "unused"
  /\ \A i \in Ids : i >= nextId => rec[i] = 0
  /\ \A i \in Ids : rec[i] # 0 => rec[i] < i /\ st[rec[i]] = "recurring"

\* The runs past the last test of a token that is set are those it spared
\* when it was set, and there is at most one.
SparedRight ==
  /\ flag \subseteq Ids /\ spared \in [Ids -> SUBSET Ids]
  /\ \A k \in flag : \A i \in Ids : PastItsChecks(i, k) => i \in spared[k]
  /\ \A k \in Ids : \A i, j \in spared[k] : i = j

DelayInv == RunsBelong /\ RunsDoNotOverlap /\ SparedRight

LEMMA DelayStep ==
  ASSUME DelayInv, DelayNext
  PROVE  RunsBelong' /\ RunsDoNotOverlap'
<1> USE DelaySchedulerAssumption DEF Ids
<1>i. RunsBelong /\ RunsDoNotOverlap
  BY DEF DelayInv
\* Steps that move tasks forward without giving one out.
<1>s. ASSUME UNCHANGED <<nextId, rec>>, st' \in [Ids -> Places],
             \A i \in Ids : st'[i] = st[i] \/ (st[i] \notin Final \cup {"unused", "recurring"}
                                               /\ st'[i] # "unused")
      PROVE  RunsBelong' /\ RunsDoNotOverlap'
  <2>1. RunsBelong'
    <3>1. \A i \in Ids : rec[i] # 0 => rec[i] \in Ids
      BY <1>i DEF RunsBelong
    <3> QED
      BY <1>s, <1>i, <3>1 DEF RunsBelong
  <2>2. RunsDoNotOverlap'
    BY <1>s, <1>i DEF RunsDoNotOverlap, Final
  <2> QED
    BY <2>1, <2>2
<1>1. ASSUME NEW d \in Delays, SubmitDelayed(d) PROVE RunsBelong' /\ RunsDoNotOverlap'
  <2>1. /\ nextId \in Ids /\ nextId' = nextId + 1 /\ rec' = rec
        /\ st' = [st EXCEPT ![nextId] = "delayed"]
    BY <1>1, <1>i DEF SubmitDelayed, Schedule, RunsBelong
  <2>2. RunsBelong'
    BY <2>1, <1>i DEF RunsBelong, Places
  <2>3. RunsDoNotOverlap'
    BY <2>1, <1>i DEF RunsBelong, RunsDoNotOverlap
  <2> QED
    BY <2>2, <2>3
<1>2. CASE SubmitRecurring
  <2>1. /\ nextId \in Ids /\ nextId + 1 \in Ids /\ nextId' = nextId + 2
        /\ rec' = [rec EXCEPT ![nextId + 1] = nextId]
        /\ st' = [st EXCEPT ![nextId] = "recurring", ![nextId + 1] = "delayed"]
    BY <1>2, <1>i DEF SubmitRecurring, Schedule, RunsBelong
  <2>2. RunsBelong'
    BY <2>1, <1>i DEF RunsBelong, Places
  <2>3. \A j \in Ids : rec[j] # nextId
    BY <2>1, <1>i DEF RunsBelong
  <2>4. RunsDoNotOverlap'
    BY <2>1, <2>3, <1>i DEF RunsBelong, RunsDoNotOverlap
  <2> QED
    BY <2>2, <2>4
<1>3. ASSUME NEW i \in Ids, CancelTask(i) \/ HandleCancel(i) PROVE RunsBelong' /\ RunsDoNotOverlap'
  BY <1>3, <1>s, <1>i DEF CancelTask, HandleCancel, SetToken, RunsBelong
<1>4. ASSUME NEW i \in Ids,
             Take(i) \/ CheckToken(i) \/ CheckBody(i) \/ StartRun(i) \/ Finish(i)
      PROVE  RunsBelong' /\ RunsDoNotOverlap'
  <2>1. UNCHANGED <<nextId, rec>>
    BY <1>4 DEF Take, CheckToken, CheckBody, StartRun, Finish
  <2>2. /\ st[i] \in {"queued", "taken", "checked", "cleared", "running"}
        /\ \E p \in Places \ {"unused"} : st' = [st EXCEPT ![i] = p]
    BY <1>4 DEF Take, CheckToken, CheckBody, StartRun, Finish, Places
  <2>3. /\ st' \in [Ids -> Places] /\ st'[i] # "unused"
        /\ \A j \in Ids : j # i => st'[j] = st[j]
    BY <2>2, <1>i DEF RunsBelong
  <2> QED
    BY <1>s, <2>1, <2>2, <2>3 DEF Final
<1>5. ASSUME NEW i \in Ids, Reschedule(i) PROVE RunsBelong' /\ RunsDoNotOverlap'
  <2>1. CASE stopping
    BY <1>5, <2>1, <1>s, <1>i DEF Reschedule, RunsBelong, taskVars
  <2>2. CASE ~stopping
    <3>1. /\ nextId \in Ids /\ nextId' = nextId + 1 /\ st[i] = "again"
          /\ rec' = [rec EXCEPT ![nextId] = rec[i]]
          /\ st' = [st EXCEPT ![i] = "done", ![nextId] = "delayed"]
      BY <1>5, <2>2, <1>i DEF Reschedule, Schedule, RunsBelong
    <3>2. i < nextId /\ rec[i] \in Nat
      BY <3>1, <1>i DEF RunsBelong
    <3>3. RunsBelong'
      BY <3>1, <3>2, <1>i DEF RunsBelong, Places
    <3>4. RunsDoNotOverlap'
      BY <3>1, <3>2, <1>i DEF RunsBelong, RunsDoNotOverlap
    <3> QED
      BY <3>3, <3>4
  <2> QED
    BY <2>1, <2>2
<1>6. CASE ShutdownDelayed
  BY <1>6, <1>s, <1>i DEF ShutdownDelayed, taskVars, RunsBelong
<1>7. CASE ShutdownNow
  BY <1>7, <1>s, <1>i DEF ShutdownNow, Places, Final, RunsBelong
<1>8. CASE ProcessDelayedTasks
  BY <1>8, <1>s, <1>i DEF ProcessDelayedTasks, With, Places, Final, RunsBelong
<1>9. CASE PushReady
  BY <1>9, <1>s, <1>i DEF PushReady, Places, Final, RunsBelong
<1>10. CASE SchedulerExits \/ PlanSleep \/ WakeUp \/ Tick
  BY <1>10, <1>s, <1>i
  DEF SchedulerExits, PlanSleep, WakeUp, Tick, taskVars, RunsBelong
<1> QED
  BY <1>1, <1>2, <1>3, <1>4, <1>5, <1>6, <1>7, <1>8, <1>9, <1>10
  DEF DelayNext, Worker, Scheduler

\* A run gets past its last test of a token only while the token is not set,
\* and a token is set when at most one run is.
LEMMA SparedStep ==
  ASSUME DelayInv, DelayNext
  PROVE  SparedRight'
<1> USE DelaySchedulerAssumption DEF Ids
<1>i. RunsBelong /\ RunsDoNotOverlap /\ SparedRight
  BY DEF DelayInv
\* Steps that bring no run past a test and set no token.
<1>s. ASSUME UNCHANGED <<rec, flag, spared>>,
             \A i \in Ids : st'[i] \in {"checked", "cleared", "again"} => st'[i] = st[i]
      PROVE  SparedRight'
  BY <1>s, <1>i DEF SparedRight, PastItsChecks
<1>1. ASSUME NEW d \in Delays, SubmitDelayed(d) PROVE SparedRight'
  BY <1>1, <1>s, <1>i DEF SubmitDelayed, Schedule, RunsBelong
<1>2. CASE SubmitRecurring
  <2>1. /\ nextId \in Ids /\ nextId + 1 \in Ids
        /\ rec' = [rec EXCEPT ![nextId + 1] = nextId]
        /\ st' = [st EXCEPT ![nextId] = "recurring", ![nextId + 1] = "delayed"]
        /\ UNCHANGED <<flag, spared>>
    BY <1>2, <1>i DEF SubmitRecurring, Schedule, RunsBelong
  <2>2. \A i \in Ids, k \in flag : PastItsChecks(i, k)' => PastItsChecks(i, k)
    BY <2>1, <1>i DEF RunsBelong, PastItsChecks
  <2> QED
    BY <2>1, <2>2, <1>i DEF SparedRight
<1>3. ASSUME NEW k \in Ids, CancelTask(k) \/ HandleCancel(k) PROVE SparedRight'
  <2>1. SetToken(k)
    BY <1>3 DEF CancelTask, HandleCancel
  <2>2. \A i, j \in Ids : PastItsChecks(i, k) /\ PastItsChecks(j, k) => i = j
    BY <1>i DEF RunsBelong, RunsDoNotOverlap, PastItsChecks
  <2>3. \A i, l \in Ids : PastItsChecks(i, l)' <=> PastItsChecks(i, l)
    BY <2>1 DEF SetToken, PastItsChecks
  <2> QED
    BY <2>1, <2>2, <2>3, <1>i DEF SetToken, SparedRight
<1>4. ASSUME NEW i \in Ids, Take(i) PROVE SparedRight'
  BY <1>4, <1>s, <1>i DEF Take, RunsBelong
<1>5. ASSUME NEW i \in Ids, CheckToken(i) \/ CheckBody(i) \/ Finish(i) PROVE SparedRight'
  <2>1. UNCHANGED <<rec, flag, spared>>
    BY <1>5 DEF CheckToken, CheckBody, Finish
  <2>2. \A j \in Ids, k \in flag : PastItsChecks(j, k)' => PastItsChecks(j, k)
    BY <1>5, <2>1, <1>i DEF CheckToken, CheckBody, Finish, RunsBelong, PastItsChecks
  <2> QED
    BY <2>1, <2>2, <1>i DEF SparedRight
<1>6. ASSUME NEW i \in Ids, StartRun(i) PROVE SparedRight'
  <2>1. /\ UNCHANGED <<rec, flag>> /\ spared' = [k \in Ids |-> spared[k] \ {i}]
        /\ st' = [st EXCEPT ![i] = "running"]
    BY <1>6 DEF StartRun, Acted
  <2>2. \A j \in Ids, k \in flag : PastItsChecks(j, k)' => PastItsChecks(j, k) /\ j # i
    BY <2>1, <1>i DEF RunsBelong, PastItsChecks
  <2> QED
    BY <2>1, <2>2, <1>i DEF SparedRight
<1>7. ASSUME NEW i \in Ids, Reschedule(i) PROVE SparedRight'
  <2>1. CASE stopping
    BY <1>7, <2>1, <1>s, <1>i DEF Reschedule, taskVars
  <2>2. CASE ~stopping
    <3>1. /\ nextId \in Ids /\ st[i] = "again" /\ UNCHANGED flag
          /\ spared' = [k \in Ids |-> spared[k] \ {i}]
          /\ rec' = [rec EXCEPT ![nextId] = rec[i]]
          /\ st' = [st EXCEPT ![i] = "done", ![nextId] = "delayed"]
      BY <1>7, <2>2, <1>i DEF Reschedule, Schedule, Acted, RunsBelong
    <3>2. \A j \in Ids, k \in flag : PastItsChecks(j, k)' => PastItsChecks(j, k) /\ j # i
      BY <3>1, <1>i DEF RunsBelong, PastItsChecks
    <3> QED
      BY <3>1, <3>2, <1>i DEF SparedRight
  <2> QED
    BY <2>1, <2>2
<1>8. CASE ShutdownDelayed \/ SchedulerExits \/ PlanSleep \/ WakeUp \/ Tick
  BY <1>8, <1>s DEF ShutdownDelayed, SchedulerExits, PlanSleep, WakeUp, Tick, taskVars
<1>9. CASE ShutdownNow \/ ProcessDelayedTasks \/ PushReady
  BY <1>9, <1>s, <1>i DEF ShutdownNow, ProcessDelayedTasks, PushReady, RunsBelong
<1> QED
  BY <1>1, <1>2, <1>3, <1>4, <1>5, <1>6, <1>7, <1>8, <1>9 DEF DelayNext, Worker, Scheduler

THEOREM DelayInvariant == DelaySpec => []DelayInv
<1>1. DelayInit => DelayInv
  BY DelaySchedulerAssumption
  DEF DelayInit, DelayInv, RunsBelong, RunsDoNotOverlap, SparedRight, Places, Ids
<1>2. DelayInv /\ [DelayNext]_delayVars => DelayInv'
  <2>1. DelayInv /\ UNCHANGED delayVars => DelayInv'
    BY DEF delayVars, taskVars, DelayInv, RunsBelong, RunsDoNotOverlap, SparedRight,
           PastItsChecks
  <2>2. DelayInv /\ DelayNext => DelayInv'
    BY DelayStep, SparedStep DEF DelayInv
  <2> QED
    BY <2>1, <2>2
<1> QED
  BY <1>1, <1>2, PTL DEF DelaySpec

\* Only one run of a recurring task is pending or under way: the next one is
\* scheduled when the last has ended, whatever is cancelled meanwhile.
THEOREM RunsNeverOverlap == DelaySpec => []RunsDoNotOverlap
<1>1. DelayInv => RunsDoNotOverlap
  BY DEF DelayInv
<1> QED
  BY <1>1, DelayInvariant, PTL

\* Only the function of a run that is past its checks is started, and only a
\* run that found its task's token clear makes way for the next.
LEMMA ActsPastChecks ==
  ASSUME DelayInv, DelayNext, NEW i \in Ids, Starts(i) \/ SchedulesNext(i)
  PROVE  /\ Acted(i)
         /\ Starts(i) => \A k \in {i, rec[i]} \ {0} : PastItsChecks(i, k)
         /\ SchedulesNext(i) => PastItsChecks(i, rec[i])
<1>i. st \in [Ids -> Places] /\ \A j \in Ids : st[j] = "unused" <=> j >= nextId
  BY DEF DelayInv, RunsBelong
<1> USE DEF Starts, SchedulesNext
<1>1. ASSUME NEW d \in Delays, SubmitDelayed(d) PROVE FALSE
  BY <1>1, <1>i DEF SubmitDelayed
<1>2. CASE SubmitRecurring
  BY <1>2, <1>i DEF SubmitRecurring
<1>3. ASSUME NEW j \in Ids, Take(j) \/ CheckToken(j) \/ CheckBody(j) \/ Finish(j) PROVE FALSE
  BY <1>3, <1>i DEF Take, CheckToken, CheckBody, Finish
<1>4. ASSUME NEW j \in Ids, StartRun(j)
      PROVE  /\ j = i /\ Acted(i)
             /\ \A k \in {i, rec[i]} \ {0} : PastItsChecks(i, k)
             /\ ~SchedulesNext(i)
  <2>1. j = i
    BY <1>4, <1>i DEF StartRun
  <2>2. st[i] = "cleared" \/ (st[i] = "checked" /\ rec[i] = 0)
    BY <1>4, <2>1 DEF StartRun
  <2> QED
    BY <1>4, <1>i, <2>1, <2>2 DEF StartRun, PastItsChecks
<1>5. ASSUME NEW j \in Ids, Reschedule(j)
      PROVE  j = i /\ Acted(i) /\ PastItsChecks(i, rec[i]) /\ ~Starts(i)
  BY <1>5, <1>i DEF Reschedule, taskVars, PastItsChecks
<1>6. CASE ShutdownNow \/ ProcessDelayedTasks \/ PushReady
  BY <1>6, <1>i DEF ShutdownNow, ProcessDelayedTasks, PushReady
<1>7. CASE UNCHANGED st
  BY <1>7
<1> QED
  BY <1>1, <1>2, <1>3, <1>4, <1>5, <1>6, <1>7
  DEF DelayNext, Worker, Scheduler, CancelTask, HandleCancel, SetToken, ShutdownDelayed,
      SchedulerExits, PlanSleep, WakeUp, Tick, taskVars

\* After a cancellation, by handle or by id, the one run that had passed its
\* last test of the token may still start, or schedule the next run, and
\* nothing else of the task starts or is scheduled, however the scheduler, the
\* workers and other cancellations interleave.
THEOREM CancellationTakesEffect == DelaySpec => CancelTakesEffect
<1>1. ASSUME DelayInv, DelayNext, NEW i \in Ids, NEW k \in flag,
             \/ k \in {i, rec[i]} /\ Starts(i)
             \/ k = rec[i] /\ SchedulesNext(i)
      PROVE  spared[k] = {i} /\ i \notin spared'[k]
  <2>1. Acted(i) /\ PastItsChecks(i, k)
    BY <1>1, ActsPastChecks DEF DelayInv, SparedRight, Ids
  <2>2. k \in Ids /\ i \in spared[k]
    BY <1>1, <2>1 DEF DelayInv, SparedRight
  <2> QED
    BY <1>1, <2>1, <2>2 DEF DelayInv, SparedRight, Acted
<1>2. DelayInv /\ [DelayNext]_delayVars =>
        [\A i \in Ids : \A k \in flag :
            \/ k \in {i, rec[i]} /\ Starts(i)
            \/ k = rec[i] /\ SchedulesNext(i)
            => spared[k] = {i} /\ i \notin spared'[k]]_delayVars
  BY <1>1
<1> QED
  BY <1>2, DelayInvariant, PTL DEF DelaySpec, CancelTakesEffect
=============================================================================
