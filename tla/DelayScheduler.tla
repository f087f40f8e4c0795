--------------------------- MODULE DelayScheduler ---------------------------
(***************************************************************************)
(* Delayed and recurring tasks of yacul/concurrency/threadpool.{h,cc}: the *)
(* delayed queue, its scheduler thread, cancellation tokens, and the       *)
(* wrappers that workers run.                                              *)
(*                                                                         *)
(* A task id names a task, its DelayedTask and its cancellation token.  A  *)
(* recurring task has an id of its own, whose token its handle carries,    *)
(* and one id per scheduled run.  Time is discrete; it does not pass while *)
(* the scheduler thread has something to do, so every delay shown is the   *)
(* code's and not the operating system's.  Workers may be as slow as they  *)
(* like.                                                                   *)
(***************************************************************************)
EXTENDS Integers, FiniteSets, FiniteSetsExt

CONSTANTS MaxTime,       \* bound on the clock
          MaxId,         \* bound on next_task_id_
          Delays,        \* the delays clients ask for
          Recurring,     \* whether clients submit recurring tasks
          Period,        \* the interval of a recurring task
          Interval,      \* config_.delay_scheduler_interval
          ShutdownOps            \* the shutdown operations clients call

Ids == 1..MaxId

ASSUME DelaySchedulerAssumption ==
  /\ MaxTime \in Nat /\ MaxId \in Nat
  /\ Delays \subseteq Nat
  /\ Recurring \in BOOLEAN
  /\ Period \in Nat /\ Interval \in Nat \ {0}
  /\ ShutdownOps \subseteq {"Shutdown", "ShutdownNow"}

VARIABLES now,       \* steady_clock
          nextId,    \* next_task_id_
          st,        \* where each id's task is
          at,        \* execute_time
          rec,       \* the recurring id an id's body belongs to, or 0
          tokens,    \* keys of cancelled_tasks_
          flag,      \* the ids whose token is set
          spared,    \* history: per token, the runs that had looked at it for
                     \* the last time when it was set, and have not acted
          spc,       \* where the scheduler thread is
          wake,      \* next_wake
          stopping,  \* shutdown_
          aborted    \* a CHECK has failed

taskVars == <<nextId, st, at, rec, tokens, flag, spared>>
schedVars == <<spc, wake>>
delayVars == <<now, taskVars, schedVars, stopping, aborted>>

DelayInit ==
  /\ now = 0 /\ nextId = 1
  /\ st = [i \in Ids |-> "unused"]
  /\ at = [i \in Ids |-> 0]
  /\ rec = [i \in Ids |-> 0]
  /\ tokens = {} /\ flag = {}
  /\ spared = [i \in Ids |-> {}]
  /\ spc = "process" /\ wake = 0
  /\ stopping = FALSE /\ aborted = FALSE

With(place) == {i \in Ids : st[i] = place}

\* delayed_tasks_.top().execute_time <= now, or shutdown_.
MustWake == stopping \/ \E i \in With("delayed") : at[i] <= now

\* delayed_condition_.notify_one and notify_all; the scheduler is the one waiter.
NotifyScheduler == spc' = IF spc = "asleep" THEN "notified" ELSE spc

-----------------------------------------------------------------------------
(* Clients. *)

\* SubmitDelayedWithPriority, under delayed_queue_mutex_, and the notification.
Schedule(i, d) ==
  /\ i <= MaxId
  /\ now + d <= MaxTime
  /\ at' = [at EXCEPT ![i] = now + d]
  /\ nextId' = i + 1
  /\ NotifyScheduler
  /\ UNCHANGED <<now, flag, wake>>

\* SubmitDelayed and SubmitAt in the future; the caller must not be late.
SubmitDelayed(d) ==
  /\ ~stopping
  /\ Schedule(nextId, d)
  /\ st' = [st EXCEPT ![nextId] = "delayed"]
  /\ tokens' = tokens \cup {nextId}
  /\ UNCHANGED <<rec, spared, stopping, aborted>>

\* SubmitRecurring: a token for the task, then the first run with no delay.
SubmitRecurring ==
  LET i == nextId + 1
  IN  /\ Recurring
      /\ ~stopping
      /\ Schedule(i, 0)
      /\ st' = [st EXCEPT ![nextId] = "recurring", ![i] = "delayed"]
      /\ rec' = [rec EXCEPT ![i] = nextId]
      /\ tokens' = tokens \cup {nextId, i}
      /\ UNCHANGED <<spared, stopping, aborted>>

\* Run i looks at token k no more before it starts, or schedules its successor.
\* The wrapper looks at the token of its run, the body, before and after the
\* user's function, at that of the recurring task.
PastItsChecks(i, k) ==
  \/ k = i /\ st[i] \in {"checked", "cleared"}
  \/ k = rec[i] /\ st[i] \in {"cleared", "again"}

SetToken(k) ==
  /\ k \notin flag
  /\ flag' = flag \cup {k}
  /\ spared' = [spared EXCEPT ![k] = {i \in Ids : PastItsChecks(i, k)}]
  /\ UNCHANGED <<now, nextId, st, at, rec, tokens, schedVars, stopping, aborted>>

\* CancelTask looks the token up, TaskHandle::Cancel has it.
CancelTask(k) == k \in tokens /\ SetToken(k)

HandleCancel(k) == st[k] # "unused" /\ rec[k] = 0 /\ SetToken(k)

ShutdownDelayed ==
  /\ ~stopping
  /\ stopping' = TRUE
  /\ NotifyScheduler
  /\ UNCHANGED <<now, taskVars, wake, aborted>>

\* ShutdownNow drains both queues and forgets the tokens.
ShutdownNow ==
  /\ ~stopping
  /\ stopping' = TRUE
  /\ st' = [i \in Ids |-> IF st[i] \in {"delayed", "queued"} THEN "dropped" ELSE st[i]]
  /\ tokens' = {}
  /\ NotifyScheduler
  /\ UNCHANGED <<now, nextId, at, rec, flag, spared, wake, aborted>>

-----------------------------------------------------------------------------
(* The scheduler thread. *)

\* ProcessDelayedTasks, the part under delayed_queue_mutex_: the due tasks are
\* popped; a cancelled one is dropped with its token.  The loop ends first if
\* shutdown_ is set.
ProcessDelayedTasks ==
  LET popped == {i \in With("delayed") : at[i] <= now}
      cancelled == popped \cap flag \cap tokens
  IN  /\ spc = "process"
      /\ ~stopping
      /\ st' = [i \in Ids |-> IF i \in cancelled THEN "cancelled"
                              ELSE IF i \in popped THEN "ready" ELSE st[i]]
      /\ tokens' = tokens \ cancelled
      /\ spc' = IF popped = cancelled THEN "plan" ELSE "push"
      /\ UNCHANGED <<now, nextId, at, rec, flag, spared, wake, stopping, aborted>>

SchedulerExits ==
  /\ spc = "process"
  /\ stopping
  /\ spc' = "exited"
  /\ UNCHANGED <<now, taskVars, wake, stopping, aborted>>

\* The part under queue_mutex_.
PushReady ==
  /\ spc = "push"
  /\ st' = [i \in Ids |-> IF st[i] = "ready" THEN "queued" ELSE st[i]]
  /\ spc' = "plan"
  /\ UNCHANGED <<now, nextId, at, rec, tokens, flag, spared, wake, stopping, aborted>>

\* The choice of next_wake and the wait: the earliest task, or the interval
\* when there is none.
PlanSleep ==
  /\ spc = "plan"
  /\ wake' = IF With("delayed") = {} THEN now + Interval
             ELSE Min({at[i] : i \in With("delayed")})
  /\ spc' = IF MustWake THEN "process" ELSE "asleep"
  /\ UNCHANGED <<now, taskVars, stopping, aborted>>

\* A notified scheduler tests the predicate of wait_until again; next_wake
\* stays what it was.
WakeUp ==
  /\ \/ spc = "asleep" /\ now >= wake /\ spc' = "process"
     \/ spc = "notified" /\ MustWake /\ spc' = "process"
     \/ spc = "notified" /\ ~MustWake /\ spc' = "asleep"
  /\ UNCHANGED <<now, taskVars, wake, stopping, aborted>>

Scheduler ==
  ProcessDelayedTasks \/ SchedulerExits \/ PushReady \/ PlanSleep \/ WakeUp

-----------------------------------------------------------------------------
(* The wrappers that workers run. *)

\* DequeueTask.
Take(i) ==
  /\ st[i] = "queued"
  /\ st' = [st EXCEPT ![i] = "taken"]
  /\ UNCHANGED <<now, nextId, at, rec, tokens, flag, spared, schedVars, stopping, aborted>>

\* The wrapper looks at the token of its run.
CheckToken(i) ==
  /\ st[i] = "taken"
  /\ st' = [st EXCEPT ![i] = IF i \in flag THEN "cancelled" ELSE "checked"]
  /\ UNCHANGED <<now, nextId, at, rec, tokens, flag, spared, schedVars, stopping, aborted>>

\* A recurring body looks at the token of its task and at shutdown_.
CheckBody(i) ==
  /\ st[i] = "checked" /\ rec[i] # 0
  /\ st' = [st EXCEPT ![i] = IF rec[i] \in flag \/ stopping THEN "done" ELSE "cleared"]
  /\ UNCHANGED <<now, nextId, at, rec, tokens, flag, spared, schedVars, stopping, aborted>>

\* What run i was spared for it has done.
Acted(i) == spared' = [k \in Ids |-> spared[k] \ {i}]

\* The user's function begins.
StartRun(i) ==
  /\ st[i] = IF rec[i] = 0 THEN "checked" ELSE "cleared"
  /\ st' = [st EXCEPT ![i] = "running"]
  /\ Acted(i)
  /\ UNCHANGED <<now, nextId, at, rec, tokens, flag, schedVars, stopping, aborted>>

\* Mutant: a recurring body that was cancelled while it ran goes on.
Finish_NoCheck(i) ==
  /\ st[i] = "running"
  /\ st' = [st EXCEPT ![i] = IF rec[i] # 0 /\ ~stopping THEN "again" ELSE "done"]
  /\ UNCHANGED <<now, nextId, at, rec, tokens, flag, spared, schedVars, stopping, aborted>>

\* The user's function has returned or thrown; a recurring body decides
\* whether to go on.
Finish(i) ==
  /\ st[i] = "running"
  /\ st' = [st EXCEPT ![i] =
             IF rec[i] # 0 /\ rec[i] \notin flag /\ ~stopping THEN "again" ELSE "done"]
  /\ UNCHANGED <<now, nextId, at, rec, tokens, flag, spared, schedVars, stopping, aborted>>

\* Mutant: the next run is scheduled and this one not ended.
Reschedule_Twice(i) ==
  /\ st[i] = "again"
  /\ Schedule(nextId, Period)
  /\ st' = [st EXCEPT ![nextId] = "delayed"]
  /\ rec' = [rec EXCEPT ![nextId] = rec[i]]
  /\ tokens' = tokens \cup {nextId}
  /\ Acted(i)
  /\ UNCHANGED <<stopping, aborted>>

\* SubmitDelayedWithPriority from the recurring body: its CHECK(!shutdown_)
\* aborts the process if a shutdown came after the test in Finish.
Reschedule(i) ==
  /\ st[i] = "again"
  /\ \/ /\ stopping
        /\ aborted' = TRUE
        /\ UNCHANGED <<now, taskVars, schedVars>>
     \/ /\ ~stopping
        /\ Schedule(nextId, Period)
        /\ st' = [st EXCEPT ![i] = "done", ![nextId] = "delayed"]
        /\ rec' = [rec EXCEPT ![nextId] = rec[i]]
        /\ tokens' = tokens \cup {nextId}
        /\ Acted(i)
        /\ UNCHANGED aborted
  /\ UNCHANGED stopping

Worker(i) ==
  \/ Take(i) \/ CheckToken(i) \/ CheckBody(i)
  \/ StartRun(i) \/ Finish(i) \/ Reschedule(i)

\* Time passes while the scheduler sleeps.
Tick ==
  /\ now < MaxTime
  /\ spc = "exited" \/ (spc = "asleep" /\ now < wake)
  /\ now' = now + 1
  /\ UNCHANGED <<taskVars, schedVars, stopping, aborted>>

DelayNext ==
  /\ ~aborted
  /\ \/ \E d \in Delays : SubmitDelayed(d)
     \/ SubmitRecurring
     \/ \E i \in Ids : CancelTask(i) \/ HandleCancel(i) \/ Worker(i)
     \/ "Shutdown" \in ShutdownOps /\ ShutdownDelayed
     \/ "ShutdownNow" \in ShutdownOps /\ ShutdownNow
     \/ Scheduler
     \/ Tick

DelaySpec == DelayInit /\ [][DelayNext]_delayVars

-----------------------------------------------------------------------------
(* Properties. *)

\* The range of every variable; an id belongs to a task once it is given out.
DelayTypeOK ==
  /\ now \in 0..MaxTime /\ nextId \in 1..(MaxId + 1)
  /\ st \in [Ids -> {"unused", "recurring", "delayed", "ready", "queued", "taken",
                     "checked", "cleared", "running", "again", "done", "cancelled", "dropped"}]
  /\ \A i \in Ids : st[i] = "unused" <=> i >= nextId
  /\ at \in [Ids -> 0..MaxTime]
  /\ rec \in [Ids -> 0..MaxId]
  /\ tokens \subseteq Ids /\ flag \subseteq Ids
  /\ spared \in [Ids -> SUBSET Ids]
  /\ spc \in {"process", "push", "plan", "asleep", "notified", "exited"}
  /\ wake \in Nat
  /\ stopping \in BOOLEAN /\ aborted \in BOOLEAN

\* Run i starts, or gives way to the next run of its recurring task.
Starts(i) == st[i] # "running" /\ st'[i] = "running"
SchedulesNext(i) == st[i] = "again" /\ st'[i] = "done"

\* TaskHandle::Cancel and CancelTask take effect at once but for one step.
\* Wherever they meet a task (waiting, popped by the scheduler, queued, in a
\* worker's hands, between two runs), what starts or schedules another run
\* after that is the one run that had passed its last test of the token
\* before, and it does so once: a recurring task winds down.
CancelTakesEffect ==
  [][\A i \in Ids : \A k \in flag :
       \/ k \in {i, rec[i]} /\ Starts(i)
       \/ k = rec[i] /\ SchedulesNext(i)
       => spared[k] = {i} /\ i \notin spared'[k]]_delayVars

\* A recurring task has one run pending at a time.
RunsDoNotOverlap ==
  \A i, j \in Ids :
    (i # j /\ rec[i] # 0 /\ rec[i] = rec[j])
      => st[i] \in {"done", "cancelled", "dropped"} \/ st[j] \in {"done", "cancelled", "dropped"}

=============================================================================
