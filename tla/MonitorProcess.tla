--------------------------- MODULE MonitorProcess ---------------------------
(***************************************************************************)
(* yacul/misc/monitor_process: one thread forks a child, waits for it,     *)
(* and restarts it until it is asked to stop or restarts too often.        *)
(*                                                                         *)
(* The entry points touch state_, stop_requested_ and child_pid_ without   *)
(* state_mutex_, so every store and load of them is a step of its own; so  *)
(* are the stores of Start, which holds the mutex, where others see them.  *)
(* Pids are reused by the kernel as soon as they are reaped.  Time is not  *)
(* modelled: a wait with a timeout may always time out, and a child that   *)
(* died may have been stable.                                              *)
(***************************************************************************)
EXTENDS Integers, FiniteSets

CONSTANTS
  Callers,         \* threads that call the public entry points
  Monitors,        \* bound: monitor threads not yet joined
  Pids,            \* pids the kernel hands out, numbers from 1
  Configs,         \* configurations given to Start: [max, policy]
  BackoffInitial, BackoffMax, MultiplierNum, MultiplierDen, SleepSlice,
  MaxCount         \* bound: the restart counters stop counting here

VARIABLES
  config,          \* config_
  mstate,          \* state_
  stopRequested,   \* stop_requested_
  childPid,        \* child_pid_, 0 when there is none
  restarts,        \* restart_count_
  consecutive,     \* consecutive_restart_count_
  mthread,         \* monitor_thread_ and monitor_thread_valid_
  monitor,         \* the monitor threads: program counter and locals
  process,         \* the kernel's view of each pid
  caller,          \* the callers: program counter and locals
  inRow,           \* history: restarts since Start or the last stable run
  idledLive        \* history: WaitForStop stored kIdle while a monitor ran

lifecycleVars == <<config, mstate, stopRequested, mthread, idledLive>>
counterVars == <<restarts, consecutive, inRow>>
monitorVars == <<lifecycleVars, counterVars, childPid, monitor, process, caller>>

Policies == {"kStopMonitoring", "kResetCounter"}
States == {"kIdle", "kRunning", "kStopping", "kStopped"}
MonitorPcs == {"none", "top", "publish", "watch", "grace", "reap",
               "poll", "exited", "decide", "backoff", "nap", "finish",
               "store", "returned"}
CallerPcs == {"out", "reset", "create", "flag", "stopping", "read", "kill",
              "join", "invalidate", "idle"}
NoMonitor == [pc |-> "none", pid |-> 0, remaining |-> 0]
NoCall == [pc |-> "out", pid |-> 0, tid |-> CHOOSE m \in Monitors : TRUE]

Alive(m) == monitor[m].pc \notin {"none", "returned"}

MonitorTypeOK ==
  /\ config \in Configs
  /\ mstate \in States
  /\ stopRequested \in BOOLEAN
  /\ childPid \in Pids \cup {0}
  /\ restarts \in 0..MaxCount /\ consecutive \in 0..MaxCount
  /\ inRow \in 0..MaxCount
  /\ idledLive \in BOOLEAN
  /\ mthread \in [valid: BOOLEAN, id: Monitors]
  /\ monitor \in [Monitors -> [pc: MonitorPcs, pid: Pids \cup {0},
                               remaining: Nat]]
  /\ process \in [Pids -> {"free", "running", "doomed", "zombie"}]
  /\ caller \in [Callers -> [pc: CallerPcs, pid: Pids \cup {0},
                             tid: Monitors]]

MonitorInit ==
  /\ config \in Configs
  /\ mstate = "kIdle"
  /\ stopRequested = FALSE
  /\ childPid = 0
  /\ restarts = 0 /\ consecutive = 0 /\ inRow = 0
  /\ idledLive = FALSE
  /\ mthread = [valid |-> FALSE, id |-> CHOOSE m \in Monitors : TRUE]
  /\ monitor = [m \in Monitors |-> NoMonitor]
  /\ process = [p \in Pids |-> "free"]
  /\ caller = [c \in Callers |-> NoCall]

(***************************************************************************)
(* The kernel.  A signal may be ignored unless it is SIGKILL; a doomed     *)
(* process dies.                                                           *)
(***************************************************************************)
Kill(p, outcomes) ==
  \E s \in outcomes :
    process' = IF p \in Pids /\ process[p] = "running"
               THEN [process EXCEPT ![p] = s] ELSE process

Signal(p) == Kill(p, {"running", "doomed"})
SigKill(p) == Kill(p, {"doomed"})

\* A process exits by itself, by exec failing (_exit(127)), or by a signal.
ProcessDies(p) ==
  /\ process[p] \in {"running", "doomed"}
  /\ process' = [process EXCEPT ![p] = "zombie"]
  /\ UNCHANGED <<lifecycleVars, counterVars, childPid, monitor, caller>>

Capped(n) == IF n > MaxCount THEN MaxCount ELSE n

----------------------------------------------------------------------------
(* The public entry points. *)

At(c, pc) == caller[c].pc = pc
CallerGoes(c, pc) == caller' = [caller EXCEPT ![c].pc = pc]

\* Start holds state_mutex_ until it returns; nobody else keeps it.
Starting(c) == At(c, "reset") \/ At(c, "create")
MutexFree == \A c \in Callers : ~Starting(c)

Startable == mstate \notin {"kRunning", "kStopping"}

Start(c) ==
  /\ At(c, "out") /\ MutexFree /\ Startable
  /\ config' \in Configs
  /\ stopRequested' = FALSE
  /\ restarts' = 0 /\ consecutive' = 0 /\ inRow' = 0
  /\ childPid' = 0
  /\ CallerGoes(c, "reset")
  /\ UNCHANGED <<mstate, mthread, idledLive, monitor, process>>

SetRunning(c) ==
  /\ At(c, "reset")
  /\ mstate' = "kRunning"
  /\ CallerGoes(c, "create")
  /\ UNCHANGED <<config, stopRequested, mthread, idledLive, counterVars, childPid,
                 monitor, process>>

\* pthread_create may fail; it does when no thread is to be had.
CreateThread(c) ==
  /\ At(c, "create")
  /\ \/ \E m \in Monitors :
          /\ monitor[m].pc = "none"
          /\ monitor' = [monitor EXCEPT ![m].pc = "top"]
          /\ mthread' = [valid |-> TRUE, id |-> m]
          /\ UNCHANGED mstate
     \/ mstate' = "kIdle" /\ UNCHANGED <<mthread, monitor>>
  /\ CallerGoes(c, "out")
  /\ UNCHANGED <<config, stopRequested, idledLive, counterVars, childPid,
                 process>>

RequestStop(c) ==
  /\ At(c, "out")
  /\ mstate = "kRunning"
  /\ CallerGoes(c, "flag")
  /\ UNCHANGED <<lifecycleVars, counterVars, childPid, monitor, process>>

SetStopFlag(c) ==
  /\ At(c, "flag")
  /\ stopRequested' = TRUE
  /\ CallerGoes(c, "stopping")
  /\ UNCHANGED <<config, mstate, mthread, idledLive, counterVars, childPid,
                 monitor, process>>

SetStopping(c) ==
  /\ At(c, "stopping")
  /\ mstate' = "kStopping"
  /\ CallerGoes(c, "read")
  /\ UNCHANGED <<config, stopRequested, mthread, idledLive, counterVars,
                 childPid, monitor, process>>

LoadPid(c) ==
  /\ At(c, "read")
  /\ caller' = [caller EXCEPT ![c].pc = IF childPid > 0 THEN "kill" ELSE "out",
                              ![c].pid = childPid]
  /\ UNCHANGED <<lifecycleVars, counterVars, childPid, monitor, process>>

\* Loads child_pid_ and returns if there is none; the signal is a later step.
SendSignalToChild(c) ==
  /\ At(c, "out") /\ childPid > 0
  /\ caller' = [caller EXCEPT ![c].pc = "kill", ![c].pid = childPid]
  /\ UNCHANGED <<lifecycleVars, counterVars, childPid, monitor, process>>

SignalLoaded(c) ==
  /\ At(c, "kill")
  /\ Signal(caller[c].pid)
  /\ caller' = [caller EXCEPT ![c] = NoCall]
  /\ UNCHANGED <<lifecycleVars, counterVars, childPid, monitor>>

WaitForStop(c) ==
  /\ At(c, "out") /\ MutexFree
  /\ caller' = [caller EXCEPT ![c] =
                  IF mthread.valid THEN [NoCall EXCEPT !.pc = "join", !.tid = mthread.id]
                  ELSE [NoCall EXCEPT !.pc = "idle"]]
  /\ UNCHANGED <<lifecycleVars, counterVars, childPid, monitor, process>>

\* Joining a thread that was joined already is undefined: here it blocks.
Join(c) ==
  /\ At(c, "join")
  /\ monitor[caller[c].tid].pc = "returned"
  /\ monitor' = [monitor EXCEPT ![caller[c].tid] = NoMonitor]
  /\ caller' = [caller EXCEPT ![c] = [NoCall EXCEPT !.pc = "invalidate"]]
  /\ UNCHANGED <<lifecycleVars, counterVars, childPid, process>>

Invalidate(c) ==
  /\ At(c, "invalidate") /\ MutexFree
  /\ mthread' = [mthread EXCEPT !.valid = FALSE]
  /\ CallerGoes(c, "idle")
  /\ UNCHANGED <<config, mstate, stopRequested, idledLive, counterVars,
                 childPid, monitor, process>>

\* A monitor thread lives, or Start is about to create one.
MonitorRuns ==
  (\E m \in Monitors : Alive(m)) \/ (\E c \in Callers : At(c, "create"))

\* The store is made without the mutex and does not look at the state it
\* replaces.
BackToIdle(c) ==
  /\ At(c, "idle")
  /\ mstate' = "kIdle"
  /\ idledLive' = (idledLive \/ MonitorRuns)
  /\ CallerGoes(c, "out")
  /\ UNCHANGED <<config, stopRequested, mthread, counterVars, childPid, monitor,
                 process>>

CallerStep(c) ==
  \/ SetRunning(c) \/ CreateThread(c) \/ SetStopFlag(c) \/ SetStopping(c)
  \/ LoadPid(c) \/ SignalLoaded(c) \/ Join(c) \/ Invalidate(c) \/ BackToIdle(c)

CallMonitor(c) ==
  Start(c) \/ RequestStop(c) \/ SendSignalToChild(c) \/ WaitForStop(c)

----------------------------------------------------------------------------
(* The monitor thread. *)

On(m, pc) == monitor[m].pc = pc
MoveMonitor(m, pc) == monitor' = [monitor EXCEPT ![m].pc = pc]
QuietStep == UNCHANGED <<lifecycleVars, caller>>

ComputeBackoff(n) ==
  IF n <= 0 THEN BackoffInitial
  ELSE IF \E i \in 1..n :
            BackoffInitial * MultiplierNum^i >= BackoffMax * MultiplierDen^i
       THEN BackoffMax
       ELSE (BackoffInitial * MultiplierNum^n) \div MultiplierDen^n

\* The back-off is a duration, and the bounds are numbers.
ASSUME MonitorAssumption ==
  /\ Monitors # {}
  /\ 0 \notin Pids
  /\ Configs \subseteq [max: Nat, policy: Policies]
  /\ SleepSlice \in Nat /\ MaxCount \in Nat
  /\ \A n \in 0..MaxCount : ComputeBackoff(n) \in Nat

\* fork fails: nothing is counted, and the sleep ignores a stop.
SpawnFails(m) ==
  /\ On(m, "top") /\ ~stopRequested
  /\ monitor' = [monitor EXCEPT ![m].pc = "nap",
                                ![m].remaining = ComputeBackoff(consecutive)]
  /\ UNCHANGED <<counterVars, childPid, process>>
  /\ QuietStep

Nap(m) ==
  /\ On(m, "nap")
  /\ monitor' = [monitor EXCEPT ![m].pc = "top", ![m].remaining = 0]
  /\ UNCHANGED <<counterVars, childPid, process>>
  /\ QuietStep

SpawnChild(m) ==
  /\ On(m, "top") /\ ~stopRequested
  /\ \E p \in Pids :
       /\ process[p] = "free"
       /\ process' = [process EXCEPT ![p] = "running"]
       /\ monitor' = [monitor EXCEPT ![m].pc = "publish", ![m].pid = p]
  /\ inRow' = IF restarts > 0 THEN Capped(inRow + 1) ELSE inRow
  /\ UNCHANGED <<restarts, consecutive, childPid>>
  /\ QuietStep

LeaveLoop(m) ==
  /\ On(m, "top") /\ stopRequested
  /\ MoveMonitor(m, "finish")
  /\ UNCHANGED <<counterVars, childPid, process>>
  /\ QuietStep

PublishPid(m) ==
  /\ On(m, "publish")
  /\ childPid' = monitor[m].pid
  /\ MoveMonitor(m, "watch")
  /\ UNCHANGED <<counterVars, process>>
  /\ QuietStep

\* Mutant: the watching loop does not look at the stop flag.
Watch_Blind(m) ==
  /\ On(m, "watch")
  /\ MoveMonitor(m, "poll")
  /\ UNCHANGED <<counterVars, childPid, process>>
  /\ QuietStep

Watch(m) ==
  /\ On(m, "watch")
  /\ IF stopRequested
     THEN Signal(monitor[m].pid) /\ MoveMonitor(m, "grace")
     ELSE UNCHANGED process /\ MoveMonitor(m, "poll")
  /\ UNCHANGED <<counterVars, childPid>>
  /\ QuietStep

\* waitpid(child_pid_, WNOHANG): the child is reaped, or it is not there
\* (ECHILD) and taken to have exited.
WaitForChildWithTimeout(m) ==
  /\ On(m, "grace") \/ On(m, "poll")
  /\ \/ /\ childPid \in Pids /\ process[childPid] = "zombie"
        /\ process' = [process EXCEPT ![childPid] = "free"]
     \/ /\ childPid \in Pids => process[childPid] = "free"
        /\ UNCHANGED process
  /\ MoveMonitor(m, "exited")
  /\ UNCHANGED <<counterVars, childPid>>
  /\ QuietStep

\* Mutant: the child is left to die by itself.
GraceExpires_NoKill(m) ==
  /\ On(m, "grace")
  /\ MoveMonitor(m, "exited")
  /\ UNCHANGED <<counterVars, childPid, process>>
  /\ QuietStep

GraceExpires(m) ==
  /\ On(m, "grace")
  /\ SigKill(monitor[m].pid)
  /\ MoveMonitor(m, "reap")
  /\ UNCHANGED <<counterVars, childPid>>
  /\ QuietStep

\* The poll ran out: the health check, if any, may find the child unhealthy.
PollExpires(m) ==
  /\ On(m, "poll")
  /\ \/ UNCHANGED process /\ MoveMonitor(m, "watch")
     \/ SigKill(monitor[m].pid) /\ MoveMonitor(m, "reap")
  /\ UNCHANGED <<counterVars, childPid>>
  /\ QuietStep

ReapKilled(m) ==
  /\ On(m, "reap")
  /\ process[monitor[m].pid] = "zombie"
  /\ process' = [process EXCEPT ![monitor[m].pid] = "free"]
  /\ MoveMonitor(m, "exited")
  /\ UNCHANGED <<counterVars, childPid>>
  /\ QuietStep

ForgetPid(m) ==
  /\ On(m, "exited")
  /\ childPid' = 0
  /\ monitor' = [monitor EXCEPT ![m].pc = "decide", ![m].pid = 0]
  /\ UNCHANGED <<counterVars, process>>
  /\ QuietStep

OverLimit(n) == config.max > 0 /\ n > config.max

Decide(m) ==
  /\ On(m, "decide") /\ ~stopRequested
  /\ \E stable \in BOOLEAN :
       LET n == (IF stable THEN 0 ELSE consecutive) + 1
           kept == IF OverLimit(n) THEN 0 ELSE Capped(n)
           givesUp == OverLimit(n) /\ config.policy = "kStopMonitoring"
       IN  /\ restarts' = Capped(restarts + 1)
           /\ inRow' = IF stable THEN 0 ELSE inRow
           /\ IF givesUp
              THEN consecutive' = Capped(n) /\ MoveMonitor(m, "finish")
              ELSE /\ consecutive' = kept
                   /\ monitor' = [monitor EXCEPT ![m].pc = "backoff",
                                    ![m].remaining = ComputeBackoff(kept)]
  /\ UNCHANGED <<childPid, process>>
  /\ QuietStep

DecideToStop(m) ==
  /\ On(m, "decide") /\ stopRequested
  /\ MoveMonitor(m, "finish")
  /\ UNCHANGED <<counterVars, childPid, process>>
  /\ QuietStep

Backoff(m) ==
  /\ On(m, "backoff")
  /\ LET left == monitor[m].remaining
     IN  monitor' = IF left > 0 /\ ~stopRequested
                    THEN [monitor EXCEPT ![m].remaining =
                            IF left < SleepSlice THEN 0 ELSE left - SleepSlice]
                    ELSE [monitor EXCEPT ![m].pc = "top", ![m].remaining = 0]
  /\ UNCHANGED <<counterVars, childPid, process>>
  /\ QuietStep

LeaveMonitor(m) ==
  /\ On(m, "finish")
  /\ childPid' = 0
  /\ MoveMonitor(m, "store")
  /\ UNCHANGED <<counterVars, process>>
  /\ QuietStep

StoreStopped(m) ==
  /\ On(m, "store")
  /\ mstate' = "kStopped"
  /\ monitor' = [monitor EXCEPT ![m] = [NoMonitor EXCEPT !.pc = "returned"]]
  /\ UNCHANGED <<config, stopRequested, mthread, idledLive, counterVars,
                 childPid, process, caller>>

MonitorStep(m) ==
  \/ SpawnFails(m) \/ Nap(m) \/ SpawnChild(m) \/ LeaveLoop(m) \/ PublishPid(m)
  \/ Watch(m) \/ WaitForChildWithTimeout(m) \/ GraceExpires(m)
  \/ PollExpires(m) \/ ReapKilled(m) \/ ForgetPid(m) \/ Decide(m)
  \/ DecideToStop(m) \/ Backoff(m) \/ LeaveMonitor(m) \/ StoreStopped(m)

MonitorNext ==
  \/ \E c \in Callers : CallMonitor(c) \/ CallerStep(c)
  \/ \E m \in Monitors : MonitorStep(m)
  \/ \E p \in Pids : ProcessDies(p)

\* Threads are scheduled, and a process that was sent SIGKILL dies.  Nothing
\* makes a caller call, or a child exit.
MonitorFairness ==
  /\ \A m \in Monitors : WF_monitorVars(MonitorStep(m))
  /\ \A c \in Callers : WF_monitorVars(CallerStep(c))
  /\ \A p \in Pids :
       WF_monitorVars(process[p] = "doomed" /\ ProcessDies(p))

MonitorSpec == MonitorInit /\ [][MonitorNext]_monitorVars

----------------------------------------------------------------------------
(* Properties. *)

\* Start never puts a second monitor thread beside a live one, whatever
\* stops, gives up or is restarted in between (Start, monitor_process.cc:41).
OneMonitorAlive ==
  \A m, n \in Monitors : Alive(m) /\ Alive(n) => m = n

\* Every child not yet reaped belongs to a monitor thread that will reap it,
\* and that thread never signals or waits for a pid it has already given
\* back to the kernel (MonitorLoop).
ChildrenOwned ==
  /\ \A p \in Pids : process[p] # "free" =>
       \E m \in Monitors : Alive(m) /\ monitor[m].pid = p
  /\ \A m \in Monitors :
       monitor[m].pc \in {"publish", "watch", "grace", "poll", "reap"} =>
         process[monitor[m].pid] # "free"

\* The published pid is that of the child or 0, and 0 once the monitor has
\* left its loop: a signal sent by pid finds the child or nobody, but for
\* the moment between reaping and the store (MonitorLoop, line 222).
PublishedPidFresh ==
  childPid # 0 =>
    \E m \in Monitors : monitor[m].pid = childPid /\ Alive(m)

\* With the stopping policy a service is restarted at most max_restarts
\* times in a row without a stable run (Decide; the limit's off-by-one).
RestartsBounded ==
  (config.max > 0 /\ config.policy = "kStopMonitoring") => inRow <= config.max

\* One monitor owns the child, and what it publishes of it can be trusted,
\* however many threads start, stop, signal and wait for it.  WaitForStop
\* breaks this and is excepted: a caller whose join returned stores kIdle
\* (monitor_process.cc:116) without the mutex; when another caller has called
\* Start in between, a monitor runs whose state says kIdle, and a further
\* Start puts a second one beside it, though "all public entry points are
\* protected" (monitor_process.h:25).  Up to such a store everything holds.
MonitorIntact ==
  /\ MonitorTypeOK
  /\ idledLive \/ /\ OneMonitorAlive
                  /\ ChildrenOwned
                  /\ PublishedPidFresh
                  /\ RestartsBounded

\* The state kStopping means that a stop was requested of the monitor that
\* is running; otherwise later stops return early and nothing ends it.
StoppingIsRequested ==
  mstate = "kStopping" => stopRequested

\* A caller that waits for a monitor that was told to stop gets through, even
\* if the child ignores stop_signal (RequestStop, WaitForStop).  Excepted are
\* a monitor that lost its state, see MonitorIntact, and a thread that another
\* caller has joined: joining it again is undefined.
StopCompletes ==
  \A c \in Callers :
    (At(c, "join") /\ stopRequested)
      ~> \/ ~At(c, "join") \/ idledLive
         \/ monitor[caller[c].tid].pc = "none"
=============================================================================
