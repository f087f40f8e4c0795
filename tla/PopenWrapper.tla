---------------------------- MODULE PopenWrapper ----------------------------
(***************************************************************************)
(* yacul/system/popen_wrapper: one wrapper, its child, the pipes between   *)
(* them and the thread that enforces the timeout.                          *)
(*                                                                         *)
(* Bytes are counted, not named: the code never looks at them.  A pipe     *)
(* holds PipeSize bytes; the child may read, write, ignore SIGTERM and     *)
(* exit as it likes.  The parent's ends of stdout and stderr are           *)
(* non-blocking, its end of stdin is not.  SIGPIPE is taken to be ignored. *)
(***************************************************************************)
EXTENDS Integers, FiniteSets

CONSTANTS
  PopenOptions,    \* the Options a wrapper may be built with
  PipeSize,        \* capacity of a pipe
  ReadBuffer,      \* read_buffer_size
  MaxWritten       \* bound: bytes the child writes to each stream

Streams == {"stdout", "stderr"}
PopenModes == {"kReadOnly", "kWriteOnly", "kReadWrite"}
OptionSet ==
  [mode: PopenModes, capture: BOOLEAN, timeout: BOOLEAN, callback: BOOLEAN,
   max: Nat, input: Nat, run: BOOLEAN]

\* Sizes are counts; a read asks for at least a byte.
ASSUME PopenAssumption ==
  /\ PipeSize \in Nat /\ ReadBuffer \in Nat \ {0} /\ MaxWritten \in Nat
  /\ PopenOptions \subseteq OptionSet

VARIABLES
  opts,        \* opts_; run says whether the caller uses Run or Start and Wait
  step,        \* what the caller's thread is doing
  fds,         \* the parent's open descriptors
  pipe,        \* bytes in the pipe of each stream
  offset,      \* bytes of stdin_data already written
  revents,     \* what the last poll reported
  aborting,    \* DriveIO's abort flag
  result,      \* the Result; handed counts what the caller read by chunks
  childPid_,   \* child_pid_ is valid
  child,       \* the child: its state and what it wrote and read
  timer,       \* the timer thread
  timedOut,    \* timed_out_
  timerPipe,   \* bytes in timer_pipe_
  refused      \* whether a callback has refused output

ioVars == <<fds, pipe, offset, revents, aborting>>
timerVars == <<timer, timedOut, timerPipe>>
popenVars == <<opts, step, ioVars, result, childPid_, child, timerVars, refused>>

needStdin == opts.mode \in {"kWriteOnly", "kReadWrite"}
Captured == (IF opts.mode = "kWriteOnly" THEN {} ELSE {"stdout"})
            \cup (IF opts.capture THEN {"stderr"} ELSE {})

PopenTypeOK ==
  /\ opts \in PopenOptions /\ opts \in OptionSet
  /\ step \in {"new", "stdin", "started", "poll", "stdout", "stderr", "feed",
               "write", "timer", "drain", "waitpid", "report", "cancel",
               "join", "dead", "over"}
  /\ fds \subseteq Streams \cup {"stdin", "timer0", "timer1"}
  /\ pipe \in [Streams \cup {"stdin"} -> 0..PipeSize]
  /\ offset \in 0..opts.input
  /\ revents \in [Streams \cup {"stdin", "timer"} -> {"no", "ready", "hup"}]
  /\ aborting \in BOOLEAN
  /\ result \in [stdout: Nat, stderr: Nat, handed: [Streams -> Nat],
                 truncated: BOOLEAN, timedOut: BOOLEAN,
                 ended: {"no", "exited", "signalled"}]
  /\ childPid_ \in BOOLEAN
  /\ child \in [state: {"none", "running", "doomed", "exited", "signalled",
                        "reaped"},
                stdout: 0..MaxWritten, stderr: 0..MaxWritten, read: Nat]
  /\ timer \in {"none", "timeout", "term", "grace", "kill", "tell", "done"}
  /\ timedOut \in BOOLEAN
  /\ timerPipe \in 0..3
  /\ refused \in BOOLEAN

PopenInit ==
  /\ opts \in PopenOptions
  /\ step = "new"
  /\ fds = {} /\ pipe = [s \in Streams \cup {"stdin"} |-> 0]
  /\ offset = 0
  /\ revents = [s \in Streams \cup {"stdin", "timer"} |-> "no"]
  /\ aborting = FALSE
  /\ result = [stdout |-> 0, stderr |-> 0, handed |-> [s \in Streams |-> 0],
               truncated |-> FALSE, timedOut |-> FALSE, ended |-> "no"]
  /\ childPid_ = FALSE
  /\ child = [state |-> "none", stdout |-> 0, stderr |-> 0, read |-> 0]
  /\ timer = "none" /\ timedOut = FALSE /\ timerPipe = 0
  /\ refused = FALSE

----------------------------------------------------------------------------
(* The child and the kernel. *)

ChildAlive == child.state \in {"running", "doomed"}
ChildDead == child.state \in {"exited", "signalled", "reaped"}

Struck(outcomes) ==
  IF child.state = "running"
  THEN \E s \in outcomes : child' = [child EXCEPT !.state = s]
  ELSE UNCHANGED child

SigTerm == Struck({"running", "doomed"})
SigKillChild == Struck({"doomed"})

ChildUntouched ==
  UNCHANGED <<opts, step, fds, offset, revents, aborting, result, childPid_,
              timerVars, refused>>

ChildWrites(s) ==
  /\ child.state = "running" /\ s \in Captured
  /\ pipe[s] < PipeSize /\ child[s] < MaxWritten
  /\ pipe' = [pipe EXCEPT ![s] = @ + 1]
  /\ child' = [child EXCEPT ![s] = @ + 1]
  /\ ChildUntouched

ChildReads ==
  /\ child.state = "running" /\ pipe["stdin"] > 0
  /\ pipe' = [pipe EXCEPT !["stdin"] = @ - 1]
  /\ child' = [child EXCEPT !.read = @ + 1]
  /\ ChildUntouched

ChildEnds ==
  /\ ChildAlive
  /\ child' = [child EXCEPT !.state =
                 IF @ = "doomed" THEN "signalled" ELSE "exited"]
  /\ UNCHANGED pipe
  /\ ChildUntouched

----------------------------------------------------------------------------
(* Start, and Run's feeding of stdin. *)

\* Pipes, fork and the parent's ends; then the timer thread.
ForkExec ==
  /\ step = "new"
  /\ fds' = (IF needStdin THEN {"stdin"} ELSE {}) \cup Captured
            \cup (IF opts.timeout THEN {"timer0", "timer1"} ELSE {})
  /\ childPid_' = TRUE
  /\ child' = [child EXCEPT !.state = "running"]
  /\ timer' = IF opts.timeout THEN "timeout" ELSE "none"
  /\ step' = IF opts.run THEN "stdin" ELSE "started"
  /\ UNCHANGED <<opts, pipe, offset, revents, aborting, result, timedOut,
                 timerPipe, refused>>

\* fork fails: the pipes are closed before the exception leaves Start.
ForkFails ==
  /\ step = "new"
  /\ step' = "over"
  /\ UNCHANGED <<opts, ioVars, result, childPid_, child, timerVars, refused>>

\* A blocking write ends when all is written, when the child is gone, or
\* early because a signal was handled.
WriteByte ==
  /\ pipe["stdin"] < PipeSize /\ offset < opts.input /\ ~ChildDead
  /\ pipe' = [pipe EXCEPT !["stdin"] = @ + 1]
  /\ offset' = offset + 1

WriteReturns ==
  /\ offset = opts.input \/ ChildDead \/ offset > 0
  /\ UNCHANGED <<pipe, offset>>

\* Run: stdin is closed at once when there is nothing to write, written and
\* closed in write-only mode, and left to DriveIO in read-write mode.
RunFeedsStdin ==
  /\ step = "stdin"
  /\ \/ /\ opts.mode = "kReadOnly" \/ (opts.mode = "kReadWrite" /\ opts.input > 0)
        /\ step' = "poll"
        /\ UNCHANGED <<pipe, offset, fds>>
     \/ /\ opts.mode = "kWriteOnly" /\ WriteByte
        /\ UNCHANGED <<step, fds>>
     \/ /\ opts.mode = "kWriteOnly" \/ (opts.mode = "kReadWrite" /\ opts.input = 0)
        /\ WriteReturns
        /\ fds' = fds \ {"stdin"}
        /\ step' = "poll"
  /\ UNCHANGED <<opts, revents, aborting, result, childPid_, child, timerVars,
                 refused>>

----------------------------------------------------------------------------
(* The asynchronous interface between Start and Wait. *)

\* ReadStdoutChunk and ReadStderrChunk block until there is data or EOF.
ReadChunk(s) ==
  /\ step = "started" /\ s \in fds
  /\ pipe[s] > 0 \/ ChildDead
  /\ LET n == IF pipe[s] < ReadBuffer THEN pipe[s] ELSE ReadBuffer
     IN  /\ pipe' = [pipe EXCEPT ![s] = @ - n]
         /\ result' = [result EXCEPT !.handed[s] = @ + n]
  /\ UNCHANGED <<opts, step, fds, offset, revents, aborting, childPid_, child,
                 timerVars, refused>>

CloseStdin ==
  /\ step = "started" /\ "stdin" \in fds
  /\ fds' = fds \ {"stdin"}
  /\ UNCHANGED <<opts, step, pipe, offset, revents, aborting, result,
                 childPid_, child, timerVars, refused>>

\* Terminate and Kill: child_pid_ is valid until Wait has reaped it.
SignalChild ==
  /\ step = "started" /\ childPid_
  /\ SigTerm \/ SigKillChild
  /\ UNCHANGED <<opts, step, ioVars, result, childPid_, timerVars, refused>>

Wait ==
  /\ step = "started"
  /\ step' = "poll"
  /\ UNCHANGED <<opts, ioVars, result, childPid_, child, timerVars, refused>>

\* The destructor of a started wrapper that was never waited for.
DestroyStarted ==
  /\ step = "started"
  /\ SigKillChild
  /\ step' = "dead"
  /\ UNCHANGED <<opts, ioVars, result, childPid_, timerVars, refused>>

\* waitpid, the cancelling byte, and then the join.
DestroyReaps ==
  /\ step = "dead"
  /\ child.state \in {"exited", "signalled"}
  /\ child' = [child EXCEPT !.state = "reaped"]
  /\ timerPipe' = IF "timer1" \in fds THEN timerPipe + 1 ELSE timerPipe
  /\ step' = "join"
  /\ UNCHANGED <<opts, ioVars, result, childPid_, timer, timedOut, refused>>

----------------------------------------------------------------------------
(* DriveIO. *)

Reported(s) ==
  CASE s \in Streams /\ s \in fds /\ ChildDead -> "hup"
    [] s \in Streams /\ s \in fds /\ pipe[s] > 0 -> "ready"
    [] s = "stdin" /\ s \in fds /\ offset < opts.input
         /\ (ChildDead \/ pipe[s] < PipeSize) -> "ready"
    [] s = "timer" /\ "timer0" \in fds /\ timerPipe > 0 -> "ready"
    [] OTHER -> "no"

Polled ==
  (fds \ {"stdin", "timer1"})
    \cup (IF offset < opts.input THEN fds \cap {"stdin"} ELSE {})

\* One round of the loop: poll blocks until something is ready, and with
\* nothing left to poll the loop ends.
Poll ==
  /\ step = "poll"
  /\ IF Polled = {}
     THEN step' = "drain" /\ UNCHANGED revents
     ELSE LET seen == [s \in DOMAIN revents |-> Reported(s)]
          IN  /\ \E s \in DOMAIN seen : seen[s] # "no"
              /\ revents' = seen
              /\ step' = "stdout"
  /\ UNCHANGED <<opts, fds, pipe, offset, aborting, result, childPid_, child,
                 timerVars, refused>>

\* Mutant: one buffer is read and the rest forgotten.
Avail_OneBuffer(s) ==
  IF pipe[s] < ReadBuffer THEN pipe[s] ELSE ReadBuffer

\* DrainFd reads whole buffers until one is short: all there is.
Avail(s) == pipe[s]

Space(s) == opts.max - result[s]

\* Once either stream was truncated, DrainFd stops after the first buffer.
Over(s) == opts.max > 0 /\ Avail(s) > Space(s)
Kept(s) ==
  LET read == IF result.truncated /\ Avail(s) > ReadBuffer
              THEN ReadBuffer ELSE Avail(s)
  IN  IF opts.max > 0 /\ read > Space(s) THEN Space(s) ELSE read

\* What DrainFd leaves in the result, and whether it returned true.
DrainFd(s, ok) ==
  /\ pipe' = [pipe EXCEPT ![s] = @ - Avail(s)]
  /\ \/ /\ opts.callback /\ ok = TRUE
        /\ result' = [result EXCEPT ![s] = @ + Avail(s)]
        /\ UNCHANGED refused
     \/ /\ opts.callback /\ Avail(s) > 0 /\ ok = FALSE
        /\ refused' = TRUE
        /\ UNCHANGED result
     \/ /\ ~opts.callback
        /\ ok = (Avail(s) = 0 \/ ~(result.truncated \/ Over(s)))
        /\ result' = [result EXCEPT ![s] = @ + Kept(s),
                                    !.truncated = @ \/ Over(s)]
        /\ UNCHANGED refused

AfterStream(s) == IF s = "stdout" THEN "stderr" ELSE "feed"

HandleStream(s) ==
  /\ step = s
  /\ IF revents[s] # "no" /\ s \in fds
     THEN \E ok \in BOOLEAN :
            /\ DrainFd(s, ok)
            /\ fds' = IF ~ok \/ revents[s] = "hup" THEN fds \ {s} ELSE fds
            /\ aborting' = (aborting \/ ~ok)
     ELSE UNCHANGED <<pipe, result, refused, fds, aborting>>
  /\ step' = AfterStream(s)
  /\ UNCHANGED <<opts, offset, revents, childPid_, child, timerVars>>

\* stdin is blocking: write does not return before it has to.
FeedStdin ==
  /\ step = "feed"
  /\ step' = IF revents["stdin"] # "no" /\ "stdin" \in fds
             THEN "write" ELSE "timer"
  /\ UNCHANGED <<opts, ioVars, result, childPid_, child, timerVars, refused>>

\* All written, or the write failed.
StdinDone == offset = opts.input \/ ChildDead

WriteStdin ==
  /\ step = "write"
  /\ \/ WriteByte /\ UNCHANGED <<step, fds>>
     \/ /\ WriteReturns
        /\ fds' = IF StdinDone THEN fds \ {"stdin"} ELSE fds
        /\ step' = "timer"
  /\ UNCHANGED <<opts, revents, aborting, result, childPid_, child, timerVars,
                 refused>>

\* The timer's byte aborts; an abort that is not the timer's terminates the
\* child; the loop ends when every stream is closed.
EndRound ==
  /\ step = "timer"
  /\ LET abort == aborting \/ revents["timer"] # "no"
         closed == fds \cap (Streams \cup {"stdin"}) = {}
     IN  /\ aborting' = abort
         /\ IF abort /\ ~timedOut THEN SigTerm ELSE UNCHANGED child
         /\ step' = IF abort \/ closed THEN "drain" ELSE "poll"
  /\ revents' = [s \in DOMAIN revents |-> "no"]
  /\ UNCHANGED <<opts, fds, pipe, offset, result, childPid_, timerVars, refused>>

\* What is left in the streams still open, and the closing of them all.
FinalDrain ==
  /\ step = "drain"
  /\ \/ \E s \in Streams \cap fds, ok \in BOOLEAN :
          /\ s = "stdout" \/ "stdout" \notin fds
          /\ DrainFd(s, ok)
          /\ fds' = fds \ {s}
          /\ UNCHANGED step
     \/ /\ Streams \cap fds = {}
        /\ fds' = fds \ {"stdin"}
        /\ step' = "waitpid"
        /\ UNCHANGED <<pipe, result, refused>>
  /\ UNCHANGED <<opts, offset, revents, aborting, childPid_, child, timerVars>>

----------------------------------------------------------------------------
(* The end of Wait. *)

\* WNOHANG in a loop, then a blocking wait: both end when the child has.
WaitpidWithTimeout ==
  /\ step = "waitpid"
  /\ child.state \in {"exited", "signalled"}
  /\ result' = [result EXCEPT !.ended = child.state]
  /\ child' = [child EXCEPT !.state = "reaped"]
  /\ childPid_' = FALSE
  /\ step' = "report"
  /\ UNCHANGED <<opts, ioVars, timerVars, refused>>

ReportTimeout ==
  /\ step = "report"
  /\ result' = [result EXCEPT !.timedOut = timedOut]
  /\ step' = IF timer = "none" THEN "join" ELSE "cancel"
  /\ UNCHANGED <<opts, ioVars, childPid_, child, timerVars, refused>>

\* The write end is closed before the timer thread is joined.
CancelTimer ==
  /\ step = "cancel"
  /\ timerPipe' = timerPipe + 1
  /\ fds' = fds \ {"timer1"}
  /\ step' = "join"
  /\ UNCHANGED <<opts, pipe, offset, revents, aborting, result, childPid_,
                 child, timer, timedOut, refused>>

AfterJoin == {}

JoinTimer ==
  /\ step = "join"
  /\ timer \in {"none", "done"}
  /\ fds' = AfterJoin
  /\ timer' = "none"
  /\ step' = "over"
  /\ UNCHANGED <<opts, pipe, offset, revents, aborting, result, childPid_,
                 child, timedOut, timerPipe, refused>>

----------------------------------------------------------------------------
(* RunTimer. *)

TimerUntouched ==
  UNCHANGED <<opts, step, ioVars, result, childPid_>>

\* poll on the read end: a byte cancels, otherwise the time runs out.
TimerPoll ==
  /\ timer = "timeout"
  /\ \/ timerPipe > 0 /\ timer' = "done" /\ UNCHANGED timedOut
     \/ timerPipe = 0 /\ timer' = "term" /\ timedOut' = TRUE
  /\ UNCHANGED <<child, timerPipe, refused>>
  /\ TimerUntouched

TimerTerm ==
  /\ timer = "term"
  /\ SigTerm
  /\ timer' = "grace"
  /\ UNCHANGED <<timedOut, timerPipe, refused>>
  /\ TimerUntouched

TimerGrace ==
  /\ timer = "grace"
  /\ timer' = IF timerPipe > 0 THEN "tell" ELSE "kill"
  /\ UNCHANGED <<child, timedOut, timerPipe, refused>>
  /\ TimerUntouched

TimerKill ==
  /\ timer = "kill"
  /\ SigKillChild
  /\ timer' = "tell"
  /\ UNCHANGED <<timedOut, timerPipe, refused>>
  /\ TimerUntouched

\* The write goes to the number of a descriptor that may have been closed.
TimerTell ==
  /\ timer = "tell"
  /\ timerPipe' = IF "timer1" \in fds THEN timerPipe + 1 ELSE timerPipe
  /\ timer' = "done"
  /\ UNCHANGED <<child, timedOut, refused>>
  /\ TimerUntouched

----------------------------------------------------------------------------

CallerRuns ==
  \/ RunFeedsStdin \/ Poll \/ (\E s \in Streams : HandleStream(s))
  \/ FeedStdin \/ WriteStdin \/ EndRound \/ FinalDrain \/ WaitpidWithTimeout
  \/ ReportTimeout \/ CancelTimer \/ JoinTimer \/ DestroyReaps

CallerCalls ==
  \/ ForkExec \/ ForkFails \/ (\E s \in Streams : ReadChunk(s))
  \/ CloseStdin \/ SignalChild \/ Wait \/ DestroyStarted

TimerRuns == TimerPoll \/ TimerTerm \/ TimerGrace \/ TimerKill \/ TimerTell

ChildRuns == (\E s \in Streams : ChildWrites(s)) \/ ChildReads \/ ChildEnds

PopenNext == CallerRuns \/ CallerCalls \/ TimerRuns \/ ChildRuns

PopenSpec == PopenInit /\ [][PopenNext]_popenVars

\* The parent's threads run, and a killed child dies.  Nothing else is
\* expected of the child.
PopenFairness ==
  /\ WF_popenVars(CallerRuns)
  /\ WF_popenVars(TimerRuns)
  /\ WF_popenVars(child.state = "doomed" /\ ChildEnds)

----------------------------------------------------------------------------
(* Properties. *)

\* Unless the output was cut by the limit, by a callback or by the timeout,
\* the result holds every byte the child wrote before it ended and the caller
\* has not read by chunks; it never holds more than max_output_bytes, and
\* exactly that when it is marked truncated (DrainFd, closing on POLLHUP).
OutputComplete ==
  result.ended # "no" =>
    /\ (~aborting /\ ~refused /\ ~result.truncated) =>
         \A s \in Captured : result[s] + result.handed[s] = child[s]
    /\ (opts.max > 0 /\ ~opts.callback) =>
         \A s \in Captured : result[s] <= opts.max
    /\ result.truncated =>
         \E s \in Captured : result[s] = opts.max /\ child[s] > opts.max

\* In read-write mode the child sees EOF on stdin only after all of
\* stdin_data, however the writes are cut up, unless the exchange was aborted
\* or the child is gone (DriveIO, line 656).
EofAfterAllInput ==
  (/\ opts.mode = "kReadWrite" /\ opts.run
   /\ "stdin" \notin fds /\ ChildAlive /\ ~aborting
   /\ step \notin {"new", "over"}) => offset = opts.input

\* When Wait or the destructor is done, the child is reaped, every
\* descriptor is closed and no timer thread is left.
AllReleased ==
  step = "over" => fds = {} /\ timer = "none" /\ child.state \in {"none", "reaped"}

\* All of the input goes in, all of the output comes out, nothing is left.
PopenIntact == PopenTypeOK /\ OutputComplete /\ EofAfterAllInput /\ AllReleased

\* Writing stdin_data and reading the output are interleaved, so the parent
\* is never blocked writing to a child that is blocked writing to it.
NoPipeFullDeadlock ==
  ~(/\ step = "write" /\ pipe["stdin"] = PipeSize /\ offset < opts.input
    /\ "stdout" \in fds /\ pipe["stdout"] = PipeSize)

\* A timeout ends the wait: whatever the child does, and even if it ignores
\* SIGTERM and never reads or writes, Wait returns and the destructor ends.
WaitReturns ==
  (opts.timeout /\ step \notin {"new", "started"}) ~> step = "over"
=============================================================================
