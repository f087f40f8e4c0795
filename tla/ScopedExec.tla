----------------------------- MODULE ScopedExec -----------------------------
(***************************************************************************)
(* The scope guard of yacul/misc/scoped_exec.h, with ThreadSafePolicy.     *)
(*                                                                         *)
(* A method takes the mutex, exchanges what the guard stores, releases the *)
(* mutex, and only then runs the functor it took out: the first part is    *)
(* one action, running is another, and a running functor may itself call   *)
(* into any guard.  With UnsafePolicy the same steps happen unlocked in    *)
(* one thread.  A destructor that runs a functor ends when the functor     *)
(* returns: until then the guard exists, and the functor may still call    *)
(* into it.                                                                *)
(***************************************************************************)
EXTENDS Integers, Sequences

CONSTANTS Threads, Guards, Functors,
          NoFn,          \* the empty std::function
          MaxNesting     \* bound: functors a thread is inside of

ASSUME ScopedExecAssumption == NoFn \notin Functors

VARIABLES made,     \* constructed guards
          fn,       \* fn_
          armed,    \* armed_
          stack,    \* per thread: the functors it has taken out, innermost
                    \* first, each with whether it is running
          ending,   \* destructors inside their functor: the guard, the thread
                    \* and the height of the functor on its stack
          runs,     \* ghost: how often each functor was started
          released  \* ghost: functors handed back by release()

execVars == <<made, fn, armed, stack, ending, runs, released>>

ExecInit ==
  /\ made = {}
  /\ fn = [g \in Guards |-> NoFn]
  /\ armed = [g \in Guards |-> FALSE]
  /\ stack = [t \in Threads |-> <<>>]
  /\ ending = {}
  /\ runs = [f \in Functors |-> 0]
  /\ released = {}

Taken == UNION {{stack[t][i].fn : i \in DOMAIN stack[t]} : t \in Threads}
Registered == {fn[g] : g \in made} \ {NoFn}

\* Functors nobody has registered yet.  A std::function may be empty.
New == {f \in Functors : runs[f] = 0} \ (Taken \cup Registered \cup released)
Callables == New \cup {NoFn}

\* The caller keeps a guard alive while others use it, so from the start of
\* ~ScopedExec only the functor that it runs can reach the guard.
Usable(t, g) == g \in made /\ \A e \in ending : e.guard = g => e.by = t

\* Thread t may make a call: from outside, or from a running functor.
MayCall(t) ==
  /\ Len(stack[t]) < MaxNesting
  /\ stack[t] # <<>> => Head(stack[t]).running

\* t will run f next, unless it is empty.
WillRun(t, f) ==
  stack' = IF f = NoFn THEN stack
           ELSE [stack EXCEPT ![t] = <<[fn |-> f, running |-> FALSE]>> \o @]

\* The functor an armed guard gives up.
Old(g) == IF armed[g] THEN fn[g] ELSE NoFn

ConstructGuard(g, f) ==
  /\ g \notin made
  /\ made' = made \cup {g}
  /\ fn' = [fn EXCEPT ![g] = f]
  /\ armed' = [armed EXCEPT ![g] = (f # NoFn)]
  /\ UNCHANGED <<stack, ending, runs, released>>

\* Mutant: the guard stays armed while the functor runs.
ExtractIfArmed_StaysArmed(t, g) ==
  /\ WillRun(t, Old(g))
  /\ UNCHANGED <<fn, armed>>

\* ExtractIfArmed, with the caller that runs what it returns.
ExtractIfArmed(t, g) ==
  /\ WillRun(t, Old(g))
  /\ fn' = IF armed[g] THEN [fn EXCEPT ![g] = NoFn] ELSE fn
  /\ armed' = [armed EXCEPT ![g] = FALSE]

Invoke(t, g) ==
  /\ Usable(t, g) /\ MayCall(t)
  /\ ExtractIfArmed(t, g)
  /\ UNCHANGED <<made, ending, runs, released>>

\* ~ScopedExec, up to the call of the functor if there is one.
Destruct(t, g) ==
  /\ g \in made /\ (\A e \in ending : e.guard # g) /\ MayCall(t)
  /\ ExtractIfArmed(t, g)
  /\ IF Old(g) = NoFn
     THEN made' = made \ {g} /\ UNCHANGED ending
     ELSE /\ ending' = ending \cup
                [guard: {g}, by: {t}, depth: {Len(stack[t]) + 1}]
          /\ UNCHANGED made
  /\ UNCHANGED <<runs, released>>

ReleaseFn(t, g) ==
  /\ Usable(t, g) /\ MayCall(t)
  /\ released' = released \cup ({fn[g]} \ {NoFn})
  /\ fn' = [fn EXCEPT ![g] = NoFn]
  /\ armed' = [armed EXCEPT ![g] = FALSE]
  /\ UNCHANGED <<made, stack, ending, runs>>

\* reset(fn), and reset() where f is NoFn.
ResetFn(t, g, f) ==
  /\ Usable(t, g) /\ MayCall(t)
  /\ WillRun(t, Old(g))
  /\ fn' = [fn EXCEPT ![g] = f]
  /\ armed' = [armed EXCEPT ![g] = (f # NoFn)]
  /\ UNCHANGED <<made, ending, runs, released>>

\* MoveConstruct where g is new, operator= where it is not: both guards are
\* locked, and g's own functor runs after the transfer.
MoveGuard(t, g, other) ==
  /\ Usable(t, other) /\ g # other /\ (g \in made => Usable(t, g))
  /\ MayCall(t)
  /\ made' = made \cup {g}
  /\ WillRun(t, Old(g))
  /\ fn' = [fn EXCEPT ![g] = fn[other], ![other] = NoFn]
  /\ armed' = [armed EXCEPT ![g] = armed[other], ![other] = FALSE]
  /\ UNCHANGED <<ending, runs, released>>

\* The functor taken out is called, outside the mutex.
RunFn(t) ==
  /\ stack[t] # <<>> /\ ~Head(stack[t]).running
  /\ stack' = [stack EXCEPT ![t] = <<[Head(@) EXCEPT !.running = TRUE]>> \o Tail(@)]
  /\ runs' = [runs EXCEPT ![Head(stack[t]).fn] = @ + 1]
  /\ UNCHANGED <<made, fn, armed, ending, released>>

\* The destructor that t's innermost functor belongs to, if any.
Ending(t) == {e \in ending : e.by = t /\ e.depth = Len(stack[t])}
Ended(t) == {e.guard : e \in Ending(t)}

\* It returns or throws; ~ScopedExec swallows the exception, others pass it
\* on.  With the destructor go the guard's members: what the functor stored
\* in its own guard meanwhile is destroyed with fn_ and never called.
FnReturns(t) ==
  /\ stack[t] # <<>> /\ Head(stack[t]).running
  /\ stack' = [stack EXCEPT ![t] = Tail(@)]
  /\ made' = made \ Ended(t)
  /\ fn' = [g \in Guards |-> IF g \in Ended(t) THEN NoFn ELSE fn[g]]
  /\ armed' = [g \in Guards |-> armed[g] /\ g \notin Ended(t)]
  /\ ending' = ending \ Ending(t)
  /\ UNCHANGED <<runs, released>>

ExecNext ==
  \/ \E g \in Guards, f \in Callables : ConstructGuard(g, f)
  \/ \E t \in Threads, g \in Guards :
       \/ Invoke(t, g)
       \/ Destruct(t, g)
       \/ ReleaseFn(t, g)
       \/ \E f \in Callables : ResetFn(t, g, f)
       \/ \E other \in Guards : MoveGuard(t, g, other)
  \/ \E t \in Threads : RunFn(t) \/ FnReturns(t)

ExecSpec == ExecInit /\ [][ExecNext]_execVars

-----------------------------------------------------------------------------
\* "The functor is guaranteed to execute at most once" (scoped_exec.h:93),
\* whatever threads and nested calls race for it.
AtMostOnce == \A f \in Functors : runs[f] <= 1

\* t has taken f out and not started it.
WillStart(t, f) ==
  stack[t] # <<>> /\ ~Head(stack[t]).running /\ Head(stack[t]).fn = f

Pending(f) ==
  (\E g \in made : fn[g] = f) \/ (\E t \in Threads : WillStart(t, f))

\* The destructor of a guard ends with f in it.
EndsHolding(f) == \E e \in ending : fn[e.guard] = f /\ e.guard \notin made'

\* No functor is lost, but for one: a functor that was registered stays in a
\* guard, or with the thread that will run it, until it runs or release()
\* hands it back, whoever moves, resets or destroys guards.  The exception is
\* a functor with which the one run by ~ScopedExec re-armed its own guard, as
\* the comment at scoped_exec.h:95-97 allows: the destructor (228-236) does
\* not look at the guard again, so that functor never runs.
NoneDropped ==
  [][\A f \in Functors :
       Pending(f) => \/ Pending(f)' \/ EndsHolding(f)
                     \/ f \in released' \/ runs'[f] = runs[f] + 1]_execVars
=============================================================================
