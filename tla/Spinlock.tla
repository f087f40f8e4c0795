------------------------------ MODULE Spinlock ------------------------------
(***************************************************************************)
(* The test-and-set lock of yacul/concurrency/spinlock.{h,cc}.             *)
(*                                                                         *)
(* One action is one access to the atomic flag locked_.  Between the load  *)
(* that sees the flag clear and the exchange that takes it anything may    *)
(* happen.  The pauses, yields and sleeps of SpinWait only pass time: both *)
(* of its phases end when a load finds the flag clear.                     *)
(***************************************************************************)
CONSTANT Spinners   \* threads that share the lock

VARIABLES locked,   \* locked_
          at        \* where each thread is

spinVars == <<locked, at>>

SpinInit ==
  /\ locked = FALSE
  /\ at = [t \in Spinners |-> "idle"]

\* locked_.exchange(true): the thread goes on as owner if the flag was clear.
Exchange(t, otherwise) ==
  /\ locked' = TRUE
  /\ at' = [at EXCEPT ![t] = IF locked THEN otherwise ELSE "held"]

\* lock(), the fast path.
LockSpin(t) ==
  /\ at[t] = "idle"
  /\ Exchange(t, "spinning")

\* SpinWait() returns.
SpinWait(t) ==
  /\ at[t] = "spinning"
  /\ ~locked
  /\ at' = [at EXCEPT ![t] = "retrying"]
  /\ UNCHANGED locked

\* Mutant: the flag that was seen clear is taken for still clear.
Retry_Store(t) ==
  /\ at[t] = "retrying"
  /\ locked' = TRUE
  /\ at' = [at EXCEPT ![t] = "held"]

\* The exchange that closes the loop of lock().
Retry(t) ==
  /\ at[t] = "retrying"
  /\ Exchange(t, "spinning")

\* try_lock(), the load; a set flag returns false at once.
TryLock(t) ==
  /\ at[t] = "idle"
  /\ ~locked
  /\ at' = [at EXCEPT ![t] = "trying"]
  /\ UNCHANGED locked

\* try_lock(), the exchange.
TryExchange(t) ==
  /\ at[t] = "trying"
  /\ Exchange(t, "idle")

\* unlock(), called by the owner.
UnlockSpin(t) ==
  /\ at[t] = "held"
  /\ locked' = FALSE
  /\ at' = [at EXCEPT ![t] = "idle"]

SpinNext ==
  \E t \in Spinners :
    \/ LockSpin(t)
    \/ SpinWait(t)
    \/ Retry(t)
    \/ TryLock(t)
    \/ TryExchange(t)
    \/ UnlockSpin(t)

SpinSpec == SpinInit /\ [][SpinNext]_spinVars

-----------------------------------------------------------------------------
(* Properties. *)

SpinTypeOK ==
  /\ locked \in BOOLEAN
  /\ at \in [Spinners -> {"idle", "spinning", "retrying", "trying", "held"}]

\* One owner at a time, though several threads may have seen the flag clear.
MutualExclusion ==
  \A t, u \in Spinners : at[t] = "held" /\ at[u] = "held" => t = u

\* The flag is set exactly while there is an owner: the exchanges of losing
\* threads neither leave the flag set behind the owner nor clear it.
LockedIffHeld == locked <=> \E t \in Spinners : at[t] = "held"
=============================================================================
