----------------------------- MODULE TokenBucket ----------------------------
(***************************************************************************)
(* The rate limiter of yacul/qos/token_bucket.{h,cc}.  Every operation     *)
(* holds the spin lock from beginning to end and is one step.  Tokens are  *)
(* counted in whole units (the code's doubles round, the model does not)   *)
(* and the clock in ticks worth Rate tokens each.                          *)
(*                                                                         *)
(* An observer may open a window at any time; granted and credit are what  *)
(* the bucket gave out and was given by hand since then.                   *)
(***************************************************************************)
EXTENDS Integers

CONSTANTS Rate,      \* rate_
          Cap,       \* capacity_
          Amounts,   \* what callers ask for
          MaxTime,   \* bound on the clock
          MaxCredit  \* bound on what callers add by hand within a window

ASSUME TokenBucketAssumption ==
  /\ Rate \in Nat \ {0} /\ Cap \in Nat \ {0}
  /\ Amounts \subseteq Nat \ {0}
  /\ MaxTime \in Nat /\ MaxCredit \in Nat

VARIABLES tokens,   \* tokens_
          last,     \* last_refill_ns_
          now,      \* steady_clock
          start, granted, credit  \* the observer's window

window == <<start, granted, credit>>
bucketVars == <<tokens, last, now, window>>

Least(m, n) == IF m <= n THEN m ELSE n

BucketInit ==
  /\ tokens = Cap
  /\ now = 0 /\ last = 0
  /\ start = 0 /\ granted = 0 /\ credit = 0

\* tokens_ after RefillLocked: the elapsed time is cut to one full bucket and
\* the sum to the capacity.
Refilled == Least(tokens + Least((now - last) * Rate, Cap), Cap)

\* Mutant: the time stamp stays, so that elapsed time is credited again.
RefillLocked_KeepsStamp(taken) ==
  /\ tokens' = Refilled - taken
  /\ UNCHANGED last

\* RefillLocked, then the debit.
RefillLocked(taken) ==
  /\ tokens' = Refilled - taken
  /\ last' = now

\* TryConsume; a refused caller has refilled the bucket all the same.
TryConsume(k) ==
  /\ \/ /\ Refilled >= k
        /\ RefillLocked(k)
        /\ granted' = granted + k
     \/ /\ Refilled < k
        /\ RefillLocked(0)
        /\ UNCHANGED granted
  /\ UNCHANGED <<now, start, credit>>

\* Mutant: the elapsed time not yet credited is lost.
Refill_Stamps(k) ==
  /\ credit + k <= MaxCredit
  /\ tokens' = Least(tokens + k, Cap) /\ last' = now
  /\ credit' = credit + k
  /\ UNCHANGED <<now, start, granted>>

\* Refill, which leaves the time stamp alone.
Refill(k) ==
  /\ credit + k <= MaxCredit
  /\ tokens' = Least(tokens + k, Cap)
  /\ credit' = credit + k
  /\ UNCHANGED <<last, now, start, granted>>

Reset ==
  /\ credit + Cap - Refilled <= MaxCredit
  /\ tokens' = Cap /\ last' = now
  /\ credit' = credit + Cap - Refilled
  /\ UNCHANGED <<now, start, granted>>

CurrentTokens ==
  /\ RefillLocked(0)
  /\ UNCHANGED <<now, window>>

Tick ==
  /\ now < MaxTime
  /\ now' = now + 1
  /\ UNCHANGED <<tokens, last, window>>

OpenWindow ==
  /\ start' = now /\ granted' = 0 /\ credit' = 0
  /\ UNCHANGED <<tokens, last, now>>

BucketNext ==
  \/ \E k \in Amounts : TryConsume(k) \/ Refill(k)
  \/ Reset
  \/ CurrentTokens
  \/ Tick
  \/ OpenWindow

BucketSpec == BucketInit /\ [][BucketNext]_bucketVars

-----------------------------------------------------------------------------
(* Properties. *)

\* The range of every variable; tokens_ is never negative and never above the
\* capacity.
BucketTypeOK ==
  /\ tokens \in 0..Cap
  /\ now \in 0..MaxTime /\ last \in 0..now /\ start \in 0..now
  /\ granted \in Nat /\ credit \in 0..MaxCredit

\* token_bucket.h, "Tokens accumulate at 'rate' tokens/second up to 'capacity'":
\* in any window the bucket gives out no more than one burst and what the
\* window's length is worth, besides what was added by hand, however the calls
\* that refill it lazily are spaced.
RateConforms == granted <= Cap + (now - start) * Rate + credit

\* The lazily refilled bucket implements the one that fills by itself: calls
\* that fail, and calls that only look, change nothing.
Abstract == INSTANCE RateBucket WITH level <- Refilled
ImplementsRateBucket == Abstract!Spec
=============================================================================
