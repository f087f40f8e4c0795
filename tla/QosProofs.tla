------------------------------ MODULE QosProofs ------------------------------
(***************************************************************************)
(* The rate limiting of src/yacul/qos/: the depth counters of Qos and the  *)
(* limit they enforce, for any number of producers, consumers, levels and  *)
(* items; and the token bucket, for every rate, capacity and set of        *)
(* requested amounts.                                                      *)
(*                                                                         *)
(* The spin lock excludes any number of threads, which makes each call of  *)
(* the token bucket a single step; the token bucket conforms to its rate   *)
(* in every window and implements the bucket that fills by itself.         *)
(*                                                                         *)
(* An item is counted by its queue, or by the one thread that has it and   *)
(* has not updated the counters yet.  QosInv says which thread has which   *)
(* item; BalanceInv relates the counters to both.  The limit then follows  *)
(* from a count of the producers that have passed the capacity check and   *)
(* not put their item into the queue.                                      *)
(***************************************************************************)
EXTENDS Qos, TokenBucket, Spinlock, FiniteSetTheorems, TLAPS

-----------------------------------------------------------------------------
(* The spin lock. *)

\* MutualExclusion is not inductive alone: that nobody owns a clear lock is
\* what an exchange needs.
SpinInv == SpinTypeOK /\ MutualExclusion /\ LockedIffHeld

\* The inductive invariant: every access to locked_ keeps it.
THEOREM SpinlockInvariant == SpinSpec => []SpinInv
<1>1. SpinInit => SpinInv
  BY DEF SpinInit, SpinInv, SpinTypeOK, MutualExclusion, LockedIffHeld
<1>2. SpinInv /\ [SpinNext]_spinVars => SpinInv'
  <2> SUFFICES ASSUME SpinInv, [SpinNext]_spinVars PROVE SpinInv'
    OBVIOUS
  <2>1. CASE UNCHANGED spinVars
    BY <2>1 DEF SpinInv, SpinTypeOK, MutualExclusion, LockedIffHeld, spinVars
  <2>2. ASSUME NEW t \in Spinners, LockSpin(t) PROVE SpinInv'
    BY <2>2 DEF SpinInv, SpinTypeOK, MutualExclusion, LockedIffHeld, LockSpin, Exchange
  <2>3. ASSUME NEW t \in Spinners, SpinWait(t) PROVE SpinInv'
    BY <2>3 DEF SpinInv, SpinTypeOK, MutualExclusion, LockedIffHeld, SpinWait
  <2>4. ASSUME NEW t \in Spinners, Retry(t) PROVE SpinInv'
    BY <2>4 DEF SpinInv, SpinTypeOK, MutualExclusion, LockedIffHeld, Retry, Exchange
  <2>5. ASSUME NEW t \in Spinners, TryLock(t) PROVE SpinInv'
    BY <2>5 DEF SpinInv, SpinTypeOK, MutualExclusion, LockedIffHeld, TryLock
  <2>6. ASSUME NEW t \in Spinners, TryExchange(t) PROVE SpinInv'
    BY <2>6 DEF SpinInv, SpinTypeOK, MutualExclusion, LockedIffHeld, TryExchange,
                Exchange
  <2>7. ASSUME NEW t \in Spinners, UnlockSpin(t) PROVE SpinInv'
    BY <2>7 DEF SpinInv, SpinTypeOK, MutualExclusion, LockedIffHeld, UnlockSpin
  <2> QED
    BY <2>1, <2>2, <2>3, <2>4, <2>5, <2>6, <2>7 DEF SpinNext
<1> QED
  BY <1>1, <1>2, PTL DEF SpinSpec

\* At most one thread is between lock() or a successful try_lock() and unlock().
THEOREM SpinlockMutualExclusion == SpinSpec => []MutualExclusion
BY SpinlockInvariant, PTL DEF SpinInv

\* is_locked() is exact, and unlock() by the owner always frees the lock.
THEOREM SpinlockFlagIsExact == SpinSpec => []LockedIffHeld
BY SpinlockInvariant, PTL DEF SpinInv

-----------------------------------------------------------------------------
(* The token bucket. *)

\* What the window's bound needs: the tokens still in the bucket are within it
\* too.
BudgetCovers == Refilled + granted <= Cap + (now - start) * Rate + credit

BucketInv == BucketTypeOK /\ BudgetCovers

\* The elapsed time is worth a natural number of tokens, one tick Rate more.
LEMMA Elapsed ==
  ASSUME NEW r \in Nat, NEW d \in Nat
  PROVE  /\ d * r \in Nat
         /\ (d + 1) * r = d * r + r
         /\ 0 * r = 0
  OBVIOUS

\* Cutting the elapsed time to one full bucket changes nothing, as the sum is
\* cut as well; the level stays within the bucket.
LEMMA LevelBounds ==
  ASSUME BucketTypeOK
  PROVE  /\ Refilled \in 0..Cap
         /\ Refilled = Least(tokens + (now - last) * Rate, Cap)
         /\ tokens <= Refilled
<1>1. now - last \in Nat /\ Rate \in Nat /\ Cap \in Nat
  BY TokenBucketAssumption DEF BucketTypeOK
<1>2. (now - last) * Rate \in Nat
  BY <1>1, Elapsed
<1>3. QED
  BY <1>1, <1>2 DEF BucketTypeOK, Refilled, Least

\* A step preserves the types.
LEMMA TypeStep ==
  ASSUME BucketTypeOK, [BucketNext]_bucketVars
  PROVE  BucketTypeOK'
<1> USE TokenBucketAssumption
<1>1. Refilled \in 0..Cap
  BY LevelBounds
<1>2. ASSUME NEW k \in Amounts, TryConsume(k)
      PROVE  BucketTypeOK'
  BY <1>1, <1>2 DEF BucketTypeOK, TryConsume, RefillLocked
<1>3. ASSUME NEW k \in Amounts, Refill(k)
      PROVE  BucketTypeOK'
  BY <1>3 DEF BucketTypeOK, Refill, Least
<1>4. CASE Reset
  BY <1>1, <1>4 DEF BucketTypeOK, Reset
<1>5. CASE CurrentTokens
  BY <1>1, <1>5 DEF BucketTypeOK, CurrentTokens, RefillLocked, window
<1>6. CASE Tick
  BY <1>6 DEF BucketTypeOK, Tick, window
<1>7. CASE OpenWindow
  BY <1>7 DEF BucketTypeOK, OpenWindow
<1>8. CASE UNCHANGED bucketVars
  BY <1>8 DEF BucketTypeOK, bucketVars, window
<1>9. QED
  BY <1>2, <1>3, <1>4, <1>5, <1>6, <1>7, <1>8 DEF BucketNext

\* A call that refills and takes k leaves the level lower by k.
LEMMA LevelAfterRefill ==
  ASSUME BucketTypeOK, BucketTypeOK', NEW k \in Nat, k <= Refilled,
         RefillLocked(k), UNCHANGED now
  PROVE  Refilled' = Refilled - k
<1> USE TokenBucketAssumption
<1>1. Refilled \in 0..Cap /\ Rate \in Nat
  BY LevelBounds
<1>2. now' - last' = 0 /\ tokens' = Refilled - k
  BY DEF RefillLocked, BucketTypeOK
<1>3. (now' - last') * Rate = 0
  BY <1>1, <1>2, Elapsed
<1>4. Refilled' = Least(tokens' + Least(0, Cap), Cap)
  BY <1>3 DEF Refilled
<1>5. QED
  BY <1>1, <1>2, <1>4 DEF Least

\* Time that passes, and tokens added by hand, raise the level up to the
\* capacity.
LEMMA LevelAfterTick ==
  ASSUME BucketTypeOK, Tick
  PROVE  Refilled' = Least(Refilled + Rate, Cap)
<1> USE TokenBucketAssumption
<1> DEFINE e == (now - last) * Rate
           f == (now' - last') * Rate
<1>1. now - last \in Nat /\ now' - last' = (now - last) + 1
  BY DEF Tick, BucketTypeOK
<1>2. e \in Nat /\ f = e + Rate
  BY <1>1, Elapsed
<1>3. Refilled = Least(tokens + Least(e, Cap), Cap)
  BY DEF Refilled
<1>4. Refilled' = Least(tokens + Least(f, Cap), Cap)
  BY DEF Refilled, Tick
<1>5. tokens \in Nat /\ tokens <= Cap
  BY DEF BucketTypeOK
<1> HIDE DEF e, f
<1>6. QED
  BY <1>2, <1>3, <1>4, <1>5 DEF Least

LEMMA LevelAfterCredit ==
  ASSUME BucketTypeOK, NEW k \in Amounts, Refill(k)
  PROVE  Refilled' = Least(Refilled + k, Cap)
<1> USE TokenBucketAssumption
<1> DEFINE e == (now - last) * Rate
<1>1. now - last \in Nat
  BY DEF BucketTypeOK
<1>2. e \in Nat
  BY <1>1, Elapsed
<1>3. Refilled = Least(tokens + Least(e, Cap), Cap)
  BY DEF Refilled
<1>4. Refilled' = Least(Least(tokens + k, Cap) + Least(e, Cap), Cap)
  BY DEF Refilled, Refill
<1>5. tokens \in Nat /\ tokens <= Cap /\ k \in Nat
  BY DEF BucketTypeOK
<1> HIDE DEF e
<1>6. QED
  BY <1>2, <1>3, <1>4, <1>5 DEF Least

LEMMA LevelAfterReset ==
  ASSUME BucketTypeOK, BucketTypeOK', Reset
  PROVE  Refilled' = Cap
<1> USE TokenBucketAssumption
<1>1. now' - last' = 0 /\ tokens' = Cap
  BY DEF Reset, BucketTypeOK
<1>2. (now' - last') * Rate = 0
  BY <1>1, Elapsed
<1>3. QED
  BY <1>1, <1>2 DEF Refilled, Least

\* The window's budget is kept by every step.
LEMMA BudgetStep ==
  ASSUME BucketInv, BucketTypeOK', [BucketNext]_bucketVars
  PROVE  BudgetCovers'
<1> USE TokenBucketAssumption
<1> DEFINE w == (now - start) * Rate
<1>1. BucketTypeOK /\ Refilled + granted <= Cap + w + credit
  BY DEF BucketInv, BudgetCovers
<1>2. Refilled \in 0..Cap /\ w \in Nat
  <2>1. now - start \in Nat
    BY <1>1 DEF BucketTypeOK
  <2>2. QED
    BY <1>1, <2>1, LevelBounds, Elapsed
<1>3. granted \in Nat /\ credit \in Nat
  BY <1>1 DEF BucketTypeOK
<1>4. ASSUME NEW k \in Amounts, TryConsume(k)
      PROVE  BudgetCovers'
  <2>1. (now' - start') * Rate = w /\ credit' = credit
    BY <1>4 DEF TryConsume
  <2>2. k \in Nat
    OBVIOUS
  <2> HIDE DEF w
  <2>3. CASE Refilled >= k
    <3>1. RefillLocked(k) /\ granted' = granted + k /\ UNCHANGED now
      BY <1>2, <1>4, <2>2, <2>3 DEF TryConsume
    <3>2. Refilled' = Refilled - k
      BY <1>1, <1>2, <2>2, <2>3, <3>1, LevelAfterRefill
    <3>3. QED
      BY <1>1, <1>2, <1>3, <2>1, <2>2, <3>1, <3>2 DEF BudgetCovers
  <2>4. CASE Refilled < k
    <3>1. RefillLocked(0) /\ granted' = granted /\ UNCHANGED now
      BY <1>2, <1>4, <2>2, <2>4 DEF TryConsume
    <3>2. Refilled' = Refilled - 0
      BY <1>1, <1>2, <3>1, LevelAfterRefill
    <3>3. QED
      BY <1>1, <1>2, <1>3, <2>1, <3>1, <3>2 DEF BudgetCovers
  <2>5. QED
    BY <1>2, <2>2, <2>3, <2>4
<1>5. ASSUME NEW k \in Amounts, Refill(k)
      PROVE  BudgetCovers'
  <2>1. /\ (now' - start') * Rate = w
        /\ granted' = granted /\ credit' = credit + k /\ k \in Nat
    BY <1>5 DEF Refill
  <2>2. Refilled' = Least(Refilled + k, Cap)
    BY <1>1, <1>5, LevelAfterCredit
  <2> HIDE DEF w
  <2>3. QED
    BY <1>1, <1>2, <1>3, <2>1, <2>2 DEF BudgetCovers, Least
<1>6. CASE Reset
  <2>1. /\ (now' - start') * Rate = w
        /\ granted' = granted /\ credit' = credit + Cap - Refilled
    BY <1>6 DEF Reset
  <2>2. Refilled' = Cap
    BY <1>1, <1>6, LevelAfterReset
  <2> HIDE DEF w
  <2>3. QED
    BY <1>1, <1>2, <1>3, <2>1, <2>2 DEF BudgetCovers
<1>7. CASE CurrentTokens
  <2>1. (now' - start') * Rate = w /\ granted' = granted /\ credit' = credit
    BY <1>7 DEF CurrentTokens, window
  <2>2. Refilled' = Refilled - 0
    BY <1>1, <1>2, <1>7, LevelAfterRefill DEF CurrentTokens
  <2> HIDE DEF w
  <2>3. QED
    BY <1>1, <1>2, <1>3, <2>1, <2>2 DEF BudgetCovers
<1>8. CASE Tick
  <2>1. /\ now - start \in Nat /\ now' - start' = (now - start) + 1
        /\ granted' = granted /\ credit' = credit
    BY <1>1, <1>8 DEF Tick, window, BucketTypeOK
  <2>2. (now' - start') * Rate = w + Rate
    BY <2>1, Elapsed
  <2>3. Refilled' = Least(Refilled + Rate, Cap)
    BY <1>1, <1>8, LevelAfterTick
  <2> HIDE DEF w
  <2>4. QED
    BY <1>1, <1>2, <1>3, <2>1, <2>2, <2>3 DEF BudgetCovers, Least
<1>9. CASE OpenWindow
  <2>1. now' - start' = 0 /\ granted' = 0 /\ credit' = 0
    BY <1>1, <1>9 DEF OpenWindow, BucketTypeOK
  <2>2. (now' - start') * Rate = 0
    BY <2>1, Elapsed
  <2>3. Refilled' = Refilled
    BY <1>9 DEF OpenWindow, Refilled
  <2>4. QED
    BY <1>2, <2>1, <2>2, <2>3 DEF BudgetCovers
<1>10. CASE UNCHANGED bucketVars
  BY <1>1, <1>10 DEF BudgetCovers, Refilled, bucketVars, window
<1>11. QED
  BY <1>4, <1>5, <1>6, <1>7, <1>8, <1>9, <1>10 DEF BucketNext

\* The types and the window's budget are invariants of the token bucket.
THEOREM TokenBucketInvariant == BucketSpec => []BucketInv
<1>1. BucketInit => BucketInv
  <2>1. 0 * Rate = 0
    BY TokenBucketAssumption, Elapsed
  <2>2. QED
    BY <2>1, TokenBucketAssumption DEF BucketInit, BucketInv, BucketTypeOK, BudgetCovers, Refilled, Least
<1>2. BucketInv /\ [BucketNext]_bucketVars => BucketInv'
  BY TypeStep, BudgetStep DEF BucketInv
<1>3. QED
  BY <1>1, <1>2, PTL DEF BucketSpec

\* In every window TryConsume grants at most one burst and the window's worth
\* of tokens, besides those added with Refill and Reset.
THEOREM BucketConforms == BucketSpec => []RateConforms
<1>1. BucketInv => RateConforms
  <2>1. SUFFICES ASSUME BucketInv PROVE RateConforms
    OBVIOUS
  <2>2. Refilled \in 0..Cap
    BY <2>1, LevelBounds DEF BucketInv
  <2>3. now - start \in Nat /\ Rate \in Nat
    BY <2>1, TokenBucketAssumption DEF BucketInv, BucketTypeOK
  <2>4. (now - start) * Rate \in Nat
    BY <2>3, Elapsed
  <2>5. QED
    BY <2>1, <2>2, <2>4, TokenBucketAssumption
    DEF BucketInv, BucketTypeOK, BudgetCovers, RateConforms
<1>2. QED
  BY <1>1, TokenBucketInvariant, PTL

\* The lazily refilled bucket implements the one that fills by itself.
THEOREM BucketRefines == BucketSpec => ImplementsRateBucket
<1>1. BucketInit => Abstract!Init
  <2>1. 0 * Rate = 0
    BY TokenBucketAssumption, Elapsed
  <2>2. QED
    BY <2>1, TokenBucketAssumption DEF BucketInit, Abstract!Init, Refilled, Least
<1>2. BucketInv /\ BucketInv' /\ [BucketNext]_bucketVars => [Abstract!Next]_Refilled
  <2> USE TokenBucketAssumption
  <2>1. SUFFICES ASSUME BucketTypeOK, BucketTypeOK', [BucketNext]_bucketVars
                 PROVE  [Abstract!Next]_Refilled
    BY DEF BucketInv
  <2>2. Refilled \in 0..Cap
    BY <2>1, LevelBounds
  <2>3. ASSUME NEW k \in Amounts, TryConsume(k)
        PROVE  [Abstract!Next]_Refilled
    <3>1. k \in Nat /\ UNCHANGED now
      BY <2>3 DEF TryConsume
    <3>2. CASE Refilled >= k
      <4>1. RefillLocked(k)
        BY <2>2, <2>3, <3>1, <3>2 DEF TryConsume
      <4>2. Refilled' = Refilled - k
        BY <2>2, <3>1, <3>2, <4>1, <2>1, LevelAfterRefill
      <4>3. QED
        BY <2>2, <3>1, <3>2, <4>2 DEF Abstract!Next, Abstract!Take
    <3>3. CASE Refilled < k
      <4>1. RefillLocked(0)
        BY <2>2, <2>3, <3>1, <3>3 DEF TryConsume
      <4>2. Refilled' = Refilled - 0
        BY <2>2, <3>1, <4>1, <2>1, LevelAfterRefill
      <4>3. QED
        BY <2>2, <4>2
    <3>4. QED
      BY <2>2, <3>1, <3>2, <3>3
  <2>4. ASSUME NEW k \in Amounts, Refill(k)
        PROVE  Abstract!Next
    <3>1. Refilled' = Least(Refilled + k, Cap)
      BY <2>1, <2>4, LevelAfterCredit
    <3>2. QED
      BY <3>1 DEF Abstract!Next, Abstract!Credit, Abstract!Fill, Least
  <2>5. CASE Reset
    BY <2>1, <2>5, LevelAfterReset DEF Abstract!Next, Abstract!Full
  <2>6. CASE CurrentTokens
    <3>1. Refilled' = Refilled - 0
      BY <2>2, <2>6, <2>1, LevelAfterRefill DEF CurrentTokens
    <3>2. QED
      BY <2>2, <3>1
  <2>7. CASE Tick
    <3>1. Refilled' = Least(Refilled + Rate, Cap)
      BY <2>1, <2>7, LevelAfterTick
    <3>2. QED
      BY <3>1 DEF Abstract!Next, Abstract!TimePasses, Abstract!Fill, Least
  <2>8. CASE OpenWindow
    BY <2>8 DEF OpenWindow, Refilled
  <2>9. CASE UNCHANGED bucketVars
    BY <2>9 DEF bucketVars, window, Refilled
  <2>10. QED
    BY <2>1, <2>3, <2>4, <2>5, <2>6, <2>7, <2>8, <2>9 DEF BucketNext
<1>3. QED
  BY <1>1, <1>2, TokenBucketInvariant, PTL DEF BucketSpec, ImplementsRateBucket, Abstract!Spec

-----------------------------------------------------------------------------
(* Qos. *)

LevelNumbers == 0..(Levels - 1)

\* A producer before it has put its item into the queue.
Carrying(p) ==
  ppc[p] \in {"admit", "evict", "evicted", "testing", "blocking", "blocked", "total", "push"}

\* Each producer carries a submitted item of its own.
ProducersCarry ==
  /\ \A p \in Producers : Carrying(p) => item[p] \in Items /\ place[item[p]] = "submitted"
  /\ \A p \in Producers : ppc[p] = "pushed" => item[p] \in Items
  /\ \A p, q \in Producers : p # q /\ Carrying(p) /\ Carrying(q) => item[p] # item[q]

Holding(c) == consumerAt[c] \in {"popped", "notify", "judge", "execute"}

\* Each consumer holds an item of its own.
ConsumersHold ==
  /\ \A c \in Consumers : Holding(c) => have[c] \in Items /\ place[have[c]] = "held"
  /\ \A c, d \in Consumers : c # d /\ Holding(c) /\ Holding(d) => have[c] # have[d]

QosInv == QosTypeOK /\ ProducersCarry /\ ConsumersHold

-----------------------------------------------------------------------------
(* Types. *)

LEMMA PlusType ==
  ASSUME NEW n \in Int, NEW d \in Int
  PROVE  Plus(n, d) \in 0..SizeMax
BY QosAssumption DEF Plus

LEMMA CountType ==
  ASSUME NEW l \in LevelNumbers, NEW d \in Int, Count(l, d), QosTypeOK
  PROVE  depth' \in [0..(Levels - 1) -> 0..SizeMax] /\ total' \in 0..SizeMax
<1>1. /\ depth \in [LevelNumbers -> 0..SizeMax] /\ total \in 0..SizeMax
      /\ SizeMax \in Nat
  BY QosAssumption DEF QosTypeOK, LevelNumbers
<1>2. Plus(depth[l], d) \in 0..SizeMax /\ Plus(total, d) \in 0..SizeMax
  <2>1. depth[l] \in Int /\ total \in Int
    BY <1>1
  <2> QED
    BY <2>1, PlusType
<1> QED
  BY <1>1, <1>2 DEF Count, LevelNumbers

LEMMA ProducerTypes ==
  ASSUME QosInv, NEW p \in Producers,
         ProducerStep(p) \/ QosSpuriousWakeup(p) \/ \E i \in Items : Enqueue(p, i)
  PROVE  QosTypeOK'
<1> USE DEF itemVars, countVars, prodVars, consVars, adminVars, ProducerAt
<1>t. QosTypeOK /\ ProducersCarry
  BY DEF QosInv
<1>1. ASSUME NEW i \in Items, Enqueue(p, i) PROVE QosTypeOK'
  BY <1>1, <1>t DEF Enqueue, QosTypeOK
<1>2. ASSUME NEW here, Refuse(p, here), here \in {"admit", "total"},
             UNCHANGED <<countVars, consVars, adminVars>>
      PROVE  QosTypeOK'
  BY <1>2, <1>t DEF Refuse, QosTypeOK, ProducersCarry, Carrying, Finished
<1>3. CASE Admit(p)
  <2>1. CASE Refuse(p, "admit")
    BY <1>2, <1>3, <2>1 DEF Admit
  <2>2. CASE ~Refuse(p, "admit")
    BY <1>3, <1>t, <2>2 DEF Admit, QosTypeOK
  <2> QED
    BY <2>1, <2>2
<1>4. CASE CheckLimits(p)
  <2>1. CASE Refuse(p, "total")
    BY <1>2, <1>4, <2>1 DEF CheckLimits
  <2>2. CASE ~Refuse(p, "total")
    BY <1>4, <1>t, <2>2 DEF CheckLimits, QosTypeOK
  <2> QED
    BY <2>1, <2>2
<1>5. CASE Evict(p)
  BY <1>5, <1>t DEF Evict, Queued, QosTypeOK, Finished
<1>6. CASE TestSpace(p) \/ Block(p) \/ QosSpuriousWakeup(p)
  BY <1>6, <1>t DEF TestSpace, Block, QosSpuriousWakeup, QosTypeOK
<1>7. CASE Push(p)
  BY <1>7, <1>t DEF Push, QosTypeOK, ProducersCarry
<1>8. CASE UncountEvicted(p) \/ CountIn(p)
  <2>1. Level[item[p]] \in LevelNumbers
    BY <1>8, <1>t, QosAssumption
    DEF UncountEvicted, CountIn, ProducersCarry, Carrying, LevelNumbers
  <2>2. depth' \in [0..(Levels - 1) -> 0..SizeMax] /\ total' \in 0..SizeMax
    BY <1>8, <1>t, <2>1, CountType, -1 \in Int, 1 \in Int DEF UncountEvicted, CountIn
  <2> QED
    BY <1>8, <1>t, <2>2 DEF UncountEvicted, CountIn, QosTypeOK
<1> QED
  BY <1>1, <1>3, <1>4, <1>5, <1>6, <1>7, <1>8 DEF ProducerStep

ItemPlaces == {"out", "submitted", "queued", "held"} \cup Finished
ProducerPlaces == {"idle", "admit", "evict", "evicted", "testing", "blocking", "blocked",
                   "total", "push", "pushed"}
ConsumerPlaces == {"none", "loop", "scan", "popped", "notify", "judge", "execute", "exited"}

LEMMA ConsumerTypes ==
  ASSUME QosInv, NEW c \in Consumers, ConsumerStep(c)
  PROVE  QosTypeOK'
<1> USE DEF itemVars, countVars, prodVars, consVars, adminVars, ConsumerAt, BeginScan
<1>t. QosTypeOK /\ ConsumersHold
  BY DEF QosInv
<1>v. /\ consumerAt \in [Consumers -> ConsumerPlaces] /\ drain \subseteq Consumers
      /\ have \in [Consumers -> Items \cup {None}]
      /\ lvl \in [Consumers -> LevelNumbers] /\ tries \in [Consumers -> Nat]
  BY <1>t DEF QosTypeOK, ConsumerPlaces, LevelNumbers
<1>s. ASSUME UNCHANGED <<policy, expired, depth, total, item>>,
             UNCHANGED <<qosRunning, stop, qosPaused, apc, promised>>,
             place' \in [Items -> ItemPlaces], ppc' \in [Producers -> ProducerPlaces],
             consumerAt' \in [Consumers -> ConsumerPlaces], drain' \subseteq Consumers,
             have' \in [Consumers -> Items \cup {None}],
             lvl' \in [Consumers -> LevelNumbers], tries' \in [Consumers -> Nat]
      PROVE  QosTypeOK'
  BY <1>s, <1>t DEF QosTypeOK, ConsumerPlaces, LevelNumbers, ItemPlaces, ProducerPlaces
<1>p. place \in [Items -> ItemPlaces] /\ ppc \in [Producers -> ProducerPlaces]
  BY <1>t DEF QosTypeOK, ItemPlaces, ProducerPlaces
<1>l. Levels - 1 \in LevelNumbers
  BY QosAssumption DEF LevelNumbers
<1>1. CASE Loop(c)
  BY <1>1, <1>v, <1>p, <1>l, <1>s DEF Loop, ConsumerPlaces
<1>2. CASE TryDequeue(c)
  BY <1>2, <1>v, <1>p, <1>s DEF TryDequeue, Queued, ConsumerPlaces, ItemPlaces
<1>3. CASE NextLevel(c)
  <2>1. lvl[c] > 0 => lvl[c] - 1 \in LevelNumbers
    BY <1>v, QosAssumption DEF LevelNumbers
  <2>2. /\ UNCHANGED <<itemVars, countVars, prodVars, have, adminVars>>
        /\ consumerAt' \in [Consumers -> ConsumerPlaces] /\ drain' \subseteq Consumers
        /\ lvl' \in [Consumers -> LevelNumbers] /\ tries' \in [Consumers -> Nat]
    BY <1>3, <1>v, <2>1 DEF NextLevel, ConsumerPlaces
  <2> QED
    BY <1>v, <1>p, <2>2, <1>s
<1>4. CASE CountOut(c)
  <2>1. depth' \in [0..(Levels - 1) -> 0..SizeMax] /\ total' \in 0..SizeMax
    BY <1>4, <1>t, <1>v, CountType, -1 \in Int DEF CountOut
  <2> QED
    BY <1>4, <1>t, <2>1 DEF CountOut, QosTypeOK
<1>5. CASE NotifySpace(c)
  <2>1. ppc' \in [Producers -> ProducerPlaces]
    BY <1>5, <1>p DEF NotifySpace, ProducerPlaces
  <2>2. consumerAt' \in [Consumers -> ConsumerPlaces]
    BY <1>5, <1>v DEF NotifySpace, ConsumerPlaces
  <2> QED
    BY <1>5, <1>p, <1>v, <1>s, <2>1, <2>2 DEF NotifySpace
<1>6. CASE Judge(c)
  <2>1. have[c] \in Items
    BY <1>6, <1>t DEF Judge, ConsumersHold, Holding
  <2> QED
    BY <1>6, <1>p, <1>v, <1>s, <2>1 DEF Judge, ConsumerPlaces, ItemPlaces, Finished
<1>7. CASE Execute(c)
  <2>1. have[c] \in Items
    BY <1>7, <1>t DEF Execute, ConsumersHold, Holding
  <2> QED
    BY <1>7, <1>p, <1>v, <1>l, <1>s, <2>1 DEF Execute, ConsumerPlaces, ItemPlaces, Finished
<1> QED
  BY <1>1, <1>2, <1>3, <1>4, <1>5, <1>6, <1>7 DEF ConsumerStep

\* The lifecycle operations and the passing of deadlines.
OtherStep ==
  \/ \E i \in Items : Expire(i)
  \/ \E a \in Admins :
       AdminStep(a) \/ StartQos(a) \/ Stop(a) \/ PauseQos(a) \/ ResumeQos(a)

LEMMA OtherTypes ==
  ASSUME QosTypeOK, OtherStep
  PROVE  QosTypeOK'
<1> USE DEF itemVars, countVars, prodVars, consVars, adminVars, AdminAt, QosTypeOK
<1>1. ASSUME NEW i \in Items, Expire(i) PROVE QosTypeOK'
  BY <1>1 DEF Expire
<1>2. ASSUME NEW a \in Admins, AdminStep(a) PROVE QosTypeOK'
  <2>1. CASE ClearFlags(a) \/ RequestQosStop(a)
    BY <2>1 DEF ClearFlags, RequestQosStop
  <2>2. CASE Spawn(a)
    BY <2>2 DEF Spawn
  <2>3. CASE JoinConsumers(a)
    BY <2>3 DEF JoinConsumers
  <2> QED
    BY <1>2, <2>1, <2>2, <2>3 DEF AdminStep
<1>3. ASSUME NEW a \in Admins, StartQos(a) \/ Stop(a) \/ PauseQos(a) \/ ResumeQos(a)
      PROVE  QosTypeOK'
  BY <1>3 DEF StartQos, Stop, PauseQos, ResumeQos
<1> QED
  BY <1>1, <1>2, <1>3 DEF OtherStep

-----------------------------------------------------------------------------
(* Who has which item. *)

LEMMA CarryStays ==
  ASSUME QosInv, QosNext
  PROVE  ProducersCarry'
<1> USE DEF itemVars, countVars, prodVars, consVars, adminVars, ProducerAt, Carrying
<1>t. /\ ProducersCarry /\ ConsumersHold
      /\ place \in [Items -> ItemPlaces] /\ ppc \in [Producers -> ProducerPlaces]
      /\ item \in [Producers -> Items \cup {None}]
  BY DEF QosInv, QosTypeOK, ItemPlaces, ProducerPlaces
\* A step that lets producers move on with their items.
<1>s. ASSUME \A i \in Items : place[i] = "submitted" => place'[i] = "submitted",
             item' = item,
             \A p \in Producers : /\ Carrying(p)' => Carrying(p)
                                  /\ ppc'[p] = "pushed" => ppc[p] = "pushed" \/ Carrying(p)
      PROVE  ProducersCarry'
  BY <1>s, <1>t DEF ProducersCarry
<1>1. ASSUME NEW p \in Producers, NEW i \in Items, Enqueue(p, i) PROVE ProducersCarry'
  BY <1>1, <1>t DEF Enqueue, ProducersCarry
<1>2. ASSUME NEW p \in Producers, NEW here, Refuse(p, here), here \in {"admit", "total"}
      PROVE  ProducersCarry'
  <2>1. Carrying(p) /\ item[p] \in Items
    BY <1>2, <1>t DEF Refuse, ProducersCarry
  <2>2. /\ ppc'[p] = "idle" /\ \A q \in Producers : q # p => ppc'[q] = ppc[q] /\ item'[q] = item[q]
        /\ \A i \in Items : i # item[p] => place'[i] = place[i]
    BY <1>2, <1>t DEF Refuse
  <2> QED
    BY <2>1, <2>2, <1>t DEF ProducersCarry
<1>3. ASSUME NEW p \in Producers, Admit(p) PROVE ProducersCarry'
  <2>1. CASE Refuse(p, "admit")
    BY <1>2, <2>1
  <2>2. CASE ~Refuse(p, "admit")
    BY <1>3, <1>t, <1>s, <2>2 DEF Admit
  <2> QED
    BY <2>1, <2>2
<1>4. ASSUME NEW p \in Producers, CheckLimits(p) PROVE ProducersCarry'
  <2>1. CASE Refuse(p, "total")
    BY <1>2, <2>1
  <2>2. CASE ~Refuse(p, "total")
    BY <1>4, <1>t, <1>s, <2>2 DEF CheckLimits
  <2> QED
    BY <2>1, <2>2
<1>5. ASSUME NEW p \in Producers, Evict(p) PROVE ProducersCarry'
  BY <1>5, <1>t, <1>s DEF Evict, Queued
<1>6. ASSUME NEW p \in Producers,
             TestSpace(p) \/ Block(p) \/ QosSpuriousWakeup(p) \/ UncountEvicted(p)
      PROVE  ProducersCarry'
  BY <1>6, <1>t, <1>s DEF TestSpace, Block, QosSpuriousWakeup, UncountEvicted
<1>7. ASSUME NEW p \in Producers, Push(p) PROVE ProducersCarry'
  BY <1>7, <1>t DEF Push, ProducersCarry
<1>8. ASSUME NEW p \in Producers, CountIn(p) PROVE ProducersCarry'
  BY <1>8, <1>t DEF CountIn, ProducersCarry
<1>9. ASSUME NEW c \in Consumers, ConsumerStep(c) PROVE ProducersCarry'
  <2>1. CASE TryDequeue(c)
    BY <2>1, <1>t, <1>s DEF TryDequeue, Queued
  <2>2. CASE Judge(c) \/ Execute(c)
    <3>1. have[c] \in Items /\ place[have[c]] = "held"
      BY <2>2, <1>t DEF Judge, Execute, ConsumersHold, Holding, ConsumerAt
    <3> QED
      BY <2>2, <3>1, <1>t, <1>s DEF Judge, Execute
  <2>3. CASE NotifySpace(c)
    BY <2>3, <1>t, <1>s DEF NotifySpace
  <2>4. CASE Loop(c) \/ NextLevel(c) \/ CountOut(c)
    BY <2>4, <1>t, <1>s DEF Loop, NextLevel, CountOut
  <2> QED
    BY <1>9, <2>1, <2>2, <2>3, <2>4 DEF ConsumerStep
<1>10. CASE OtherStep
  BY <1>10, <1>t, <1>s DEF OtherStep, Expire, AdminStep, StartQos, Stop, PauseQos,
     ResumeQos, ClearFlags, Spawn, RequestQosStop, JoinConsumers
<1> QED
  BY <1>1, <1>3, <1>4, <1>5, <1>6, <1>7, <1>8, <1>9, <1>10
  DEF QosNext, ProducerStep, OtherStep

LEMMA HoldStays ==
  ASSUME QosInv, QosNext
  PROVE  ConsumersHold'
<1> USE DEF itemVars, countVars, prodVars, consVars, adminVars, ConsumerAt, Holding
<1>t. /\ ProducersCarry /\ ConsumersHold
      /\ place \in [Items -> ItemPlaces]
      /\ consumerAt \in [Consumers -> ConsumerPlaces]
      /\ have \in [Consumers -> Items \cup {None}]
  BY DEF QosInv, QosTypeOK, ItemPlaces, ConsumerPlaces
\* A step that lets consumers move on with their items.
<1>s. ASSUME \A i \in Items : place[i] = "held" => place'[i] = "held",
             have' = have,
             \A c \in Consumers : Holding(c)' => Holding(c)
      PROVE  ConsumersHold'
  BY <1>s, <1>t DEF ConsumersHold
<1>1. ASSUME NEW p \in Producers, NEW i \in Items, Enqueue(p, i) PROVE ConsumersHold'
  BY <1>1, <1>t, <1>s DEF Enqueue
<1>2. ASSUME NEW p \in Producers, ProducerStep(p) \/ QosSpuriousWakeup(p)
      PROVE  ConsumersHold'
  <2>1. Carrying(p) => item[p] \in Items /\ place[item[p]] = "submitted"
    BY <1>t DEF ProducersCarry
  <2>2. ASSUME NEW here, Refuse(p, here), here \in {"admit", "total"}, UNCHANGED consVars
        PROVE  ConsumersHold'
    BY <2>1, <2>2, <1>t, <1>s DEF Refuse, ProducerAt, Carrying
  <2>3. CASE Admit(p)
    BY <2>2, <2>3, <1>t, <1>s DEF Admit
  <2>4. CASE CheckLimits(p)
    BY <2>2, <2>4, <1>t, <1>s DEF CheckLimits
  <2>5. CASE Evict(p)
    BY <2>5, <1>t, <1>s DEF Evict, Queued
  <2>6. CASE Push(p)
    BY <2>1, <2>6, <1>t, <1>s DEF Push, ProducerAt, Carrying
  <2>7. CASE \/ TestSpace(p) \/ Block(p) \/ QosSpuriousWakeup(p) \/ UncountEvicted(p)
             \/ CountIn(p)
    BY <2>7, <1>t, <1>s DEF TestSpace, Block, QosSpuriousWakeup, UncountEvicted, CountIn
  <2> QED
    BY <1>2, <2>3, <2>4, <2>5, <2>6, <2>7 DEF ProducerStep
<1>3. ASSUME NEW c \in Consumers, TryDequeue(c) PROVE ConsumersHold'
  BY <1>3, <1>t DEF TryDequeue, Queued, ConsumersHold
<1>4. ASSUME NEW c \in Consumers, Judge(c) \/ Execute(c) PROVE ConsumersHold'
  <2>1. have[c] \in Items /\ Holding(c)
    BY <1>4, <1>t DEF Judge, Execute, ConsumersHold
  <2>2. CASE have' = have /\ place' = place
    BY <1>4, <2>2, <1>t, <1>s DEF Judge, Execute, BeginScan
  <2>3. CASE ~(have' = have /\ place' = place)
    <3>1. /\ ~Holding(c)'
          /\ \A d \in Consumers : d # c => consumerAt'[d] = consumerAt[d] /\ have'[d] = have[d]
          /\ \A i \in Items : i # have[c] => place'[i] = place[i]
      BY <1>4, <2>3, <1>t DEF Judge, Execute, BeginScan
    <3> QED
      BY <2>1, <3>1, <1>t DEF ConsumersHold
  <2> QED
    BY <2>2, <2>3
<1>5. ASSUME NEW c \in Consumers, Loop(c) \/ NextLevel(c) \/ CountOut(c) \/ NotifySpace(c)
      PROVE  ConsumersHold'
  BY <1>5, <1>t, <1>s DEF Loop, NextLevel, CountOut, NotifySpace, BeginScan
<1>6. CASE OtherStep
  BY <1>6, <1>t, <1>s DEF OtherStep, Expire, AdminStep, StartQos, Stop, PauseQos,
     ResumeQos, ClearFlags, Spawn, RequestQosStop, JoinConsumers
<1> QED
  BY <1>1, <1>2, <1>3, <1>4, <1>5, <1>6 DEF QosNext, ConsumerStep, OtherStep

THEOREM QosInvariant == QosSpec => []QosInv
<1>1. QosInit => QosInv
  <2> SUFFICES ASSUME QosInit PROVE QosInv
    OBVIOUS
  <2>1. QosTypeOK
    <3>1. 0 \in 0..(Levels - 1) /\ 0 \in 0..SizeMax
      BY QosAssumption
    <3> QED
      BY <3>1 DEF QosInit, QosTypeOK
  <2>2. ProducersCarry /\ ConsumersHold
    BY DEF QosInit, ProducersCarry, ConsumersHold, Carrying, Holding
  <2> QED
    BY <2>1, <2>2 DEF QosInv
<1>2. QosInv /\ [QosNext]_qosVars => QosInv'
  <2>1. ASSUME QosInv, QosNext PROVE QosInv'
    <3>1. QosTypeOK'
      BY <2>1, ProducerTypes, ConsumerTypes, OtherTypes DEF QosInv, QosNext, OtherStep
    <3> QED
      BY <2>1, <3>1, CarryStays, HoldStays DEF QosInv
  <2>2. ASSUME QosInv, UNCHANGED qosVars PROVE QosInv'
    BY <2>2 DEF QosInv, QosTypeOK, ProducersCarry, ConsumersHold, Carrying, Holding,
       qosVars, itemVars, countVars, prodVars, consVars, adminVars
  <2> QED
    BY <2>1, <2>2
<1> QED
  BY <1>1, <1>2, PTL DEF QosSpec

-----------------------------------------------------------------------------
(* The counters. *)

\* The arithmetic of counters that wrap: a remainder is unique ...
LEMMA MultipleSmall ==
  ASSUME NEW m \in Nat \ {0}, NEW k \in Int, m * k < m, m * k > -m
  PROVE  k = 0
<1>1. CASE k >= 1
  <2>1. m * k >= m * 1
    BY <1>1
  <2> QED
    BY <2>1
<1>2. CASE k <= -1
  <2>1. m * k <= m * (-1)
    BY <1>2
  <2> QED
    BY <2>1
<1> QED
  BY <1>1, <1>2

LEMMA ModUnique ==
  ASSUME NEW m \in Nat \ {0}, NEW a \in Int, NEW q \in Int, NEW r \in 0..(m - 1), a = m * q + r
  PROVE  a % m = r
<1> DEFINE q2 == a \div m
           r2 == a % m
<1>1. q2 \in Int /\ r2 \in 0..(m - 1) /\ a = m * q2 + r2
  OBVIOUS
<1> HIDE DEF q2, r2
<1>2. m * (q - q2) = r2 - r
  BY <1>1
<1>3. q - q2 = 0
  BY <1>1, <1>2, MultipleSmall
<1>4. r2 = r
  BY <1>1, <1>2, <1>3
<1> QED
  BY <1>4 DEF r2

\* ... so that adding to a counter adds to what it counts.
LEMMA ModPlus ==
  ASSUME NEW m \in Nat \ {0}, NEW a \in Int, NEW d \in Int
  PROVE  ((a % m) + d) % m = (a + d) % m
<1> DEFINE q == a \div m
           r == a % m
           q2 == (r + d) \div m
           r2 == (r + d) % m
<1>1. q \in Int /\ r \in 0..(m - 1) /\ a = m * q + r
  OBVIOUS
<1> HIDE DEF q, r
<1>2. q2 \in Int /\ r2 \in 0..(m - 1) /\ r + d = m * q2 + r2
  BY <1>1
<1> HIDE DEF q2, r2
<1>3. a + d = m * (q + q2) + r2
  BY <1>1, <1>2
<1>4. a + d \in Int /\ q + q2 \in Int
  BY <1>1, <1>2
<1>5. (a + d) % m = r2
  BY <1>2, <1>3, <1>4, ModUnique
<1> QED
  BY <1>5 DEF r, r2

\* One element more or less, of a finite set.
LEMMA OneMore ==
  ASSUME NEW S, IsFiniteSet(S), NEW x, x \notin S
  PROVE  Cardinality(S \cup {x}) = Cardinality(S) + 1
BY FS_AddElement

LEMMA OneLess ==
  ASSUME NEW S, IsFiniteSet(S), NEW x \in S
  PROVE  Cardinality(S \ {x}) = Cardinality(S) - 1
BY FS_RemoveElement

LEMMA SizesAreNumbers ==
  ASSUME NEW l
  PROVE  /\ IsFiniteSet(Queued(l)) /\ Cardinality(Queued(l)) \in Nat
         /\ IsFiniteSet(Popped(l)) /\ Cardinality(Popped(l)) \in Nat
         /\ IsFiniteSet(Evicted(l)) /\ Cardinality(Evicted(l)) \in Nat
         /\ IsFiniteSet(Uncounted(l)) /\ Cardinality(Uncounted(l)) \in Nat
<1>1. /\ Queued(l) \subseteq Items /\ Popped(l) \subseteq Consumers
      /\ Evicted(l) \subseteq Producers /\ Uncounted(l) \subseteq Producers
  BY DEF Queued, Popped, Evicted, Uncounted
<1>2. IsFiniteSet(Items) /\ IsFiniteSet(Consumers) /\ IsFiniteSet(Producers)
  BY QosAssumption
<1> QED
  BY <1>1, <1>2, FS_Subset, FS_CardinalityType

\* What the counter of level l stands for.
Balance(l) == Cardinality(Queued(l)) + Cardinality(Popped(l)) + Cardinality(Evicted(l))
                - Cardinality(Uncounted(l))

Exact(l) == depth[l] = Balance(l) % (SizeMax + 1)

LEMMA ExactLevels == DepthExact <=> \A l \in LevelNumbers : Exact(l)
BY DEF DepthExact, Exact, Balance, LevelNumbers

\* The counter and what it stands for change by the same number.
LEMMA BalanceMoves ==
  ASSUME NEW l, Exact(l), NEW d \in Int, Balance(l)' = Balance(l) + d,
         depth'[l] = Plus(depth[l], d)
  PROVE  Exact(l)'
<1>1. Balance(l) \in Int /\ SizeMax + 1 \in Nat \ {0}
  BY SizesAreNumbers, QosAssumption DEF Balance
<1> QED
  BY <1>1, ModPlus DEF Exact, Plus

\* When the sets behind a counter stay the same.
LEMMA SameQueued ==
  ASSUME NEW l, \A i \in Items : place'[i] = "queued" <=> place[i] = "queued"
  PROVE  Queued(l)' = Queued(l)
BY DEF Queued

LEMMA SamePopped ==
  ASSUME NEW l, \A c \in Consumers : /\ consumerAt'[c] = "popped" <=> consumerAt[c] = "popped"
                                     /\ consumerAt[c] = "popped" => lvl'[c] = lvl[c]
  PROVE  Popped(l)' = Popped(l)
BY DEF Popped

LEMMA SameProducers ==
  ASSUME NEW l,
         \A p \in Producers : /\ ppc'[p] = "evicted" <=> ppc[p] = "evicted"
                              /\ ppc'[p] = "pushed" <=> ppc[p] = "pushed"
                              /\ ppc[p] \in {"evicted", "pushed"} => item'[p] = item[p]
  PROVE  Evicted(l)' = Evicted(l) /\ Uncounted(l)' = Uncounted(l)
BY DEF Evicted, Uncounted

\* A step that changes no such set and no counter.
LEMMA QuietStep ==
  ASSUME DepthExact, UNCHANGED depth,
         \A l \in LevelNumbers :
           /\ Queued(l)' = Queued(l) /\ Popped(l)' = Popped(l)
           /\ Evicted(l)' = Evicted(l) /\ Uncounted(l)' = Uncounted(l)
  PROVE  DepthExact'
<1>1. \A l \in LevelNumbers : Exact(l) => Exact(l)'
  BY DEF Exact, Balance
<1> QED
  BY <1>1, ExactLevels DEF DepthExact, Exact, Balance, LevelNumbers

LEMMA ProducerCounts ==
  ASSUME QosInv, DepthExact, NEW p \in Producers,
         ProducerStep(p) \/ QosSpuriousWakeup(p) \/ \E i \in Items : Enqueue(p, i)
  PROVE  DepthExact'
<1> USE DEF itemVars, countVars, prodVars, consVars, adminVars, ProducerAt
<1>t. /\ place \in [Items -> ItemPlaces] /\ ppc \in [Producers -> ProducerPlaces]
      /\ item \in [Producers -> Items \cup {None}]
      /\ depth \in [LevelNumbers -> 0..SizeMax]
      /\ Carrying(p) => item[p] \in Items /\ place[item[p]] = "submitted"
      /\ ppc[p] = "pushed" => item[p] \in Items
      /\ Level \in [Items -> LevelNumbers]
  BY QosAssumption DEF QosInv, QosTypeOK, ItemPlaces, ProducerPlaces, ProducersCarry, LevelNumbers
<1>x. \A l \in LevelNumbers : Exact(l)
  BY ExactLevels
<1>q. ASSUME UNCHANGED <<depth, consumerAt, lvl>>,
             \A i \in Items : place'[i] = "queued" <=> place[i] = "queued",
             \A q \in Producers : q # p => ppc'[q] = ppc[q] /\ item'[q] = item[q],
             ppc[p] \notin {"evicted", "pushed"}, ppc'[p] \notin {"evicted", "pushed"}
      PROVE  DepthExact'
  <2>1. \A l \in LevelNumbers : Queued(l)' = Queued(l)
    BY <1>q, SameQueued
  <2>2. \A l \in LevelNumbers : Popped(l)' = Popped(l)
    BY <1>q, SamePopped
  <2>3. \A l \in LevelNumbers : Evicted(l)' = Evicted(l) /\ Uncounted(l)' = Uncounted(l)
    BY <1>q, SameProducers
  <2> QED
    BY <1>q, <2>1, <2>2, <2>3, QuietStep
<1>1. ASSUME NEW i \in Items, Enqueue(p, i) PROVE DepthExact'
  BY <1>1, <1>t, <1>q DEF Enqueue
<1>2. ASSUME NEW here, Refuse(p, here), here \in {"admit", "total"},
             UNCHANGED <<countVars, consVars, adminVars>>
      PROVE  DepthExact'
  BY <1>2, <1>t, <1>q DEF Refuse, Carrying
<1>3. CASE Admit(p)
  BY <1>2, <1>3, <1>t, <1>q DEF Admit
<1>4. CASE CheckLimits(p)
  BY <1>2, <1>4, <1>t, <1>q DEF CheckLimits
<1>5. CASE TestSpace(p) \/ Block(p) \/ QosSpuriousWakeup(p)
  BY <1>5, <1>t, <1>q DEF TestSpace, Block, QosSpuriousWakeup
<1>6. CASE Evict(p)
  <2>1. CASE Queued(Level[item[p]]) = {}
    BY <1>6, <2>1, <1>t, <1>q DEF Evict
  <2>2. CASE Queued(Level[item[p]]) # {}
    <3>1. PICK i \in Queued(Level[item[p]]) :
             ppc' = [ppc EXCEPT ![p] = "evicted"] /\ place' = [place EXCEPT ![i] = "evicted"]
      BY <1>6, <2>2 DEF Evict
    <3>2. ppc[p] = "evict" /\ UNCHANGED <<depth, item, consumerAt, lvl>>
      BY <1>6 DEF Evict
    <3> SUFFICES ASSUME NEW l \in LevelNumbers PROVE Exact(l)'
      BY ExactLevels DEF DepthExact, Exact, Balance, LevelNumbers
    <3>3. Popped(l)' = Popped(l) /\ Uncounted(l)' = Uncounted(l)
      BY <3>1, <3>2, <1>t DEF Popped, Uncounted
    <3>4. CASE l = Level[item[p]]
      <4>1. Queued(l)' = Queued(l) \ {i} /\ i \in Queued(l)
        BY <3>1, <3>4, <1>t DEF Queued
      <4>2. Evicted(l)' = Evicted(l) \cup {p} /\ p \notin Evicted(l)
        BY <3>1, <3>2, <3>4, <1>t DEF Evicted
      <4>3. Balance(l)' = Balance(l)
        BY <3>3, <4>1, <4>2, OneMore, OneLess, SizesAreNumbers DEF Balance
      <4> QED
        BY <3>2, <4>3, <1>x DEF Exact
    <3>5. CASE l # Level[item[p]]
      <4>1. Queued(l)' = Queued(l) /\ Evicted(l)' = Evicted(l)
        BY <3>1, <3>2, <3>5, <1>t DEF Queued, Evicted
      <4> QED
        BY <3>2, <3>3, <4>1, <1>x DEF Exact, Balance
    <3> QED
      BY <3>4, <3>5
  <2> QED
    BY <2>1, <2>2
<1>7. CASE UncountEvicted(p)
  <2>1. /\ ppc[p] = "evicted" /\ ppc' = [ppc EXCEPT ![p] = "total"]
        /\ UNCHANGED <<place, item, consumerAt, lvl>>
        /\ depth' = [depth EXCEPT ![Level[item[p]]] = Plus(@, -1)]
    BY <1>7 DEF UncountEvicted, Count
  <2> SUFFICES ASSUME NEW l \in LevelNumbers PROVE Exact(l)'
    BY ExactLevels DEF DepthExact, Exact, Balance, LevelNumbers
  <2>2. Queued(l)' = Queued(l) /\ Popped(l)' = Popped(l) /\ Uncounted(l)' = Uncounted(l)
    BY <2>1, <1>t DEF Queued, Popped, Uncounted
  <2>3. CASE l = Level[item[p]]
    <3>1. Evicted(l)' = Evicted(l) \ {p} /\ p \in Evicted(l)
      BY <2>1, <2>3, <1>t DEF Evicted
    <3>2. Balance(l)' = Balance(l) + (-1)
      BY <2>2, <3>1, OneLess, SizesAreNumbers DEF Balance
    <3>3. depth'[l] = Plus(depth[l], -1)
      BY <2>1, <2>3, <1>t
    <3> QED
      BY <3>2, <3>3, <1>x, BalanceMoves, -1 \in Int
  <2>4. CASE l # Level[item[p]]
    <3>1. Evicted(l)' = Evicted(l) /\ depth'[l] = depth[l]
      BY <2>1, <2>4, <1>t DEF Evicted
    <3> QED
      BY <2>2, <3>1, <1>x DEF Exact, Balance
  <2> QED
    BY <2>3, <2>4
<1>8. CASE Push(p)
  <2>1. /\ ppc[p] = "push" /\ ppc' = [ppc EXCEPT ![p] = "pushed"]
        /\ place' = [place EXCEPT ![item[p]] = "queued"]
        /\ UNCHANGED <<depth, item, consumerAt, lvl>>
        /\ item[p] \in Items /\ place[item[p]] = "submitted"
    BY <1>8, <1>t DEF Push, Carrying
  <2> SUFFICES ASSUME NEW l \in LevelNumbers PROVE Exact(l)'
    BY ExactLevels DEF DepthExact, Exact, Balance, LevelNumbers
  <2>2. Popped(l)' = Popped(l) /\ Evicted(l)' = Evicted(l)
    BY <2>1, <1>t DEF Popped, Evicted
  <2>3. CASE l = Level[item[p]]
    <3>1. Queued(l)' = Queued(l) \cup {item[p]} /\ item[p] \notin Queued(l)
      BY <2>1, <2>3, <1>t DEF Queued
    <3>2. Uncounted(l)' = Uncounted(l) \cup {p} /\ p \notin Uncounted(l)
      BY <2>1, <2>3, <1>t DEF Uncounted
    <3>3. /\ Cardinality(Queued(l)') = Cardinality(Queued(l)) + 1
          /\ Cardinality(Uncounted(l)') = Cardinality(Uncounted(l)) + 1
      BY <3>1, <3>2, OneMore, SizesAreNumbers
    <3>4. Balance(l)' = Balance(l)
      BY <2>2, <3>3, SizesAreNumbers DEF Balance
    <3> QED
      BY <2>1, <3>4, <1>x DEF Exact
  <2>4. CASE l # Level[item[p]]
    <3>1. Queued(l)' = Queued(l) /\ Uncounted(l)' = Uncounted(l)
      BY <2>1, <2>4, <1>t DEF Queued, Uncounted
    <3> QED
      BY <2>1, <2>2, <3>1, <1>x DEF Exact, Balance
  <2> QED
    BY <2>3, <2>4
<1>9. CASE CountIn(p)
  <2>1. /\ ppc[p] = "pushed" /\ ppc' = [ppc EXCEPT ![p] = "idle"]
        /\ item' = [item EXCEPT ![p] = None]
        /\ UNCHANGED <<place, consumerAt, lvl>>
        /\ depth' = [depth EXCEPT ![Level[item[p]]] = Plus(@, 1)]
    BY <1>9 DEF CountIn, Count
  <2> SUFFICES ASSUME NEW l \in LevelNumbers PROVE Exact(l)'
    BY ExactLevels DEF DepthExact, Exact, Balance, LevelNumbers
  <2>2. Queued(l)' = Queued(l) /\ Popped(l)' = Popped(l) /\ Evicted(l)' = Evicted(l)
    BY <2>1, <1>t DEF Queued, Popped, Evicted
  <2>3. CASE l = Level[item[p]]
    <3>1. Uncounted(l)' = Uncounted(l) \ {p} /\ p \in Uncounted(l)
      BY <2>1, <2>3, <1>t DEF Uncounted
    <3>2. Balance(l)' = Balance(l) + 1
      BY <2>2, <3>1, OneLess, SizesAreNumbers DEF Balance
    <3>3. depth'[l] = Plus(depth[l], 1)
      BY <2>1, <2>3, <1>t
    <3> QED
      BY <3>2, <3>3, <1>x, BalanceMoves, 1 \in Int
  <2>4. CASE l # Level[item[p]]
    <3>1. Uncounted(l)' = Uncounted(l) /\ depth'[l] = depth[l]
      BY <2>1, <2>4, <1>t DEF Uncounted
    <3> QED
      BY <2>2, <3>1, <1>x DEF Exact, Balance
  <2> QED
    BY <2>3, <2>4
<1> QED
  BY <1>1, <1>3, <1>4, <1>5, <1>6, <1>7, <1>8, <1>9 DEF ProducerStep

LEMMA ConsumerCounts ==
  ASSUME QosInv, DepthExact, NEW c \in Consumers, ConsumerStep(c)
  PROVE  DepthExact'
<1> USE DEF itemVars, countVars, prodVars, consVars, adminVars, ConsumerAt, BeginScan
<1>t. /\ place \in [Items -> ItemPlaces] /\ ppc \in [Producers -> ProducerPlaces]
      /\ consumerAt \in [Consumers -> ConsumerPlaces]
      /\ lvl \in [Consumers -> LevelNumbers]
      /\ depth \in [LevelNumbers -> 0..SizeMax]
      /\ Holding(c) => have[c] \in Items /\ place[have[c]] = "held"
  BY DEF QosInv, QosTypeOK, ItemPlaces, ProducerPlaces, ConsumerPlaces, ConsumersHold,
     LevelNumbers
<1>x. \A l \in LevelNumbers : Exact(l)
  BY ExactLevels
<1>q. ASSUME UNCHANGED <<depth, item>>,
             \A i \in Items : place'[i] = "queued" <=> place[i] = "queued",
             \A p \in Producers : ppc'[p] = ppc[p] \/ (ppc[p] = "blocked" /\ ppc'[p] = "testing"),
             \A d \in Consumers : d # c => consumerAt'[d] = consumerAt[d] /\ lvl'[d] = lvl[d],
             consumerAt[c] # "popped", consumerAt'[c] # "popped"
      PROVE  DepthExact'
  <2>1. \A l \in LevelNumbers : Queued(l)' = Queued(l)
    BY <1>q, SameQueued
  <2>2. \A l \in LevelNumbers : Popped(l)' = Popped(l)
    BY <1>q, SamePopped
  <2>3. \A l \in LevelNumbers : Evicted(l)' = Evicted(l) /\ Uncounted(l)' = Uncounted(l)
    BY <1>q, SameProducers
  <2> QED
    BY <1>q, <2>1, <2>2, <2>3, QuietStep
<1>1. CASE Loop(c)
  BY <1>1, <1>t, <1>q DEF Loop
<1>2. CASE NextLevel(c)
  BY <1>2, <1>t, <1>q DEF NextLevel
<1>3. CASE NotifySpace(c)
  BY <1>3, <1>t, <1>q DEF NotifySpace
<1>4. CASE Judge(c)
  BY <1>4, <1>t, <1>q DEF Judge, Holding
<1>5. CASE Execute(c)
  BY <1>5, <1>t, <1>q DEF Execute, Holding
<1>6. CASE TryDequeue(c)
  <2>1. PICK i \in Queued(lvl[c]) : place' = [place EXCEPT ![i] = "held"]
    BY <1>6 DEF TryDequeue
  <2>2. /\ consumerAt[c] = "scan" /\ consumerAt' = [consumerAt EXCEPT ![c] = "popped"]
        /\ UNCHANGED <<depth, item, ppc, lvl>>
    BY <1>6 DEF TryDequeue
  <2> SUFFICES ASSUME NEW l \in LevelNumbers PROVE Exact(l)'
    BY ExactLevels DEF DepthExact, Exact, Balance, LevelNumbers
  <2>3. Evicted(l)' = Evicted(l) /\ Uncounted(l)' = Uncounted(l)
    BY <2>2 DEF Evicted, Uncounted
  <2>4. CASE l = lvl[c]
    <3>1. Queued(l)' = Queued(l) \ {i} /\ i \in Queued(l)
      BY <2>1, <2>4, <1>t DEF Queued
    <3>2. Popped(l)' = Popped(l) \cup {c} /\ c \notin Popped(l)
      BY <2>2, <2>4, <1>t DEF Popped
    <3>3. /\ Cardinality(Queued(l)') = Cardinality(Queued(l)) - 1
          /\ Cardinality(Popped(l)') = Cardinality(Popped(l)) + 1
      BY <3>1, <3>2, OneMore, OneLess, SizesAreNumbers
    <3>4. Balance(l)' = Balance(l)
      BY <2>3, <3>3, SizesAreNumbers DEF Balance
    <3> QED
      BY <2>2, <3>4, <1>x DEF Exact
  <2>5. CASE l # lvl[c]
    <3>1. Queued(l)' = Queued(l) /\ Popped(l)' = Popped(l)
      BY <2>1, <2>2, <2>5, <1>t DEF Queued, Popped
    <3> QED
      BY <2>2, <2>3, <3>1, <1>x DEF Exact, Balance
  <2> QED
    BY <2>4, <2>5
<1>7. CASE CountOut(c)
  <2>1. /\ consumerAt[c] = "popped" /\ consumerAt' = [consumerAt EXCEPT ![c] = "notify"]
        /\ UNCHANGED <<place, item, ppc, lvl>>
        /\ depth' = [depth EXCEPT ![lvl[c]] = Plus(@, -1)]
    BY <1>7 DEF CountOut, Count
  <2> SUFFICES ASSUME NEW l \in LevelNumbers PROVE Exact(l)'
    BY ExactLevels DEF DepthExact, Exact, Balance, LevelNumbers
  <2>2. Queued(l)' = Queued(l) /\ Evicted(l)' = Evicted(l) /\ Uncounted(l)' = Uncounted(l)
    BY <2>1 DEF Queued, Evicted, Uncounted
  <2>3. CASE l = lvl[c]
    <3>1. Popped(l)' = Popped(l) \ {c} /\ c \in Popped(l)
      BY <2>1, <2>3, <1>t DEF Popped
    <3>2. Balance(l)' = Balance(l) + (-1)
      BY <2>2, <3>1, OneLess, SizesAreNumbers DEF Balance
    <3>3. depth'[l] = Plus(depth[l], -1)
      BY <2>1, <2>3, <1>t
    <3> QED
      BY <3>2, <3>3, <1>x, BalanceMoves, -1 \in Int
  <2>4. CASE l # lvl[c]
    <3>1. Popped(l)' = Popped(l) /\ depth'[l] = depth[l]
      BY <2>1, <2>4, <1>t DEF Popped
    <3> QED
      BY <2>2, <3>1, <1>x DEF Exact, Balance
  <2> QED
    BY <2>3, <2>4
<1> QED
  BY <1>1, <1>2, <1>3, <1>4, <1>5, <1>6, <1>7 DEF ConsumerStep

LEMMA OtherCounts ==
  ASSUME QosInv, DepthExact, OtherStep
  PROVE  DepthExact'
<1> USE DEF itemVars, countVars, prodVars, consVars, adminVars
<1>t. consumerAt \in [Consumers -> ConsumerPlaces]
  BY DEF QosInv, QosTypeOK, ConsumerPlaces
<1>1. /\ UNCHANGED <<depth, place, ppc, item, lvl>>
      /\ \A c \in Consumers : consumerAt'[c] = "popped" <=> consumerAt[c] = "popped"
  <2>1. CASE \E a \in Admins : Spawn(a) \/ JoinConsumers(a)
    BY <2>1, <1>t DEF Spawn, JoinConsumers
  <2>2. CASE ~\E a \in Admins : Spawn(a) \/ JoinConsumers(a)
    BY <2>2 DEF OtherStep, Expire, AdminStep, StartQos, Stop, PauseQos, ResumeQos,
       ClearFlags, RequestQosStop
  <2> QED
    BY <2>1, <2>2
<1>2. \A l \in LevelNumbers :
        /\ Queued(l)' = Queued(l) /\ Popped(l)' = Popped(l)
        /\ Evicted(l)' = Evicted(l) /\ Uncounted(l)' = Uncounted(l)
  BY <1>1, SameQueued, SamePopped, SameProducers
<1> QED
  BY <1>1, <1>2, QuietStep

\* depth is the length of the queue but for the updates that threads have under
\* way, whatever the order of consumers, producers and evictions, and however
\* often a counter wraps in between.
THEOREM CountersAreExact == QosSpec => []DepthExact
<1>1. ASSUME QosInit PROVE DepthExact
  <2> SUFFICES ASSUME NEW l \in LevelNumbers PROVE Exact(l)
    BY ExactLevels
  <2>1. /\ Queued(l) = {} /\ Popped(l) = {} /\ Evicted(l) = {} /\ Uncounted(l) = {}
        /\ depth[l] = 0
    BY <1>1 DEF QosInit, Queued, Popped, Evicted, Uncounted, LevelNumbers
  <2>2. Balance(l) = 0
    BY <2>1, FS_EmptySet DEF Balance
  <2>3. 0 % (SizeMax + 1) = 0
    BY QosAssumption
  <2> QED
    BY <2>1, <2>2, <2>3 DEF Exact
<1>2. QosInv /\ DepthExact /\ [QosNext]_qosVars => DepthExact'
  <2>1. ASSUME QosInv, DepthExact, QosNext PROVE DepthExact'
    BY <2>1, ProducerCounts, ConsumerCounts, OtherCounts DEF QosNext, OtherStep
  <2>2. ASSUME DepthExact, UNCHANGED qosVars PROVE DepthExact'
    BY <2>2 DEF DepthExact, Queued, Popped, Evicted, Uncounted,
       qosVars, itemVars, countVars, prodVars, consVars
  <2> QED
    BY <2>1, <2>2
<1> QED
  BY <1>1, <1>2, QosInvariant, PTL DEF QosSpec

-----------------------------------------------------------------------------
(* The limit. *)

\* Producers that have passed the capacity check and will put their item into
\* the queue of level l, unless another limit refuses it.
Admitted(l) ==
  {p \in Producers : ppc[p] \in {"evicted", "total", "push"} /\ Level[item[p]] = l}

\* Producers wait for space under kBlock only.
OnlyBlockers ==
  policy # "kBlock" =>
    \A p \in Producers : ppc[p] \notin {"testing", "blocking", "blocked"}

Limited == MaxDepth > 0 /\ policy # "kBlock"

Within ==
  Limited => \A l \in LevelNumbers :
    Cardinality(Queued(l)) + Cardinality(Admitted(l)) < MaxDepth + Cardinality(Producers)

\* size_t is wide enough for the limit and one update of every thread.
CountersAreWide ==
  MaxDepth + 2 * Cardinality(Producers) + Cardinality(Consumers) <= SizeMax

LEMMA AdmittedSize ==
  ASSUME NEW l
  PROVE  IsFiniteSet(Admitted(l)) /\ Cardinality(Admitted(l)) \in Nat
<1>1. Admitted(l) \subseteq Producers
  BY DEF Admitted
<1> QED
  BY <1>1, QosAssumption, FS_Subset, FS_CardinalityType

\* A counter below the limit says that the queue is, but for items that are not
\* counted yet: it cannot have wrapped.
LEMMA NotFull ==
  ASSUME DepthExact, CountersAreWide, NEW l \in LevelNumbers, depth[l] < MaxDepth,
         Cardinality(Queued(l)) < MaxDepth + Cardinality(Producers)
  PROVE  Cardinality(Queued(l)) < MaxDepth + Cardinality(Uncounted(l))
<1>1. /\ Cardinality(Queued(l)) \in Nat /\ Cardinality(Popped(l)) \in Nat
      /\ Cardinality(Evicted(l)) \in Nat /\ Cardinality(Uncounted(l)) \in Nat
      /\ SizeMax \in Nat /\ MaxDepth \in Nat
  BY SizesAreNumbers, QosAssumption
<1>2. /\ Cardinality(Popped(l)) <= Cardinality(Consumers)
      /\ Cardinality(Evicted(l)) <= Cardinality(Producers)
      /\ Cardinality(Consumers) \in Nat /\ Cardinality(Producers) \in Nat
  <2>1. Popped(l) \subseteq Consumers /\ Evicted(l) \subseteq Producers
    BY DEF Popped, Evicted
  <2> QED
    BY <2>1, QosAssumption, FS_Subset, FS_CardinalityType
<1>3. Balance(l) \in Int /\ Balance(l) <= SizeMax
  BY <1>1, <1>2 DEF Balance, CountersAreWide
<1>4. CASE Balance(l) < 0
  BY <1>1, <1>4 DEF Balance
<1>5. CASE Balance(l) >= 0
  <2>1. Balance(l) % (SizeMax + 1) = Balance(l)
    <3>1. /\ SizeMax + 1 \in Nat \ {0} /\ 0 \in Int /\ Balance(l) \in 0..((SizeMax + 1) - 1)
          /\ Balance(l) = (SizeMax + 1) * 0 + Balance(l)
      BY <1>1, <1>3, <1>5
    <3> QED
      BY <3>1, <1>3, ModUnique
  <2>2. Balance(l) < MaxDepth
    BY <2>1, ExactLevels DEF Exact
  <2> QED
    BY <1>1, <2>2 DEF Balance
<1> QED
  BY <1>3, <1>4, <1>5

\* The producer at the check, those past it and those that wait to count are
\* different producers.
LEMMA RoomForOne ==
  ASSUME NEW l, NEW p \in Producers, ppc[p] = "admit"
  PROVE  Cardinality(Admitted(l)) + Cardinality(Uncounted(l)) + 1 <= Cardinality(Producers)
<1> DEFINE A == Admitted(l)
           U == Uncounted(l)
<1>1. /\ IsFiniteSet(A) /\ IsFiniteSet(U) /\ Cardinality(A) \in Nat /\ Cardinality(U) \in Nat
  BY AdmittedSize, SizesAreNumbers
<1>2. A \cap U = {} /\ p \notin A \cup U /\ A \cup U \cup {p} \subseteq Producers
  BY DEF Admitted, Uncounted
<1> HIDE DEF A, U
<1>3. IsFiniteSet(A \cup U) /\ Cardinality(A \cup U) = Cardinality(A) + Cardinality(U)
  BY <1>1, <1>2, FS_Union, FS_EmptySet
<1>4. Cardinality(A \cup U \cup {p}) = Cardinality(A) + Cardinality(U) + 1
  BY <1>2, <1>3, OneMore
<1>5. Cardinality(A \cup U \cup {p}) <= Cardinality(Producers)
  BY <1>2, QosAssumption, FS_Subset
<1> QED
  BY <1>4, <1>5 DEF A, U

\* A step that lets no producer pass the check.
LEMMA WithinKept ==
  ASSUME Within, UNCHANGED policy,
         \A l \in LevelNumbers : Queued(l)' \subseteq Queued(l) /\ Admitted(l)' \subseteq Admitted(l)
  PROVE  Within'
<1>1. ASSUME NEW l \in LevelNumbers
      PROVE  /\ Cardinality(Queued(l)') <= Cardinality(Queued(l))
             /\ Cardinality(Admitted(l)') <= Cardinality(Admitted(l))
             /\ Cardinality(Queued(l)') \in Nat /\ Cardinality(Admitted(l)') \in Nat
             /\ Cardinality(Queued(l)) \in Nat /\ Cardinality(Admitted(l)) \in Nat
  BY SizesAreNumbers, AdmittedSize, FS_Subset, FS_CardinalityType
<1>2. Cardinality(Producers) \in Nat /\ MaxDepth \in Nat
  BY QosAssumption, FS_CardinalityType
<1> QED
  BY <1>1, <1>2 DEF Within, Limited

LEMMA BlockersStay ==
  ASSUME OnlyBlockers, QosInv, QosNext
  PROVE  OnlyBlockers'
<1> USE DEF itemVars, countVars, prodVars, consVars, adminVars, ProducerAt
<1>t. ppc \in [Producers -> ProducerPlaces]
  BY DEF QosInv, QosTypeOK, ProducerPlaces
<1>1. ASSUME NEW p \in Producers, ProducerStep(p) \/ \E i \in Items : Enqueue(p, i)
      PROVE  OnlyBlockers'
  <2>1. CASE Admit(p)
    BY <2>1, <1>t DEF OnlyBlockers, Admit, Refuse
  <2>2. CASE TestSpace(p) \/ Block(p)
    BY <2>2, <1>t DEF OnlyBlockers, TestSpace, Block
  <2>3. CASE Evict(p) \/ UncountEvicted(p) \/ Push(p) \/ CountIn(p)
    BY <2>3, <1>t DEF OnlyBlockers, Evict, UncountEvicted, Push, CountIn
  <2>4. CASE CheckLimits(p) \/ \E i \in Items : Enqueue(p, i)
    BY <2>4, <1>t DEF OnlyBlockers, CheckLimits, Refuse, Enqueue
  <2> QED
    BY <1>1, <2>1, <2>2, <2>3, <2>4 DEF ProducerStep
<1>2. ASSUME NEW p \in Producers, QosSpuriousWakeup(p) PROVE OnlyBlockers'
  BY <1>2, <1>t DEF OnlyBlockers, QosSpuriousWakeup
<1>3. ASSUME NEW c \in Consumers, ConsumerStep(c) PROVE OnlyBlockers'
  <2>1. CASE NotifySpace(c)
    <3>1. /\ policy' = policy
          /\ ppc' = [p \in Producers |-> IF ppc[p] = "blocked" THEN "testing" ELSE ppc[p]]
      BY <2>1 DEF NotifySpace
    <3> QED
      BY <3>1, <1>t DEF OnlyBlockers
  <2>2. CASE ~NotifySpace(c)
    <3>1. policy' = policy /\ ppc' = ppc
      BY <1>3, <2>2 DEF ConsumerStep, Loop, TryDequeue, NextLevel, CountOut, Judge, Execute
    <3> QED
      BY <3>1 DEF OnlyBlockers
  <2> QED
    BY <2>1, <2>2
<1>4. CASE OtherStep
  BY <1>4 DEF OnlyBlockers, OtherStep, Expire, AdminStep, StartQos, Stop, PauseQos, ResumeQos,
     ClearFlags, Spawn, RequestQosStop, JoinConsumers
<1> QED
  BY <1>1, <1>2, <1>3, <1>4 DEF QosNext, OtherStep

LEMMA ProducersWithin ==
  ASSUME QosInv, DepthExact, CountersAreWide, OnlyBlockers, Within, NEW p \in Producers,
         ProducerStep(p) \/ QosSpuriousWakeup(p) \/ \E i \in Items : Enqueue(p, i)
  PROVE  Within'
<1> USE DEF itemVars, countVars, prodVars, consVars, adminVars, ProducerAt
<1>t. /\ place \in [Items -> ItemPlaces] /\ ppc \in [Producers -> ProducerPlaces]
      /\ item \in [Producers -> Items \cup {None}]
      /\ depth \in [LevelNumbers -> 0..SizeMax]
      /\ Carrying(p) => item[p] \in Items /\ place[item[p]] = "submitted"
      /\ Level \in [Items -> LevelNumbers]
      /\ Cardinality(Producers) \in Nat /\ MaxDepth \in Nat
  BY QosAssumption, FS_CardinalityType
  DEF QosInv, QosTypeOK, ItemPlaces, ProducerPlaces, ProducersCarry, LevelNumbers
<1>n. \A l \in LevelNumbers : /\ Cardinality(Queued(l)) \in Nat /\ Cardinality(Admitted(l)) \in Nat
                              /\ IsFiniteSet(Queued(l)) /\ IsFiniteSet(Admitted(l))
  BY SizesAreNumbers, AdmittedSize
<1>q. ASSUME UNCHANGED policy,
             \A i \in Items : place'[i] = "queued" => place[i] = "queued",
             \A q \in Producers : q # p => ppc'[q] = ppc[q] /\ item'[q] = item[q],
             ppc'[p] \notin {"evicted", "total", "push"}
               \/ (ppc[p] \in {"evicted", "total", "push"} /\ item'[p] = item[p])
      PROVE  Within'
  <2>1. \A l \in LevelNumbers : Queued(l)' \subseteq Queued(l)
    BY <1>q DEF Queued
  <2>2. \A l \in LevelNumbers : Admitted(l)' \subseteq Admitted(l)
    BY <1>q DEF Admitted
  <2> QED
    BY <1>q, <2>1, <2>2, WithinKept
<1>1. ASSUME NEW i \in Items, Enqueue(p, i) PROVE Within'
  BY <1>1, <1>t, <1>q DEF Enqueue
<1>2. ASSUME NEW here, Refuse(p, here), here \in {"admit", "total"} PROVE Within'
  BY <1>2, <1>t, <1>q DEF Refuse, Carrying
\* The producer passes the check of a queue with room, or finds it empty.
<1>3. ASSUME ppc[p] \in {"admit", "evict"}, ppc' = [ppc EXCEPT ![p] = "total"],
             UNCHANGED <<policy, place, item>>,
             Limited => Cardinality(Queued(Level[item[p]])) + Cardinality(Admitted(Level[item[p]])) + 1
                          < MaxDepth + Cardinality(Producers)
      PROVE  Within'
  <2> SUFFICES ASSUME Limited, NEW l \in LevelNumbers
               PROVE  Cardinality(Queued(l)') + Cardinality(Admitted(l)')
                        < MaxDepth + Cardinality(Producers)
    BY <1>3 DEF Within, Limited
  <2>1. Queued(l)' = Queued(l)
    BY <1>3 DEF Queued
  <2>2. CASE l = Level[item[p]]
    <3>1. Admitted(l)' = Admitted(l) \cup {p} /\ p \notin Admitted(l)
      BY <1>3, <1>t, <2>2 DEF Admitted
    <3>2. Cardinality(Admitted(l)') = Cardinality(Admitted(l)) + 1
      BY <3>1, <1>n, OneMore
    <3> QED
      BY <1>3, <1>t, <1>n, <2>1, <2>2, <3>2
  <2>3. CASE l # Level[item[p]]
    <3>1. Admitted(l)' = Admitted(l)
      BY <1>3, <1>t, <2>3 DEF Admitted
    <3> QED
      BY <2>1, <3>1 DEF Within
  <2> QED
    BY <2>2, <2>3
<1>4. CASE Admit(p)
  <2>1. CASE ~Full(p) /\ ppc' = [ppc EXCEPT ![p] = "total"] /\ UNCHANGED <<itemVars, item>>
    <3> DEFINE l == Level[item[p]]
    <3>1. ppc[p] = "admit" /\ l \in LevelNumbers
      BY <1>4, <1>t DEF Admit, Carrying
    <3>2. ASSUME Limited
          PROVE  Cardinality(Queued(l)) + Cardinality(Admitted(l)) + 1
                   < MaxDepth + Cardinality(Producers)
      <4>1. depth[l] < MaxDepth
        <5>1. depth[l] \in 0..SizeMax /\ SizeMax \in Nat
          BY <3>1, <1>t, QosAssumption
        <5>2. ~(depth[l] >= MaxDepth)
          BY <2>1, <3>2 DEF Full, Limited
        <5> QED
          BY <5>1, <5>2, <1>t
      <4>2. Cardinality(Queued(l)) < MaxDepth + Cardinality(Producers)
        BY <3>1, <3>2, <1>t, <1>n DEF Within
      <4>3. Cardinality(Queued(l)) < MaxDepth + Cardinality(Uncounted(l))
        BY <3>1, <4>1, <4>2, NotFull
      <4>4. Cardinality(Admitted(l)) + Cardinality(Uncounted(l)) + 1 <= Cardinality(Producers)
        BY <3>1, RoomForOne
      <4> QED
        BY <3>1, <4>3, <4>4, <1>t, <1>n, SizesAreNumbers
    <3> QED
      BY <1>3, <2>1, <3>1, <3>2
  <2>2. CASE Refuse(p, "admit")
    BY <1>2, <2>2
  <2>3. CASE ppc'[p] \in {"evict", "testing"}
    BY <1>4, <1>t, <1>q, <2>3 DEF Admit, Refuse
  <2> QED
    BY <1>4, <1>t, <2>1, <2>2, <2>3 DEF Admit
<1>5. CASE Evict(p)
  <2>1. ppc[p] = "evict" /\ UNCHANGED <<policy, item>> /\ Level[item[p]] \in LevelNumbers
    BY <1>5, <1>t DEF Evict, Carrying
  <2>2. CASE Queued(Level[item[p]]) = {}
    <3>1. ppc' = [ppc EXCEPT ![p] = "total"] /\ UNCHANGED place
      BY <1>5, <2>2 DEF Evict
    <3>2. ASSUME Limited
          PROVE  Cardinality(Queued(Level[item[p]])) + Cardinality(Admitted(Level[item[p]])) + 1
                   < MaxDepth + Cardinality(Producers)
      <4> DEFINE A == Admitted(Level[item[p]])
      <4>1. A \cup {p} \subseteq Producers /\ p \notin A /\ IsFiniteSet(A) /\ Cardinality(A) \in Nat
        BY <2>1, <1>n DEF Admitted
      <4>2. Cardinality(A \cup {p}) = Cardinality(A) + 1
        BY <4>1, OneMore
      <4>3. Cardinality(A \cup {p}) <= Cardinality(Producers)
        BY <4>1, QosAssumption, FS_Subset
      <4>4. Cardinality(Queued(Level[item[p]])) = 0
        BY <2>2, FS_EmptySet
      <4> QED
        BY <3>2, <4>1, <4>2, <4>3, <4>4, <1>t DEF Limited
    <3> QED
      BY <1>3, <2>1, <3>1, <3>2
  <2>3. CASE Queued(Level[item[p]]) # {}
    <3>1. PICK i \in Queued(Level[item[p]]) :
             ppc' = [ppc EXCEPT ![p] = "evicted"] /\ place' = [place EXCEPT ![i] = "evicted"]
      BY <1>5, <2>3 DEF Evict
    <3> SUFFICES ASSUME Limited, NEW l \in LevelNumbers
                 PROVE  Cardinality(Queued(l)') + Cardinality(Admitted(l)')
                          < MaxDepth + Cardinality(Producers)
      BY <2>1 DEF Within, Limited
    <3>2. CASE l = Level[item[p]]
      <4>1. Queued(l)' = Queued(l) \ {i} /\ i \in Queued(l)
        BY <3>1, <3>2, <1>t DEF Queued
      <4>2. Admitted(l)' = Admitted(l) \cup {p} /\ p \notin Admitted(l)
        BY <2>1, <3>1, <3>2, <1>t DEF Admitted
      <4>3. /\ Cardinality(Queued(l)') = Cardinality(Queued(l)) - 1
            /\ Cardinality(Admitted(l)') = Cardinality(Admitted(l)) + 1
        BY <4>1, <4>2, <1>n, OneMore, OneLess
      <4> QED
        BY <4>3, <1>n, <1>t DEF Within
    <3>3. CASE l # Level[item[p]]
      <4>1. Queued(l)' = Queued(l) /\ Admitted(l)' = Admitted(l)
        BY <2>1, <3>1, <3>3, <1>t DEF Queued, Admitted
      <4> QED
        BY <4>1 DEF Within
    <3> QED
      BY <3>2, <3>3
  <2> QED
    BY <2>2, <2>3
<1>6. CASE UncountEvicted(p)
  BY <1>6, <1>t, <1>q DEF UncountEvicted
<1>7. CASE TestSpace(p) \/ Block(p) \/ QosSpuriousWakeup(p)
  <2>1. policy' = policy /\ ~Limited
    BY <1>7, <1>t DEF OnlyBlockers, TestSpace, Block, QosSpuriousWakeup, Limited
  <2> QED
    BY <2>1 DEF Within, Limited
<1>8. CASE CheckLimits(p)
  <2>1. CASE Refuse(p, "total")
    BY <1>2, <2>1
  <2>2. CASE ~Refuse(p, "total")
    BY <1>8, <1>t, <1>q, <2>2 DEF CheckLimits
  <2> QED
    BY <2>1, <2>2
<1>9. CASE Push(p)
  <2>1. /\ ppc[p] = "push" /\ ppc' = [ppc EXCEPT ![p] = "pushed"]
        /\ place' = [place EXCEPT ![item[p]] = "queued"] /\ UNCHANGED <<policy, item>>
        /\ item[p] \in Items /\ place[item[p]] = "submitted"
    BY <1>9, <1>t DEF Push, Carrying
  <2> SUFFICES ASSUME Limited, NEW l \in LevelNumbers
               PROVE  Cardinality(Queued(l)') + Cardinality(Admitted(l)')
                        < MaxDepth + Cardinality(Producers)
    BY <2>1 DEF Within, Limited
  <2>2. CASE l = Level[item[p]]
    <3>1. Queued(l)' = Queued(l) \cup {item[p]} /\ item[p] \notin Queued(l)
      BY <2>1, <2>2, <1>t DEF Queued
    <3>2. Admitted(l)' = Admitted(l) \ {p} /\ p \in Admitted(l)
      BY <2>1, <2>2, <1>t DEF Admitted
    <3>3. /\ Cardinality(Queued(l)') = Cardinality(Queued(l)) + 1
          /\ Cardinality(Admitted(l)') = Cardinality(Admitted(l)) - 1
      BY <3>1, <3>2, <1>n, OneMore, OneLess
    <3> QED
      BY <3>3, <1>n, <1>t DEF Within
  <2>3. CASE l # Level[item[p]]
    <3>1. Queued(l)' = Queued(l) /\ Admitted(l)' = Admitted(l)
      BY <2>1, <2>3, <1>t DEF Queued, Admitted
    <3> QED
      BY <3>1 DEF Within
  <2> QED
    BY <2>2, <2>3
<1>10. CASE CountIn(p)
  BY <1>10, <1>t, <1>q DEF CountIn
<1> QED
  BY <1>1, <1>4, <1>5, <1>6, <1>7, <1>8, <1>9, <1>10 DEF ProducerStep

LEMMA ConsumersWithin ==
  ASSUME QosInv, Within, NEW c \in Consumers, ConsumerStep(c)
  PROVE  Within'
<1> USE DEF itemVars, countVars, prodVars, consVars, adminVars, ConsumerAt
<1>t. /\ place \in [Items -> ItemPlaces] /\ ppc \in [Producers -> ProducerPlaces]
      /\ Holding(c) => have[c] \in Items /\ place[have[c]] = "held"
  BY DEF QosInv, QosTypeOK, ItemPlaces, ProducerPlaces, ConsumersHold
<1>q. ASSUME UNCHANGED <<policy, item>>,
             \A i \in Items : place'[i] = "queued" => place[i] = "queued",
             \A p \in Producers :
               ppc'[p] \in {"evicted", "total", "push"} => ppc'[p] = ppc[p]
      PROVE  Within'
  <2>1. \A l \in LevelNumbers : Queued(l)' \subseteq Queued(l)
    BY <1>q DEF Queued
  <2>2. \A l \in LevelNumbers : Admitted(l)' \subseteq Admitted(l)
    BY <1>q DEF Admitted
  <2> QED
    BY <1>q, <2>1, <2>2, WithinKept
<1>1. CASE Loop(c) \/ NextLevel(c) \/ CountOut(c)
  BY <1>1, <1>q DEF Loop, NextLevel, CountOut
<1>2. CASE TryDequeue(c)
  <2>1. PICK i \in Queued(lvl[c]) : place' = [place EXCEPT ![i] = "held"]
    BY <1>2 DEF TryDequeue
  <2>2. UNCHANGED <<policy, item, ppc>>
    BY <1>2 DEF TryDequeue
  <2> QED
    BY <2>1, <2>2, <1>t, <1>q
<1>3. CASE NotifySpace(c)
  BY <1>3, <1>t, <1>q DEF NotifySpace
<1>4. CASE Judge(c)
  <2>1. UNCHANGED <<policy, item, ppc>>
    BY <1>4 DEF Judge
  <2>2. place' = place \/ place' = [place EXCEPT ![have[c]] = "expired"]
    BY <1>4 DEF Judge
  <2> QED
    BY <2>1, <2>2, <1>t, <1>q
<1>5. CASE Execute(c)
  BY <1>5, <1>t, <1>q DEF Execute
<1> QED
  BY <1>1, <1>2, <1>3, <1>4, <1>5 DEF ConsumerStep

\* Producers that evict go on without asking how much room there is, and several
\* may find the same room; a queue still never exceeds its limit by as many
\* items as there are producers.
THEOREM LimitIsOvershotByLess ==
  CountersAreWide => (QosSpec => []OvershootBounded)
<1> SUFFICES ASSUME CountersAreWide PROVE QosSpec => []OvershootBounded
  OBVIOUS
<1>n. Cardinality(Producers) \in Nat /\ MaxDepth \in Nat
  BY QosAssumption, FS_CardinalityType
<1>1. ASSUME QosInit PROVE OnlyBlockers /\ Within
  <2>1. OnlyBlockers
    BY <1>1 DEF QosInit, OnlyBlockers
  <2>2. \A l \in LevelNumbers : Queued(l) = {} /\ Admitted(l) = {}
    BY <1>1 DEF QosInit, Queued, Admitted
  <2>3. Cardinality({}) = 0
    BY FS_EmptySet
  <2> QED
    BY <2>1, <2>2, <2>3, <1>n DEF Within, Limited
<1>2. QosInv /\ DepthExact /\ OnlyBlockers /\ Within /\ [QosNext]_qosVars
        => OnlyBlockers' /\ Within'
  <2>1. ASSUME QosInv, DepthExact, OnlyBlockers, Within, QosNext
        PROVE  OnlyBlockers' /\ Within'
    <3>1. OnlyBlockers'
      BY <2>1, BlockersStay
    <3>2. CASE OtherStep
      <4>1. UNCHANGED <<policy, place, ppc, item>>
        BY <3>2 DEF OtherStep, Expire, AdminStep, StartQos, Stop, PauseQos, ResumeQos,
           ClearFlags, Spawn, RequestQosStop, JoinConsumers,
           itemVars, countVars, prodVars, consVars
      <4>2. \A l \in LevelNumbers : Queued(l)' = Queued(l) /\ Admitted(l)' = Admitted(l)
        BY <4>1 DEF Queued, Admitted
      <4>3. Within'
        BY <2>1, <4>1, <4>2, WithinKept
      <4> QED
        BY <3>1, <4>3
    <3>3. CASE \E p \in Producers :
            ProducerStep(p) \/ QosSpuriousWakeup(p) \/ \E i \in Items : Enqueue(p, i)
      BY <2>1, <3>1, <3>3, ProducersWithin
    <3>4. CASE \E c \in Consumers : ConsumerStep(c)
      BY <2>1, <3>1, <3>4, ConsumersWithin
    <3> QED
      BY <2>1, <3>2, <3>3, <3>4 DEF QosNext, OtherStep
  <2>2. ASSUME OnlyBlockers, Within, UNCHANGED qosVars PROVE OnlyBlockers' /\ Within'
    BY <2>2 DEF OnlyBlockers, Within, Limited, Queued, Admitted,
       qosVars, itemVars, countVars, prodVars, consVars
  <2> QED
    BY <2>1, <2>2
<1>3. ASSUME Within PROVE OvershootBounded
  <2>1. \A l \in LevelNumbers : Cardinality(Queued(l)) \in Nat /\ Cardinality(Admitted(l)) \in Nat
    BY SizesAreNumbers, AdmittedSize
  <2> QED
    BY <1>3, <2>1, <1>n DEF Within, Limited, OvershootBounded, LevelNumbers
<1> QED
  BY <1>1, <1>2, <1>3, QosInvariant, CountersAreExact, PTL DEF QosSpec
=============================================================================
