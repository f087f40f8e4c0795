-------------------------------- MODULE Qos ---------------------------------
(***************************************************************************)
(* The prioritised dispatcher of yacul/qos/qos.{h,cc}: producers that      *)
(* enqueue, consumer threads, and the lifecycle operations.                *)
(*                                                                         *)
(* One action is one operation on a lock-free queue, one update of the     *)
(* depth counters or one test of an atomic.  The concurrent queues         *)
(* (vendored, external) promise no order between producers and are sets.   *)
(* depth and total_depth_ are size_t and are updated after the queue they  *)
(* count; no decision reads both, so one step updates the two.  What the   *)
(* token buckets decide is a free choice here (module TokenBucket).        *)
(* Observers and statistics are left out: they change nothing else.        *)
(* An item's place says which queue or thread has it.                      *)
(***************************************************************************)
EXTENDS Integers, FiniteSets

CONSTANTS Items,        \* items that producers submit
          Level,        \* the priority level of each item
          Levels,       \* kNumPriorityLevels
          Quota,        \* config_.wrr_quanta
          Producers,    \* threads that call Enqueue
          Consumers,    \* config_.num_consumer_threads threads
          Admins,       \* threads that call Start, Stop, Pause and Resume
          MaxDepth,     \* config_.max_queue_depth, 0 for no limit
          MaxTotal,     \* config_.max_total_depth, 0 for no limit
          OverflowPolicies,     \* the values of config_.overflow_policy considered
          SizeMax,      \* numeric_limits<size_t>::max()
          RateLimited,  \* whether a rate limiter is configured
          Expiry,       \* whether items expire while queued
          QosOps,          \* the lifecycle operations called
          None          \* no item

Finished == {"executed", "dropped", "expired", "evicted"}

ASSUME QosAssumption ==
  /\ IsFiniteSet(Items) /\ IsFiniteSet(Producers) /\ IsFiniteSet(Consumers)
  /\ Levels \in Nat \ {0}
  /\ Level \in [Items -> 0..(Levels - 1)]
  /\ Quota \in [0..(Levels - 1) -> Nat]
  /\ MaxDepth \in Nat /\ MaxTotal \in Nat /\ SizeMax \in Nat
  /\ OverflowPolicies \subseteq {"kDrop", "kDropOldest", "kBlock"}
  /\ RateLimited \in BOOLEAN /\ Expiry \in BOOLEAN
  /\ QosOps \subseteq {"Start", "Stop", "Pause", "Resume"}
  /\ None \notin Items

VARIABLES policy,    \* config_.overflow_policy, which never changes
          place,     \* where each item is
          expired,   \* the items whose deadline or TTL has passed
          depth,     \* PriorityQueue::depth, per level
          total,     \* total_depth_
          ppc, item, \* producers: where, and with which item
          consumerAt, have, \* consumers: where, and with which item
          lvl, tries,\* the position of DequeueInternal's scan
          drain,     \* consumers past the main loop
          qosRunning, stop, qosPaused,  \* running_, stop_requested_, paused_
          apc,       \* where each admin is
          promised   \* items whose Enqueue had returned when Stop began

itemVars == <<policy, place, expired>>
countVars == <<depth, total>>
prodVars == <<ppc, item>>
consVars == <<consumerAt, have, lvl, tries, drain>>
adminVars == <<qosRunning, stop, qosPaused, apc, promised>>
qosVars == <<itemVars, countVars, prodVars, consVars, adminVars>>

QosInit ==
  /\ policy \in OverflowPolicies
  /\ place = [i \in Items |-> "out"] /\ expired = {}
  /\ depth = [l \in 0..(Levels - 1) |-> 0] /\ total = 0
  /\ ppc = [p \in Producers |-> "idle"] /\ item = [p \in Producers |-> None]
  /\ consumerAt = [c \in Consumers |-> "none"] /\ have = [c \in Consumers |-> None]
  /\ lvl = [c \in Consumers |-> 0] /\ tries = [c \in Consumers |-> 0]
  /\ drain = {}
  /\ qosRunning = FALSE /\ stop = FALSE /\ qosPaused = FALSE
  /\ apc = [a \in Admins |-> "idle"]
  /\ promised = {}

Queued(l) == {i \in Items : place[i] = "queued" /\ Level[i] = l}

\* fetch_add and fetch_sub on size_t.
Plus(n, d) == (n + d) % (SizeMax + 1)

Count(l, d) ==
  /\ depth' = [depth EXCEPT ![l] = Plus(@, d)]
  /\ total' = Plus(total, d)

-----------------------------------------------------------------------------
(* EnqueueInternal. *)

ProducerAt(p, here, there) == ppc[p] = here /\ ppc' = [ppc EXCEPT ![p] = there]

\* Enqueue and EnqueueTask.
Enqueue(p, i) ==
  /\ place[i] = "out"
  /\ ProducerAt(p, "idle", "admit")
  /\ item' = [item EXCEPT ![p] = i]
  /\ place' = [place EXCEPT ![i] = "submitted"]
  /\ UNCHANGED <<policy, expired, countVars, consVars, adminVars>>

\* Enqueue returns false.
Refuse(p, here) ==
  /\ ProducerAt(p, here, "idle")
  /\ place' = [place EXCEPT ![item[p]] = "dropped"]
  /\ item' = [item EXCEPT ![p] = None]
  /\ UNCHANGED <<policy, expired>>

\* Mutant: the capacity check of the queue is off by one.
Full_OneMore(p) == MaxDepth > 0 /\ depth[Level[item[p]]] > MaxDepth

Full(p) == MaxDepth > 0 /\ depth[Level[item[p]]] >= MaxDepth

\* The capacity check and its three policies.
Admit(p) ==
  /\ ppc[p] = "admit"
  /\ \/ ~Full(p) /\ ProducerAt(p, "admit", "total") /\ UNCHANGED <<itemVars, item>>
     \/ Full(p) /\ policy = "kDrop" /\ Refuse(p, "admit")
     \/ Full(p) /\ policy = "kDropOldest" /\ ProducerAt(p, "admit", "evict")
        /\ UNCHANGED <<itemVars, item>>
     \/ Full(p) /\ policy = "kBlock" /\ ProducerAt(p, "admit", "testing")
        /\ UNCHANGED <<itemVars, item>>
  /\ UNCHANGED <<countVars, consVars, adminVars>>

\* kDropOldest: some queued item leaves, if there is one ...
Evict(p) ==
  /\ ppc[p] = "evict"
  /\ \/ \E i \in Queued(Level[item[p]]) :
          /\ ProducerAt(p, "evict", "evicted")
          /\ place' = [place EXCEPT ![i] = "evicted"]
     \/ /\ Queued(Level[item[p]]) = {}
        /\ ProducerAt(p, "evict", "total")
        /\ UNCHANGED place
  /\ UNCHANGED <<policy, expired, item, countVars, consVars, adminVars>>

\* Mutant: the evicted item stays counted.
UncountEvicted_Not(p) ==
  /\ ProducerAt(p, "evicted", "total")
  /\ UNCHANGED <<itemVars, item, countVars, consVars, adminVars>>

\* ... and is counted out.
UncountEvicted(p) ==
  /\ ProducerAt(p, "evicted", "total")
  /\ Count(Level[item[p]], -1)
  /\ UNCHANGED <<itemVars, item, consVars, adminVars>>

\* kBlock: the predicate of backpressure_cv_.wait, under backpressure_mu_; a
\* producer that found it false keeps the mutex until it sleeps.  Consumers
\* notify without it, and Stop does not notify.
TestSpace(p) ==
  /\ ppc[p] = "testing"
  /\ \A o \in Producers : ppc[o] # "blocking"
  /\ \/ /\ ~Full(p) \/ stop
        /\ ProducerAt(p, "testing", "total")
     \/ /\ Full(p) /\ ~stop
        /\ ProducerAt(p, "testing", "blocking")
  /\ UNCHANGED <<itemVars, item, countVars, consVars, adminVars>>

Block(p) ==
  /\ ProducerAt(p, "blocking", "blocked")
  /\ UNCHANGED <<itemVars, item, countVars, consVars, adminVars>>

\* The condition variable may wake a producer for no reason.
QosSpuriousWakeup(p) ==
  /\ ProducerAt(p, "blocked", "testing")
  /\ UNCHANGED <<itemVars, item, countVars, consVars, adminVars>>

\* The limit on all queues, then the global and the per-priority rate limiter.
CheckLimits(p) ==
  /\ ppc[p] = "total"
  /\ \/ /\ (MaxTotal > 0 /\ total >= MaxTotal) \/ RateLimited
        /\ Refuse(p, "total")
     \/ /\ ~(MaxTotal > 0 /\ total >= MaxTotal)
        /\ ProducerAt(p, "total", "push")
        /\ UNCHANGED <<itemVars, item>>
  /\ UNCHANGED <<countVars, consVars, adminVars>>

\* The item is stamped and put into its queue; consumers see it before ...
Push(p) ==
  /\ ProducerAt(p, "push", "pushed")
  /\ place' = [place EXCEPT ![item[p]] = "queued"]
  /\ UNCHANGED <<policy, expired, item, countVars, consVars, adminVars>>

\* ... it is counted.  Enqueue returns true.
CountIn(p) ==
  /\ ProducerAt(p, "pushed", "idle")
  /\ Count(Level[item[p]], 1)
  /\ item' = [item EXCEPT ![p] = None]
  /\ UNCHANGED <<itemVars, consVars, adminVars>>

ProducerStep(p) ==
  \/ Admit(p)
  \/ Evict(p)
  \/ UncountEvicted(p)
  \/ TestSpace(p)
  \/ Block(p)
  \/ CheckLimits(p)
  \/ Push(p)
  \/ CountIn(p)

-----------------------------------------------------------------------------
(* ConsumerLoop and DequeueInternal. *)

ConsumerAt(c, here, there) == consumerAt[c] = here /\ consumerAt' = [consumerAt EXCEPT ![c] = there]

\* The scan starts at the highest level.
BeginScan(c, here) ==
  /\ ConsumerAt(c, here, "scan")
  /\ lvl' = [lvl EXCEPT ![c] = Levels - 1]
  /\ tries' = [tries EXCEPT ![c] = 0]

\* Mutant: a stopped consumer leaves without draining.
Loop_NoDrain(c) ==
  /\ \/ stop /\ ConsumerAt(c, "loop", "exited") /\ UNCHANGED <<lvl, tries, drain>>
     \/ ~stop /\ ~qosPaused /\ BeginScan(c, "loop") /\ UNCHANGED drain
  /\ UNCHANGED <<itemVars, countVars, prodVars, have, adminVars>>

\* The tests at the top of the loop: leave it to drain, or look for an item;
\* a paused consumer sleeps and tests again.
Loop(c) ==
  /\ \/ stop /\ drain' = drain \cup {c}
     \/ ~stop /\ ~qosPaused /\ UNCHANGED drain
  /\ BeginScan(c, "loop")
  /\ UNCHANGED <<itemVars, countVars, prodVars, have, adminVars>>

Tries(c) == tries[c] < Quota[lvl[c]] /\ Queued(lvl[c]) # {}

\* try_dequeue at the scan's level.
TryDequeue(c) ==
  /\ consumerAt[c] = "scan" /\ Tries(c)
  /\ \E i \in Queued(lvl[c]) : /\ place' = [place EXCEPT ![i] = "held"]
                               /\ have' = [have EXCEPT ![c] = i]
  /\ ConsumerAt(c, "scan", "popped")
  /\ UNCHANGED <<policy, expired, countVars, prodVars, lvl, tries, drain, adminVars>>

\* The level is empty or its quota used up: on to the next, or no item at all,
\* which ends a drain.
NextLevel(c) ==
  /\ consumerAt[c] = "scan" /\ ~Tries(c)
  /\ \/ /\ lvl[c] > 0
        /\ lvl' = [lvl EXCEPT ![c] = @ - 1]
        /\ tries' = [tries EXCEPT ![c] = 0]
        /\ UNCHANGED <<consumerAt, drain>>
     \/ /\ lvl[c] = 0 /\ c \in drain
        /\ ConsumerAt(c, "scan", "exited")
        /\ drain' = drain \ {c}
        /\ UNCHANGED <<lvl, tries>>
     \/ /\ lvl[c] = 0 /\ c \notin drain
        /\ ConsumerAt(c, "scan", "loop")
        /\ UNCHANGED <<lvl, tries, drain>>
  /\ UNCHANGED <<itemVars, countVars, prodVars, have, adminVars>>

CountOut(c) ==
  /\ ConsumerAt(c, "popped", "notify")
  /\ Count(lvl[c], -1)
  /\ UNCHANGED <<itemVars, prodVars, have, lvl, tries, drain, adminVars>>

\* backpressure_cv_.notify_all()
NotifySpace(c) ==
  /\ ConsumerAt(c, "notify", "judge")
  /\ ppc' = [p \in Producers |-> IF ppc[p] = "blocked" THEN "testing" ELSE ppc[p]]
  /\ UNCHANGED <<itemVars, countVars, item, have, lvl, tries, drain, adminVars>>

\* An expired item is discarded and uses up one unit of the quota.
Judge(c) ==
  /\ \/ /\ have[c] \in expired
        /\ ConsumerAt(c, "judge", "scan")
        /\ place' = [place EXCEPT ![have[c]] = "expired"]
        /\ have' = [have EXCEPT ![c] = None]
        /\ tries' = [tries EXCEPT ![c] = @ + 1]
     \/ /\ have[c] \notin expired
        /\ ConsumerAt(c, "judge", "execute")
        /\ UNCHANGED <<place, have, tries>>
  /\ UNCHANGED <<policy, expired, countVars, prodVars, lvl, drain, adminVars>>

\* Execute, then the main loop or the next turn of the drain.
Execute(c) ==
  /\ consumerAt[c] = "execute"
  /\ place' = [place EXCEPT ![have[c]] = "executed"]
  /\ have' = [have EXCEPT ![c] = None]
  /\ \/ c \in drain /\ BeginScan(c, "execute")
     \/ c \notin drain /\ ConsumerAt(c, "execute", "loop") /\ UNCHANGED <<lvl, tries>>
  /\ UNCHANGED <<policy, expired, countVars, prodVars, drain, adminVars>>

ConsumerStep(c) ==
  \/ Loop(c)
  \/ TryDequeue(c)
  \/ NextLevel(c)
  \/ CountOut(c)
  \/ NotifySpace(c)
  \/ Judge(c)
  \/ Execute(c)

\* A deadline or the TTL passes.
Expire(i) ==
  /\ Expiry
  /\ place[i] = "queued" /\ i \notin expired
  /\ expired' = expired \cup {i}
  /\ UNCHANGED <<policy, place, countVars, prodVars, consVars, adminVars>>

-----------------------------------------------------------------------------
(* Lifecycle. *)

AdminAt(a, here, there) == apc[a] = here /\ apc' = [apc EXCEPT ![a] = there]

\* Start: the exchange on running_ lets one caller through.
StartQos(a) ==
  /\ ~qosRunning
  /\ qosRunning' = TRUE
  /\ AdminAt(a, "idle", "starting")
  /\ UNCHANGED <<itemVars, countVars, prodVars, consVars, stop, qosPaused, promised>>

ClearFlags(a) ==
  /\ AdminAt(a, "starting", "spawning")
  /\ stop' = FALSE /\ qosPaused' = FALSE
  /\ UNCHANGED <<itemVars, countVars, prodVars, consVars, qosRunning, promised>>

\* consumer_threads_ is filled.
Spawn(a) ==
  /\ AdminAt(a, "spawning", "idle")
  /\ consumerAt' = [c \in Consumers |-> IF consumerAt[c] = "none" THEN "loop" ELSE consumerAt[c]]
  /\ UNCHANGED <<itemVars, countVars, prodVars, have, lvl, tries, drain,
                 qosRunning, stop, qosPaused, promised>>

\* Stop, and the destructor.
Stop(a) ==
  /\ qosRunning
  /\ qosRunning' = FALSE
  /\ AdminAt(a, "idle", "stopping")
  /\ promised' = {i \in Items : place[i] = "queued" /\ \A p \in Producers : item[p] # i}
  /\ UNCHANGED <<itemVars, countVars, prodVars, consVars, stop, qosPaused>>

\* Mutant: the consumers are not told to stop.
RequestQosStop_Forgotten(a) ==
  /\ AdminAt(a, "stopping", "joining")
  /\ qosPaused' = FALSE
  /\ UNCHANGED <<itemVars, countVars, prodVars, consVars, qosRunning, stop, promised>>

RequestQosStop(a) ==
  /\ AdminAt(a, "stopping", "joining")
  /\ stop' = TRUE /\ qosPaused' = FALSE
  /\ UNCHANGED <<itemVars, countVars, prodVars, consVars, qosRunning, promised>>

\* The threads are joined and consumer_threads_ is cleared.
JoinConsumers(a) ==
  /\ \A c \in Consumers : consumerAt[c] \in {"none", "exited"}
  /\ AdminAt(a, "joining", "idle")
  /\ consumerAt' = [c \in Consumers |-> "none"]
  /\ promised' = {}
  /\ UNCHANGED <<itemVars, countVars, prodVars, have, lvl, tries, drain,
                 qosRunning, stop, qosPaused>>

PauseQos(a) ==
  /\ ~qosPaused /\ qosPaused' = TRUE
  /\ AdminAt(a, "idle", "idle")
  /\ UNCHANGED <<itemVars, countVars, prodVars, consVars, qosRunning, stop, promised>>

ResumeQos(a) ==
  /\ qosPaused /\ qosPaused' = FALSE
  /\ AdminAt(a, "idle", "idle")
  /\ UNCHANGED <<itemVars, countVars, prodVars, consVars, qosRunning, stop, promised>>

AdminStep(a) == ClearFlags(a) \/ Spawn(a) \/ RequestQosStop(a) \/ JoinConsumers(a)

QosNext ==
  \/ \E p \in Producers :
       ProducerStep(p) \/ QosSpuriousWakeup(p) \/ \E i \in Items : Enqueue(p, i)
  \/ \E c \in Consumers : ConsumerStep(c)
  \/ \E i \in Items : Expire(i)
  \/ \E a \in Admins :
       \/ AdminStep(a)
       \/ "Start" \in QosOps /\ StartQos(a)
       \/ "Stop" \in QosOps /\ Stop(a)
       \/ "Pause" \in QosOps /\ PauseQos(a)
       \/ "Resume" \in QosOps /\ ResumeQos(a)

QosSpec == QosInit /\ [][QosNext]_qosVars

\* Consumers and administrators inside the library run, and Execute returns.
\* Nothing is asked of producers.
QosFairness ==
  /\ \A c \in Consumers : WF_qosVars(ConsumerStep(c))
  /\ \A a \in Admins : WF_qosVars(AdminStep(a))

-----------------------------------------------------------------------------
(* Properties. *)

\* The range of every variable.
QosTypeOK ==
  /\ policy \in OverflowPolicies
  /\ place \in [Items -> {"out", "submitted", "queued", "held"} \cup Finished]
  /\ expired \subseteq Items
  /\ depth \in [0..(Levels - 1) -> 0..SizeMax] /\ total \in 0..SizeMax
  /\ ppc \in [Producers -> {"idle", "admit", "evict", "evicted", "testing", "blocking",
                            "blocked", "total", "push", "pushed"}]
  /\ item \in [Producers -> Items \cup {None}]
  /\ consumerAt \in [Consumers -> {"none", "loop", "scan", "popped", "notify", "judge",
                            "execute", "exited"}]
  /\ have \in [Consumers -> Items \cup {None}]
  /\ lvl \in [Consumers -> 0..(Levels - 1)] /\ tries \in [Consumers -> Nat]
  /\ drain \subseteq Consumers
  /\ qosRunning \in BOOLEAN /\ stop \in BOOLEAN /\ qosPaused \in BOOLEAN
  /\ apc \in [Admins -> {"idle", "starting", "spawning", "stopping", "joining"}]
  /\ promised \subseteq Items

\* What the counters of a level still lack, and what they have too much: items
\* that a consumer popped or a producer evicted and has not counted out.
Uncounted(l) == {p \in Producers : ppc[p] = "pushed" /\ Level[item[p]] = l}
Popped(l) == {c \in Consumers : consumerAt[c] = "popped" /\ lvl[c] = l}
Evicted(l) == {p \in Producers : ppc[p] = "evicted" /\ Level[item[p]] = l}

\* depth is the length of its queue, up to the updates under way, modulo the
\* width of size_t: a counter that wraps below zero comes back, and nothing is
\* counted twice, whether it was executed, expired or evicted.
DepthExact ==
  \A l \in 0..(Levels - 1) :
    depth[l] = (Cardinality(Queued(l)) + Cardinality(Popped(l)) + Cardinality(Evicted(l))
                  - Cardinality(Uncounted(l))) % (SizeMax + 1)

\* Concurrent producers overshoot max_queue_depth by less than their number,
\* whatever they evict; kBlock keeps no limit once Stop has been called.
OvershootBounded ==
  (MaxDepth > 0 /\ policy # "kBlock") =>
    \A l \in 0..(Levels - 1) :
      Cardinality(Queued(l)) < MaxDepth + Cardinality(Producers)

\* qos.h:95 of Stop, "Gracefully stop consumers after draining remaining
\* items": when Stop returns, no item accepted before it was called is left in
\* a queue, provided that none has expired.  (Expired items use up the quota
\* of their level, and then the drain ends with items left.)
DrainedByStop ==
  [][\A a \in Admins : (apc[a] = "joining" /\ apc'[a] = "idle" /\ expired = {}) =>
       \A i \in promised : place[i] # "queued"]_qosVars

\* Stop returns, paused or not.
StopReturns == \A a \in Admins : apc[a] = "stopping" ~> apc[a] = "idle"
=============================================================================
