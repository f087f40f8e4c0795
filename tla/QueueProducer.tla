---------------------------- MODULE QueueProducer ----------------------------
(***************************************************************************)
(* What the two kinds of sub-queue of the lock-free queue share            *)
(* (concurrency/os_lockless_queue.h, ProducerBase and Block): one thread   *)
(* enqueues at tailIndex, any number of consumers claim elements between   *)
(* headIndex and tailIndex without a lock.                                 *)
(*                                                                         *)
(* A consumer first announces itself in dequeueOptimisticCount, then       *)
(* compares with the tail, takes its announcement back through             *)
(* dequeueOvercommit when it was too optimistic, and only then advances    *)
(* headIndex.  Every atomic load, store and fetch_add is a step of its     *)
(* own; steps interleave sequentially consistently.                        *)
(*                                                                         *)
(* dequeue and dequeue_bulk run the same steps, the first with max = 1.    *)
(* An assignment that throws changes what the caller receives and nothing  *)
(* else: the claimed elements are destroyed and their slots emptied on     *)
(* both paths.                                                             *)
(*                                                                         *)
(* Indices are IndexWidth bits wide and wrap.  An element is identified    *)
(* with the index it was enqueued at.                                      *)
(***************************************************************************)
EXTENDS Integers, FiniteSets, Sequences

CONSTANTS
  Consumers,     \* threads that dequeue
  Blocks,        \* every block the pools and the allocator can give
  BLOCK_SIZE,    \* elements in a block, a power of two
  IndexWidth,    \* bits of index_t
  StartIndices,  \* where the life of the sub-queue starts to be observed
  MaxDequeue,    \* largest max of a dequeue_bulk
  MaxEnqueued,   \* bound: elements enqueued
  MaxCalls,      \* bound: dequeue calls
  MaxThrows,     \* bound: constructors that throw
  NoBlock,
  NoElement

ASSUME QueueAssumption ==
  /\ BLOCK_SIZE \in Nat \ {0}
  /\ IndexWidth \in Nat \ {0}
  /\ 2 ^ IndexWidth \in Nat \ {0}
  /\ 2 ^ IndexWidth % BLOCK_SIZE = 0
  /\ StartIndices \subseteq 0..(2 ^ IndexWidth - 1)
  /\ NoBlock \notin Blocks
  /\ IsFiniteSet(Consumers)

(* While a sub-queue is observed, its indices move by at most half of what *)
(* they can count: half of the range separates "before" from "after".      *)
ASSUME BoundsAssumption ==
  /\ MaxDequeue \in Nat /\ MaxCalls \in Nat
  /\ MaxEnqueued \in Nat /\ MaxThrows \in Nat
  /\ MaxEnqueued <= 2 ^ IndexWidth \div 2
  /\ MaxCalls * MaxDequeue <= 2 ^ IndexWidth \div 2

VARIABLES
  isExplicit,              \* the kind of sub-queue
  tailIndex,               \* where to enqueue next
  headIndex,               \* where to dequeue next
  dequeueOptimisticCount,
  dequeueOvercommit,
  tailBlock,
  slots,                   \* block -> slot -> the element that lives there
  emptied,                 \* block -> slots marked empty (flags or counter)
  next,                    \* block -> block
  pool,                    \* blocks of the initial pool and the free list
  consumer,                \* each consumer's position and locals
  budget                   \* bounds: calls, elements, throws still allowed

baseVars == <<isExplicit, tailIndex, headIndex, dequeueOptimisticCount,
              dequeueOvercommit, tailBlock, slots, emptied, next, pool, consumer, budget>>

Modulus == 2 ^ IndexWidth

Indices == 0..(Modulus - 1)

(* Unsigned arithmetic of index_t. *)
Wrap(i) == i % Modulus

circular_less_than(a, b) == Wrap(a - b) > Modulus \div 2

Slot(i) == i % BLOCK_SIZE

Base(i) == i - Slot(i)

(* The signed difference of two bases is divided by an unsigned constant,  *)
(* so the division is unsigned.                                            *)
BlockOffset(from, to) == Wrap(Base(to) - from) \div BLOCK_SIZE

Smaller(a, b) == IF a < b THEN a ELSE b

(***************************************************************************)
(* Block                                                                   *)
(***************************************************************************)
NoElements == [s \in 0..(BLOCK_SIZE - 1) |-> NoElement]

AllSlots == 0..(BLOCK_SIZE - 1)

is_empty(b) == emptied[b] = AllSlots

(* set_empty and set_many_empty *)
Emptied(b, from, to) == emptied[b] \cup {Slot(i) : i \in from..(to - 1)}

(* requisition_block: the initial pool, the free list, the allocator. *)
requisition_block == pool

(* "We can't enqueue in another block because there's not enough leeway". *)
NoLeeway(base) == ~circular_less_than(headIndex, base + BLOCK_SIZE)

BlocksNeeded(count) ==
  Wrap(Base(Wrap(tailIndex + count - 1)) - Base(Wrap(tailIndex - 1)))
    \div BLOCK_SIZE

(* The k-th block after b along next. *)
Successor(b, k) ==
  LET succ[j \in 0..k] == IF j = 0 THEN b ELSE next[succ[j - 1]]
  IN succ[k]

(***************************************************************************)
(* A call of dequeue or dequeue_bulk up to the moment its elements are     *)
(* claimed                                                                 *)
(***************************************************************************)
Resting == [pc |-> "idle", max |-> 0, tail |-> 0, over |-> 0, want |-> 0,
            mine |-> 0, count |-> 0, first |-> 0, index |-> 0,
            header |-> 0, pos |-> 0, block |-> NoBlock]

Goes(c, pc) == [consumer[c] EXCEPT !.pc = pc]

sharedByClaim == <<tailIndex, tailBlock, slots, emptied, next, pool>>

LoadTail(c) ==
  /\ consumer[c].pc = "idle"
  /\ budget.calls > 0
  /\ budget' = [budget EXCEPT !.calls = @ - 1]
  /\ \E max \in 1..MaxDequeue :
       consumer' = [consumer EXCEPT ![c] =
                      [Resting EXCEPT !.pc = "overcommit", !.max = max,
                                      !.tail = tailIndex]]
  /\ UNCHANGED <<sharedByClaim, headIndex, dequeueOptimisticCount,
                 dequeueOvercommit>>

LoadOvercommit(c) ==
  /\ consumer[c].pc = "overcommit"
  /\ consumer' = [consumer EXCEPT ![c] =
                    [Goes(c, "test") EXCEPT !.over = dequeueOvercommit]]
  /\ UNCHANGED <<sharedByClaim, headIndex, dequeueOptimisticCount,
                 dequeueOvercommit, budget>>

(* The elements a consumer may hope for: the tail it saw less the          *)
(* effective dequeue count.                                                *)
Hoped(tail, optimistic, over) == Wrap(tail - (optimistic - over))

TestOptimistic(c) ==
  LET me == consumer[c]
      desired == Hoped(me.tail, dequeueOptimisticCount, me.over)
  IN /\ me.pc = "test"
     /\ consumer' = [consumer EXCEPT ![c] =
          IF circular_less_than(0, desired)
          THEN [Goes(c, "claim") EXCEPT !.want = Smaller(desired, me.max),
                                        !.tail = 0, !.max = 0]
          ELSE Resting]
     /\ UNCHANGED <<sharedByClaim, headIndex, dequeueOptimisticCount,
                    dequeueOvercommit, budget>>

Claim(c) ==
  /\ consumer[c].pc = "claim"
  /\ dequeueOptimisticCount' = Wrap(dequeueOptimisticCount + consumer[c].want)
  /\ consumer' = [consumer EXCEPT ![c] =
                    [Goes(c, "check") EXCEPT !.mine = dequeueOptimisticCount]]
  /\ UNCHANGED <<sharedByClaim, headIndex, dequeueOvercommit, budget>>

\* Mutant: the tail is not looked at again.
Granted_Unchecked(me) == me.want

(* The elements the reloaded tail grants. *)
Granted(me) ==
  LET actual == Hoped(tailIndex, me.mine, me.over)
  IN IF circular_less_than(0, actual) THEN Smaller(me.want, actual) ELSE 0

Check(c) ==
  LET count == Granted(consumer[c])
  IN /\ consumer[c].pc = "check"
     /\ consumer' = [consumer EXCEPT ![c] =
          [Goes(c, IF count < consumer[c].want THEN "giveback" ELSE "advance")
             EXCEPT !.count = count, !.mine = 0, !.over = 0]]
     /\ UNCHANGED <<sharedByClaim, headIndex, dequeueOptimisticCount,
                    dequeueOvercommit, budget>>

ReturnedCount(me) == me.want - me.count

GiveBack(c) ==
  /\ consumer[c].pc = "giveback"
  /\ dequeueOvercommit' = Wrap(dequeueOvercommit + ReturnedCount(consumer[c]))
  /\ consumer' = [consumer EXCEPT ![c] =
       IF consumer[c].count = 0
       THEN Resting
       ELSE [Goes(c, "advance") EXCEPT !.want = consumer[c].count]]
  /\ UNCHANGED <<sharedByClaim, headIndex, dequeueOptimisticCount, budget>>

Advance(c) ==
  /\ consumer[c].pc = "advance"
  /\ headIndex' = Wrap(headIndex + consumer[c].count)
  /\ consumer' = [consumer EXCEPT ![c] =
       [Goes(c, "header") EXCEPT !.first = headIndex, !.index = headIndex,
                                 !.want = 0]]
  /\ UNCHANGED <<sharedByClaim, dequeueOptimisticCount, dequeueOvercommit,
                 budget>>

ClaimNext ==
  \E c \in Consumers :
    \/ LoadTail(c) \/ LoadOvercommit(c) \/ TestOptimistic(c) \/ Claim(c)
    \/ Check(c) \/ GiveBack(c) \/ Advance(c)

(***************************************************************************)
(* A claimed range, block by block                                         *)
(***************************************************************************)
Last(me) == me.first + me.count        \* not wrapped: first + count

(* One past the last claimed element of the block that holds me.index;     *)
(* me.index counts on past the modulus within a call.                      *)
EndIndex(me) == Smaller(Base(me.index) + BLOCK_SIZE, Last(me))

ClaimedHere(me) == me.index..(EndIndex(me) - 1)

(* Elements are moved out and destroyed. *)
Taken(b, me) ==
  [s \in AllSlots |-> IF \E i \in ClaimedHere(me) : Slot(i) = s
                      THEN NoElement ELSE slots[b][s]]

(* The next block of the range, or the end of the call. *)
NextBlock(me, size) ==
  IF EndIndex(me) = Last(me)
  THEN Resting
  ELSE [me EXCEPT !.pc = "take", !.index = EndIndex(me), !.block = NoBlock,
                  !.pos = (me.pos + 1) % size]

(* A constructor throws. *)
Throws ==
  /\ budget.throws > 0
  /\ budget' = [budget EXCEPT !.throws = @ - 1]

(* What enqueue leaves alone until it stores the tail. *)
sharedByEnqueue == <<tailIndex, headIndex, dequeueOptimisticCount,
                     dequeueOvercommit, consumer>>

(***************************************************************************)
(* Init: a fresh sub-queue, or one that was used until both indices        *)
(* reached `start`, a multiple of BLOCK_SIZE, and everything was dequeued; *)
(* it owns the blocks `owned`, at most one.                                *)
(***************************************************************************)
BaseInit(start, tail, owned) ==
  /\ tailIndex = start
  /\ headIndex = start
  /\ dequeueOptimisticCount = start
  /\ dequeueOvercommit = 0
  /\ tailBlock = tail
  /\ slots = [b \in Blocks |-> NoElements]
  /\ emptied = [b \in Blocks |-> IF b = tail THEN AllSlots ELSE {}]
  /\ next = [b \in Blocks |-> IF b \in owned THEN b ELSE NoBlock]
  /\ pool = Blocks \ owned
  /\ consumer = [c \in Consumers |-> Resting]
  /\ budget = [calls |-> MaxCalls, elements |-> MaxEnqueued,
               throws |-> MaxThrows]

(***************************************************************************)
(* Properties                                                              *)
(***************************************************************************)
Size == Wrap(tailIndex - headIndex)

(* Element i lives in its slot of block b. *)
Holds(b, i) == b # NoBlock /\ slots[b][Slot(i)] = Wrap(i)

(* Elements enqueued and claimed by nobody. *)
Unclaimed == {Wrap(headIndex + k) : k \in 0..(Size - 1)}

(* What a consumer has announced and neither taken back nor turned into    *)
(* an advance of headIndex.                                                *)
Pending ==
  [c \in Consumers |->
     IF consumer[c].pc \in {"check", "giveback", "advance"}
     THEN consumer[c].want ELSE 0]

(* The elements consumers were granted and have not yet claimed. *)
GrantedTo ==
  [c \in Consumers |->
     IF consumer[c].pc \in {"giveback", "advance"}
     THEN consumer[c].count ELSE 0]

(* The sum of f over the consumers: how many pairs there are of a consumer *)
(* and a number from 1 to what f gives it.                                 *)
Units(f) == UNION {{c} \X (1..f[c]) : c \in Consumers}

SumOver(f) == Cardinality(Units(f))

(* The announcements balance: what dequeueOptimisticCount counts is what   *)
(* dequeueOvercommit took back, what headIndex advanced, and what is still *)
(* under way.  When no dequeue runs, the effective count is headIndex, so  *)
(* no later call mistakes a filled queue for an empty one.                 *)
CountersBalance ==
  dequeueOptimisticCount =
    Wrap(dequeueOvercommit + headIndex + SumOver(Pending))

(* headIndex never overtakes tailIndex ("since there's guaranteed to be at *)
(* least one element, this will never exceed tail"), counting the elements *)
(* granted to consumers that have yet to advance it; and the counters that *)
(* consumers claim with say so too.                                        *)
NeverPastTail ==
  /\ ~circular_less_than(tailIndex, headIndex)
  /\ SumOver(GrantedTo) <= Size
  /\ CountersBalance
=============================================================================
