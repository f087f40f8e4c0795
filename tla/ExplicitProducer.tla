--------------------------- MODULE ExplicitProducer ---------------------------
(***************************************************************************)
(* The sub-queue of a producer token (os_lockless_queue.h,                 *)
(* ExplicitProducer).  Its blocks form a ring it never leaves; a circular  *)
(* block index maps an element's index to its block.  The index is an      *)
(* array that consumers read without a lock while the producer overwrites  *)
(* its oldest entry; when it is full it is replaced by one twice as large, *)
(* and the old one stays readable.                                         *)
(*                                                                         *)
(* `prod` is the producing thread.  A call may build elements whose        *)
(* constructor can throw: then the element is built before the block       *)
(* becomes visible, otherwise after.                                       *)
(***************************************************************************)
EXTENDS QueueProducer

CONSTANTS
  EXPLICIT_INITIAL_INDEX_SIZE,
  BulkSizes,       \* counts given to enqueue_bulk
  CtorMayThrow,    \* whether element constructors throw
  IndexMayGrow     \* {TRUE}, or {TRUE, FALSE} when growing may be refused

ASSUME BulkAssumption == BulkSizes \subseteq Nat

VARIABLES
  headers,         \* block indices, the current one last
  pr,              \* the producer's own view: slotsUsed, size, front
  prod,            \* the producing thread
  fellBack,        \* history: how bulks ended that gave up a block just put
                   \* in the ring, "failed" or "threw"
  leftBehind       \* history: blocks a throwing constructor left non-empty

explicitVars == <<headers, pr, prod, fellBack, leftBehind>>

UnsetEntry == [base |-> 1, block |-> NoBlock]     \* never read

AtRest == [pc |-> "idle", count |-> 0, throwing |-> FALSE, bulk |-> FALSE,
           startBlock |-> NoBlock, used |-> 0, front |-> 0,
           first |-> NoBlock, base |-> 0, left |-> 0, built |-> FALSE]

Current == headers[Len(headers)]


(***************************************************************************)
(* new_block_index(fill), as new values of <<headers, pr>>                 *)
(***************************************************************************)
GrownHeaders(fill) ==
  LET size == 2 * pr.size
      oldest == pr.front - pr.slotsUsed
      entry(j) == IF j < pr.slotsUsed
                  THEN Current.entries[(oldest + j) % pr.size]
                  ELSE UnsetEntry
  IN Append(headers, [size |-> size, front |-> (fill - 1) % size,
                      entries |-> [j \in 0..(size - 1) |-> entry(j)]])

GrownPr == [pr EXCEPT !.size = 2 * @, !.front = pr.slotsUsed]

IndexFull == headers = <<>> \/ pr.slotsUsed = pr.size

(***************************************************************************)
(* Pieces of enqueue and enqueue_bulk                                      *)
(***************************************************************************)
AheadIsEmpty == tailBlock # NoBlock /\ is_empty(next[tailBlock])

(* The ring with b inserted after the tail block. *)
Inserted(b) ==
  IF tailBlock = NoBlock
  THEN [next EXCEPT ![b] = b]
  ELSE [next EXCEPT ![b] = next[tailBlock], ![tailBlock] = b]

WithEntry(hs, slot, base, b) ==
  [hs EXCEPT ![Len(hs)].entries[slot] = [base |-> base, block |-> b]]

NextFront(p) == [p EXCEPT !.front = (@ + 1) % p.size]

WithFront(front) == [headers EXCEPT ![Len(headers)].front = front]

(* What a call that fails or throws after it began falls back to. *)
FallbackPr(p, front) == [p EXCEPT !.front = front, !.slotsUsed = prod.used]

FallbackBlock ==
  IF prod.startBlock = NoBlock THEN prod.first ELSE prod.startBlock

(* The count of slots in use is restored, the entries written are not.     *)
BulkGivesUp(how) ==
  /\ prod' = AtRest
  /\ fellBack' = IF pr.slotsUsed > prod.used THEN fellBack \cup {how}
                 ELSE fellBack

Starts(count, throwing, pc) ==
  [AtRest EXCEPT !.pc = pc, !.count = count, !.throwing = throwing,
                 !.startBlock = tailBlock, !.used = pr.slotsUsed,
                 !.front = pr.front]

keptByEnqueue == <<sharedByEnqueue, fellBack, leftBehind>>

(***************************************************************************)
(* enqueue: one element                                                    *)
(***************************************************************************)
(* The tail block has room. *)
Enqueue ==
  /\ prod.pc = "idle"
  /\ budget.elements > 0
  /\ Slot(tailIndex) # 0
  /\ \E throwing \in CtorMayThrow :
       prod' = Starts(1, throwing, "place")
  /\ UNCHANGED <<keptByEnqueue, tailBlock, slots, emptied, next, pool,
                 budget, headers, pr>>

AfterAcquire(throwing) == IF throwing THEN "place" ELSE "entry"

(* A block ends: the block ahead is empty and taken again. *)
EnqueueReuse ==
  /\ prod.pc = "idle"
  /\ budget.elements > 0
  /\ Slot(tailIndex) = 0
  /\ AheadIsEmpty
  /\ tailBlock' = next[tailBlock]
  /\ emptied' = [emptied EXCEPT ![tailBlock'] = {}]
  /\ \E throwing \in CtorMayThrow :
       prod' = [Starts(1, throwing, AfterAcquire(throwing))
                  EXCEPT !.first = tailBlock']
  /\ UNCHANGED <<keptByEnqueue, slots, next, pool, budget, headers, pr>>

(* A block ends: a block is taken from the pools and put in the ring; the  *)
(* index grows first when it is full.  Without leeway, index or block the  *)
(* call returns false and a grown index stays.                             *)
EnqueueNewBlock ==
  /\ prod.pc = "idle"
  /\ budget.elements > 0
  /\ Slot(tailIndex) = 0
  /\ ~AheadIsEmpty
  /\ ~NoLeeway(tailIndex)
  /\ IndexFull => TRUE \in IndexMayGrow
  /\ headers' = IF IndexFull THEN GrownHeaders(pr.slotsUsed) ELSE headers
  /\ LET grown == IF IndexFull THEN GrownPr ELSE pr
     IN \/ \E b \in requisition_block, throwing \in CtorMayThrow :
             /\ pool' = pool \ {b}
             /\ emptied' = [emptied EXCEPT ![b] = {}]
             /\ next' = Inserted(b)
             /\ tailBlock' = b
             /\ pr' = [grown EXCEPT !.slotsUsed = @ + 1]
             /\ prod' = [Starts(1, throwing, AfterAcquire(throwing))
                           EXCEPT !.first = b]
        \/ /\ requisition_block = {}
           /\ pr' = grown
           /\ UNCHANGED <<pool, emptied, next, tailBlock, prod>>
  /\ UNCHANGED <<keptByEnqueue, slots, budget>>

(* The element is built in its slot. *)
Place ==
  /\ prod.pc = "place"
  /\ slots' = [slots EXCEPT ![tailBlock][Slot(tailIndex)] = tailIndex]
  /\ prod' = [prod EXCEPT
       !.built = TRUE,
       !.pc = IF prod.first # NoBlock /\ prod.throwing THEN "entry"
              ELSE "tail"]
  /\ UNCHANGED <<keptByEnqueue, tailBlock, emptied, next, pool, budget,
                 headers, pr>>

(* The constructor throws: "Revert change to the current block, but leave  *)
(* the new block available for next time".                                 *)
PlaceThrows ==
  /\ prod.pc = "place"
  /\ prod.throwing
  /\ Throws
  /\ pr' = FallbackPr(pr, pr.front)
  /\ tailBlock' = FallbackBlock
  /\ prod' = AtRest
  /\ leftBehind' = leftBehind \cup ({prod.first} \ {NoBlock})
  /\ UNCHANGED <<sharedByEnqueue, fellBack, slots, emptied, next, pool, headers>>

(* The block's entry is written, then made the front of the index. *)
WriteEntry ==
  /\ prod.pc = "entry"
  /\ headers' = WithEntry(headers, pr.front, tailIndex, tailBlock)
  /\ prod' = [prod EXCEPT !.pc = "front"]
  /\ UNCHANGED <<keptByEnqueue, tailBlock, slots, emptied, next, pool,
                 budget, pr>>

StoreFront ==
  /\ prod.pc = "front"
  /\ headers' = WithFront(pr.front)
  /\ pr' = NextFront(pr)
  /\ prod' = [prod EXCEPT !.pc = IF prod.built THEN "tail" ELSE "place"]
  /\ UNCHANGED <<keptByEnqueue, tailBlock, slots, emptied, next, pool,
                 budget>>

(* The element becomes visible; shared with enqueue_bulk. *)
StoreTail ==
  /\ prod.pc = "tail"
  /\ tailIndex' = Wrap(tailIndex + prod.count)
  /\ budget' = [budget EXCEPT !.elements = @ - prod.count]
  /\ prod' = AtRest
  /\ UNCHANGED <<fellBack, leftBehind, headIndex, dequeueOptimisticCount,
                 dequeueOvercommit, consumer, tailBlock, slots, emptied, next,
                 pool, headers, pr>>

(***************************************************************************)
(* enqueue_bulk: blocks for all elements first, then the elements          *)
(***************************************************************************)
EnqueueBulk ==
  /\ prod.pc = "idle"
  /\ \E count \in BulkSizes, throwing \in CtorMayThrow :
       /\ count <= budget.elements
       /\ prod' = [Starts(count, throwing,
                          IF BlocksNeeded(count) = 0 THEN "fill" ELSE "ahead")
                     EXCEPT !.bulk = TRUE, !.left = BlocksNeeded(count),
                            !.base = Base(Wrap(tailIndex - 1))]
  /\ UNCHANGED <<keptByEnqueue, tailBlock, slots, emptied, next, pool,
                 budget, headers, pr>>

NextBase == Wrap(prod.base + BLOCK_SIZE)

FirstIs(b) == IF prod.first = NoBlock THEN b ELSE prod.first

(* A block acquired for the bulk: its entry is written behind the front. *)
BlockAcquired(b, hs, p, pc) ==
  /\ tailBlock' = b
  /\ headers' = WithEntry(hs, p.front, NextBase, b)
  /\ pr' = NextFront(p)
  /\ prod' = [prod EXCEPT !.first = FirstIs(b), !.base = NextBase,
                          !.left = @ - 1, !.pc = pc]

(* "Allocate as many blocks as possible from ahead". *)
TakeAhead ==
  LET more == /\ prod.left > 0
              /\ tailBlock # NoBlock
              /\ next[tailBlock] # prod.first
              /\ AheadIsEmpty
  IN /\ prod.pc = "ahead"
     /\ \/ /\ more
           /\ BlockAcquired(next[tailBlock], headers, pr, "ahead")
        \/ /\ ~more
           /\ prod' = [prod EXCEPT !.pc = "pools"]
           /\ UNCHANGED <<tailBlock, headers, pr>>
     /\ UNCHANGED <<keptByEnqueue, slots, emptied, next, pool, budget>>

(* "Now allocate as many blocks as necessary from the block pool": the     *)
(* index grows when full, and the call fails when there is no leeway, no   *)
(* index or no block ("undo changes (but keep injected blocks)").          *)
TakeFromPools ==
  /\ prod.pc = "pools"
  /\ prod.left > 0
  /\ ~NoLeeway(NextBase)
  /\ IndexFull => TRUE \in IndexMayGrow
  /\ LET hs == IF IndexFull THEN GrownHeaders(prod.used) ELSE headers
         p == IF IndexFull THEN GrownPr ELSE pr
         front == IF IndexFull THEN prod.used ELSE prod.front
     IN \/ \E b \in requisition_block :
             /\ pool' = pool \ {b}
             /\ emptied' = [emptied EXCEPT ![b] = AllSlots]
             /\ next' = Inserted(b)
             /\ tailBlock' = b
             /\ headers' = WithEntry(hs, p.front, NextBase, b)
             /\ pr' = NextFront([p EXCEPT !.slotsUsed = @ + 1])
             /\ prod' = [prod EXCEPT !.first = FirstIs(b), !.base = NextBase,
                                     !.left = @ - 1, !.front = front]
             /\ UNCHANGED <<fellBack, leftBehind>>
        \/ /\ requisition_block = {}
           /\ headers' = hs
           /\ pr' = FallbackPr(p, front)
           /\ tailBlock' = FallbackBlock
           /\ BulkGivesUp("failed")
           /\ UNCHANGED <<leftBehind, pool, emptied, next>>
  /\ UNCHANGED <<sharedByEnqueue, slots, budget>>

BulkFails ==
  /\ prod.pc = "pools"
  /\ prod.left > 0
  /\ \/ NoLeeway(NextBase)
     \/ IndexFull /\ FALSE \in IndexMayGrow
  /\ pr' = FallbackPr(pr, prod.front)
  /\ tailBlock' = FallbackBlock
  /\ BulkGivesUp("failed")
  /\ UNCHANGED <<sharedByEnqueue, leftBehind, slots, emptied, next, pool, budget,
                 headers>>

(* The blocks acquired by this bulk, from the first to the tail block. *)
Acquired ==
  LET dist == CHOOSE k \in 0..Cardinality(Blocks) :
                /\ Successor(prod.first, k) = tailBlock
                /\ \A j \in 0..(k - 1) : Successor(prod.first, j) # tailBlock
  IN {Successor(prod.first, k) : k \in 0..dist}

(* "Reset each block's emptiness before we fill them up, and publish the   *)
(* new block index front" -- the latter later when constructors throw.     *)
ResetAndPublish ==
  /\ prod.pc = "pools"
  /\ prod.left = 0
  /\ emptied' = [b \in Blocks |-> IF b \in Acquired THEN {} ELSE emptied[b]]
  /\ headers' = IF prod.throwing THEN headers
                ELSE WithFront((pr.front - 1) % pr.size)
  /\ prod' = [prod EXCEPT !.pc = "fill"]
  /\ UNCHANGED <<keptByEnqueue, tailBlock, slots, next, pool, budget, pr>>

(* Where the first element goes. *)
FillFrom ==
  IF Slot(tailIndex) = 0 /\ prod.first # NoBlock THEN prod.first
  ELSE prod.startBlock

BlockOfElement(i) ==
  Successor(FillFrom, (Base(i) - Base(tailIndex)) \div BLOCK_SIZE)

Filled(count) ==
  [b \in Blocks |-> [s \in AllSlots |->
     IF \E i \in tailIndex..(tailIndex + count - 1) :
          BlockOfElement(i) = b /\ Slot(i) = s
     THEN Wrap(CHOOSE i \in tailIndex..(tailIndex + count - 1) :
                 BlockOfElement(i) = b /\ Slot(i) = s)
     ELSE slots[b][s]]]

Fill ==
  /\ prod.pc = "fill"
  /\ slots' = Filled(prod.count)
  /\ prod' = [prod EXCEPT !.built = TRUE,
       !.pc = IF prod.throwing /\ prod.first # NoBlock THEN "publish"
              ELSE "tail"]
  /\ UNCHANGED <<keptByEnqueue, tailBlock, emptied, next, pool, budget,
                 headers, pr>>

(* A constructor throws: what was built is destroyed and the whole bulk    *)
(* reverted; "we'll keep any allocated blocks in our linked list".         *)
FillThrows ==
  /\ prod.pc = "fill"
  /\ prod.throwing
  /\ Throws
  /\ pr' = FallbackPr(pr, prod.front)
  /\ tailBlock' = FallbackBlock
  /\ BulkGivesUp("threw")
  /\ leftBehind' = leftBehind \cup
                     (IF prod.first = NoBlock THEN {} ELSE Acquired)
  /\ UNCHANGED <<sharedByEnqueue, slots, emptied, next, pool, headers>>

PublishBulk ==
  /\ prod.pc = "publish"
  /\ headers' = WithFront((pr.front - 1) % pr.size)
  /\ prod' = [prod EXCEPT !.pc = "tail"]
  /\ UNCHANGED <<keptByEnqueue, tailBlock, slots, emptied, next, pool,
                 budget, pr>>

ProducerNext ==
  \/ Enqueue \/ EnqueueReuse \/ EnqueueNewBlock \/ Place \/ PlaceThrows
  \/ WriteEntry \/ StoreFront \/ StoreTail
  \/ EnqueueBulk \/ TakeAhead \/ TakeFromPools \/ BulkFails
  \/ ResetAndPublish \/ Fill \/ FillThrows \/ PublishBulk

(***************************************************************************)
(* The second half of dequeue and dequeue_bulk: find the blocks, take the  *)
(* elements                                                                *)
(***************************************************************************)
sharedByTake == <<tailIndex, headIndex, dequeueOptimisticCount,
                  dequeueOvercommit, tailBlock, next, pool, budget,
                  explicitVars>>

LoadIndex(c) ==
  /\ consumer[c].pc = "header"
  /\ consumer' = [consumer EXCEPT ![c] =
                    [Goes(c, "front") EXCEPT !.header = Len(headers)]]
  /\ UNCHANGED <<sharedByTake, slots, emptied>>

(* The position in the index of the block that holds index i. *)
Position(h, front, i) ==
  (front + BlockOffset(h.entries[front].base, Wrap(i))) % h.size

LoadFront(c) ==
  LET h == headers[consumer[c].header]
  IN /\ consumer[c].pc = "front"
     /\ consumer' = [consumer EXCEPT ![c] =
          [Goes(c, "take") EXCEPT !.pos =
             Position(h, h.front, consumer[c].index)]]
     /\ UNCHANGED <<sharedByTake, slots, emptied>>

BlockAt(me) == headers[me.header].entries[me.pos].block

(* The elements of one block are moved out and destroyed. *)
Take(c) ==
  LET b == BlockAt(consumer[c])
  IN /\ consumer[c].pc = "take"
     /\ slots' = [slots EXCEPT ![b] = Taken(b, consumer[c])]
     /\ consumer' = [consumer EXCEPT ![c] =
                       [Goes(c, "empty") EXCEPT !.block = b]]
     /\ UNCHANGED <<sharedByTake, emptied>>

SetEmpty(c) ==
  LET me == consumer[c]
  IN /\ me.pc = "empty"
     /\ emptied' = [emptied EXCEPT ![me.block] =
                      Emptied(me.block, me.index, EndIndex(me))]
     /\ consumer' = [consumer EXCEPT ![c] =
                       NextBlock(me, headers[me.header].size)]
     /\ UNCHANGED <<sharedByTake, slots>>

TakeNext ==
  \E c \in Consumers :
    LoadIndex(c) \/ LoadFront(c) \/ Take(c) \/ SetEmpty(c)

(***************************************************************************)
(* ~ExplicitProducer, run when nobody uses the sub-queue                   *)
(***************************************************************************)
Ring == IF tailBlock = NoBlock THEN {}
        ELSE {b \in Blocks : \A S \in SUBSET Blocks :
                tailBlock \in S /\ (\A x \in S : next[x] \in S) => b \in S}

Quiet == prod.pc = "idle" /\ \A c \in Consumers : consumer[c].pc = "idle"

(* The partially dequeued block: the oldest entry whose block ends after   *)
(* headIndex.                                                              *)
HalfDequeuedBlock ==
  IF Slot(headIndex) = 0 THEN NoBlock
  ELSE LET oldest == pr.front - pr.slotsUsed
           ends(k) == Current.entries[(oldest + k) % pr.size].base + BLOCK_SIZE
           at == CHOOSE k \in 0..(pr.size - 1) :
                   /\ ~circular_less_than(ends(k), headIndex)
                   /\ \A j \in 0..(k - 1) :
                        circular_less_than(ends(j), headIndex)
       IN Current.entries[(oldest + at) % pr.size].block


(* The slots of block b whose elements the destructor destroys. *)
DestroyedIn(b) ==
  IF is_empty(b) THEN {}
  ELSE LET from == IF b = HalfDequeuedBlock THEN Slot(headIndex) ELSE 0
           to == IF b # tailBlock \/ Slot(tailIndex) = 0 THEN BLOCK_SIZE
                 ELSE Slot(tailIndex)
       IN from..(to - 1)

(* The constructor allocates the first index, which may fail: then the     *)
(* first enqueue tries again.                                              *)
FreshInit ==
  LET size == EXPLICIT_INITIAL_INDEX_SIZE
  IN /\ BaseInit(0, NoBlock, {})
     /\ \/ /\ pr = [slotsUsed |-> 0, size |-> size, front |-> 0]
           /\ headers = << [size |-> size, front |-> size - 1,
                            entries |-> [p \in 0..(size - 1) |-> UnsetEntry]] >>
        \/ /\ FALSE \in IndexMayGrow
           /\ pr = [slotsUsed |-> 0, size |-> size \div 2, front |-> 0]
           /\ headers = <<>>

(* A ring of one block that was filled and drained until both indices      *)
(* reached start.                                                          *)
UsedInit(start, b) ==
  LET size == EXPLICIT_INITIAL_INDEX_SIZE
      last == start \div BLOCK_SIZE - 1
  IN /\ BaseInit(start, b, {b})
     /\ pr = [slotsUsed |-> 1, size |-> size, front |-> (last + 1) % size]
     /\ headers = << [size |-> size, front |-> last % size,
                      entries |-> [p \in 0..(size - 1) |->
                        [base |-> BLOCK_SIZE * (last - ((last - p) % size)),
                         block |-> b]]] >>

ExplicitInit ==
  /\ isExplicit = TRUE
  /\ \/ 0 \in StartIndices /\ FreshInit
     \/ \E start \in StartIndices \ {0}, b \in Blocks : UsedInit(start, b)
  /\ prod = AtRest
  /\ fellBack = {}
  /\ leftBehind = {}

ExplicitNext ==
  /\ isExplicit
  /\ UNCHANGED isExplicit
  /\ \/ ClaimNext /\ UNCHANGED explicitVars
     \/ ProducerNext
     \/ TakeNext

ExplicitSpec == ExplicitInit /\ [][ExplicitNext]_<<baseVars, explicitVars>>

(***************************************************************************)
(* Properties                                                              *)
(***************************************************************************)
ElementsFound ==
  /\ \A i \in Unclaimed :
       Holds(Current.entries[Position(Current, Current.front, i)].block, i)
  /\ \A c \in Consumers :
       LET me == consumer[c] IN
       /\ me.pc \in {"header", "front"} =>
            LET h == IF me.pc = "header" THEN Current ELSE headers[me.header]
            IN \A i \in me.index..(Last(me) - 1) :
                 Holds(h.entries[Position(h, h.front, i)].block, i)
       /\ me.pc = "take" =>
            \A i \in ClaimedHere(me) : Holds(BlockAt(me), i)

(* A consumer with the current index, or with the header and front it has  *)
(* loaded, finds each element where it lives: growing the index and        *)
(* reusing its oldest entries never loses an element that is still needed. *)
(* Excepted is what follows an enqueue_bulk that failed with a block from  *)
(* the pools in the ring already: see FailedBulkIsHarmless.  One that      *)
(* threw, or failed with blocks from ahead only, is not excepted.          *)
ElementsReachable ==
  isExplicit => "failed" \in fellBack \/ ElementsFound

(* An element is never built over one that still lives, with the same      *)
(* exception.                                                              *)
SlotsFreeToBuild ==
  "failed" \in fellBack \/
    /\ prod.pc = "place" => slots[tailBlock][Slot(tailIndex)] = NoElement
    /\ prod.pc = "fill" =>
         \A i \in tailIndex..(tailIndex + prod.count - 1) :
           slots[BlockOfElement(i)][Slot(i)] = NoElement

(* Every block is in the ring or in the pools, never in both and never     *)
(* lost, also after calls that failed or threw.                            *)
BlocksAccounted ==
  isExplicit => Ring \cap pool = {} /\ Ring \cup pool = Blocks

DestroysTheRest ==
  Quiet => \A b \in Ring \ leftBehind : DestroyedIn(b) =
                             {s \in AllSlots : slots[b][s] # NoElement}

(* The destructor destroys exactly the elements that were not dequeued,    *)
(* but for what a throwing constructor or a failed bulk leaves:            *)
(*  - the blocks of a call that threw stay in the ring, marked non-empty   *)
(*    (lines 1702, 1742, 1981), and the destructor destroys all their      *)
(*    slots though nothing lives there.  "Leave the new block available    *)
(*    for next time" (1761-1762) it is not: it never becomes empty;        *)
(*  - an enqueue_bulk that gives up restores the count of index slots in   *)
(*    use (1935, 1950, 2035) but not the entries it overwrote, among them  *)
(*    that of the half dequeued block the destructor looks for (1639-1644).*)
DestructorExact == isExplicit => fellBack # {} \/ DestroysTheRest

(* enqueue_bulk: "Failed to allocate, undo changes (but keep injected      *)
(* blocks)": after the undone call every element is still found.           *)
FailedBulkIsHarmless == isExplicit => ElementsFound
=============================================================================
