--------------------------- MODULE ImplicitProducer ---------------------------
(***************************************************************************)
(* The sub-queue of a thread that enqueues without a token                 *)
(* (os_lockless_queue.h, ImplicitProducer).  A block goes back to the free *)
(* list as soon as the last of its elements is dequeued, by the consumer   *)
(* that emptied it.  The block index holds pointers to entries, so that a  *)
(* larger index shares the entries of the one it replaces; an entry whose  *)
(* block was freed is used again.                                          *)
(*                                                                         *)
(* `writer` is the producing thread.                                       *)
(***************************************************************************)
EXTENDS QueueProducer

CONSTANTS
  IMPLICIT_INITIAL_INDEX_SIZE,
  ImBulkSizes,       \* counts given to enqueue_bulk
  ImCtorMayThrow,    \* whether element constructors throw
  ImIndexMayGrow     \* {TRUE}, or {TRUE, FALSE} when growing may be refused

ASSUME ImBulkAssumption == ImBulkSizes \subseteq Nat

VARIABLES
  imHeaders,         \* block indices, the current one last
  imEntries,         \* the entries they point to: key and value
  writer             \* the producing thread

implicitVars == <<imHeaders, imEntries, writer>>

INVALID_BLOCK_BASE == 1

NewEntry == [key |-> INVALID_BLOCK_BASE, value |-> NoBlock]

Waiting == [pc |-> "idle", count |-> 0, throwing |-> FALSE, entry |-> 0,
            startBlock |-> NoBlock, first |-> NoBlock, new |-> NoBlock,
            base |-> 0, left |-> 0, built |-> FALSE, bulk |-> FALSE]

ImCurrent == imHeaders[Len(imHeaders)]

(***************************************************************************)
(* The block index                                                         *)
(***************************************************************************)

(* new_block_index: the old pointers, oldest first, then new entries. *)
ImGrown ==
  LET old == ImCurrent
      pointer(i) == IF i < old.capacity
                    THEN old.index[(old.tail + 1 + i) % old.capacity]
                    ELSE i + 1
  IN Append(imHeaders, [capacity |-> 2 * old.capacity,
                        tail |-> old.capacity - 1,
                        index |-> [i \in 0..(2 * old.capacity - 1) |->
                                     pointer(i)]])

NextTail(h) == (h.tail + 1) % h.capacity

EntryFree(h) ==
  LET e == imEntries[h.index[NextTail(h)]]
  IN e.key = INVALID_BLOCK_BASE \/ e.value = NoBlock

(* The entry after the tail of the last header of hs gets the key. *)
InsertedEntry(hs, es, base) ==
  LET h == hs[Len(hs)]
      e == h.index[NextTail(h)]
  IN /\ imEntries' = [es EXCEPT ![e].key = base]
     /\ imHeaders' = [hs EXCEPT ![Len(hs)].tail = NextTail(h)]

(* insert_block_index_entry, when it succeeds. *)
insert_block_index_entry(base) ==
  \/ /\ EntryFree(ImCurrent)
     /\ InsertedEntry(imHeaders, imEntries, base)
  \/ /\ ~EntryFree(ImCurrent)
     /\ TRUE \in ImIndexMayGrow
     /\ InsertedEntry(ImGrown,
          [e \in 1..(2 * ImCurrent.capacity) |->
             IF e \in DOMAIN imEntries THEN imEntries[e] ELSE NewEntry], base)

(* rewind_block_index_tail, n times *)
Rewound(n) ==
  [imHeaders EXCEPT ![Len(imHeaders)].tail = (@ - n) % ImCurrent.capacity]

(***************************************************************************)
(* enqueue                                                                 *)
(***************************************************************************)
Writes(count, throwing, pc) ==
  [Waiting EXCEPT !.pc = pc, !.count = count, !.throwing = throwing,
                  !.startBlock = tailBlock]

ImEnqueue ==
  /\ writer.pc = "idle"
  /\ budget.elements > 0
  /\ Slot(tailIndex) # 0
  /\ \E throwing \in ImCtorMayThrow :
       writer' = [Writes(1, throwing, "place") EXCEPT !.new = tailBlock]
  /\ UNCHANGED <<sharedByEnqueue, tailBlock, slots, emptied, next, pool,
                 budget, imHeaders, imEntries>>

(* At the end of a block: an index entry first.  Without leeway or entry   *)
(* the call returns false and changes nothing.                             *)
ImEnqueueNewBlock ==
  /\ writer.pc = "idle"
  /\ budget.elements > 0
  /\ Slot(tailIndex) = 0
  /\ ~NoLeeway(tailIndex)
  /\ insert_block_index_entry(tailIndex)
  /\ \E throwing \in ImCtorMayThrow :
       writer' = [Writes(1, throwing, "requisition") EXCEPT
                    !.entry = ImCurrent'.index[ImCurrent'.tail]]
  /\ UNCHANGED <<sharedByEnqueue, tailBlock, slots, emptied, next, pool,
                 budget>>

(* Then a block from the pools. *)
ImRequisition ==
  /\ writer.pc = "requisition"
  /\ ~writer.bulk
  /\ \E b \in requisition_block :
       /\ pool' = pool \ {b}
       /\ emptied' = [emptied EXCEPT ![b] = {}]
       /\ writer' = [writer EXCEPT !.new = b,
                       !.pc = IF writer.throwing THEN "place" ELSE "link"]
  /\ UNCHANGED <<sharedByEnqueue, tailBlock, slots, next, budget, imHeaders,
                 imEntries>>

(* No block: the entry is given back. *)
ImNoBlock ==
  /\ writer.pc = "requisition"
  /\ ~writer.bulk
  /\ requisition_block = {}
  /\ imHeaders' = Rewound(1)
  /\ imEntries' = [imEntries EXCEPT ![writer.entry].value = NoBlock]
  /\ writer' = Waiting
  /\ UNCHANGED <<sharedByEnqueue, tailBlock, slots, emptied, next, pool,
                 budget>>

StartsBlock == writer.entry # 0

ImPlace ==
  /\ writer.pc = "place"
  /\ slots' = [slots EXCEPT ![writer.new][Slot(tailIndex)] = tailIndex]
  /\ writer' = [writer EXCEPT !.built = TRUE,
       !.pc = IF StartsBlock /\ writer.throwing THEN "link" ELSE "tail"]
  /\ UNCHANGED <<sharedByEnqueue, tailBlock, emptied, next, pool, budget,
                 imHeaders, imEntries>>

(* The constructor throws: entry and block are given back. *)
ImPlaceThrows ==
  /\ writer.pc = "place"
  /\ writer.throwing
  /\ Throws
  /\ IF StartsBlock
     THEN /\ imHeaders' = Rewound(1)
          /\ imEntries' = [imEntries EXCEPT ![writer.entry].value = NoBlock]
          /\ pool' = pool \cup {writer.new}
     ELSE UNCHANGED <<imHeaders, imEntries, pool>>
  /\ writer' = Waiting
  /\ UNCHANGED <<sharedByEnqueue, tailBlock, slots, emptied, next>>

(* The block becomes the entry's value. *)
ImLink ==
  /\ writer.pc = "link"
  /\ imEntries' = [imEntries EXCEPT ![writer.entry].value = writer.new]
  /\ tailBlock' = writer.new
  /\ writer' = [writer EXCEPT !.pc = IF writer.built THEN "tail" ELSE "place"]
  /\ UNCHANGED <<sharedByEnqueue, slots, emptied, next, pool, budget,
                 imHeaders>>

ImStoreTail ==
  /\ writer.pc = "tail"
  /\ tailIndex' = Wrap(tailIndex + writer.count)
  /\ budget' = [budget EXCEPT !.elements = @ - writer.count]
  /\ writer' = Waiting
  /\ UNCHANGED <<headIndex, dequeueOptimisticCount, dequeueOvercommit,
                 consumer, tailBlock, slots, emptied, next, pool, imHeaders,
                 imEntries>>

(***************************************************************************)
(* enqueue_bulk                                                            *)
(***************************************************************************)
ImEnqueueBulk ==
  /\ writer.pc = "idle"
  /\ \E count \in ImBulkSizes, throwing \in ImCtorMayThrow :
       /\ count <= budget.elements
       /\ writer' = [Writes(count, throwing,
                       IF BlocksNeeded(count) = 0 THEN "fill" ELSE "insert")
                      EXCEPT !.bulk = TRUE, !.left = BlocksNeeded(count),
                             !.base = Base(Wrap(tailIndex - 1))]
  /\ UNCHANGED <<sharedByEnqueue, tailBlock, slots, emptied, next, pool,
                 budget, imHeaders, imEntries>>

ImNextBase == Wrap(writer.base + BLOCK_SIZE)

(* An entry for the next block of the bulk. *)
ImInsert ==
  /\ writer.pc = "insert"
  /\ writer.left > 0
  /\ ~NoLeeway(ImNextBase)
  /\ insert_block_index_entry(ImNextBase)
  /\ writer' = [writer EXCEPT !.pc = "requisition", !.base = ImNextBase,
                              !.entry = ImCurrent'.index[ImCurrent'.tail]]
  /\ UNCHANGED <<sharedByEnqueue, tailBlock, slots, emptied, next, pool,
                 budget>>

(* The blocks chained so far. *)
Chain ==
  LET n == (writer.count + BLOCK_SIZE) \div BLOCK_SIZE + 1
      at[k \in 0..n] == IF k = 0 THEN writer.first
                        ELSE IF at[k - 1] = NoBlock THEN NoBlock
                        ELSE next[at[k - 1]]
  IN {at[k] : k \in 0..n} \ {NoBlock}

(* Its block is linked into the entry and chained behind the last one. *)
ImChain ==
  /\ writer.pc = "requisition"
  /\ writer.bulk
  /\ \E b \in requisition_block :
       /\ pool' = pool \ {b}
       /\ emptied' = [emptied EXCEPT ![b] = {}]
       /\ next' = IF Slot(tailIndex) # 0 \/ writer.first # NoBlock
                  THEN [next EXCEPT ![b] = NoBlock, ![tailBlock] = b]
                  ELSE [next EXCEPT ![b] = NoBlock]
       /\ imEntries' = [imEntries EXCEPT ![writer.entry].value = b]
       /\ tailBlock' = b
       /\ writer' = [writer EXCEPT
            !.first = IF @ = NoBlock THEN b ELSE @, !.left = @ - 1,
            !.entry = 0, !.pc = IF writer.left = 1 THEN "fill" ELSE "insert"]
  /\ UNCHANGED <<sharedByEnqueue, slots, budget, imHeaders>>

\* Mutant: the acquired blocks are not given back.
Undone_Leaks(n) ==
  LET undone == {ImCurrent.index[(ImCurrent.tail - k) % ImCurrent.capacity] :
                   k \in 0..(n - 1)}
  IN /\ imHeaders' = Rewound(n)
     /\ imEntries' = [e \in DOMAIN imEntries |->
          IF e \in undone THEN [imEntries[e] EXCEPT !.value = NoBlock]
          ELSE imEntries[e]]
     /\ tailBlock' = writer.startBlock
     /\ writer' = Waiting
     /\ UNCHANGED pool

(* The bulk is undone: n entries rewound and unlinked (the entry just      *)
(* inserted and those of the chain), the chain back on the free list.      *)
Undone(n) ==
  LET undone == {ImCurrent.index[(ImCurrent.tail - k) % ImCurrent.capacity] :
                   k \in 0..(n - 1)}
  IN /\ imHeaders' = Rewound(n)
     /\ imEntries' = [e \in DOMAIN imEntries |->
          IF e \in undone THEN [imEntries[e] EXCEPT !.value = NoBlock]
          ELSE imEntries[e]]
     /\ pool' = pool \cup Chain
     /\ tailBlock' = writer.startBlock
     /\ writer' = Waiting

ImBulkFails ==
  /\ \/ /\ writer.pc = "insert"
        /\ writer.left > 0
        /\ \/ NoLeeway(ImNextBase)
           \/ ~EntryFree(ImCurrent) /\ FALSE \in ImIndexMayGrow
        /\ Undone(Cardinality(Chain))
     \/ /\ writer.pc = "requisition"
        /\ writer.bulk
        /\ requisition_block = {}
        /\ Undone(Cardinality(Chain) + 1)
  /\ UNCHANGED <<sharedByEnqueue, slots, emptied, next, budget>>

ImFillFrom ==
  IF Slot(tailIndex) = 0 /\ writer.first # NoBlock THEN writer.first
  ELSE writer.startBlock

ImBlockOfElement(i) ==
  Successor(ImFillFrom, (Base(i) - Base(tailIndex)) \div BLOCK_SIZE)

(* The elements are built, block after block. *)
ImFill ==
  LET new == tailIndex..(tailIndex + writer.count - 1)
      at(b, s) == {i \in new : ImBlockOfElement(i) = b /\ Slot(i) = s}
  IN /\ writer.pc = "fill"
     /\ slots' = [b \in Blocks |-> [s \in AllSlots |->
          IF at(b, s) = {} THEN slots[b][s]
          ELSE Wrap(CHOOSE i \in at(b, s) : TRUE)]]
     /\ tailBlock' = ImBlockOfElement(tailIndex + writer.count - 1)
     /\ writer' = [writer EXCEPT !.pc = "tail"]
     /\ UNCHANGED <<sharedByEnqueue, emptied, next, pool, budget, imHeaders,
                    imEntries>>

(* A constructor throws: what was built is destroyed, the bulk undone. *)
ImFillThrows ==
  /\ writer.pc = "fill"
  /\ writer.throwing
  /\ Throws
  /\ Undone(Cardinality(Chain))
  /\ UNCHANGED <<sharedByEnqueue, slots, emptied, next>>

WriterNext ==
  \/ ImEnqueue \/ ImEnqueueNewBlock \/ ImRequisition \/ ImNoBlock \/ ImPlace
  \/ ImPlaceThrows \/ ImLink \/ ImStoreTail
  \/ ImEnqueueBulk \/ ImInsert \/ ImChain \/ ImBulkFails \/ ImFill
  \/ ImFillThrows

(***************************************************************************)
(* The second half of dequeue and dequeue_bulk                             *)
(***************************************************************************)
sharedByImTake == <<tailIndex, headIndex, dequeueOptimisticCount,
                    dequeueOvercommit, tailBlock, next, budget, imHeaders,
                    writer>>

ImLoadIndex(c) ==
  /\ consumer[c].pc = "header"
  /\ consumer' = [consumer EXCEPT ![c] =
                    [Goes(c, "front") EXCEPT !.header = Len(imHeaders)]]
  /\ UNCHANGED <<sharedByImTake, slots, emptied, pool, imEntries>>

ImLoadTail(c) ==
  /\ consumer[c].pc = "front"
  /\ consumer' = [consumer EXCEPT ![c] =
       [Goes(c, "key") EXCEPT !.pos = imHeaders[consumer[c].header].tail]]
  /\ UNCHANGED <<sharedByImTake, slots, emptied, pool, imEntries>>

(* get_block_index_index_for_index, from the tail that was loaded. *)
ImPosition(h, tail, i) ==
  (tail + BlockOffset(imEntries[h.index[tail]].key, Wrap(i))) % h.capacity

ImLoadKey(c) ==
  LET me == consumer[c]
  IN /\ me.pc = "key"
     /\ consumer' = [consumer EXCEPT ![c] =
          [Goes(c, "take") EXCEPT
             !.pos = ImPosition(imHeaders[me.header], me.pos, me.index)]]
     /\ UNCHANGED <<sharedByImTake, slots, emptied, pool, imEntries>>

EntryAt(me) == imHeaders[me.header].index[me.pos]

ImTake(c) ==
  LET b == imEntries[EntryAt(consumer[c])].value
  IN /\ consumer[c].pc = "take"
     /\ slots' = [slots EXCEPT ![b] = Taken(b, consumer[c])]
     /\ consumer' = [consumer EXCEPT ![c] =
                       [Goes(c, "empty") EXCEPT !.block = b]]
     /\ UNCHANGED <<sharedByImTake, emptied, pool, imEntries>>

(* Whoever empties the last slot of a block frees it. *)
ImSetEmpty(c) ==
  LET me == consumer[c]
  IN /\ me.pc = "empty"
     /\ emptied' = [emptied EXCEPT ![me.block] =
                      Emptied(me.block, me.index, EndIndex(me))]
     /\ consumer' = [consumer EXCEPT ![c] =
          IF emptied'[me.block] = AllSlots THEN Goes(c, "unlink")
          ELSE NextBlock(me, imHeaders[me.header].capacity)]
     /\ UNCHANGED <<sharedByImTake, slots, pool, imEntries>>

ImUnlink(c) ==
  /\ consumer[c].pc = "unlink"
  /\ imEntries' = [imEntries EXCEPT ![EntryAt(consumer[c])].value = NoBlock]
  /\ consumer' = [consumer EXCEPT ![c] = Goes(c, "free")]
  /\ UNCHANGED <<sharedByImTake, slots, emptied, pool>>

ImFree(c) ==
  LET me == consumer[c]
  IN /\ me.pc = "free"
     /\ pool' = pool \cup {me.block}
     /\ consumer' = [consumer EXCEPT ![c] =
                       NextBlock(me, imHeaders[me.header].capacity)]
     /\ UNCHANGED <<sharedByImTake, slots, emptied, imEntries>>

ImTakeNext ==
  \E c \in Consumers :
    \/ ImLoadIndex(c) \/ ImLoadTail(c) \/ ImLoadKey(c) \/ ImTake(c)
    \/ ImSetEmpty(c) \/ ImUnlink(c) \/ ImFree(c)

(***************************************************************************)
(* ~ImplicitProducer, run when nobody uses the sub-queue                   *)
(***************************************************************************)
ImQuiet == writer.pc = "idle" /\ \A c \in Consumers : consumer[c].pc = "idle"

BlockOfIndex(i) ==
  imEntries[ImCurrent.index[ImPosition(ImCurrent, ImCurrent.tail, i)]].value

ImDestroyed == {<<BlockOfIndex(i), Slot(i)>> : i \in Unclaimed}

(* Blocks freed on the way, then the tail block unless it is back in the   *)
(* free list already.                                                      *)
ImFreed ==
  {BlockOfIndex(i) : i \in {j \in Unclaimed :
     \E k \in Unclaimed : Slot(k) = 0 /\ k # headIndex
                          /\ Wrap(j - headIndex) < Wrap(k - headIndex)}}
  \cup (IF tailBlock # NoBlock /\ (Size # 0 \/ Slot(tailIndex) # 0)
        THEN {tailBlock} ELSE {})

ImFreshInit ==
  LET size == IMPLICIT_INITIAL_INDEX_SIZE
  IN /\ BaseInit(0, NoBlock, {})
     /\ imHeaders = << [capacity |-> size, tail |-> size - 1,
                        index |-> [i \in 0..(size - 1) |-> i + 1]] >>
     /\ imEntries = [e \in 1..size |-> NewEntry]

(* Filled and drained until both indices reached start; the block last     *)
(* used is back in the free list.                                          *)
ImUsedInit(start, b) ==
  LET size == IMPLICIT_INITIAL_INDEX_SIZE
      last == start \div BLOCK_SIZE - 1
  IN /\ BaseInit(start, b, {})
     /\ imHeaders = << [capacity |-> size, tail |-> last % size,
                        index |-> [i \in 0..(size - 1) |-> i + 1]] >>
     /\ imEntries = [e \in 1..size |->
          [key |-> BLOCK_SIZE * (last - ((last - (e - 1)) % size)),
           value |-> NoBlock]]

ImplicitInit ==
  /\ isExplicit = FALSE
  /\ \/ 0 \in StartIndices /\ ImFreshInit
     \/ \E start \in StartIndices \ {0}, b \in Blocks : ImUsedInit(start, b)
  /\ writer = Waiting

ImplicitNext ==
  /\ ~isExplicit
  /\ UNCHANGED isExplicit
  /\ \/ ClaimNext /\ UNCHANGED implicitVars
     \/ WriterNext
     \/ ImTakeNext

ImplicitSpec == ImplicitInit /\ [][ImplicitNext]_<<baseVars, implicitVars>>

(***************************************************************************)
(* Properties                                                              *)
(***************************************************************************)
(* A consumer finds each element it claimed, whatever it loaded before the *)
(* index grew, entries were reused or a failed call rewound the tail.      *)
ImElementsReachable ==
  ~isExplicit =>
  /\ \A i \in Unclaimed : Holds(BlockOfIndex(i), i)
  /\ \A c \in Consumers :
       LET me == consumer[c]
           h == IF me.pc = "header" THEN ImCurrent ELSE imHeaders[me.header]
           tail == IF me.pc = "key" THEN me.pos ELSE h.tail
       IN /\ me.pc \in {"header", "front", "key"} =>
               \A i \in me.index..(Last(me) - 1) :
                 Holds(imEntries[h.index[ImPosition(h, tail, i)]].value, i)
          /\ me.pc = "take" =>
               \A i \in ClaimedHere(me) :
                 Holds(imEntries[EntryAt(me)].value, i)

InIndex == {imEntries[e].value : e \in DOMAIN imEntries} \ {NoBlock}

Freeing == {consumer[c].block : c \in {d \in Consumers :
                                         consumer[d].pc = "free"}}

(* Every block is in the pools, linked into one index entry, being freed   *)
(* by one consumer, or being prepared by the producer: no block is freed   *)
(* twice, freed while an entry still leads to it, or lost when a call      *)
(* fails or throws.                                                        *)
ImBlocksAccounted ==
  LET prepared == IF writer.pc \in {"place", "link"} /\ StartsBlock
                     /\ writer.new \notin InIndex
                  THEN {writer.new} ELSE {}
  IN ~isExplicit =>
     /\ pool \cup InIndex \cup Freeing \cup prepared = Blocks
     /\ \A x, y \in {pool, InIndex, Freeing, prepared} :
          x # y => x \cap y = {}

(* A block in the pools holds no element. *)
FreeBlocksHoldNothing ==
  ~isExplicit => \A b \in pool : slots[b] = NoElements

(* The destructor destroys exactly the elements that remain, and frees     *)
(* every block that is not in the pools once.                              *)
ImDestructorExact ==
  ~isExplicit /\ ImQuiet =>
    /\ ImDestroyed = {at \in Blocks \X AllSlots :
                        slots[at[1]][at[2]] # NoElement}
    /\ ImFreed = Blocks \ pool
=============================================================================
