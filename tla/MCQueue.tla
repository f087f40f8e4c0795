------------------------------- MODULE MCQueue -------------------------------
(***************************************************************************)
(* The lock-free queue: a behaviour is one of an explicit sub-queue, of an *)
(* implicit one, or of the free list of blocks, as `part` says.  The two   *)
(* kinds of sub-queue share the variables of QueueProducer.                *)
(***************************************************************************)
EXTENDS ExplicitProducer, ImplicitProducer, FreeList, TLC

VARIABLE part

queueVars == <<baseVars, explicitVars, implicitVars>>

Symmetry == Permutations(Consumers) \cup Permutations(Blocks)

IdleExplicit ==
  /\ headers = <<>>
  /\ pr = [slotsUsed |-> 0, size |-> 1, front |-> 0]
  /\ prod = AtRest
  /\ fellBack = {}
  /\ leftBehind = {}

IdleImplicit == imHeaders = <<>> /\ imEntries = <<>> /\ writer = Waiting

IdleFreeList ==
  /\ freeListHead = NoNode
  /\ freeListRefs = [n \in Nodes |-> 0]
  /\ shouldBeOn = [n \in Nodes |-> FALSE]
  /\ freeListNext = [n \in Nodes |-> NoNode]
  /\ LET u == CHOOSE t \in PoolThreads \ Consumers : TRUE
     IN has = [t \in PoolThreads |-> IF t = u THEN Nodes ELSE {}]
  /\ step = [t \in PoolThreads |-> Parked]

IdleQueue ==
  /\ isExplicit = TRUE
  /\ BaseInit(0, NoBlock, {})
  /\ IdleExplicit
  /\ IdleImplicit

\* The implicit sub-queue only starts where its indices are about to wrap.
Init ==
  \/ /\ part = "queue" /\ IdleFreeList
     /\ \/ ExplicitInit /\ IdleImplicit
        \/ ImplicitInit /\ tailIndex # 0 /\ IdleExplicit
  \/ part = "freelist" /\ IdleQueue /\ FreeListInit

Next ==
  /\ UNCHANGED part
  /\ \/ /\ part = "queue" /\ ExplicitNext
        /\ UNCHANGED <<implicitVars, freeListVars>>
     \/ /\ part = "queue" /\ ImplicitNext
        /\ UNCHANGED <<explicitVars, freeListVars>>
     \/ /\ part = "freelist" /\ FreeListNext
        /\ UNCHANGED queueVars

Spec == Init /\ [][Next]_<<queueVars, freeListVars, part>>


\* A block is in the ring or index, in the free list, or in the hands of the
\* one call that moves it: none is lost when a call fails part-way, none is
\* reused while it holds elements (RequisitionBlock, SetEmpty).
AllBlocksAccounted ==
  BlocksAccounted /\ ImBlocksAccounted /\ FreeBlocksHoldNothing

=============================================================================
