----------------------------- MODULE QueueProofs -----------------------------
(***************************************************************************)
(* The lock-free queue's free list of blocks and its two kinds of          *)
(* sub-queue.                                                              *)
(*                                                                         *)
(* The free list hands out each block to one thread at a time, for any     *)
(* number of threads and blocks.  The argument is the reference count.  A  *)
(* node whose count is above zero is not linked, so its next pointer       *)
(* stands still while anybody looks at it: what a thread loaded is what    *)
(* the exchange on the head needs, however often the node was taken and    *)
(* put back in between.  A node whose count is zero gets no new lookers,   *)
(* so there is one last thread that drops it and links it.                 *)
(*                                                                         *)
(* The consumers of a sub-queue never claim past its tail, for any number  *)
(* of them and whatever its counters wrap.  Indices are counted from where *)
(* the sub-queue started, which undoes the wrapping.  The announcements in *)
(* dequeueOptimisticCount order the consumers, and there is a place in     *)
(* that order before which everything announced has been enqueued, and     *)
(* after which nobody was granted anything; a consumer past it may only    *)
(* claim what those before it cannot.                                      *)
(*                                                                         *)
(* Last, the blocks of an explicit sub-queue: what is not in the pools is  *)
(* one ring.                                                               *)
(***************************************************************************)
EXTENDS FreeList, ExplicitProducer, ImplicitProducer, FiniteSetTheorems, TLAPS

-----------------------------------------------------------------------------
(* The free list. *)

NodesOrNone == Nodes \cup {NoNode}

Pcs == {"idle", "loadhead", "storenext", "storerefs", "push", "unref", "loop",
        "ref", "next", "pop", "got", "drop"}

Positions ==
  [pc: Pcs, head: NodesOrNone, next: NodesOrNone, refs: Nat, bit: BOOLEAN,
   node: NodesOrNone, getting: BOOLEAN]

\* What a thread works on is a node.
AtNode(p) ==
  /\ p.pc \in {"ref", "next", "pop", "got"} => p.head \in Nodes
  /\ p.pc \in {"loadhead", "storenext", "storerefs", "push", "unref", "drop"} =>
       p.node \in Nodes

FreeListTypeOK ==
  /\ freeListHead \in NodesOrNone
  /\ freeListRefs \in [Nodes -> Nat]
  /\ shouldBeOn \in [Nodes -> BOOLEAN]
  /\ freeListNext \in [Nodes -> NodesOrNone]
  /\ has \in [PoolThreads -> SUBSET Nodes]
  /\ step \in [PoolThreads -> Positions] /\ \A t \in PoolThreads : AtNode(step[t])

\* What threads do with a node, beside looking at it.
Took(t, n) == step[t].pc = "got" /\ step[t].head = n
LinksNode(t, n) == Linking(t) /\ step[t].node = n
Early(t) == step[t].pc \in {"loadhead", "storenext", "storerefs"}
Keeps(t, n) == n \in has[t] \/ Took(t, n) \/ LinksNode(t, n)

\* The threads that count in a node's references, and whether the list does:
\* from the store of 1 before the push until the taker's last decrement.
Counted(n) == {t \in PoolThreads : Looks(t, n) \/ Took(t, n)}
Hung(n) ==
  \/ n \in OnList
  \/ \E t \in PoolThreads : Took(t, n) \/ (LinksNode(t, n) /\ ~Early(t))

RefsExact(n) ==
  freeListRefs[n] = Cardinality(Counted(n)) + (IF Hung(n) THEN 1 ELSE 0)

\* A node is kept by one thread in one way, and then is not on the list.
OneKeeper(n) ==
  \A t \in PoolThreads : Keeps(t, n) =>
    /\ n \notin OnList
    /\ \A u \in PoolThreads : Keeps(u, n) => u = t
    /\ n \in has[t] => ~Took(t, n) /\ ~LinksNode(t, n)

\* The bit says that the node is about to be linked, ...
BitRight(n) ==
  shouldBeOn[n] =>
    /\ n \notin OnList
    /\ \A t \in PoolThreads :
         Keeps(t, n) => n \notin has[t] /\ ~Took(t, n) /\ Early(t)

\* ... which nobody does while somebody looks, ...
LinkedUnseen(n) ==
  \A t \in PoolThreads : LinksNode(t, n) /\ Early(t) => Counted(n) = {}

\* ... and which then is left to those who look.
Somewhere(n) ==
  \/ n \in OnList
  \/ \E t \in PoolThreads : Keeps(t, n)
  \/ shouldBeOn[n] /\ Counted(n) # {}

NodeInv(n) ==
  RefsExact(n) /\ OneKeeper(n) /\ BitRight(n) /\ LinkedUnseen(n) /\ Somewhere(n)

NoCycle == \A n \in OnList : n \notin From(freeListNext[n])

\* What a thread remembers of a next pointer is what the node has.
NextSeen ==
  \A t \in PoolThreads :
    /\ step[t].pc = "pop" => step[t].next = freeListNext[step[t].head]
    /\ step[t].pc \in {"storerefs", "push"} =>
         step[t].next = freeListNext[step[t].node]

FreeListInv ==
  /\ FreeListTypeOK
  /\ \A n \in Nodes : NodeInv(n)
  /\ NoCycle /\ NextSeen

-----------------------------------------------------------------------------
(* The list. *)

LEMMA FromNone == From(NoNode) = {}
<1>1. Closed({}, NoNode)
  BY DEF Closed
<1> QED
  BY <1>1 DEF From

\* What is reached from a node: the node, and what is reached from the next.
LEMMA FromNode ==
  ASSUME NEW x \in Nodes
  PROVE  From(x) = {x} \cup From(freeListNext[x])
<1>x. x # NoNode
  BY FreeListAssumption
<1>1. x \in From(x)
  BY <1>x DEF From, Closed
<1>2. ASSUME NEW n \in From(freeListNext[x]) PROVE n \in From(x)
  <2> SUFFICES ASSUME NEW S \in SUBSET Nodes, Closed(S, x) PROVE n \in S
    BY <1>2 DEF From
  <2>1. Closed(S, freeListNext[x])
    BY <1>x DEF Closed
  <2> QED
    BY <1>2, <2>1 DEF From
<1>3. ASSUME NEW n \in From(x), n # x PROVE n \in From(freeListNext[x])
  <2> SUFFICES ASSUME NEW S \in SUBSET Nodes, Closed(S, freeListNext[x]) PROVE n \in S
    BY <1>3 DEF From
  <2>1. Closed(S \cup {x}, x) /\ S \cup {x} \in SUBSET Nodes
    BY DEF Closed
  <2> QED
    BY <1>3, <2>1 DEF From
<1> QED
  BY <1>1, <1>2, <1>3

LEMMA FromMember ==
  ASSUME NEW x, NEW n \in From(x)
  PROVE  From(n) \subseteq From(x)
<1> SUFFICES ASSUME NEW m \in From(n), NEW S \in SUBSET Nodes, Closed(S, x)
             PROVE  m \in S
  BY DEF From
<1>1. n \in S
  BY DEF From
<1>2. Closed(S, n)
  BY <1>1 DEF Closed
<1> QED
  BY <1>2 DEF From

\* The next pointer of a node that is not reached does not matter.
LEMMA FromElsewhere ==
  ASSUME NEW x, NEW m \in Nodes, m \notin From(x), freeListNext \in [Nodes -> NodesOrNone],
         NEW y, freeListNext' = [freeListNext EXCEPT ![m] = y]
  PROVE  From(x)' = From(x)
<1>1. PICK S0 \in SUBSET Nodes : Closed(S0, x) /\ m \notin S0
  BY DEF From
<1>n. \A n \in S0 : freeListNext'[n] = freeListNext[n]
  BY <1>1
<1>2. ASSUME NEW n \in From(x), NEW S \in SUBSET Nodes, Closed(S, x)' PROVE n \in S
  <2>1. Closed(S \cap S0, x) /\ S \cap S0 \in SUBSET Nodes
    BY <1>1, <1>n, <1>2 DEF Closed
  <2> QED
    BY <2>1 DEF From
<1>3. ASSUME NEW n \in From(x)', NEW S \in SUBSET Nodes, Closed(S, x) PROVE n \in S
  <2>1. Closed(S \cap S0, x)' /\ S \cap S0 \in SUBSET Nodes
    BY <1>1, <1>n, <1>3 DEF Closed
  <2> QED
    BY <2>1 DEF From
<1> QED
  BY <1>2, <1>3 DEF From

LEMMA SameList ==
  ASSUME UNCHANGED freeListNext, NEW x
  PROVE  From(x)' = From(x)
BY DEF From, Closed

-----------------------------------------------------------------------------
(* Counting. *)

LEMMA OneMore ==
  ASSUME NEW S, NEW x, IsFiniteSet(S), x \notin S
  PROVE  IsFiniteSet(S \cup {x}) /\ Cardinality(S \cup {x}) = Cardinality(S) + 1
BY FS_AddElement

LEMMA OneLess ==
  ASSUME NEW S, NEW x \in S, IsFiniteSet(S)
  PROVE  IsFiniteSet(S \ {x}) /\ Cardinality(S \ {x}) = Cardinality(S) - 1
BY FS_RemoveElement

LEMMA CountedSize ==
  ASSUME NEW n
  PROVE  /\ IsFiniteSet(Counted(n)) /\ Cardinality(Counted(n)) \in Nat
         /\ Cardinality(Counted(n)) = 0 <=> Counted(n) = {}
<1>1. Counted(n) \subseteq PoolThreads
  BY DEF Counted
<1>2. IsFiniteSet(Counted(n))
  BY <1>1, FreeListAssumption, FS_Subset
<1> QED
  BY <1>2, FS_CardinalityType, FS_EmptySet

-----------------------------------------------------------------------------
(* Types. *)

\* A thread that counts in a node's references, and one that has the list's.
LEMMA CountsAre ==
  ASSUME NEW n \in Nodes, RefsExact(n)
  PROVE  /\ Counted(n) # {} => freeListRefs[n] >= 1
         /\ Hung(n) => freeListRefs[n] >= 1
         /\ Counted(n) # {} /\ Hung(n) => freeListRefs[n] >= 2
         /\ freeListRefs[n] = 0 => Counted(n) = {} /\ ~Hung(n)
<1>1. freeListRefs[n] = Cardinality(Counted(n)) + (IF Hung(n) THEN 1 ELSE 0)
  BY DEF RefsExact
<1>2. Cardinality(Counted(n)) \in Nat /\ (Cardinality(Counted(n)) = 0 <=> Counted(n) = {})
  BY CountedSize
<1> QED
  BY <1>1, <1>2

LEMMA ParkedType == Parked \in Positions /\ AtNode(Parked) /\ Parked.pc = "idle"
BY DEF Parked, Positions, Pcs, NodesOrNone, AtNode

LEMMA AfterLinkType ==
  ASSUME FreeListTypeOK, NEW t \in PoolThreads
  PROVE  /\ AfterLink(t) \in Positions /\ AtNode(AfterLink(t))
         /\ AfterLink(t).pc \in {"idle", "loop"}
<1>1. step[t] \in Positions
  BY DEF FreeListTypeOK
<1> QED
  BY <1>1, ParkedType DEF AfterLink, Parked, Positions, Pcs, NodesOrNone, AtNode

\* One thread moves to p.
LEMMA StepType ==
  ASSUME FreeListTypeOK, NEW t \in PoolThreads, NEW p \in Positions, AtNode(p),
         step' = [step EXCEPT ![t] = p]
  PROVE  step' \in [PoolThreads -> Positions] /\ \A u \in PoolThreads : AtNode(step'[u])
BY DEF FreeListTypeOK

LEMMA TypesKept ==
  ASSUME FreeListInv, NEW t \in PoolThreads,
         \/ Add(t) \/ LoadLinkHead(t) \/ StoreNext(t) \/ StoreRefs(t) \/ Push(t)
         \/ Unref(t) \/ TryGet(t) \/ LoadRefs(t) \/ Ref(t) \/ LoadNext(t) \/ Pop(t)
         \/ Got(t) \/ Drop(t)
  PROVE  FreeListTypeOK'
<1> USE DEF FreeListInv, NodeInv
<1>t. /\ step[t] \in Positions /\ AtNode(step[t]) /\ freeListHead \in NodesOrNone
      /\ freeListNext \in [Nodes -> NodesOrNone]
      /\ freeListRefs \in [Nodes -> Nat] /\ shouldBeOn \in [Nodes -> BOOLEAN]
      /\ has \in [PoolThreads -> SUBSET Nodes]
  BY DEF FreeListTypeOK
<1>a. /\ AfterLink(t) \in Positions /\ AtNode(AfterLink(t))
      /\ Parked \in Positions /\ AtNode(Parked)
  BY AfterLinkType, ParkedType
<1> USE DEF Positions, Pcs, NodesOrNone
<1>l. ASSUME NEW n \in Nodes
      PROVE  Links(t, n) \in Positions /\ AtNode(Links(t, n))
  BY <1>t DEF Links, AtNode
<1>m. ASSUME NEW pc \in Pcs PROVE Moves(t, pc) \in Positions
  BY <1>t DEF Moves
<1>s. ASSUME NEW p \in Positions, AtNode(p), step' = [step EXCEPT ![t] = p],
             freeListHead' \in NodesOrNone, freeListRefs' \in [Nodes -> Nat],
             shouldBeOn' \in [Nodes -> BOOLEAN], freeListNext' \in [Nodes -> NodesOrNone],
             has' \in [PoolThreads -> SUBSET Nodes]
      PROVE  FreeListTypeOK'
  BY <1>s, StepType DEF FreeListTypeOK
<1>1. CASE Add(t)
  <2>1. PICK n \in has[t] :
          /\ shouldBeOn' = [shouldBeOn EXCEPT ![n] = TRUE]
          /\ has' = [has EXCEPT ![t] = @ \ {n}]
          /\ step' = [step EXCEPT ![t] = IF NobodyLooks(n) THEN Links(t, n) ELSE @]
          /\ UNCHANGED <<freeListHead, freeListRefs, freeListNext>>
    BY <1>1 DEF Add
  <2>2. n \in Nodes
    BY <1>t
  <2>3. CASE NobodyLooks(n)
    BY <2>1, <2>2, <2>3, <1>l, <1>s, <1>t
  <2>4. CASE ~NobodyLooks(n)
    BY <2>1, <2>2, <2>4, <1>s, <1>t
  <2> QED
    BY <2>3, <2>4
<1>2. CASE LoadLinkHead(t)
  <2> DEFINE p == [Moves(t, "storenext") EXCEPT !.next = freeListHead]
  <2>1. p \in Positions /\ AtNode(p)
    BY <1>2, <1>t DEF LoadLinkHead, Moves, AtNode
  <2> QED
    BY <1>2, <2>1, <1>s, <1>t DEF LoadLinkHead
<1>3. CASE StoreNext(t)
  <2>1. Moves(t, "storerefs") \in Positions /\ AtNode(Moves(t, "storerefs"))
    BY <1>3, <1>t DEF StoreNext, Moves, AtNode
  <2>2. freeListNext' \in [Nodes -> NodesOrNone]
    BY <1>3, <1>t DEF StoreNext
  <2> QED
    BY <1>3, <2>1, <2>2, <1>s, <1>t DEF StoreNext
<1>4. CASE StoreRefs(t)
  <2>1. Moves(t, "push") \in Positions /\ AtNode(Moves(t, "push"))
    BY <1>4, <1>t DEF StoreRefs, Moves, AtNode
  <2>2. freeListRefs' \in [Nodes -> Nat] /\ shouldBeOn' \in [Nodes -> BOOLEAN]
    BY <1>4, <1>t DEF StoreRefs
  <2> QED
    BY <1>4, <2>1, <2>2, <1>s, <1>t DEF StoreRefs
<1>5. CASE Push(t)
  <2> DEFINE p == [Moves(t, "unref") EXCEPT !.next = freeListHead]
  <2>1. p \in Positions /\ AtNode(p) /\ step[t].node \in NodesOrNone
    BY <1>5, <1>t DEF Push, Moves, AtNode
  <2>2. CASE step' = [step EXCEPT ![t] = AfterLink(t)] /\ freeListHead' = step[t].node
    BY <1>5, <2>1, <2>2, <1>a, <1>s, <1>t DEF Push
  <2>3. CASE step' = [step EXCEPT ![t] = p] /\ UNCHANGED freeListHead
    BY <1>5, <2>1, <2>3, <1>s, <1>t DEF Push
  <2> QED
    BY <1>5, <2>2, <2>3 DEF Push
<1>6. CASE Unref(t)
  <2> DEFINE n == step[t].node
  <2>1. n \in Nodes /\ Moves(t, "storenext") \in Positions /\ AtNode(Moves(t, "storenext"))
    BY <1>6, <1>t DEF Unref, Moves, AtNode
  <2>2. freeListRefs[n] >= 1
    BY <1>6, <2>1, CountsAre DEF Unref, Hung, LinksNode, Linking, Early
  <2>3. freeListRefs' \in [Nodes -> Nat] /\ shouldBeOn' \in [Nodes -> BOOLEAN]
    BY <1>6, <2>1, <2>2, <1>t DEF Unref
  <2>4. CASE step' = [step EXCEPT ![t] = Moves(t, "storenext")]
    BY <1>6, <2>1, <2>3, <2>4, <1>s, <1>t DEF Unref
  <2>5. CASE step' = [step EXCEPT ![t] = AfterLink(t)]
    BY <1>6, <2>3, <2>5, <1>a, <1>s, <1>t DEF Unref
  <2> QED
    BY <1>6, <2>4, <2>5 DEF Unref
<1>7. CASE TryGet(t)
  <2> DEFINE p == [Parked EXCEPT !.pc = "loop", !.head = freeListHead, !.getting = TRUE]
  <2>0. \A r \in Positions : [r EXCEPT !.pc = "loop", !.head = freeListHead, !.getting = TRUE] \in Positions
    BY <1>t
  <2>1. \A r \in Positions : [r EXCEPT !.pc = "loop", !.head = freeListHead, !.getting = TRUE].pc = "loop"
    BY <1>t
  <2>2. p \in Positions /\ AtNode(p)
    BY <2>0, <2>1, <1>a DEF AtNode
  <2> HIDE DEF p
  <2> QED
    BY <1>7, <2>2, <1>s, <1>t DEF TryGet, p
<1>8. CASE LoadRefs(t)
  <2> DEFINE p == [Moves(t, "ref") EXCEPT !.refs = freeListRefs[step[t].head],
                                          !.bit = shouldBeOn[step[t].head]]
  <2>1. CASE step[t].head = NoNode
    BY <1>8, <2>1, <1>a, <1>s, <1>t DEF LoadRefs
  <2>2. CASE step[t].head # NoNode
    <3>1. step[t].head \in Nodes
      BY <2>2, <1>t
    <3>2. p \in Positions /\ AtNode(p)
      BY <3>1, <1>t DEF Moves, AtNode
    <3>3. step' = [step EXCEPT ![t] = p]
      BY <1>8, <2>2 DEF LoadRefs
    <3> QED
      BY <1>8, <3>2, <3>3, <1>s, <1>t DEF LoadRefs
  <2> QED
    BY <2>1, <2>2
<1>9. CASE Ref(t)
  <2> DEFINE p == [Moves(t, "next") EXCEPT !.refs = 0, !.bit = FALSE]
             q == [Moves(t, "loop") EXCEPT !.head = freeListHead, !.refs = 0, !.bit = FALSE]
  <2>1. p \in Positions /\ AtNode(p) /\ step[t].head \in Nodes
    BY <1>9, <1>t DEF Ref, Moves, AtNode
  <2>2. q \in Positions /\ AtNode(q)
    BY <1>9, <1>t DEF Ref, Moves, AtNode
  <2>3. CASE step' = [step EXCEPT ![t] = p] /\ freeListRefs' = [freeListRefs EXCEPT ![step[t].head] = @ + 1]
    <3>1. freeListRefs' \in [Nodes -> Nat]
      BY <2>1, <2>3, <1>t
    <3> HIDE DEF p
    <3> QED
      BY <1>9, <2>1, <2>3, <3>1, <1>s, <1>t DEF Ref
  <2>4. CASE step' = [step EXCEPT ![t] = q] /\ UNCHANGED freeListRefs
    BY <1>9, <2>2, <2>4, <1>s, <1>t DEF Ref
  <2> QED
    BY <1>9, <2>3, <2>4 DEF Ref
<1>10. CASE LoadNext(t)
  <2> DEFINE p == [Moves(t, "pop") EXCEPT !.next = freeListNext[step[t].head]]
  <2>1. p \in Positions /\ AtNode(p)
    BY <1>10, <1>t DEF LoadNext, Moves, AtNode
  <2> QED
    BY <1>10, <2>1, <1>s, <1>t DEF LoadNext
<1>11. CASE Pop(t)
  <2> DEFINE p == [Moves(t, "got") EXCEPT !.next = NoNode]
             q == [Moves(t, "drop") EXCEPT !.next = NoNode, !.node = step[t].head,
                                           !.head = freeListHead]
  <2>1. p \in Positions /\ AtNode(p) /\ step[t].next \in NodesOrNone
    BY <1>11, <1>t DEF Pop, Moves, AtNode
  <2>2. q \in Positions /\ AtNode(q)
    BY <1>11, <1>t DEF Pop, Moves, AtNode
  <2>3. CASE step' = [step EXCEPT ![t] = p] /\ freeListHead' = step[t].next
    BY <1>11, <2>1, <2>3, <1>s, <1>t DEF Pop
  <2>4. CASE step' = [step EXCEPT ![t] = q] /\ UNCHANGED freeListHead
    BY <1>11, <2>2, <2>4, <1>s, <1>t DEF Pop
  <2> QED
    BY <1>11, <2>3, <2>4 DEF Pop
<1>12. CASE Got(t)
  <2> DEFINE n == step[t].head
  <2>1. n \in Nodes
    BY <1>12, <1>t DEF Got, AtNode
  <2>2. freeListRefs[n] >= 2
    BY <1>12, <2>1, CountsAre DEF Got, Hung, Took, Counted
  <2>3. freeListRefs' \in [Nodes -> Nat] /\ has' \in [PoolThreads -> SUBSET Nodes]
    BY <1>12, <2>1, <2>2, <1>t DEF Got
  <2> QED
    BY <1>12, <2>3, <1>a, <1>s, <1>t DEF Got
<1>13. CASE Drop(t)
  <2> DEFINE n == step[t].node
  <2>1. n \in Nodes
    BY <1>13, <1>t DEF Drop, AtNode
  <2>2. freeListRefs[n] >= 1
    BY <1>13, <2>1, CountsAre DEF Drop, Counted, Looks
  <2>3. freeListRefs' \in [Nodes -> Nat]
    BY <1>13, <2>1, <2>2, <1>t DEF Drop
  <2>4. CASE step' = [step EXCEPT ![t] = Links(t, n)]
    BY <1>13, <2>1, <2>3, <2>4, <1>l, <1>s, <1>t DEF Drop
  <2>5. CASE step' = [step EXCEPT ![t] = AfterLink(t)]
    BY <1>13, <2>3, <2>5, <1>a, <1>s, <1>t DEF Drop
  <2> QED
    BY <1>13, <2>4, <2>5 DEF Drop
<1> QED
  BY <1>1, <1>2, <1>3, <1>4, <1>5, <1>6, <1>7, <1>8, <1>9, <1>10, <1>11, <1>12, <1>13

-----------------------------------------------------------------------------
(* The places of nodes. *)

\* A node nothing happens to.
LEMMA NodeSame ==
  ASSUME NEW n \in Nodes, NodeInv(n), n \in OnList' <=> n \in OnList,
         freeListRefs'[n] = freeListRefs[n], shouldBeOn'[n] = shouldBeOn[n],
         \A t \in PoolThreads :
           /\ n \in has'[t] <=> n \in has[t]
           /\ Looks(t, n)' <=> Looks(t, n)
           /\ Took(t, n)' <=> Took(t, n)
           /\ LinksNode(t, n)' <=> LinksNode(t, n)
           /\ LinksNode(t, n) => (Early(t)' <=> Early(t))
  PROVE  NodeInv(n)'
<1>1. Counted(n)' = Counted(n)
  BY DEF Counted
<1>2. Hung(n)' <=> Hung(n)
  BY DEF Hung
<1>3. \A t \in PoolThreads : Keeps(t, n)' <=> Keeps(t, n)
  BY DEF Keeps
<1>4. RefsExact(n)'
  BY <1>1, <1>2 DEF NodeInv, RefsExact
<1>5. OneKeeper(n)'
  BY <1>3 DEF NodeInv, OneKeeper
<1>6. BitRight(n)'
  BY <1>3 DEF NodeInv, BitRight, Keeps
<1>7. LinkedUnseen(n)'
  BY <1>1 DEF NodeInv, LinkedUnseen
<1>8. Somewhere(n)'
  BY <1>1, <1>3 DEF NodeInv, Somewhere
<1> QED
  BY <1>4, <1>5, <1>6, <1>7, <1>8 DEF NodeInv

\* What threads do, when thread t goes to p.
LEMMA Roles ==
  ASSUME NEW t \in PoolThreads, NEW p, step \in [PoolThreads -> Positions],
         step' = [step EXCEPT ![t] = p]
  PROVE  /\ \A u \in PoolThreads \ {t} : \A m \in Nodes :
              /\ Looks(u, m)' <=> Looks(u, m)
              /\ Took(u, m)' <=> Took(u, m)
              /\ LinksNode(u, m)' <=> LinksNode(u, m)
              /\ Early(u)' <=> Early(u)
         /\ \A m \in Nodes :
              /\ Looks(t, m)' <=> \/ p.pc \in {"next", "pop"} /\ p.head = m
                                  \/ p.pc = "drop" /\ p.node = m
              /\ Took(t, m)' <=> p.pc = "got" /\ p.head = m
              /\ LinksNode(t, m)' <=>
                   /\ p.pc \in {"loadhead", "storenext", "storerefs", "push", "unref"}
                   /\ p.node = m
         /\ Early(t)' <=> p.pc \in {"loadhead", "storenext", "storerefs"}
<1>1. step'[t] = p /\ \A u \in PoolThreads \ {t} : step'[u] = step[u]
  OBVIOUS
<1> QED
  BY <1>1 DEF Looks, Took, LinksNode, Linking, Early

\* Steps that leave every node as it is: t goes on with the same node.
LEMMA NodesSame ==
  ASSUME FreeListInv, NEW t \in PoolThreads, NEW p, step' = [step EXCEPT ![t] = p],
         UNCHANGED <<freeListRefs, shouldBeOn, has>>, OnList' = OnList,
         \/ /\ p.pc \in {"idle", "loop", "ref"}
            /\ step[t].pc \in {"idle", "loop", "ref"}
         \/ /\ p.pc \in {"next", "pop"} /\ step[t].pc \in {"next", "pop"}
            /\ p.head = step[t].head
         \/ p.pc = "drop" /\ step[t].pc = "pop" /\ p.node = step[t].head
         \/ /\ p.node = step[t].node
            /\ \/ /\ p.pc \in {"loadhead", "storenext", "storerefs"}
                  /\ step[t].pc \in {"loadhead", "storenext", "storerefs"}
               \/ p.pc = "unref" /\ step[t].pc = "push"
  PROVE  \A n \in Nodes : NodeInv(n)'
<1> SUFFICES ASSUME NEW n \in Nodes PROVE NodeInv(n)'
  OBVIOUS
<1>r. step \in [PoolThreads -> Positions] /\ NodeInv(n)
  BY DEF FreeListInv, FreeListTypeOK
<1>1. /\ Looks(t, n)' <=> Looks(t, n)
      /\ Took(t, n)' <=> Took(t, n)
      /\ LinksNode(t, n)' <=> LinksNode(t, n)
      /\ LinksNode(t, n) => (Early(t)' <=> Early(t))
  BY <1>r, Roles DEF Looks, Took, LinksNode, Linking, Early
<1>2. \A u \in PoolThreads :
        /\ Looks(u, n)' <=> Looks(u, n)
        /\ Took(u, n)' <=> Took(u, n)
        /\ LinksNode(u, n)' <=> LinksNode(u, n)
        /\ LinksNode(u, n) => (Early(u)' <=> Early(u))
  BY <1>r, <1>1, Roles
<1> QED
  BY <1>r, <1>2, NodeSame

\* Steps that concern one node leave the others as they are.
LEMMA OtherNodes ==
  ASSUME FreeListInv, NEW t \in PoolThreads, NEW p, step' = [step EXCEPT ![t] = p],
         NEW n \in Nodes, NEW m \in Nodes, m # n,
         freeListRefs'[m] = freeListRefs[m], shouldBeOn'[m] = shouldBeOn[m],
         \A u \in PoolThreads : m \in has'[u] <=> m \in has[u],
         m \in OnList' <=> m \in OnList,
         ~Looks(t, m) /\ ~Took(t, m) /\ ~LinksNode(t, m),
         ~Looks(t, m)' /\ ~Took(t, m)' /\ ~LinksNode(t, m)'
  PROVE  NodeInv(m)'
<1>r. step \in [PoolThreads -> Positions] /\ NodeInv(m)
  BY DEF FreeListInv, FreeListTypeOK
<1>1. \A u \in PoolThreads :
        /\ Looks(u, m)' <=> Looks(u, m)
        /\ Took(u, m)' <=> Took(u, m)
        /\ LinksNode(u, m)' <=> LinksNode(u, m)
        /\ LinksNode(u, m) => (Early(u)' <=> Early(u))
  BY <1>r, Roles
<1> QED
  BY <1>r, <1>1, NodeSame

LEMMA AddNodes ==
  ASSUME FreeListInv, NEW t \in PoolThreads, Add(t)
  PROVE  \A m \in Nodes : NodeInv(m)'
<1>t. /\ step \in [PoolThreads -> Positions] /\ has \in [PoolThreads -> SUBSET Nodes]
      /\ shouldBeOn \in [Nodes -> BOOLEAN] /\ \A m \in Nodes : NodeInv(m)
  BY DEF FreeListInv, FreeListTypeOK
<1>1. PICK n \in has[t] :
        /\ step[t].pc = "idle"
        /\ shouldBeOn' = [shouldBeOn EXCEPT ![n] = TRUE]
        /\ has' = [has EXCEPT ![t] = @ \ {n}]
        /\ step' = [step EXCEPT ![t] = IF NobodyLooks(n) THEN Links(t, n) ELSE @]
        /\ UNCHANGED <<freeListHead, freeListRefs, freeListNext>>
  BY DEF Add
<1> DEFINE p == IF NobodyLooks(n) THEN Links(t, n) ELSE step[t]
<1>2. n \in Nodes /\ step' = [step EXCEPT ![t] = p] /\ NodeInv(n) /\ OnList' = OnList
  BY <1>1, <1>t, SameList DEF OnList
<1>p. \/ freeListRefs[n] = 0 /\ p.pc = "loadhead" /\ p.node = n
      \/ freeListRefs[n] # 0 /\ p.pc = "idle"
  BY <1>1, <1>t DEF NobodyLooks, Links, Positions
<1> HIDE DEF p
<1>3. \A m \in Nodes : /\ ~Looks(t, m) /\ ~Took(t, m) /\ ~LinksNode(t, m)
                       /\ ~Looks(t, m)' /\ ~Took(t, m)'
                       /\ LinksNode(t, m)' <=> freeListRefs[n] = 0 /\ m = n
  BY <1>1, <1>2, <1>p, <1>t, Roles DEF Looks, Took, LinksNode, Linking
<1>o. \A u \in PoolThreads \ {t} : \A m \in Nodes :
        /\ Looks(u, m)' <=> Looks(u, m)
        /\ Took(u, m)' <=> Took(u, m)
        /\ LinksNode(u, m)' <=> LinksNode(u, m)
        /\ Early(u)' <=> Early(u)
  BY <1>2, <1>t, Roles
<1>4. ASSUME NEW m \in Nodes, m # n PROVE NodeInv(m)'
  BY <1>1, <1>2, <1>3, <1>4, <1>t, OtherNodes
<1>5. NodeInv(n)'
  <2>1. /\ n \notin OnList
        /\ \A u \in PoolThreads \ {t} : n \notin has[u] /\ ~Took(u, n) /\ ~LinksNode(u, n)
    BY <1>1, <1>2 DEF NodeInv, OneKeeper, Keeps
  <2>2. /\ \A u \in PoolThreads \ {t} : n \notin has'[u] /\ ~Took(u, n)' /\ ~LinksNode(u, n)'
        /\ n \notin has'[t] /\ n \notin OnList' /\ shouldBeOn'[n] = TRUE
    BY <1>1, <1>2, <2>1, <1>t, <1>o
  <2>3. Counted(n)' = Counted(n)
    BY <1>2, <1>3, <1>o DEF Counted
  <2>4. ~Hung(n)
    BY <1>2, <1>3, <2>1 DEF Hung
  <2>5. freeListRefs[n] = 0 => Early(t)'
    BY <1>2, <1>p, <1>t, Roles
  <2>6. ~Hung(n)'
    BY <1>2, <1>3, <2>2, <2>5 DEF Hung
  <2>7. RefsExact(n)'
    BY <1>1, <1>2, <2>3, <2>4, <2>6 DEF NodeInv, RefsExact
  <2>8. OneKeeper(n)'
    BY <1>1, <1>2, <1>3, <2>2 DEF OneKeeper, Keeps
  <2>9. BitRight(n)'
    BY <1>1, <1>2, <1>3, <2>2, <2>5 DEF BitRight, Keeps
  <2>10. freeListRefs[n] = 0 <=> Counted(n) = {}
    BY <1>2, <2>4, CountedSize DEF NodeInv, RefsExact
  <2>11. LinkedUnseen(n)'
    BY <1>1, <1>2, <1>3, <2>2, <2>3, <2>10 DEF LinkedUnseen
  <2>12. Somewhere(n)'
    BY <1>1, <1>2, <1>3, <2>2, <2>3, <2>10 DEF Somewhere, Keeps
  <2> QED
    BY <2>7, <2>8, <2>9, <2>11, <2>12 DEF NodeInv
<1> QED
  BY <1>4, <1>5

LEMMA StoreRefsNodes ==
  ASSUME FreeListInv, NEW t \in PoolThreads, StoreRefs(t)
  PROVE  \A m \in Nodes : NodeInv(m)'
<1> DEFINE p == Moves(t, "push")
<1>t. /\ step \in [PoolThreads -> Positions] /\ AtNode(step[t])
      /\ freeListRefs \in [Nodes -> Nat]
      /\ shouldBeOn \in [Nodes -> BOOLEAN] /\ \A m \in Nodes : NodeInv(m)
  BY DEF FreeListInv, FreeListTypeOK
<1>1. PICK n \in Nodes :
      /\ n = step[t].node /\ step[t].pc = "storerefs" /\ step' = [step EXCEPT ![t] = p]
      /\ freeListRefs' = [freeListRefs EXCEPT ![n] = 1]
      /\ shouldBeOn' = [shouldBeOn EXCEPT ![n] = FALSE]
      /\ UNCHANGED has /\ OnList' = OnList
  BY <1>t, SameList DEF StoreRefs, AtNode, OnList
<1>p. p.pc = "push" /\ p.node = n
  BY <1>1, <1>t DEF Moves, Positions
<1> HIDE DEF p
<1>3. \A m \in Nodes : /\ ~Looks(t, m) /\ ~Took(t, m) /\ (LinksNode(t, m) <=> m = n) /\ Early(t)
                       /\ ~Looks(t, m)' /\ ~Took(t, m)' /\ (LinksNode(t, m)' <=> m = n) /\ ~Early(t)'
  BY <1>1, <1>p, <1>t, Roles DEF Looks, Took, LinksNode, Linking, Early
<1>o. \A u \in PoolThreads \ {t} : \A m \in Nodes :
        /\ Looks(u, m)' <=> Looks(u, m)
        /\ Took(u, m)' <=> Took(u, m)
        /\ LinksNode(u, m)' <=> LinksNode(u, m)
        /\ Early(u)' <=> Early(u)
  BY <1>1, <1>t, Roles
<1>4. ASSUME NEW m \in Nodes, m # n PROVE NodeInv(m)'
  BY <1>1, <1>3, <1>4, <1>t, OtherNodes
<1>5. NodeInv(n)'
  <2>1. /\ n \notin OnList /\ n \notin has[t]
        /\ \A u \in PoolThreads \ {t} : n \notin has[u] /\ ~Took(u, n) /\ ~LinksNode(u, n)
    BY <1>1, <1>3, <1>t DEF NodeInv, OneKeeper, Keeps
  <2>2. /\ \A u \in PoolThreads \ {t} : n \notin has'[u] /\ ~Took(u, n)' /\ ~LinksNode(u, n)'
        /\ n \notin has'[t] /\ n \notin OnList' /\ shouldBeOn'[n] = FALSE /\ freeListRefs'[n] = 1
    BY <1>1, <1>3, <2>1, <1>t, <1>o
  <2>3. Counted(n)' = Counted(n)
    BY <1>1, <1>3, <1>o DEF Counted
  <2>4. Counted(n) = {}
    BY <1>1, <1>3, <1>t DEF NodeInv, LinkedUnseen
  <2>5. Hung(n)'
    BY <1>1, <1>3 DEF Hung
  <2>c. Cardinality(Counted(n)') = 0
    BY <2>3, <2>4, FS_EmptySet
  <2>6. RefsExact(n)'
    BY <2>2, <2>c, <2>5 DEF RefsExact
  <2>7. OneKeeper(n)' /\ BitRight(n)' /\ LinkedUnseen(n)' /\ Somewhere(n)'
    BY <1>1, <1>3, <2>2 DEF OneKeeper, BitRight, LinkedUnseen, Somewhere, Keeps
  <2> QED
    BY <2>6, <2>7 DEF NodeInv
<1> QED
  BY <1>4, <1>5

\* The push succeeds: the node becomes the head.
LEMMA PushNodes ==
  ASSUME FreeListInv, NEW t \in PoolThreads, Push(t), freeListHead = step[t].next
  PROVE  /\ \A m \in Nodes : NodeInv(m)'
         /\ OnList' = OnList \cup {step[t].node} /\ step[t].node \notin OnList
         /\ NoCycle'
<1> DEFINE p == AfterLink(t)
<1>t. /\ step \in [PoolThreads -> Positions] /\ AtNode(step[t])
      /\ \A m \in Nodes : NodeInv(m)
      /\ freeListNext[step[t].node] = freeListHead
  BY DEF FreeListInv, FreeListTypeOK, NextSeen, Push
<1>1. PICK n \in Nodes :
      /\ n = step[t].node /\ step[t].pc = "push" /\ step' = [step EXCEPT ![t] = p]
      /\ freeListHead' = n /\ UNCHANGED <<freeListRefs, shouldBeOn, freeListNext, has>>
  BY <1>t DEF Push, AtNode
<1>2. OnList' = OnList \cup {n}
  <2>1. From(n)' = From(n)
    BY <1>1, SameList
  <2>2. OnList' = From(n)'
    BY <1>1 DEF OnList
  <2> QED
    BY <1>1, <1>t, <2>1, <2>2, FromNode DEF OnList
<1>p. p.pc \in {"idle", "loop"}
  BY AfterLinkType DEF FreeListInv
<1> HIDE DEF p
<1>3. \A m \in Nodes : /\ ~Looks(t, m) /\ ~Took(t, m) /\ (LinksNode(t, m) <=> m = n) /\ ~Early(t)
                       /\ ~Looks(t, m)' /\ ~Took(t, m)' /\ ~LinksNode(t, m)'
  BY <1>1, <1>p, <1>t, Roles DEF Looks, Took, LinksNode, Linking, Early
<1>o. \A u \in PoolThreads \ {t} : \A m \in Nodes :
        /\ Looks(u, m)' <=> Looks(u, m)
        /\ Took(u, m)' <=> Took(u, m)
        /\ LinksNode(u, m)' <=> LinksNode(u, m)
        /\ Early(u)' <=> Early(u)
  BY <1>1, <1>t, Roles
<1>4. ASSUME NEW m \in Nodes, m # n PROVE NodeInv(m)'
  BY <1>1, <1>2, <1>3, <1>4, <1>t, OtherNodes
<1>5. n \notin OnList /\ NodeInv(n)'
  <2>1. /\ n \notin OnList /\ n \notin has[t]
        /\ \A u \in PoolThreads \ {t} : n \notin has[u] /\ ~Took(u, n) /\ ~LinksNode(u, n)
    BY <1>1, <1>3, <1>t DEF NodeInv, OneKeeper, Keeps
  <2>2. /\ \A u \in PoolThreads : n \notin has'[u] /\ ~Took(u, n)' /\ ~LinksNode(u, n)'
        /\ n \in OnList'
    BY <1>1, <1>2, <1>3, <2>1, <1>o
  <2>3. Counted(n)' = Counted(n)
    BY <1>1, <1>3, <1>o DEF Counted
  <2>4. Hung(n) /\ Hung(n)'
    BY <1>1, <1>3, <2>2 DEF Hung
  <2>5. ~shouldBeOn'[n]
    BY <1>1, <1>3, <1>t DEF NodeInv, BitRight, Keeps
  <2>6. RefsExact(n)'
    BY <1>1, <1>t, <2>3, <2>4 DEF NodeInv, RefsExact
  <2>7. OneKeeper(n)' /\ BitRight(n)' /\ LinkedUnseen(n)' /\ Somewhere(n)'
    BY <1>1, <2>2, <2>5 DEF OneKeeper, BitRight, LinkedUnseen, Somewhere, Keeps
  <2> QED
    BY <2>1, <2>6, <2>7 DEF NodeInv
<1>6. NoCycle'
  <2> SUFFICES ASSUME NEW m \in OnList' PROVE m \notin From(freeListNext[m])'
    BY DEF NoCycle
  <2>1. From(freeListNext[m])' = From(freeListNext[m])
    BY <1>1 DEF From, Closed
  <2>2. CASE m = n
    BY <1>5, <1>t, <2>1, <2>2, <1>1 DEF OnList
  <2>3. CASE m # n
    BY <1>2, <2>1, <2>3 DEF FreeListInv, NoCycle
  <2> QED
    BY <2>2, <2>3
<1> QED
  BY <1>1, <1>2, <1>4, <1>5, <1>6

\* The push failed: the thread goes on linking, or leaves the node to those
\* who look at it.
LEMMA UnrefNodes ==
  ASSUME FreeListInv, NEW t \in PoolThreads, Unref(t)
  PROVE  \A m \in Nodes : NodeInv(m)'
<1>t. /\ step \in [PoolThreads -> Positions] /\ AtNode(step[t])
      /\ freeListRefs \in [Nodes -> Nat]
      /\ shouldBeOn \in [Nodes -> BOOLEAN] /\ \A m \in Nodes : NodeInv(m)
  BY DEF FreeListInv, FreeListTypeOK
<1> DEFINE p == IF freeListRefs[step[t].node] = 1 THEN Moves(t, "storenext") ELSE AfterLink(t)
<1>1. PICK n \in Nodes :
      /\ n = step[t].node /\ step[t].pc = "unref" /\ step' = [step EXCEPT ![t] = p]
      /\ freeListRefs' = [freeListRefs EXCEPT ![n] = @ - 1]
      /\ shouldBeOn' = [shouldBeOn EXCEPT ![n] = TRUE]
      /\ UNCHANGED has /\ OnList' = OnList
  BY <1>t, SameList DEF Unref, AtNode, OnList
<1>p. \/ freeListRefs[n] = 1 /\ p.pc = "storenext" /\ p.node = n
      \/ freeListRefs[n] # 1 /\ p.pc \in {"idle", "loop"}
  BY <1>1, <1>t, AfterLinkType DEF FreeListInv, Moves, Positions
<1> HIDE DEF p
<1>3. \A m \in Nodes : /\ ~Looks(t, m) /\ ~Took(t, m) /\ (LinksNode(t, m) <=> m = n) /\ ~Early(t)
                       /\ ~Looks(t, m)' /\ ~Took(t, m)'
                       /\ LinksNode(t, m)' <=> freeListRefs[n] = 1 /\ m = n
  BY <1>1, <1>p, <1>t, Roles DEF Looks, Took, LinksNode, Linking, Early
<1>o. \A u \in PoolThreads \ {t} : \A m \in Nodes :
        /\ Looks(u, m)' <=> Looks(u, m)
        /\ Took(u, m)' <=> Took(u, m)
        /\ LinksNode(u, m)' <=> LinksNode(u, m)
        /\ Early(u)' <=> Early(u)
  BY <1>1, <1>t, Roles
<1>4. ASSUME NEW m \in Nodes, m # n PROVE NodeInv(m)'
  BY <1>1, <1>3, <1>4, <1>t, OtherNodes
<1>5. NodeInv(n)'
  <2>1. /\ n \notin OnList /\ n \notin has[t]
        /\ \A u \in PoolThreads \ {t} : n \notin has[u] /\ ~Took(u, n) /\ ~LinksNode(u, n)
    BY <1>1, <1>3, <1>t DEF NodeInv, OneKeeper, Keeps
  <2>2. /\ \A u \in PoolThreads \ {t} : n \notin has'[u] /\ ~Took(u, n)' /\ ~LinksNode(u, n)'
        /\ n \notin has'[t] /\ n \notin OnList' /\ shouldBeOn'[n] = TRUE
        /\ freeListRefs'[n] = freeListRefs[n] - 1
    BY <1>1, <1>3, <2>1, <1>t, <1>o
  <2>3. Counted(n)' = Counted(n)
    BY <1>1, <1>3, <1>o DEF Counted
  <2>4. Hung(n)
    BY <1>1, <1>3 DEF Hung
  <2>5. freeListRefs[n] = 1 => Early(t)'
    BY <1>1, <1>p, <1>t, Roles
  <2>6. ~Hung(n)'
    BY <1>1, <1>3, <2>2, <2>5 DEF Hung
  <2>7. freeListRefs[n] = Cardinality(Counted(n)) + 1 /\ Cardinality(Counted(n)) \in Nat
    BY <1>1, <1>t, <2>4, CountedSize DEF NodeInv, RefsExact
  <2>8. RefsExact(n)'
    BY <2>2, <2>3, <2>6, <2>7 DEF RefsExact
  <2>9. freeListRefs[n] = 1 <=> Counted(n) = {}
    BY <2>7, CountedSize
  <2>10. OneKeeper(n)' /\ BitRight(n)'
    BY <1>1, <1>3, <2>2, <2>5 DEF OneKeeper, BitRight, Keeps
  <2>11. LinkedUnseen(n)' /\ Somewhere(n)'
    BY <1>1, <1>3, <2>2, <2>3, <2>9 DEF LinkedUnseen, Somewhere, Keeps
  <2> QED
    BY <2>8, <2>10, <2>11 DEF NodeInv
<1> QED
  BY <1>4, <1>5

\* A thread starts to look at a node, which nobody is about to link.
LEMMA RefNodes ==
  ASSUME FreeListInv, NEW t \in PoolThreads, Ref(t), MayRef(step[t])
  PROVE  \A m \in Nodes : NodeInv(m)'
<1>t. /\ step \in [PoolThreads -> Positions] /\ AtNode(step[t])
      /\ freeListRefs \in [Nodes -> Nat] /\ \A m \in Nodes : NodeInv(m)
  BY DEF FreeListInv, FreeListTypeOK
<1> DEFINE p == [Moves(t, "next") EXCEPT !.refs = 0, !.bit = FALSE]
<1>1. PICK n \in Nodes :
      /\ n = step[t].head /\ step[t].pc = "ref" /\ step' = [step EXCEPT ![t] = p]
      /\ freeListRefs' = [freeListRefs EXCEPT ![n] = @ + 1] /\ freeListRefs[n] # 0
      /\ UNCHANGED <<shouldBeOn, has>> /\ OnList' = OnList
  BY <1>t, SameList DEF Ref, MayRef, AtNode, OnList
<1>p. p.pc = "next" /\ p.head = n
  BY <1>1, <1>t DEF Moves, Positions
<1> HIDE DEF p
<1>b. \A m \in Nodes : ~Looks(t, m) /\ ~Took(t, m) /\ ~LinksNode(t, m)
  BY <1>1 DEF Looks, Took, LinksNode, Linking
<1>c. \A m \in Nodes : (Looks(t, m)' <=> m = n) /\ ~Took(t, m)' /\ ~LinksNode(t, m)'
  BY <1>1, <1>p, <1>t, Roles
<1>3. \A m \in Nodes : /\ ~Looks(t, m) /\ ~Took(t, m) /\ ~LinksNode(t, m)
                       /\ (Looks(t, m)' <=> m = n) /\ ~Took(t, m)' /\ ~LinksNode(t, m)'
  BY <1>b, <1>c
<1>o. \A u \in PoolThreads \ {t} : \A m \in Nodes :
        /\ Looks(u, m)' <=> Looks(u, m)
        /\ Took(u, m)' <=> Took(u, m)
        /\ LinksNode(u, m)' <=> LinksNode(u, m)
        /\ Early(u)' <=> Early(u)
  BY <1>1, <1>t, Roles
<1>4. ASSUME NEW m \in Nodes, m # n PROVE NodeInv(m)'
  BY <1>1, <1>3, <1>4, <1>t, OtherNodes
<1>5. NodeInv(n)'
  <2>1. Counted(n)' = Counted(n) \cup {t} /\ t \notin Counted(n)
    BY <1>1, <1>3, <1>o DEF Counted
  <2>2. Cardinality(Counted(n)') = Cardinality(Counted(n)) + 1 /\ Cardinality(Counted(n)) \in Nat
    BY <2>1, CountedSize, OneMore
  <2>3. Hung(n)' <=> Hung(n)
    BY <1>1, <1>3, <1>o DEF Hung
  <2>4. RefsExact(n)'
    BY <1>1, <1>t, <2>2, <2>3 DEF NodeInv, RefsExact
  <2>5. \A u \in PoolThreads : Keeps(u, n)' <=> Keeps(u, n)
    BY <1>1, <1>3, <1>o DEF Keeps
  <2>6. OneKeeper(n)' /\ BitRight(n)'
    BY <1>1, <1>3, <1>o, <1>t, <2>5 DEF NodeInv, OneKeeper, BitRight, Keeps
  <2>7. ASSUME NEW u \in PoolThreads, LinksNode(u, n), Early(u) PROVE FALSE
    <3>1. Counted(n) = {}
      BY <1>1, <1>t, <2>7 DEF NodeInv, LinkedUnseen
    <3>2. ~Hung(n)
      BY <1>1, <1>t, <2>7 DEF NodeInv, OneKeeper, Keeps, Hung, Took, LinksNode, Linking, Early
    <3>3. freeListRefs[n] = 0
      BY <1>1, <1>t, <3>1, <3>2, FS_EmptySet DEF NodeInv, RefsExact
    <3> QED
      BY <1>1, <3>3
  <2>8. LinkedUnseen(n)'
    BY <1>1, <1>3, <1>o, <2>7 DEF LinkedUnseen
  <2>9. Somewhere(n)'
    BY <1>1, <1>t, <2>1, <2>5 DEF NodeInv, Somewhere
  <2> QED
    BY <2>4, <2>6, <2>8, <2>9 DEF NodeInv
<1> QED
  BY <1>4, <1>5

\* A thread takes the head off the list: what it remembers is the next node.
LEMMA PopNodes ==
  ASSUME FreeListInv, NEW t \in PoolThreads, Pop(t), freeListHead = step[t].head
  PROVE  (\A m \in Nodes : NodeInv(m)') /\ NoCycle'
<1>t. /\ step \in [PoolThreads -> Positions] /\ AtNode(step[t])
      /\ \A m \in Nodes : NodeInv(m)
      /\ step[t].next = freeListNext[step[t].head]
  BY DEF FreeListInv, FreeListTypeOK, NextSeen, Pop
<1> DEFINE p == [Moves(t, "got") EXCEPT !.next = NoNode]
<1>1. PICK n \in Nodes :
      /\ n = step[t].head /\ step[t].pc = "pop" /\ step' = [step EXCEPT ![t] = p]
      /\ freeListHead = n /\ freeListHead' = freeListNext[n]
      /\ UNCHANGED <<freeListRefs, shouldBeOn, freeListNext, has>>
  BY <1>t DEF Pop, AtNode
<1>p. p.pc = "got" /\ p.head = n
  BY <1>1, <1>t DEF Moves, Positions
<1> HIDE DEF p
<1>2. OnList' = OnList \ {n} /\ n \in OnList
  <2>1. OnList = {n} \cup From(freeListNext[n])
    BY <1>1, FromNode DEF OnList
  <2>2. OnList' = From(freeListNext[n])
    BY <1>1 DEF OnList, From, Closed
  <2>3. n \notin From(freeListNext[n])
    BY <2>1 DEF FreeListInv, NoCycle
  <2> QED
    BY <2>1, <2>2, <2>3
<1>b. \A m \in Nodes : (Looks(t, m) <=> m = n) /\ ~Took(t, m) /\ ~LinksNode(t, m)
  BY <1>1 DEF Looks, Took, LinksNode, Linking
<1>c. \A m \in Nodes : ~Looks(t, m)' /\ (Took(t, m)' <=> m = n) /\ ~LinksNode(t, m)'
  <2>1. step' = [step EXCEPT ![t] = p] /\ step \in [PoolThreads -> Positions]
    BY <1>1, <1>t
  <2>2. step'[t] = p
    BY <2>1
  <2> QED
    BY <2>2, <1>p DEF Looks, Took, LinksNode, Linking
<1>3. \A m \in Nodes : /\ (Looks(t, m) <=> m = n) /\ ~Took(t, m) /\ ~LinksNode(t, m)
                       /\ ~Looks(t, m)' /\ (Took(t, m)' <=> m = n) /\ ~LinksNode(t, m)'
  BY <1>b, <1>c
<1>o. \A u \in PoolThreads \ {t} : \A m \in Nodes :
        /\ Looks(u, m)' <=> Looks(u, m)
        /\ Took(u, m)' <=> Took(u, m)
        /\ LinksNode(u, m)' <=> LinksNode(u, m)
        /\ Early(u)' <=> Early(u)
  BY <1>1, <1>t, Roles
<1>4. ASSUME NEW m \in Nodes, m # n PROVE NodeInv(m)'
  BY <1>1, <1>2, <1>3, <1>4, <1>t, OtherNodes
<1>5. NodeInv(n)'
  <2>1. \A u \in PoolThreads : n \notin has[u] /\ ~Took(u, n) /\ ~LinksNode(u, n)
    BY <1>1, <1>2, <1>t DEF NodeInv, OneKeeper, Keeps
  <2>2. /\ \A u \in PoolThreads : n \notin has'[u] /\ ~LinksNode(u, n)' /\ (Took(u, n)' <=> u = t)
        /\ n \notin OnList' /\ ~shouldBeOn'[n]
    BY <1>1, <1>2, <1>3, <2>1, <1>t, <1>o DEF NodeInv, BitRight
  <2>3. Counted(n)' = Counted(n)
    BY <1>1, <1>3, <1>o DEF Counted
  <2>4. Hung(n) /\ Hung(n)'
    BY <1>2, <2>2 DEF Hung
  <2>5. RefsExact(n)'
    BY <1>1, <1>t, <2>3, <2>4 DEF NodeInv, RefsExact
  <2>6. OneKeeper(n)' /\ BitRight(n)' /\ LinkedUnseen(n)' /\ Somewhere(n)'
    BY <1>1, <2>2 DEF OneKeeper, BitRight, LinkedUnseen, Somewhere, Keeps
  <2> QED
    BY <2>5, <2>6 DEF NodeInv
<1>6. NoCycle'
  <2> SUFFICES ASSUME NEW m \in OnList' PROVE m \notin From(freeListNext[m])'
    BY DEF NoCycle
  <2>1. From(freeListNext[m])' = From(freeListNext[m])
    BY <1>1 DEF From, Closed
  <2> QED
    BY <1>2, <2>1 DEF FreeListInv, NoCycle
<1> QED
  BY <1>4, <1>5, <1>6

\* The taker drops its own reference and the list's: the node is its own.
LEMMA GotNodes ==
  ASSUME FreeListInv, NEW t \in PoolThreads, Got(t)
  PROVE  \A m \in Nodes : NodeInv(m)'
<1>t. /\ step \in [PoolThreads -> Positions] /\ AtNode(step[t])
      /\ freeListRefs \in [Nodes -> Nat] /\ has \in [PoolThreads -> SUBSET Nodes]
      /\ \A m \in Nodes : NodeInv(m)
  BY DEF FreeListInv, FreeListTypeOK
<1>1. PICK n \in Nodes :
      /\ n = step[t].head /\ step[t].pc = "got" /\ step' = [step EXCEPT ![t] = Parked]
      /\ freeListRefs' = [freeListRefs EXCEPT ![n] = @ - 2]
      /\ has' = [has EXCEPT ![t] = @ \cup {n}]
      /\ UNCHANGED shouldBeOn /\ OnList' = OnList
  BY <1>t, SameList DEF Got, AtNode, OnList
<1>3. \A m \in Nodes : /\ ~Looks(t, m) /\ (Took(t, m) <=> m = n) /\ ~LinksNode(t, m)
                       /\ ~Looks(t, m)' /\ ~Took(t, m)' /\ ~LinksNode(t, m)'
  BY <1>1, <1>t, Roles, ParkedType DEF Looks, Took, LinksNode, Linking
<1>o. \A u \in PoolThreads \ {t} : \A m \in Nodes :
        /\ Looks(u, m)' <=> Looks(u, m)
        /\ Took(u, m)' <=> Took(u, m)
        /\ LinksNode(u, m)' <=> LinksNode(u, m)
        /\ Early(u)' <=> Early(u)
  BY <1>1, <1>t, Roles
<1>4. ASSUME NEW m \in Nodes, m # n PROVE NodeInv(m)'
  BY <1>1, <1>3, <1>4, <1>t, OtherNodes
<1>5. NodeInv(n)'
  <2>1. /\ n \notin OnList
        /\ \A u \in PoolThreads \ {t} : n \notin has[u] /\ ~Took(u, n) /\ ~LinksNode(u, n)
    BY <1>1, <1>3, <1>t DEF NodeInv, OneKeeper, Keeps
  <2>2. /\ \A u \in PoolThreads : ~Took(u, n)' /\ ~LinksNode(u, n)' /\ (n \in has'[u] <=> u = t)
        /\ n \notin OnList' /\ ~shouldBeOn'[n]
        /\ freeListRefs'[n] = freeListRefs[n] - 2
    BY <1>1, <1>3, <2>1, <1>t, <1>o DEF NodeInv, BitRight, Keeps
  <2>3. Counted(n)' = Counted(n) \ {t} /\ t \in Counted(n)
    BY <1>1, <1>3, <1>o DEF Counted
  <2>4. Cardinality(Counted(n)') = Cardinality(Counted(n)) - 1 /\ Cardinality(Counted(n)) \in Nat
    BY <2>3, CountedSize, OneLess
  <2>5. Hung(n) /\ ~Hung(n)'
    BY <1>1, <1>3, <2>2 DEF Hung
  <2>6. RefsExact(n)'
    BY <1>1, <1>t, <2>2, <2>4, <2>5 DEF NodeInv, RefsExact
  <2>7. OneKeeper(n)' /\ BitRight(n)' /\ LinkedUnseen(n)' /\ Somewhere(n)'
    BY <1>1, <2>2 DEF OneKeeper, BitRight, LinkedUnseen, Somewhere, Keeps
  <2> QED
    BY <2>6, <2>7 DEF NodeInv
<1> QED
  BY <1>4, <1>5

\* A thread that did not get the node stops looking; the last one links it.
LEMMA DropNodes ==
  ASSUME FreeListInv, NEW t \in PoolThreads, Drop(t)
  PROVE  \A m \in Nodes : NodeInv(m)'
<1>t. /\ step \in [PoolThreads -> Positions] /\ AtNode(step[t])
      /\ freeListRefs \in [Nodes -> Nat]
      /\ shouldBeOn \in [Nodes -> BOOLEAN] /\ \A m \in Nodes : NodeInv(m)
  BY DEF FreeListInv, FreeListTypeOK
<1> DEFINE p == IF MustLink(step[t].node) THEN Links(t, step[t].node) ELSE AfterLink(t)
<1>1. PICK n \in Nodes :
      /\ n = step[t].node /\ step[t].pc = "drop" /\ step' = [step EXCEPT ![t] = p]
      /\ freeListRefs' = [freeListRefs EXCEPT ![n] = @ - 1]
      /\ UNCHANGED <<shouldBeOn, has>> /\ OnList' = OnList
  BY <1>t, SameList DEF Drop, AtNode, OnList
<1>p. \/ MustLink(n) /\ p.pc = "loadhead" /\ p.node = n
      \/ ~MustLink(n) /\ p.pc \in {"idle", "loop"}
  BY <1>1, <1>t, AfterLinkType DEF FreeListInv, Links, Positions
<1> HIDE DEF p
<1>3. \A m \in Nodes : /\ (Looks(t, m) <=> m = n) /\ ~Took(t, m) /\ ~LinksNode(t, m)
                       /\ ~Looks(t, m)' /\ ~Took(t, m)'
                       /\ LinksNode(t, m)' <=> MustLink(n) /\ m = n
  BY <1>1, <1>p, <1>t, Roles DEF Looks, Took, LinksNode, Linking
<1>o. \A u \in PoolThreads \ {t} : \A m \in Nodes :
        /\ Looks(u, m)' <=> Looks(u, m)
        /\ Took(u, m)' <=> Took(u, m)
        /\ LinksNode(u, m)' <=> LinksNode(u, m)
        /\ Early(u)' <=> Early(u)
  BY <1>1, <1>t, Roles
<1>4. ASSUME NEW m \in Nodes, m # n PROVE NodeInv(m)'
  BY <1>1, <1>3, <1>4, <1>t, OtherNodes
<1>5. NodeInv(n)'
  <2>1. Counted(n)' = Counted(n) \ {t} /\ t \in Counted(n)
    BY <1>1, <1>3, <1>o DEF Counted
  <2>2. /\ Cardinality(Counted(n)') = Cardinality(Counted(n)) - 1
        /\ Cardinality(Counted(n)) \in Nat /\ Cardinality(Counted(n)') \in Nat
        /\ Cardinality(Counted(n)') = 0 <=> Counted(n)' = {}
    <3>1. IsFiniteSet(Counted(n)')
      BY <2>1, CountedSize, OneLess
    <3> QED
      BY <2>1, <3>1, CountedSize, OneLess, FS_CardinalityType, FS_EmptySet
  <2>3. /\ freeListRefs[n] = Cardinality(Counted(n)) + (IF Hung(n) THEN 1 ELSE 0)
        /\ freeListRefs'[n] = freeListRefs[n] - 1
    BY <1>1, <1>t DEF NodeInv, RefsExact
  \* A node with the bit is kept by nobody as long as somebody looks at it.
  <2>4. ASSUME shouldBeOn[n]
        PROVE  /\ \A u \in PoolThreads : n \notin has[u] /\ ~Took(u, n) /\ ~LinksNode(u, n)
               /\ n \notin OnList /\ ~Hung(n)
    BY <1>1, <1>t, <2>1, <2>4 DEF NodeInv, BitRight, LinkedUnseen, Keeps, Hung
  <2>5. MustLink(n) <=> shouldBeOn[n] /\ Counted(n)' = {}
    BY <2>2, <2>3, <2>4 DEF MustLink
  <2>6. MustLink(n) => Early(t)'
    BY <1>1, <1>p, <1>t, Roles
  <2>7. Hung(n)' <=> Hung(n)
    BY <1>1, <1>3, <1>o, <2>6 DEF Hung
  <2>8. RefsExact(n)'
    BY <2>2, <2>3, <2>7 DEF RefsExact
  <2>9. CASE MustLink(n)
    <3>1. \A u \in PoolThreads : Keeps(u, n)' <=> u = t
      BY <1>1, <1>3, <1>o, <2>4, <2>5, <2>9 DEF Keeps
    <3>2. n \notin has'[t] /\ n \notin OnList'
      BY <1>1, <2>4, <2>5, <2>9
    <3> QED
      BY <1>1, <1>3, <2>5, <2>6, <2>8, <2>9, <3>1, <3>2
      DEF NodeInv, OneKeeper, BitRight, LinkedUnseen, Somewhere, Keeps
  <2>10. CASE ~MustLink(n)
    <3>1. \A u \in PoolThreads : Keeps(u, n)' <=> Keeps(u, n)
      BY <1>1, <1>3, <1>o, <2>10 DEF Keeps
    <3>2. OneKeeper(n)' /\ BitRight(n)'
      BY <1>1, <1>3, <1>o, <1>t, <2>10, <3>1 DEF NodeInv, OneKeeper, BitRight, Keeps
    <3>3. LinkedUnseen(n)'
      BY <1>1, <1>3, <1>o, <1>t, <2>1, <2>10 DEF NodeInv, LinkedUnseen
    <3>4. Somewhere(n)'
      BY <1>1, <1>t, <2>5, <2>10, <3>1 DEF NodeInv, Somewhere
    <3> QED
      BY <2>8, <3>2, <3>3, <3>4 DEF NodeInv
  <2> QED
    BY <2>9, <2>10
<1> QED
  BY <1>4, <1>5

-----------------------------------------------------------------------------
(* The two invariants of all nodes together, and the theorems. *)

LEMMA NodesKept ==
  ASSUME FreeListInv, NEW t \in PoolThreads,
         \/ Add(t) \/ LoadLinkHead(t) \/ StoreNext(t) \/ StoreRefs(t) \/ Push(t)
         \/ Unref(t) \/ TryGet(t) \/ LoadRefs(t) \/ Ref(t) \/ LoadNext(t) \/ Pop(t)
         \/ Got(t) \/ Drop(t)
  PROVE  (\A n \in Nodes : NodeInv(n)') /\ NoCycle'
<1>t. /\ step \in [PoolThreads -> Positions] /\ step[t] \in Positions /\ AtNode(step[t])
      /\ freeListNext \in [Nodes -> NodesOrNone] /\ \A n \in Nodes : NodeInv(n)
      /\ NoCycle
  BY DEF FreeListInv, FreeListTypeOK
<1>c. ASSUME UNCHANGED <<freeListHead, freeListNext>> PROVE NoCycle' /\ OnList' = OnList
  <2>1. \A x : From(x)' = From(x)
    BY <1>c DEF From, Closed
  <2>2. OnList' = OnList
    BY <1>c DEF OnList, From, Closed
  <2>3. \A m \in Nodes : From(freeListNext[m])' = From(freeListNext[m])
    BY <1>c DEF From, Closed
  <2>4. OnList \subseteq Nodes
    BY DEF OnList, From
  <2> QED
    BY <1>t, <2>2, <2>3, <2>4 DEF NoCycle
<1>1. CASE Add(t)
  BY <1>1, <1>c, AddNodes DEF Add
<1>2. CASE LoadLinkHead(t)
  <2> DEFINE p == [Moves(t, "storenext") EXCEPT !.next = freeListHead]
  <2>1. p.pc = "storenext" /\ p.node = step[t].node /\ step[t].pc = "loadhead"
    BY <1>2, <1>t DEF LoadLinkHead, Moves, Positions
  <2>2. /\ step' = [step EXCEPT ![t] = p]
        /\ UNCHANGED <<freeListHead, freeListRefs, shouldBeOn, freeListNext, has>>
    BY <1>2 DEF LoadLinkHead
  <2> HIDE DEF p
  <2> QED
    BY <2>1, <2>2, <1>c, NodesSame
<1>3. CASE StoreNext(t)
  <2>1. PICK n \in Nodes :
          /\ n = step[t].node /\ step[t].pc = "storenext"
          /\ freeListNext' = [freeListNext EXCEPT ![n] = step[t].next]
          /\ step' = [step EXCEPT ![t] = Moves(t, "storerefs")]
          /\ UNCHANGED <<freeListHead, freeListRefs, shouldBeOn, has>>
    BY <1>3, <1>t DEF StoreNext, AtNode
  <2>2. LinksNode(t, n) /\ n \notin OnList
    BY <2>1, <1>t DEF NodeInv, OneKeeper, Keeps, LinksNode, Linking
  <2>3. From(freeListHead)' = From(freeListHead)'
    OBVIOUS
  <2>4. PICK x : x = freeListHead
    OBVIOUS
  <2>5. From(x)' = From(x)
    BY <2>1, <2>2, <2>4, <1>t, FromElsewhere DEF OnList
  <2>6. OnList' = OnList
    BY <2>1, <2>4, <2>5 DEF OnList
  <2>7. Moves(t, "storerefs").pc = "storerefs" /\ Moves(t, "storerefs").node = step[t].node
    BY <1>t DEF Moves, Positions
  <2>8. \A m \in Nodes : NodeInv(m)'
    BY <2>1, <2>6, <2>7, NodesSame
  <2>9. NoCycle'
    <3> SUFFICES ASSUME NEW m \in OnList PROVE m \notin From(freeListNext[m])'
      BY <2>6 DEF NoCycle
    <3>1. m \in Nodes /\ m # n
      BY <2>2 DEF OnList, From
    <3>2. PICK y : y = freeListNext[m] /\ y = freeListNext'[m]
      BY <2>1, <3>1, <1>t
    <3>3. n \notin From(y)
      <4>1. From(m) \subseteq OnList
        BY FromMember DEF OnList
      <4>2. From(y) \subseteq From(m)
        BY <3>1, <3>2, FromNode
      <4> QED
        BY <2>2, <4>1, <4>2
    <3>4. From(y)' = From(y)
      BY <2>1, <3>3, <1>t, FromElsewhere
    <3>5. From(freeListNext[m])' = From(y)'
      BY <3>2
    <3> QED
      BY <3>2, <3>4, <3>5, <1>t DEF NoCycle
  <2> QED
    BY <2>8, <2>9
<1>4. CASE StoreRefs(t)
  BY <1>4, <1>c, StoreRefsNodes DEF StoreRefs
<1>5. CASE Push(t)
  <2> DEFINE p == [Moves(t, "unref") EXCEPT !.next = freeListHead]
  <2>1. CASE freeListHead = step[t].next
    BY <1>5, <2>1, PushNodes
  <2>2. CASE freeListHead # step[t].next
    <3>1. p.pc = "unref" /\ p.node = step[t].node /\ step[t].pc = "push"
      BY <1>5, <1>t DEF Push, Moves, Positions
    <3>2. /\ step' = [step EXCEPT ![t] = p]
          /\ UNCHANGED <<freeListHead, freeListRefs, shouldBeOn, freeListNext, has>>
      BY <1>5, <2>2 DEF Push
    <3> HIDE DEF p
    <3> QED
      BY <3>1, <3>2, <1>c, NodesSame
  <2> QED
    BY <2>1, <2>2
<1>6. CASE Unref(t)
  BY <1>6, <1>c, UnrefNodes DEF Unref
<1>7. CASE TryGet(t) \/ LoadRefs(t)
  <2>1. PICK p : /\ step' = [step EXCEPT ![t] = p] /\ p.pc \in {"idle", "loop", "ref"}
                 /\ step[t].pc \in {"idle", "loop"}
    <3>1. CASE TryGet(t)
      <4> DEFINE p == [Parked EXCEPT !.pc = "loop", !.head = freeListHead, !.getting = TRUE]
      <4>1. \A r \in Positions : [r EXCEPT !.pc = "loop", !.head = freeListHead, !.getting = TRUE].pc = "loop"
        BY DEF Positions
      <4>2. p.pc = "loop" /\ step' = [step EXCEPT ![t] = p] /\ step[t].pc = "idle"
        BY <3>1, <4>1, ParkedType DEF TryGet
      <4> HIDE DEF p
      <4> QED
        BY <4>2
    <3>2. CASE LoadRefs(t)
      <4> DEFINE p == IF step[t].head = NoNode THEN Parked
                      ELSE [Moves(t, "ref") EXCEPT !.refs = freeListRefs[step[t].head],
                                                   !.bit = shouldBeOn[step[t].head]]
      <4>1. p.pc \in {"idle", "ref"}
        BY <1>t, ParkedType DEF Moves, Positions
      <4>2. step' = [step EXCEPT ![t] = p] /\ step[t].pc = "loop"
        BY <3>2 DEF LoadRefs
      <4> HIDE DEF p
      <4> QED
        BY <4>1, <4>2
    <3> QED
      BY <1>7, <3>1, <3>2
  <2>2. UNCHANGED <<freeListHead, freeListRefs, shouldBeOn, freeListNext, has>>
    BY <1>7 DEF TryGet, LoadRefs
  <2> QED
    BY <2>1, <2>2, <1>c, NodesSame
<1>8. CASE Ref(t)
  <2> DEFINE p == [Moves(t, "loop") EXCEPT !.head = freeListHead, !.refs = 0, !.bit = FALSE]
  <2>1. CASE MayRef(step[t])
    BY <1>8, <2>1, <1>c, RefNodes DEF Ref
  <2>2. CASE ~MayRef(step[t])
    <3>1. p.pc = "loop" /\ step[t].pc = "ref"
      BY <1>8, <1>t DEF Ref, Moves, Positions
    <3>2. /\ step' = [step EXCEPT ![t] = p]
          /\ UNCHANGED <<freeListHead, freeListRefs, shouldBeOn, freeListNext, has>>
      BY <1>8, <2>2 DEF Ref
    <3> HIDE DEF p
    <3> QED
      BY <3>1, <3>2, <1>c, NodesSame
  <2> QED
    BY <2>1, <2>2
<1>9. CASE LoadNext(t)
  <2> DEFINE p == [Moves(t, "pop") EXCEPT !.next = freeListNext[step[t].head]]
  <2>1. p.pc = "pop" /\ p.head = step[t].head /\ step[t].pc = "next"
    BY <1>9, <1>t DEF LoadNext, Moves, Positions
  <2>2. /\ step' = [step EXCEPT ![t] = p]
        /\ UNCHANGED <<freeListHead, freeListRefs, shouldBeOn, freeListNext, has>>
    BY <1>9 DEF LoadNext
  <2> HIDE DEF p
  <2> QED
    BY <2>1, <2>2, <1>c, NodesSame
<1>10. CASE Pop(t)
  <2> DEFINE p == [Moves(t, "drop") EXCEPT !.next = NoNode, !.node = step[t].head,
                                           !.head = freeListHead]
  <2>1. CASE freeListHead = step[t].head
    BY <1>10, <2>1, PopNodes DEF Pop
  <2>2. CASE freeListHead # step[t].head
    <3>1. p.pc = "drop" /\ p.node = step[t].head /\ step[t].pc = "pop"
      BY <1>10, <1>t DEF Pop, Moves, Positions
    <3>2. /\ step' = [step EXCEPT ![t] = p]
          /\ UNCHANGED <<freeListHead, freeListRefs, shouldBeOn, freeListNext, has>>
      BY <1>10, <2>2 DEF Pop
    <3> HIDE DEF p
    <3> QED
      BY <3>1, <3>2, <1>c, NodesSame
  <2> QED
    BY <2>1, <2>2
<1>11. CASE Got(t)
  BY <1>11, <1>c, GotNodes DEF Got
<1>12. CASE Drop(t)
  BY <1>12, <1>c, DropNodes DEF Drop
<1> QED
  BY <1>1, <1>2, <1>3, <1>4, <1>5, <1>6, <1>7, <1>8, <1>9, <1>10, <1>11, <1>12

LEMMA NextSeenKept ==
  ASSUME FreeListInv, NEW t \in PoolThreads,
         \/ Add(t) \/ LoadLinkHead(t) \/ StoreNext(t) \/ StoreRefs(t) \/ Push(t)
         \/ Unref(t) \/ TryGet(t) \/ LoadRefs(t) \/ Ref(t) \/ LoadNext(t) \/ Pop(t)
         \/ Got(t) \/ Drop(t)
  PROVE  NextSeen'
<1> DEFINE Seen(u) ==
      /\ step[u].pc = "pop" => step[u].next = freeListNext[step[u].head]
      /\ step[u].pc \in {"storerefs", "push"} => step[u].next = freeListNext[step[u].node]
<1>t. /\ step \in [PoolThreads -> Positions] /\ step[t] \in Positions
      /\ \A u \in PoolThreads : AtNode(step[u]) /\ Seen(u)
      /\ freeListNext \in [Nodes -> NodesOrNone] /\ \A n \in Nodes : NodeInv(n)
  BY DEF FreeListInv, FreeListTypeOK, NextSeen
<1>a. AfterLink(t).pc \in {"idle", "loop"} /\ Parked.pc = "idle"
  BY AfterLinkType, ParkedType DEF FreeListInv
<1>q. ASSUME NEW p, step' = [step EXCEPT ![t] = p], UNCHANGED freeListNext,
             \/ p.pc \notin {"pop", "storerefs", "push"}
             \/ p.pc = "pop" /\ p.next = freeListNext[p.head]
             \/ p.pc = "push" /\ p.next = freeListNext[p.node]
      PROVE  NextSeen'
  <2>1. Seen(t)'
    BY <1>q, <1>t
  <2>2. \A u \in PoolThreads \ {t} : Seen(u)'
    BY <1>q, <1>t
  <2> QED
    BY <2>1, <2>2 DEF NextSeen
<1> HIDE DEF Seen
<1>1. CASE Add(t)
  <2>1. PICK n \in has[t] :
          /\ step' = [step EXCEPT ![t] = IF NobodyLooks(n) THEN Links(t, n) ELSE @]
          /\ step[t].pc = "idle" /\ UNCHANGED freeListNext
    BY <1>1 DEF Add
  <2> DEFINE p == IF NobodyLooks(n) THEN Links(t, n) ELSE step[t]
  <2>2. p.pc \in {"idle", "loadhead"} /\ step' = [step EXCEPT ![t] = p]
    BY <2>1, <1>t DEF Links, Positions
  <2> HIDE DEF p
  <2> QED
    BY <2>1, <2>2, <1>q
<1>2. CASE LoadLinkHead(t)
  <2> DEFINE p == [Moves(t, "storenext") EXCEPT !.next = freeListHead]
  <2>1. p.pc = "storenext" /\ step' = [step EXCEPT ![t] = p] /\ UNCHANGED freeListNext
    BY <1>2, <1>t DEF LoadLinkHead, Moves, Positions
  <2> HIDE DEF p
  <2> QED
    BY <2>1, <1>q
<1>3. CASE StoreNext(t)
  <2> DEFINE p == Moves(t, "storerefs")
  <2>1. PICK n \in Nodes :
          /\ n = step[t].node /\ step[t].pc = "storenext"
          /\ freeListNext' = [freeListNext EXCEPT ![n] = step[t].next]
          /\ step' = [step EXCEPT ![t] = p]
    BY <1>3, <1>t DEF StoreNext, AtNode
  <2>2. p.pc = "storerefs" /\ p.node = n /\ p.next = step[t].next
    BY <2>1, <1>t DEF Moves, Positions
  <2> HIDE DEF p
  <2>3. Seen(t)'
    BY <2>1, <2>2, <1>t DEF Seen
  <2>4. ASSUME NEW u \in PoolThreads \ {t} PROVE Seen(u)'
    <3>1. LinksNode(t, n) /\ Early(t) /\ Counted(n) = {}
      BY <2>1, <1>t DEF LinksNode, Linking, Early, NodeInv, LinkedUnseen
    <3>2. ~Looks(u, n) /\ ~LinksNode(u, n)
      BY <3>1, <1>t DEF Counted, NodeInv, OneKeeper, Keeps
    <3>3. step'[u] = step[u]
      BY <2>1, <1>t
    <3>4. CASE step[u].pc = "pop"
      <4>1. step[u].head \in Nodes /\ step[u].head # n
        BY <3>2, <3>4, <1>t DEF Looks, AtNode
      <4> QED
        BY <2>1, <3>3, <3>4, <4>1, <1>t DEF Seen
    <3>5. CASE step[u].pc \in {"storerefs", "push"}
      <4>1. step[u].node \in Nodes /\ step[u].node # n
        BY <3>2, <3>5, <1>t DEF LinksNode, Linking, AtNode
      <4> QED
        BY <2>1, <3>3, <3>5, <4>1, <1>t DEF Seen
    <3> QED
      BY <3>3, <3>4, <3>5 DEF Seen
  <2> QED
    BY <2>3, <2>4 DEF NextSeen, Seen
<1>4. CASE StoreRefs(t)
  <2> DEFINE p == Moves(t, "push")
  <2>1. /\ p.pc = "push" /\ p.next = step[t].next /\ p.node = step[t].node
        /\ step[t].pc = "storerefs" /\ step' = [step EXCEPT ![t] = p] /\ UNCHANGED freeListNext
    BY <1>4, <1>t DEF StoreRefs, Moves, Positions
  <2>2. p.next = freeListNext[p.node]
    BY <2>1, <1>t DEF Seen
  <2> HIDE DEF p
  <2> QED
    BY <2>1, <2>2, <1>q
<1>5. CASE Push(t)
  <2>1. PICK p : /\ step' = [step EXCEPT ![t] = p] /\ p.pc \in {"idle", "loop", "unref"}
                 /\ UNCHANGED freeListNext
    <3> DEFINE p == [Moves(t, "unref") EXCEPT !.next = freeListHead]
    <3>1. p.pc = "unref"
      BY <1>t DEF Moves, Positions
    <3>2. /\ step' = [step EXCEPT ![t] = AfterLink(t)] \/ step' = [step EXCEPT ![t] = p]
          /\ UNCHANGED freeListNext
      BY <1>5 DEF Push
    <3> HIDE DEF p
    <3> QED
      BY <3>1, <3>2, <1>a
  <2> QED
    BY <2>1, <1>q
<1>6. CASE Unref(t)
  <2> DEFINE p == IF freeListRefs[step[t].node] = 1 THEN Moves(t, "storenext") ELSE AfterLink(t)
  <2>1. p.pc \in {"storenext", "idle", "loop"}
    BY <1>t, <1>a DEF Moves, Positions
  <2>2. step' = [step EXCEPT ![t] = p] /\ UNCHANGED freeListNext
    BY <1>6 DEF Unref
  <2> HIDE DEF p
  <2> QED
    BY <2>1, <2>2, <1>q
<1>7. CASE TryGet(t)
  <2> DEFINE p == [Parked EXCEPT !.pc = "loop", !.head = freeListHead, !.getting = TRUE]
  <2>1. \A r \in Positions : [r EXCEPT !.pc = "loop", !.head = freeListHead, !.getting = TRUE].pc = "loop"
    BY DEF Positions
  <2>2. p.pc = "loop" /\ step' = [step EXCEPT ![t] = p] /\ UNCHANGED freeListNext
    BY <1>7, <2>1, ParkedType DEF TryGet
  <2> HIDE DEF p
  <2> QED
    BY <2>2, <1>q
<1>8. CASE LoadRefs(t)
  <2> DEFINE p == IF step[t].head = NoNode THEN Parked
                  ELSE [Moves(t, "ref") EXCEPT !.refs = freeListRefs[step[t].head],
                                               !.bit = shouldBeOn[step[t].head]]
  <2>1. p.pc \in {"idle", "ref"}
    BY <1>t, <1>a DEF Moves, Positions
  <2>2. step' = [step EXCEPT ![t] = p] /\ UNCHANGED freeListNext
    BY <1>8 DEF LoadRefs
  <2> HIDE DEF p
  <2> QED
    BY <2>1, <2>2, <1>q
<1>9. CASE Ref(t)
  <2> DEFINE p == [Moves(t, "next") EXCEPT !.refs = 0, !.bit = FALSE]
             r == [Moves(t, "loop") EXCEPT !.head = freeListHead, !.refs = 0, !.bit = FALSE]
  <2>1. p.pc = "next" /\ r.pc = "loop"
    BY <1>t DEF Moves, Positions
  <2>2. /\ step' = [step EXCEPT ![t] = p] \/ step' = [step EXCEPT ![t] = r]
        /\ UNCHANGED freeListNext
    BY <1>9 DEF Ref
  <2> HIDE DEF p, r
  <2> QED
    BY <2>1, <2>2, <1>q
<1>10. CASE LoadNext(t)
  <2> DEFINE p == [Moves(t, "pop") EXCEPT !.next = freeListNext[step[t].head]]
  <2>1. p.pc = "pop" /\ p.next = freeListNext[p.head]
    BY <1>t DEF Moves, Positions
  <2>2. step' = [step EXCEPT ![t] = p] /\ UNCHANGED freeListNext
    BY <1>10 DEF LoadNext
  <2> HIDE DEF p
  <2> QED
    BY <2>1, <2>2, <1>q
<1>11. CASE Pop(t)
  <2> DEFINE p == [Moves(t, "got") EXCEPT !.next = NoNode]
             r == [Moves(t, "drop") EXCEPT !.next = NoNode, !.node = step[t].head,
                                           !.head = freeListHead]
  <2>1. p.pc = "got" /\ r.pc = "drop"
    BY <1>t DEF Moves, Positions
  <2>2. /\ step' = [step EXCEPT ![t] = p] \/ step' = [step EXCEPT ![t] = r]
        /\ UNCHANGED freeListNext
    BY <1>11 DEF Pop
  <2> HIDE DEF p, r
  <2> QED
    BY <2>1, <2>2, <1>q
<1>12. CASE Got(t)
  BY <1>12, <1>a, <1>q DEF Got
<1>13. CASE Drop(t)
  <2> DEFINE p == IF MustLink(step[t].node) THEN Links(t, step[t].node) ELSE AfterLink(t)
  <2>1. p.pc \in {"loadhead", "idle", "loop"}
    BY <1>t, <1>a DEF Links, Positions
  <2>2. step' = [step EXCEPT ![t] = p] /\ UNCHANGED freeListNext
    BY <1>13 DEF Drop
  <2> HIDE DEF p
  <2> QED
    BY <2>1, <2>2, <1>q
<1> QED
  BY <1>1, <1>2, <1>3, <1>4, <1>5, <1>6, <1>7, <1>8, <1>9, <1>10, <1>11, <1>12, <1>13

\* The references of a node are counted exactly, and by them each node is in
\* one place, reachable without a cycle, and stands still while looked at.
THEOREM FreeListInvariant == FreeListSpec => []FreeListInv
<1>1. ASSUME FreeListInit PROVE FreeListInv
  <2>1. PICK owner \in [Nodes -> PoolThreads] :
          has = [t \in PoolThreads |-> {n \in Nodes : owner[n] = t}]
    BY <1>1 DEF FreeListInit
  <2>2. /\ freeListHead = NoNode /\ freeListRefs = [n \in Nodes |-> 0]
        /\ shouldBeOn = [n \in Nodes |-> FALSE] /\ freeListNext = [n \in Nodes |-> NoNode]
        /\ step = [t \in PoolThreads |-> Parked]
    BY <1>1 DEF FreeListInit
  <2>3. FreeListTypeOK
    <3>1. /\ freeListHead \in NodesOrNone /\ freeListNext \in [Nodes -> NodesOrNone]
          /\ freeListRefs \in [Nodes -> Nat] /\ shouldBeOn \in [Nodes -> BOOLEAN]
      BY <2>2 DEF NodesOrNone
    <3>2. has \in [PoolThreads -> SUBSET Nodes]
      BY <2>1
    <3>3. step \in [PoolThreads -> Positions] /\ \A t \in PoolThreads : AtNode(step[t])
      BY <2>2, ParkedType
    <3> QED
      BY <3>1, <3>2, <3>3 DEF FreeListTypeOK
  <2>4. OnList = {}
    BY <2>2, FromNone DEF OnList
  <2>5. \A t \in PoolThreads, n \in Nodes :
          ~Looks(t, n) /\ ~Took(t, n) /\ ~LinksNode(t, n) /\ step[t].pc = "idle"
    BY <2>2, ParkedType DEF Looks, Took, LinksNode, Linking
  <2>6. ASSUME NEW n \in Nodes PROVE NodeInv(n)
    <3>1. Counted(n) = {} /\ ~Hung(n)
      BY <2>4, <2>5 DEF Counted, Hung
    <3>2. RefsExact(n)
      BY <2>2, <3>1, FS_EmptySet DEF RefsExact
    <3>3. \A t \in PoolThreads : Keeps(t, n) <=> t = owner[n]
      BY <2>1, <2>5 DEF Keeps
    <3> QED
      BY <2>1, <2>2, <2>4, <2>5, <3>1, <3>2, <3>3
      DEF NodeInv, OneKeeper, BitRight, LinkedUnseen, Somewhere
  <2>7. NoCycle /\ NextSeen
    BY <2>4, <2>2, ParkedType DEF NoCycle, NextSeen
  <2> QED
    BY <2>3, <2>6, <2>7 DEF FreeListInv
<1>2. FreeListInv /\ [FreeListNext]_freeListVars => FreeListInv'
  <2>1. ASSUME FreeListInv, FreeListNext PROVE FreeListInv'
    BY <2>1, TypesKept, NodesKept, NextSeenKept DEF FreeListNext, FreeListInv
  <2>2. ASSUME FreeListInv, UNCHANGED freeListVars PROVE FreeListInv'
    <3>1. \A n : /\ Counted(n)' = Counted(n) /\ Hung(n)' = Hung(n)
                 /\ \A t : Keeps(t, n)' = Keeps(t, n)
      BY <2>2 DEF freeListVars, Counted, Hung, Keeps, Looks, Took, LinksNode, Linking, Early,
         OnList, From, Closed
    <3>2. \A n \in Nodes : NodeInv(n)'
      BY <2>2, <3>1 DEF FreeListInv, freeListVars, NodeInv, RefsExact, OneKeeper, BitRight,
         LinkedUnseen, Somewhere, Took, LinksNode, Linking, Early, OnList, From, Closed
    <3>3. FreeListTypeOK' /\ NoCycle' /\ NextSeen'
      BY <2>2 DEF FreeListInv, freeListVars, FreeListTypeOK, NoCycle, NextSeen, OnList, From, Closed
    <3> QED
      BY <3>2, <3>3 DEF FreeListInv
  <2> QED
    BY <2>1, <2>2
<1> QED
  BY <1>1, <1>2, PTL DEF FreeListSpec

\* The free list hands out each block to one thread at a time and loses none,
\* and the exchange on its head never acts on a stale next pointer.
THEOREM FreeListIsIntact == FreeListSpec => []FreeListIntact
<1>1. ASSUME FreeListInv PROVE BlockInOnePlace
  <2> SUFFICES ASSUME NEW n \in Nodes PROVE \E x : Places(n) = {x}
    BY FS_Singleton DEF BlockInOnePlace
  <2>i. NodeInv(n)
    BY <1>1 DEF FreeListInv
  <2>1. CASE n \in OnList
    <3>1. \A t \in PoolThreads : ~Keeps(t, n)
      BY <2>1, <2>i DEF NodeInv, OneKeeper
    <3>2. ~shouldBeOn[n]
      BY <2>1, <2>i DEF NodeInv, BitRight
    <3>3. Places(n) = {<<"listed", n>>}
      BY <2>1, <3>1, <3>2 DEF Places, Keeps, Took, LinksNode
    <3> QED
      BY <3>3
  <2>2. ASSUME NEW t \in PoolThreads, Keeps(t, n) PROVE \E x : Places(n) = {x}
    <3>1. n \notin OnList /\ (\A u \in PoolThreads : Keeps(u, n) => u = t)
      BY <2>2, <2>i DEF NodeInv, OneKeeper
    <3>2. CASE n \in has[t]
      <4>1. ~Took(t, n) /\ ~LinksNode(t, n) /\ ~shouldBeOn[n]
        BY <2>2, <2>i, <3>2 DEF NodeInv, OneKeeper, BitRight
      <4>2. Places(n) = {<<"owned", t>>}
        BY <3>1, <3>2, <4>1 DEF Places, Keeps, Took, LinksNode
      <4> QED
        BY <4>2
    <3>3. CASE Took(t, n)
      <4>1. n \notin has[t] /\ ~LinksNode(t, n) /\ ~shouldBeOn[n]
        BY <2>2, <2>i, <3>3 DEF NodeInv, OneKeeper, BitRight, Took, LinksNode, Linking
      <4>2. Places(n) = {<<"taken", t>>}
        BY <3>1, <3>3, <4>1 DEF Places, Keeps, Took, LinksNode
      <4> QED
        BY <4>2
    <3>4. CASE LinksNode(t, n)
      <4>1. n \notin has[t] /\ ~Took(t, n)
        BY <2>2, <2>i, <3>4 DEF NodeInv, OneKeeper, Took, LinksNode, Linking
      <4>2. Places(n) = {<<"linking", t>>}
        BY <3>1, <3>4, <4>1 DEF Places, Keeps, Took, LinksNode
      <4> QED
        BY <4>2
    <3> QED
      BY <2>2, <3>2, <3>3, <3>4 DEF Keeps
  <2>3. CASE n \notin OnList /\ ~\E t \in PoolThreads : Keeps(t, n)
    <3>1. shouldBeOn[n] /\ Counted(n) # {}
      BY <2>3, <2>i DEF NodeInv, Somewhere
    <3>2. \E u \in PoolThreads : Looks(u, n)
      BY <2>3, <3>1 DEF Counted, Keeps
    <3>3. Places(n) = {<<"wanted", n>>}
      BY <2>3, <3>1, <3>2 DEF Places, Keeps, Took, LinksNode
    <3> QED
      BY <3>3
  <2> QED
    BY <2>1, <2>2, <2>3
<1>2. FreeListInv => PopSeesNext
  BY DEF FreeListInv, NextSeen, PopSeesNext
<1> QED
  BY <1>1, <1>2, FreeListInvariant, PTL DEF FreeListIntact

-----------------------------------------------------------------------------
(* What consumers claim. *)

\* Counting from where the sub-queue started, so that nothing wraps.
Offset(start, i) == Wrap(i - start)

Entering == {"overcommit", "test", "claim"}
Claiming == {"check", "giveback", "advance"}
TakingPcs == {"header", "front", "key", "take", "empty", "unlink", "free"}

CallFields == DOMAIN Resting

\* What a consumer may still announce in the call it is in.
MayAnnounce ==
  [c \in Consumers |-> IF consumer[c].pc \in Entering THEN MaxDequeue ELSE 0]

\* What consumers were granted, and what those may yet be granted that have
\* announced themselves before `front`.
Owed(start, front) ==
  [c \in Consumers |->
     IF consumer[c].pc \in {"giveback", "advance"} THEN consumer[c].count
     ELSE IF consumer[c].pc = "check" /\ Offset(start, consumer[c].mine) < front
     THEN consumer[c].want ELSE 0]

\* One call.
CallOK(start, me) ==
  /\ DOMAIN me = CallFields
  /\ me.pc \in {"idle"} \cup Entering \cup Claiming \cup TakingPcs
  /\ me.pc \in {"overcommit", "test"} => me.max \in 1..MaxDequeue /\ me.tail \in Indices
  /\ me.pc \in {"test", "claim"} => me.over \in 0..dequeueOvercommit
  /\ me.pc \in {"claim"} \cup Claiming => me.want \in 1..MaxDequeue
  /\ me.pc = "check" =>
       /\ me.mine \in Indices
       /\ Offset(start, me.mine) < Offset(start, dequeueOptimisticCount)
       /\ me.over \in 0..Offset(start, me.mine)
  /\ me.pc = "giveback" => me.count \in 0..(me.want - 1)
  /\ me.pc = "advance" => me.count = me.want

CallsOK(start) ==
  /\ DOMAIN consumer = Consumers
  /\ \A c \in Consumers : CallOK(start, consumer[c])
  /\ \A c, d \in Consumers :
       /\ consumer[c].pc = "check" /\ consumer[d].pc = "check"
       /\ consumer[c].mine = consumer[d].mine
       => c = d

\* The counters, how far they can get, and how they balance.
CountersOK(start) ==
  /\ tailIndex \in Indices /\ headIndex \in Indices
  /\ dequeueOptimisticCount \in Indices /\ dequeueOvercommit \in Indices
  /\ budget \in [calls: Nat, elements: Nat, throws: Nat]
  /\ Offset(start, tailIndex) + budget.elements <= MaxEnqueued
  /\ Offset(start, dequeueOptimisticCount)
       + budget.calls * MaxDequeue + SumOver(MayAnnounce) <= MaxCalls * MaxDequeue
  /\ Offset(start, dequeueOptimisticCount) =
       dequeueOvercommit + Offset(start, headIndex) + SumOver(Pending)

\* Announcements are dated by what dequeueOptimisticCount was before.  Before
\* `front` everything announced is there to be granted, whatever order the
\* consumers look at the tail in; ...
CoveredBefore(start, front) ==
  Offset(start, headIndex) + SumOver(Owed(start, front)) <= Offset(start, tailIndex)

\* ... from there on, nobody was granted anything yet, and what a consumer
\* takes for claimed is no less than what those before it may claim.
SeesEarlier(start, front) ==
  \A c \in Consumers, mine \in Indices :
    /\ consumer[c].pc = "check"
    /\ mine = Offset(start, consumer[c].mine) /\ mine >= front
    => Offset(start, headIndex) + SumOver(Owed(start, mine))
         <= mine - consumer[c].over

ClaimsOK(start) ==
  \E front \in 0..Offset(start, dequeueOptimisticCount) :
    CoveredBefore(start, front) /\ SeesEarlier(start, front)

ClaimInv ==
  \E start \in StartIndices :
    CountersOK(start) /\ CallsOK(start) /\ ClaimsOK(start)

\* The calls that enqueue have their elements left to enqueue.
EnqueueOK(p) ==
  /\ "count" \in DOMAIN p /\ "pc" \in DOMAIN p
  /\ p.pc # "idle" => p.count \in 0..budget.elements

ExplicitInv == ClaimInv /\ EnqueueOK(prod)

ImplicitInv == ClaimInv /\ EnqueueOK(writer)
-----------------------------------------------------------------------------
(* Remainders. *)

LEMMA MultipleSmall ==
  ASSUME NEW m \in Nat \ {0}, NEW k \in Int, m * k < m, m * k > -m
  PROVE  k = 0
<1>1. CASE k >= 1
  <2>1. m * k >= m * 1
    BY <1>1
  <2> QED
    BY <2>1
<1>2. CASE k <= -1
  <2>1. m * k <= m * (-1)
    BY <1>2
  <2> QED
    BY <2>1
<1> QED
  BY <1>1, <1>2

LEMMA ModUnique ==
  ASSUME NEW m \in Nat \ {0}, NEW a \in Int, NEW q \in Int, NEW r \in 0..(m - 1), a = m * q + r
  PROVE  a % m = r
<1> DEFINE q2 == a \div m
           r2 == a % m
<1>1. q2 \in Int /\ r2 \in 0..(m - 1) /\ a = m * q2 + r2
  OBVIOUS
<1> HIDE DEF q2, r2
<1>2. m * (q - q2) = r2 - r
  BY <1>1
<1>3. q - q2 = 0
  BY <1>1, <1>2, MultipleSmall
<1>4. r2 = r
  BY <1>1, <1>2, <1>3
<1> QED
  BY <1>4 DEF r2

\* ... so that adding to a counter adds to what it counts.
LEMMA ModPlus ==
  ASSUME NEW m \in Nat \ {0}, NEW a \in Int, NEW d \in Int
  PROVE  ((a % m) + d) % m = (a + d) % m
<1> DEFINE q == a \div m
           r == a % m
           q2 == (r + d) \div m
           r2 == (r + d) % m
<1>1. q \in Int /\ r \in 0..(m - 1) /\ a = m * q + r
  OBVIOUS
<1> HIDE DEF q, r
<1>2. q2 \in Int /\ r2 \in 0..(m - 1) /\ r + d = m * q2 + r2
  BY <1>1
<1> HIDE DEF q2, r2
<1>3. a + d = m * (q + q2) + r2
  BY <1>1, <1>2
<1>4. a + d \in Int /\ q + q2 \in Int
  BY <1>1, <1>2
<1>5. (a + d) % m = r2
  BY <1>2, <1>3, <1>4, ModUnique
<1> QED
  BY <1>5 DEF r, r2
-----------------------------------------------------------------------------
(* Indices that wrap. *)

LEMMA ModulusIs ==
  /\ Modulus \in Nat \ {0}
  /\ Modulus \div 2 \in Nat /\ 2 * (Modulus \div 2) <= Modulus
  /\ Modulus <= 2 * (Modulus \div 2) + 1
  /\ Modulus \div 2 < Modulus
  /\ MaxDequeue \in Nat /\ MaxCalls \in Nat
  /\ MaxEnqueued \in Nat /\ MaxEnqueued <= Modulus \div 2
  /\ MaxCalls * MaxDequeue \in Nat /\ MaxCalls * MaxDequeue <= Modulus \div 2
  /\ StartIndices \subseteq Indices
<1>1. Modulus \in Nat \ {0}
  BY QueueAssumption DEF Modulus
<1>2. \A m \in Nat \ {0} : /\ m \div 2 \in Nat /\ 2 * (m \div 2) <= m
                           /\ m <= 2 * (m \div 2) + 1 /\ m \div 2 < m
  OBVIOUS
<1>3. MaxEnqueued <= Modulus \div 2 /\ MaxCalls * MaxDequeue <= Modulus \div 2
  BY BoundsAssumption DEF Modulus
<1>4. MaxDequeue \in Nat /\ MaxCalls \in Nat /\ MaxEnqueued \in Nat
  BY BoundsAssumption
<1>5. StartIndices \subseteq Indices
  BY QueueAssumption DEF Indices, Modulus
<1>6. \A a, b \in Nat : a * b \in Nat
  OBVIOUS
<1> QED
  BY <1>1, <1>2, <1>3, <1>4, <1>5, <1>6

LEMMA WrapType ==
  ASSUME NEW i \in Int
  PROVE  Wrap(i) \in Indices
<1>1. \A m \in Nat \ {0} : i % m \in 0..(m - 1)
  OBVIOUS
<1> QED
  BY <1>1, ModulusIs DEF Wrap, Indices

LEMMA WrapBy ==
  ASSUME NEW i \in Int
  PROVE  \E q \in Int : i = Modulus * q + Wrap(i)
<1>1. ASSUME NEW m \in Nat \ {0} PROVE \E q \in Int : i = m * q + (i % m)
  <2>1. i \div m \in Int /\ i = m * (i \div m) + (i % m)
    OBVIOUS
  <2> QED
    BY <2>1
<1> QED
  BY <1>1, ModulusIs DEF Wrap

\* What is in range is not wrapped.
LEMMA WrapSmall ==
  ASSUME NEW i \in Indices
  PROVE  Wrap(i) = i
<1>1. Modulus \in Nat \ {0} /\ i \in 0..(Modulus - 1) /\ i = Modulus * 0 + i
  BY ModulusIs DEF Indices
<1> QED
  BY <1>1, ModUnique DEF Wrap

LEMMA WrapPlus ==
  ASSUME NEW i \in Int, NEW k \in Int
  PROVE  Wrap(Wrap(i) + k) = Wrap(i + k)
BY ModulusIs, ModPlus DEF Wrap

LEMMA OffsetType ==
  ASSUME NEW start \in Indices, NEW i \in Indices
  PROVE  Offset(start, i) \in 0..(Modulus - 1) /\ Offset(start, i) \in Nat
<1>1. i - start \in Int /\ Modulus \in Nat
  BY ModulusIs DEF Indices
<1>2. Offset(start, i) \in Indices
  BY <1>1, WrapType DEF Offset
<1> QED
  BY <1>1, <1>2 DEF Indices

LEMMA OffsetPlus ==
  ASSUME NEW start \in Indices, NEW i \in Indices, NEW k \in Nat,
         Offset(start, i) + k < Modulus
  PROVE  /\ Wrap(i + k) \in Indices
         /\ Offset(start, Wrap(i + k)) = Offset(start, i) + k
<1>1. start \in Int /\ i \in Int /\ i - start \in Int /\ i + k \in Int /\ Modulus \in Nat
  BY ModulusIs DEF Indices
<1>2. Offset(start, i) \in Nat
  BY OffsetType
<1>3. Offset(start, i) + k \in Indices
  BY <1>1, <1>2 DEF Indices
<1>4. Wrap(Wrap(i + k) + (-start)) = Wrap((i + k) + (-start))
  BY <1>1, WrapPlus
<1>5. Wrap(Wrap(i - start) + k) = Wrap((i - start) + k)
  BY <1>1, WrapPlus
<1>6. (i + k) + (-start) = (i - start) + k
  BY <1>1
<1>7. Wrap(i + k) \in Indices /\ Wrap(i + k) \in Int
  BY <1>1, WrapType DEF Indices
<1>8. Wrap(i + k) + (-start) = Wrap(i + k) - start
  BY <1>1, <1>7
<1>9. Offset(start, Wrap(i + k)) = Wrap(Offset(start, i) + k)
  BY <1>4, <1>5, <1>6, <1>8 DEF Offset
<1> QED
  BY <1>3, <1>7, <1>9, WrapSmall

LEMMA FromOffset ==
  ASSUME NEW start \in Indices, NEW i \in Indices
  PROVE  i = Wrap(start + Offset(start, i))
<1>1. start \in Int /\ i \in Int /\ i - start \in Int
  BY ModulusIs DEF Indices
<1>2. Wrap(Wrap(i - start) + start) = Wrap((i - start) + start)
  BY <1>1, WrapPlus
<1>3. (i - start) + start = i
  BY <1>1
<1>4. Wrap(i - start) + start = start + Wrap(i - start)
  BY <1>1, WrapType DEF Indices
<1> QED
  BY <1>2, <1>3, <1>4, WrapSmall DEF Offset

LEMMA OffsetStart ==
  ASSUME NEW start \in Indices
  PROVE  Offset(start, start) = 0
<1>1. start - start = 0 /\ 0 \in Indices
  BY ModulusIs DEF Indices
<1> QED
  BY <1>1, WrapSmall DEF Offset

\* Distances between indices are those between their offsets.
LEMMA OffsetDistance ==
  ASSUME NEW start \in Indices, NEW i \in Indices, NEW j \in Indices, NEW k \in Int
  PROVE  Wrap(i - j + k) = Wrap(Offset(start, i) - Offset(start, j) + k)
<1> DEFINE a == Offset(start, i)
           b == Offset(start, j)
<1>1. start \in Int /\ i \in Int /\ j \in Int /\ a \in Int /\ b \in Int
  BY OffsetType DEF Indices
<1>2. i = Wrap(start + a) /\ j = Wrap(start + b)
  BY FromOffset
<1> HIDE DEF a, b
<1>3. Wrap(i - j + k) = Wrap((start + a) + (k - j))
  <2>1. Wrap(Wrap(start + a) + (k - j)) = Wrap((start + a) + (k - j))
    BY <1>1, WrapPlus
  <2>2. i - j + k = i + (k - j)
    BY <1>1
  <2> QED
    BY <1>2, <2>1, <2>2
<1>4. Wrap((start + a) + (k - j)) = Wrap(a - b + k)
  <2>1. PICK q \in Int : j - start = Modulus * q + b
    <3>1. j - start \in Int /\ b = Wrap(j - start)
      BY <1>1 DEF b, Offset
    <3> QED
      BY <3>1, WrapBy
  <2>2. PICK r \in Int : a - b + k = Modulus * r + Wrap(a - b + k)
    <3>1. a - b + k \in Int
      BY <1>1
    <3> QED
      BY <3>1, WrapBy
  <2>3. Wrap(a - b + k) \in 0..(Modulus - 1)
    BY <1>1, WrapType DEF Indices
  <2>4. (start + a) + (k - j) = Modulus * (r - q) + Wrap(a - b + k)
    <3>1. (start + a) + (k - j) = (a - b + k) - (j - start - b)
      BY <1>1
    <3>2. Modulus * (r - q) = Modulus * r - Modulus * q
      BY ModulusIs
    <3>3. Modulus * r \in Int /\ Modulus * q \in Int
      BY ModulusIs
    <3> QED
      BY <1>1, <2>1, <2>2, <2>3, <3>1, <3>2, <3>3
  <2>5. (start + a) + (k - j) \in Int /\ r - q \in Int
    BY <1>1
  <2> QED
    BY <2>3, <2>4, <2>5, ModulusIs, ModUnique DEF Wrap
<1> QED
  BY <1>3, <1>4 DEF a, b

LEMMA OffsetInjective ==
  ASSUME NEW start \in Indices, NEW i \in Indices, NEW j \in Indices,
         Offset(start, i) = Offset(start, j)
  PROVE  i = j
BY FromOffset

-----------------------------------------------------------------------------
(* Sums over the consumers. *)

LEMMA UnitsOfOne ==
  ASSUME NEW c, NEW n \in Nat
  PROVE  IsFiniteSet({c} \X (1..n)) /\ Cardinality({c} \X (1..n)) = n
<1> DEFINE S == {c}
           T == 1..n
<1>1. IsFiniteSet(S) /\ Cardinality(S) = 1
  BY FS_Singleton
<1>2. IsFiniteSet(T) /\ Cardinality(T) = n
  BY FS_Interval
<1> HIDE DEF S, T
<1>3. Cardinality(S \X T) = Cardinality(S) * Cardinality(T) /\ IsFiniteSet(S \X T)
  BY <1>1, <1>2, FS_Product
<1>4. Cardinality(S \X T) = n
  BY <1>1, <1>2, <1>3
<1> QED
  BY <1>3, <1>4 DEF S, T

LEMMA UnitsFinite ==
  ASSUME NEW f \in [Consumers -> Nat]
  PROVE  IsFiniteSet(Units(f)) /\ SumOver(f) \in Nat
<1> DEFINE g == [c \in Consumers |-> {c} \X (1..f[c])]
           S == {{c} \X (1..f[c]) : c \in Consumers}
<1>1. g \in Surjection(Consumers, S)
  BY DEF Surjection
<1>2. IsFiniteSet(S)
  BY <1>1, QueueAssumption, FS_Surjection
<1>3. \A T \in S : IsFiniteSet(T)
  <2>1. ASSUME NEW c \in Consumers PROVE IsFiniteSet({c} \X (1..f[c]))
    <3>1. f[c] \in Nat
      OBVIOUS
    <3> QED
      BY <3>1, UnitsOfOne
  <2> QED
    BY <2>1
<1> HIDE DEF S
<1>4. IsFiniteSet(UNION S)
  BY <1>2, <1>3, FS_UNION
<1> QED
  BY <1>4, FS_CardinalityType DEF SumOver, Units, S

LEMMA SumWithout ==
  ASSUME NEW f \in [Consumers -> Nat], NEW c \in Consumers
  PROVE  /\ IsFiniteSet(Units(f) \ ({c} \X (1..f[c])))
         /\ SumOver(f) = Cardinality(Units(f) \ ({c} \X (1..f[c]))) + f[c]
         /\ Cardinality(Units(f) \ ({c} \X (1..f[c]))) \in Nat
<1> DEFINE mine == {c} \X (1..f[c])
<1>1. IsFiniteSet(Units(f)) /\ SumOver(f) \in Nat
  BY UnitsFinite
<1>2. IsFiniteSet(Units(f) \ mine)
      /\ Cardinality(Units(f) \ mine) = Cardinality(Units(f)) - Cardinality(Units(f) \cap mine)
  BY <1>1, FS_Difference
<1>3. Units(f) \cap mine = mine
  BY DEF Units
<1>4. Cardinality(mine) = f[c] /\ f[c] \in Nat
  BY UnitsOfOne
<1>5. Cardinality(Units(f) \ mine) \in Nat
  BY <1>2, FS_CardinalityType
<1> QED
  BY <1>1, <1>2, <1>3, <1>4, <1>5 DEF SumOver

\* One consumer's share changes.
LEMMA SumChange ==
  ASSUME NEW f \in [Consumers -> Nat], NEW g \in [Consumers -> Nat], NEW c \in Consumers,
         \A d \in Consumers \ {c} : g[d] = f[d]
  PROVE  SumOver(g) = SumOver(f) - f[c] + g[c]
<1>1. Units(f) \ ({c} \X (1..f[c])) = Units(g) \ ({c} \X (1..g[c]))
  <2>1. \A x : x \in Units(f) \ ({c} \X (1..f[c])) <=>
               \E d \in Consumers \ {c} : x \in {d} \X (1..f[d])
    BY DEF Units
  <2>2. \A x : x \in Units(g) \ ({c} \X (1..g[c])) <=>
               \E d \in Consumers \ {c} : x \in {d} \X (1..g[d])
    BY DEF Units
  <2> QED
    BY <2>1, <2>2
<1>2. f[c] \in Nat /\ g[c] \in Nat
  OBVIOUS
<1> DEFINE F == Cardinality(Units(f) \ ({c} \X (1..f[c])))
           G == Cardinality(Units(g) \ ({c} \X (1..g[c])))
<1>3. SumOver(f) = F + f[c] /\ F \in Nat
  BY SumWithout
<1>4. SumOver(g) = G + g[c] /\ G \in Nat
  BY SumWithout
<1>5. F = G
  BY <1>1
<1> HIDE DEF F, G
<1> QED
  BY <1>2, <1>3, <1>4, <1>5

LEMMA SumMonotone ==
  ASSUME NEW f \in [Consumers -> Nat], NEW g \in [Consumers -> Nat],
         \A d \in Consumers : f[d] <= g[d]
  PROVE  SumOver(f) <= SumOver(g)
<1>1. Units(f) \subseteq Units(g)
  <2> SUFFICES ASSUME NEW d \in Consumers, NEW x \in {d} \X (1..f[d])
               PROVE  x \in {d} \X (1..g[d])
    BY DEF Units
  <2>1. f[d] \in Nat /\ g[d] \in Nat /\ f[d] <= g[d]
    OBVIOUS
  <2>2. 1..f[d] \subseteq 1..g[d]
    BY <2>1
  <2> QED
    BY <2>2
<1> QED
  BY <1>1, UnitsFinite, FS_Subset DEF SumOver

LEMMA SumOne ==
  ASSUME NEW f \in [Consumers -> Nat], NEW c \in Consumers
  PROVE  f[c] <= SumOver(f)
<1>1. f[c] \in Nat
  OBVIOUS
<1> DEFINE F == Cardinality(Units(f) \ ({c} \X (1..f[c])))
<1>2. SumOver(f) = F + f[c] /\ F \in Nat
  BY SumWithout
<1> HIDE DEF F
<1> QED
  BY <1>1, <1>2

LEMMA SumNone ==
  ASSUME NEW f, \A c \in Consumers : f[c] = 0
  PROVE  SumOver(f) = 0
<1>1. Units(f) = {}
  BY DEF Units
<1> QED
  BY <1>1, FS_EmptySet DEF SumOver
-----------------------------------------------------------------------------
(* What the invariant says of the numbers. *)

SharesAreNumbers(start) ==
  /\ MayAnnounce \in [Consumers -> Nat] /\ Pending \in [Consumers -> Nat]
  /\ GrantedTo \in [Consumers -> Nat]
  /\ \A front \in Int : Owed(start, front) \in [Consumers -> Nat]
  /\ \A c \in Consumers, front \in Int : GrantedTo[c] <= Owed(start, front)[c]

LEMMA Shares ==
  \A start \in StartIndices : CallsOK(start) => SharesAreNumbers(start)
<1> SUFFICES ASSUME NEW start \in StartIndices, CallsOK(start)
             PROVE  SharesAreNumbers(start)
  OBVIOUS
<1>1. ASSUME NEW c \in Consumers
      PROVE  /\ consumer[c].pc \in {"check", "giveback", "advance"} => consumer[c].want \in Nat
             /\ consumer[c].pc \in {"giveback", "advance"} => consumer[c].count \in Nat
  BY ModulusIs DEF CallsOK, CallOK, Claiming
<1>2. MaxDequeue \in Nat
  BY ModulusIs
<1>3. MayAnnounce \in [Consumers -> Nat]
  BY <1>2 DEF MayAnnounce
<1>4. Pending \in [Consumers -> Nat]
  BY <1>1 DEF Pending
<1>5. GrantedTo \in [Consumers -> Nat]
  BY <1>1 DEF GrantedTo
<1>6. ASSUME NEW front \in Int PROVE Owed(start, front) \in [Consumers -> Nat]
  BY <1>1 DEF Owed
<1>7. ASSUME NEW c \in Consumers, NEW front \in Int
      PROVE  GrantedTo[c] <= Owed(start, front)[c]
  BY <1>1 DEF Owed, GrantedTo
<1> QED
  BY <1>3, <1>4, <1>5, <1>6, <1>7 DEF SharesAreNumbers

LEMMA SharesNext ==
  (\A start \in StartIndices : CallsOK(start) => SharesAreNumbers(start))'
BY Shares, PTL

\* The numbers a step reads.
LEMMA Numbers ==
  ASSUME NEW start \in StartIndices, CountersOK(start), CallsOK(start), ClaimsOK(start)
  PROVE  /\ start \in Indices
         /\ Offset(start, tailIndex) \in Nat /\ Offset(start, headIndex) \in Nat
         /\ Offset(start, dequeueOptimisticCount) \in Nat /\ dequeueOvercommit \in Nat
         /\ Offset(start, tailIndex) <= MaxEnqueued
         /\ Offset(start, tailIndex) < Modulus
         /\ SumOver(Pending) \in Nat /\ SumOver(MayAnnounce) \in Nat
         /\ SumOver(GrantedTo) \in Nat
         /\ budget.calls * MaxDequeue \in Nat
         /\ Offset(start, dequeueOptimisticCount) <= MaxCalls * MaxDequeue
         /\ Offset(start, dequeueOptimisticCount) <= Modulus \div 2
         /\ Offset(start, dequeueOptimisticCount) < Modulus
         /\ Offset(start, headIndex) + SumOver(GrantedTo) <= Offset(start, tailIndex)
         /\ dequeueOvercommit <= Offset(start, dequeueOptimisticCount)
<1>1. start \in Indices
  BY ModulusIs
<1>2. /\ Offset(start, tailIndex) \in Nat /\ Offset(start, headIndex) \in Nat
      /\ Offset(start, dequeueOptimisticCount) \in Nat /\ dequeueOvercommit \in Nat
  BY <1>1, OffsetType DEF CountersOK, Indices
<1>3. SharesAreNumbers(start)
  BY Shares
<1>4. /\ SumOver(Pending) \in Nat /\ SumOver(MayAnnounce) \in Nat
      /\ SumOver(GrantedTo) \in Nat
  BY <1>3, UnitsFinite DEF SharesAreNumbers
<1>5. budget.calls * MaxDequeue \in Nat
  <2>1. \A a, b \in Nat : a * b \in Nat
    OBVIOUS
  <2> QED
    BY <2>1, ModulusIs DEF CountersOK
<1>6. Offset(start, headIndex) + SumOver(GrantedTo) <= Offset(start, tailIndex)
  <2>1. PICK front \in 0..Offset(start, dequeueOptimisticCount) :
          CoveredBefore(start, front)
    BY DEF ClaimsOK
  <2>2. front \in Int
    BY <1>2
  <2>3. /\ Owed(start, front) \in [Consumers -> Nat] /\ GrantedTo \in [Consumers -> Nat]
        /\ \A c \in Consumers : GrantedTo[c] <= Owed(start, front)[c]
    BY <1>3, <2>2 DEF SharesAreNumbers
  <2>4. SumOver(GrantedTo) <= SumOver(Owed(start, front)) /\ SumOver(Owed(start, front)) \in Nat
    BY <2>3, SumMonotone, UnitsFinite
  <2> QED
    BY <1>2, <1>4, <2>1, <2>4 DEF CoveredBefore
<1>7. Offset(start, tailIndex) <= MaxEnqueued
  BY <1>2, ModulusIs DEF CountersOK
<1>8. Offset(start, dequeueOptimisticCount) <= MaxCalls * MaxDequeue
  BY <1>2, <1>4, <1>5, ModulusIs DEF CountersOK
<1>9. dequeueOvercommit <= Offset(start, dequeueOptimisticCount)
  BY <1>2, <1>4 DEF CountersOK
<1>10. MaxEnqueued < Modulus /\ MaxCalls * MaxDequeue < Modulus
  BY ModulusIs
<1>11. Offset(start, tailIndex) < Modulus
  BY <1>2, <1>7, <1>10, ModulusIs
<1>12. /\ Offset(start, dequeueOptimisticCount) <= Modulus \div 2
       /\ Offset(start, dequeueOptimisticCount) < Modulus
  BY <1>2, <1>8, <1>10, ModulusIs
<1> QED
  BY <1>1, <1>2, <1>4, <1>5, <1>6, <1>7, <1>8, <1>9, <1>11, <1>12

-----------------------------------------------------------------------------
(* A step of one consumer. *)

\* c's call becomes r.
LEMMA CallsStep ==
  ASSUME NEW start \in StartIndices, CallsOK(start), NEW c \in Consumers,
         consumer' = [consumer EXCEPT ![c] = consumer'[c]],
         CallOK(start, consumer[c])',
         dequeueOvercommit \in Int, dequeueOvercommit' \in Int,
         dequeueOvercommit <= dequeueOvercommit',
         Offset(start, dequeueOptimisticCount) \in Int,
         Offset(start, dequeueOptimisticCount') \in Int,
         Offset(start, dequeueOptimisticCount) <= Offset(start, dequeueOptimisticCount'),
         consumer'[c].pc = "check" =>
           \A d \in Consumers \ {c} :
             consumer[d].pc = "check" => consumer[d].mine # consumer'[c].mine
  PROVE  /\ CallsOK(start)'
         /\ \A d \in Consumers \ {c} : consumer'[d] = consumer[d]
<1>1. DOMAIN consumer = Consumers
  BY DEF CallsOK
<1>2. /\ DOMAIN consumer' = Consumers
      /\ \A d \in Consumers \ {c} : consumer'[d] = consumer[d]
  BY <1>1
<1>3. ASSUME NEW d \in Consumers PROVE CallOK(start, consumer[d])'
  <2>1. CASE d = c
    BY <2>1
  <2>2. CASE d # c
    <3>1. consumer'[d] = consumer[d] /\ CallOK(start, consumer[d])
      BY <1>2, <2>2 DEF CallsOK
    <3>2. /\ DOMAIN consumer[d] = CallFields
          /\ consumer[d].pc \in {"idle"} \cup Entering \cup Claiming \cup TakingPcs
          /\ consumer[d].pc \in {"overcommit", "test"} =>
               consumer[d].max \in 1..MaxDequeue /\ consumer[d].tail \in Indices
          /\ consumer[d].pc \in {"claim"} \cup Claiming => consumer[d].want \in 1..MaxDequeue
          /\ consumer[d].pc = "giveback" => consumer[d].count \in 0..(consumer[d].want - 1)
          /\ consumer[d].pc = "advance" => consumer[d].count = consumer[d].want
      BY <3>1 DEF CallOK
    <3>3. consumer[d].pc \in {"test", "claim"} => consumer[d].over \in 0..dequeueOvercommit'
      BY <3>1 DEF CallOK
    <3>4. consumer[d].pc = "check" =>
            /\ consumer[d].mine \in Indices
            /\ Offset(start, consumer[d].mine) < Offset(start, dequeueOptimisticCount')
            /\ consumer[d].over \in 0..Offset(start, consumer[d].mine)
      <4>1. start \in Indices
        BY ModulusIs
      <4> QED
        BY <3>1, <4>1, OffsetType DEF CallOK
    <3> QED
      BY <3>1, <3>2, <3>3, <3>4 DEF CallOK
  <2> QED
    BY <2>1, <2>2
<1>4. ASSUME NEW d \in Consumers, NEW e \in Consumers,
             consumer'[d].pc = "check", consumer'[e].pc = "check",
             consumer'[d].mine = consumer'[e].mine
      PROVE  d = e
  BY <1>2, <1>4 DEF CallsOK
<1> QED
  BY <1>2, <1>3, <1>4 DEF CallsOK

\* The sums after a step of c.
LEMMA SharesStep ==
  ASSUME NEW start \in StartIndices, CallsOK(start), CallsOK(start)', NEW c \in Consumers,
         \A d \in Consumers \ {c} : consumer'[d] = consumer[d]
  PROVE  /\ SumOver(MayAnnounce)' = SumOver(MayAnnounce) - MayAnnounce[c] + MayAnnounce'[c]
         /\ SumOver(Pending)' = SumOver(Pending) - Pending[c] + Pending'[c]
         /\ SumOver(MayAnnounce) \in Nat /\ SumOver(Pending) \in Nat
         /\ SumOver(MayAnnounce)' \in Nat /\ SumOver(Pending)' \in Nat
         /\ \A front \in Int :
              /\ SumOver(Owed(start, front)) \in Nat
              /\ SumOver(Owed(start, front))' \in Nat
              /\ SumOver(Owed(start, front))' =
                   SumOver(Owed(start, front)) - Owed(start, front)[c]
                     + Owed(start, front)'[c]
<1>1. SharesAreNumbers(start) /\ SharesAreNumbers(start)'
  BY Shares, SharesNext
<1>2. \A d \in Consumers \ {c} : MayAnnounce'[d] = MayAnnounce[d] /\ Pending'[d] = Pending[d]
  BY DEF MayAnnounce, Pending
<1>3. \A d \in Consumers \ {c}, front \in Int :
        Owed(start, front)'[d] = Owed(start, front)[d]
  BY DEF Owed
<1>4. /\ MayAnnounce \in [Consumers -> Nat] /\ MayAnnounce' \in [Consumers -> Nat]
      /\ Pending \in [Consumers -> Nat] /\ Pending' \in [Consumers -> Nat]
  BY <1>1 DEF SharesAreNumbers
<1>5. SumOver(MayAnnounce') = SumOver(MayAnnounce) - MayAnnounce[c] + MayAnnounce'[c]
  BY <1>2, <1>4, SumChange
<1>6. SumOver(Pending') = SumOver(Pending) - Pending[c] + Pending'[c]
  BY <1>2, <1>4, SumChange
<1>7. ASSUME NEW front \in Int
      PROVE  /\ SumOver(Owed(start, front)) \in Nat
             /\ SumOver(Owed(start, front)') \in Nat
             /\ SumOver(Owed(start, front)') =
                   SumOver(Owed(start, front)) - Owed(start, front)[c]
                     + Owed(start, front)'[c]
  <2>1. /\ Owed(start, front) \in [Consumers -> Nat]
        /\ Owed(start, front)' \in [Consumers -> Nat]
    BY <1>1 DEF SharesAreNumbers
  <2>2. \A d \in Consumers \ {c} : Owed(start, front)'[d] = Owed(start, front)[d]
    BY <1>3
  <2>3. SumOver(Owed(start, front)) \in Nat /\ SumOver(Owed(start, front)') \in Nat
    BY <2>1, UnitsFinite
  <2> QED
    BY <2>1, <2>2, <2>3, SumChange
<1>8. /\ SumOver(MayAnnounce) \in Nat /\ SumOver(Pending) \in Nat
      /\ SumOver(MayAnnounce') \in Nat /\ SumOver(Pending') \in Nat
  BY <1>4, UnitsFinite
<1> QED
  BY <1>5, <1>6, <1>7, <1>8

\* What was announced and granted stays covered by a step that neither
\* announces nor grants.
LEMMA ClaimsStay ==
  ASSUME NEW start \in StartIndices, CallsOK(start), CallsOK(start)', ClaimsOK(start),
         NEW c \in Consumers, \A d \in Consumers \ {c} : consumer'[d] = consumer[d],
         consumer[c].pc # "check", consumer'[c].pc # "check",
         NEW tail \in Nat, tail = Offset(start, tailIndex), NEW tail1 \in Nat,
         tail1 = Offset(start, tailIndex'), tail <= tail1,
         NEW head \in Nat, head = Offset(start, headIndex), NEW head1 \in Nat,
         head1 = Offset(start, headIndex'), head1 + GrantedTo'[c] <= head + GrantedTo[c],
         NEW opt \in Nat, opt = Offset(start, dequeueOptimisticCount), NEW opt1 \in Nat,
         opt1 = Offset(start, dequeueOptimisticCount'), opt <= opt1
  PROVE  ClaimsOK(start)'
<1>1. PICK front \in 0..opt : CoveredBefore(start, front) /\ SeesEarlier(start, front)
  BY DEF ClaimsOK
<1>2. ASSUME NEW f \in Int
      PROVE  /\ SumOver(Owed(start, f)) \in Nat /\ SumOver(Owed(start, f))' \in Nat
             /\ head1 + SumOver(Owed(start, f))' <= head + SumOver(Owed(start, f))
  <2>1. Owed(start, f)[c] = GrantedTo[c] /\ Owed(start, f)'[c] = GrantedTo'[c]
    BY DEF Owed, GrantedTo
  <2>2. SharesAreNumbers(start) /\ SharesAreNumbers(start)'
    BY Shares, SharesNext
  <2>3. GrantedTo[c] \in Nat /\ GrantedTo'[c] \in Nat
    BY <2>2 DEF SharesAreNumbers
  <2>4. /\ SumOver(Owed(start, f)) \in Nat /\ SumOver(Owed(start, f))' \in Nat
        /\ SumOver(Owed(start, f))' =
             SumOver(Owed(start, f)) - Owed(start, f)[c] + Owed(start, f)'[c]
    BY SharesStep
  <2> QED
    BY <2>1, <2>3, <2>4
<1>3. CoveredBefore(start, front)'
  <2>1. head + SumOver(Owed(start, front)) <= tail
    BY <1>1 DEF CoveredBefore
  <2>2. front \in Int
    OBVIOUS
  <2>3. head1 + SumOver(Owed(start, front))' <= tail1
    BY <1>2, <2>1, <2>2
  <2> QED
    BY <2>3 DEF CoveredBefore
<1>4. SeesEarlier(start, front)'
  <2> SUFFICES ASSUME NEW d \in Consumers, NEW mine \in Indices,
                      consumer'[d].pc = "check",
                      mine = Offset(start, consumer'[d].mine), mine >= front
               PROVE  head1 + SumOver(Owed(start, mine))' <= mine - consumer'[d].over
    BY DEF SeesEarlier
  <2>1. d # c /\ consumer'[d] = consumer[d]
    OBVIOUS
  <2>2. head + SumOver(Owed(start, mine)) <= mine - consumer[d].over
    BY <1>1, <2>1 DEF SeesEarlier
  <2>3. mine \in Int
    BY ModulusIs DEF Indices
  <2>4. consumer[d].over \in Int
    BY <2>1 DEF CallsOK, CallOK
  <2> QED
    BY <1>2, <2>1, <2>2, <2>3, <2>4
<1>5. front \in 0..opt1
  OBVIOUS
<1> QED
  BY <1>3, <1>4, <1>5 DEF ClaimsOK

\* The counters after a step of c: what it announces comes out of what it
\* might, what it takes back or advances out of what it had announced.
LEMMA CountersStep ==
  ASSUME NEW start \in StartIndices, CountersOK(start), CallsOK(start), CallsOK(start)',
         NEW c \in Consumers, \A d \in Consumers \ {c} : consumer'[d] = consumer[d],
         tailIndex' = tailIndex, headIndex' \in Indices,
         dequeueOptimisticCount' \in Indices, dequeueOvercommit' \in Indices,
         budget' \in [calls: Nat, elements: Nat, throws: Nat],
         budget'.elements = budget.elements,
         NEW head \in Nat, head = Offset(start, headIndex),
         NEW head1 \in Nat, head1 = Offset(start, headIndex'),
         NEW opt \in Nat, opt = Offset(start, dequeueOptimisticCount),
         NEW opt1 \in Nat, opt1 = Offset(start, dequeueOptimisticCount'),
         NEW left \in Int, left = budget.calls * MaxDequeue,
         NEW left1 \in Int, left1 = budget'.calls * MaxDequeue,
         opt1 + left1 + MayAnnounce'[c] <= opt + left + MayAnnounce[c],
         opt1 - dequeueOvercommit' - head1 - Pending'[c] =
           opt - dequeueOvercommit - head - Pending[c]
  PROVE  CountersOK(start)'
<1>1. /\ SumOver(MayAnnounce)' = SumOver(MayAnnounce) - MayAnnounce[c] + MayAnnounce'[c]
      /\ SumOver(Pending)' = SumOver(Pending) - Pending[c] + Pending'[c]
      /\ SumOver(MayAnnounce) \in Nat /\ SumOver(Pending) \in Nat
      /\ SumOver(MayAnnounce)' \in Nat /\ SumOver(Pending)' \in Nat
  BY SharesStep
<1>2. SharesAreNumbers(start) /\ SharesAreNumbers(start)'
  BY Shares, SharesNext
<1>3. /\ MayAnnounce[c] \in Nat /\ MayAnnounce'[c] \in Nat
      /\ Pending[c] \in Nat /\ Pending'[c] \in Nat
  BY <1>2 DEF SharesAreNumbers
<1>4. /\ dequeueOvercommit \in Int /\ dequeueOvercommit' \in Int
      /\ MaxCalls * MaxDequeue \in Int
  BY ModulusIs DEF CountersOK, Indices
<1>5. /\ opt + left + SumOver(MayAnnounce) <= MaxCalls * MaxDequeue
      /\ opt = dequeueOvercommit + head + SumOver(Pending)
  BY DEF CountersOK
<1>6. opt1 + left1 + SumOver(MayAnnounce)' <= MaxCalls * MaxDequeue
  BY <1>1, <1>3, <1>4, <1>5
<1>7. opt1 = dequeueOvercommit' + head1 + SumOver(Pending)'
  BY <1>1, <1>3, <1>4, <1>5
<1>8. /\ tailIndex' \in Indices
      /\ Offset(start, tailIndex') + budget'.elements <= MaxEnqueued
  BY DEF CountersOK
<1> QED
  BY <1>6, <1>7, <1>8 DEF CountersOK

\* A step that neither announces nor grants.
LEMMA QuietStep ==
  ASSUME NEW start \in StartIndices, CountersOK(start), CallsOK(start), ClaimsOK(start),
         NEW c \in Consumers, consumer' = [consumer EXCEPT ![c] = consumer'[c]],
         CallOK(start, consumer[c])', consumer[c].pc # "check", consumer'[c].pc # "check",
         tailIndex' = tailIndex, dequeueOptimisticCount' = dequeueOptimisticCount,
         headIndex' \in Indices, dequeueOvercommit' \in Indices,
         dequeueOvercommit <= dequeueOvercommit',
         budget' \in [calls: Nat, elements: Nat, throws: Nat],
         budget'.elements = budget.elements,
         budget'.calls * MaxDequeue + MayAnnounce'[c] <= budget.calls * MaxDequeue + MayAnnounce[c],
         Offset(start, headIndex') + GrantedTo'[c] <= Offset(start, headIndex) + GrantedTo[c],
         dequeueOvercommit' + Offset(start, headIndex') + Pending'[c] =
           dequeueOvercommit + Offset(start, headIndex) + Pending[c]
  PROVE  CountersOK(start)' /\ CallsOK(start)' /\ ClaimsOK(start)'
<1> DEFINE tail == Offset(start, tailIndex)
           head == Offset(start, headIndex)
           head1 == Offset(start, headIndex')
           opt == Offset(start, dequeueOptimisticCount)
           left == budget.calls * MaxDequeue
           left1 == budget'.calls * MaxDequeue
<1>1. tail \in Nat /\ head \in Nat /\ opt \in Nat /\ dequeueOvercommit \in Nat /\ left \in Nat
  BY Numbers
<1>2. head1 \in Nat
  BY ModulusIs, OffsetType
<1>3. left1 \in Nat
  <2>1. \A a, b \in Nat : a * b \in Nat
    OBVIOUS
  <2> QED
    BY <2>1, ModulusIs
<1>4. dequeueOvercommit' \in Int /\ dequeueOvercommit \in Int
  BY <1>1 DEF Indices
<1>5. /\ CallsOK(start)' /\ \A d \in Consumers \ {c} : consumer'[d] = consumer[d]
  BY <1>1, <1>4, CallsStep
<1>6. SharesAreNumbers(start) /\ SharesAreNumbers(start)'
  BY <1>5, Shares, SharesNext
<1>7. /\ MayAnnounce[c] \in Nat /\ MayAnnounce'[c] \in Nat
      /\ Pending[c] \in Nat /\ Pending'[c] \in Nat
  BY <1>6 DEF SharesAreNumbers
<1>8. dequeueOptimisticCount' \in Indices
  BY DEF CountersOK
<1>9. CountersOK(start)'
  <2>1. opt + left1 + MayAnnounce'[c] <= opt + left + MayAnnounce[c]
    BY <1>1, <1>3, <1>7
  <2>2. opt - dequeueOvercommit' - head1 - Pending'[c] =
           opt - dequeueOvercommit - head - Pending[c]
    BY <1>1, <1>2, <1>4, <1>7
  <2>3. opt = Offset(start, dequeueOptimisticCount')
    OBVIOUS
  <2>4. left \in Int /\ left1 \in Int
    BY <1>1, <1>3
  <2> HIDE DEF tail, left, left1
  <2> QED
    BY <1>1, <1>2, <1>5, <1>8, <2>1, <2>2, <2>3, <2>4, CountersStep DEF left, left1
<1>10. ClaimsOK(start)'
  <2>1. tail = Offset(start, tailIndex') /\ opt = Offset(start, dequeueOptimisticCount')
    OBVIOUS
  <2> QED
    BY <1>1, <1>2, <1>5, <2>1, ClaimsStay
<1> QED
  BY <1>5, <1>9, <1>10

-----------------------------------------------------------------------------
(* The steps of a dequeue. *)

\* What a step of a call leaves alone.
LEMMA RestingCall ==
  /\ DOMAIN Resting = CallFields /\ Resting.pc = "idle"
  /\ CallFields = {"pc", "max", "tail", "over", "want", "mine", "count", "first",
                   "index", "header", "pos", "block"}
BY DEF Resting, CallFields

\* What counts as more than nothing is less than half of the range.
LEMMA LessThanZero ==
  ASSUME NEW n \in Indices, circular_less_than(0, n)
  PROVE  n \in Nat /\ n >= 1 /\ n < Modulus - Modulus \div 2
<1>1. n \in Nat /\ n < Modulus /\ Modulus \in Nat \ {0} /\ Modulus \div 2 \in Nat
  BY ModulusIs DEF Indices
<1>2. CASE n = 0
  <2>1. Wrap(0 - n) = 0
    BY <1>1, <1>2, WrapSmall DEF Indices
  <2> QED
    BY <1>1, <2>1 DEF circular_less_than
<1>3. CASE n # 0
  <2>1. 0 - n = Modulus * (-1) + (Modulus - n)
    BY <1>1
  <2>2. Modulus - n \in 0..(Modulus - 1) /\ 0 - n \in Int
    BY <1>1, <1>3
  <2>3. (0 - n) % Modulus = Modulus - n
    BY <1>1, <2>1, <2>2, ModUnique
  <2>4. Modulus - n > Modulus \div 2
    BY <2>3 DEF circular_less_than, Wrap
  <2> QED
    BY <1>1, <1>3, <2>4
<1> QED
  BY <1>2, <1>3

LEMMA LoadTailKeeps ==
  ASSUME NEW start \in StartIndices, CountersOK(start), CallsOK(start), ClaimsOK(start),
         NEW c \in Consumers, LoadTail(c)
  PROVE  CountersOK(start)' /\ CallsOK(start)' /\ ClaimsOK(start)'
<1>1. PICK max \in 1..MaxDequeue :
        consumer' = [consumer EXCEPT ![c] =
                      [Resting EXCEPT !.pc = "overcommit", !.max = max, !.tail = tailIndex]]
  BY DEF LoadTail
<1>2. DOMAIN consumer = Consumers
  BY DEF CallsOK
<1>3. /\ consumer'[c] = [Resting EXCEPT !.pc = "overcommit", !.max = max, !.tail = tailIndex]
      /\ consumer' = [consumer EXCEPT ![c] = consumer'[c]]
  BY <1>1, <1>2
<1>4. /\ DOMAIN consumer'[c] = CallFields /\ consumer'[c].pc = "overcommit"
      /\ consumer'[c].max = max /\ consumer'[c].tail = tailIndex
  BY <1>3, RestingCall
<1>5. CallOK(start, consumer[c])'
  BY <1>4 DEF CallOK, Entering, Claiming, TakingPcs, CountersOK
<1>6. /\ MayAnnounce[c] = 0 /\ MayAnnounce'[c] = MaxDequeue
      /\ Pending[c] = 0 /\ Pending'[c] = 0 /\ GrantedTo[c] = 0 /\ GrantedTo'[c] = 0
  BY <1>4 DEF LoadTail, MayAnnounce, Pending, GrantedTo, Entering
<1>7. /\ budget' \in [calls: Nat, elements: Nat, throws: Nat]
      /\ budget'.elements = budget.elements /\ budget'.calls = budget.calls - 1
      /\ budget.calls \in Nat
  BY DEF LoadTail, CountersOK
<1>8. budget'.calls * MaxDequeue + MaxDequeue = budget.calls * MaxDequeue
  <2>1. \A n, m \in Nat : (n - 1) * m + m = n * m
    OBVIOUS
  <2> QED
    BY <1>7, <2>1, ModulusIs
<1>9. budget.calls * MaxDequeue \in Nat /\ Offset(start, headIndex) \in Nat
      /\ dequeueOvercommit \in Nat /\ MaxDequeue \in Nat
  BY Numbers, ModulusIs
<1>10. /\ UNCHANGED <<tailIndex, headIndex, dequeueOptimisticCount, dequeueOvercommit>>
       /\ headIndex \in Indices /\ dequeueOvercommit \in Indices
       /\ consumer[c].pc = "idle"
  BY DEF LoadTail, sharedByClaim, CountersOK
<1>11. budget'.calls * MaxDequeue + MayAnnounce'[c] <= budget.calls * MaxDequeue + MayAnnounce[c]
  BY <1>6, <1>8, <1>9
<1>12. /\ Offset(start, headIndex') + GrantedTo'[c] <= Offset(start, headIndex) + GrantedTo[c]
       /\ dequeueOvercommit' + Offset(start, headIndex') + Pending'[c] =
           dequeueOvercommit + Offset(start, headIndex) + Pending[c]
       /\ dequeueOvercommit <= dequeueOvercommit'
       /\ consumer[c].pc # "check" /\ consumer'[c].pc # "check"
  BY <1>4, <1>6, <1>9, <1>10
<1> QED
  BY <1>3, <1>5, <1>7, <1>10, <1>11, <1>12, QuietStep

LEMMA LoadOvercommitKeeps ==
  ASSUME NEW start \in StartIndices, CountersOK(start), CallsOK(start), ClaimsOK(start),
         NEW c \in Consumers, LoadOvercommit(c)
  PROVE  CountersOK(start)' /\ CallsOK(start)' /\ ClaimsOK(start)'
<1>1. consumer' = [consumer EXCEPT ![c] =
                     [Goes(c, "test") EXCEPT !.over = dequeueOvercommit]]
  BY DEF LoadOvercommit
<1>2. DOMAIN consumer = Consumers /\ CallOK(start, consumer[c])
  BY DEF CallsOK
<1>3. /\ consumer'[c] = [Goes(c, "test") EXCEPT !.over = dequeueOvercommit]
      /\ consumer' = [consumer EXCEPT ![c] = consumer'[c]]
  BY <1>1, <1>2
<1>4. /\ DOMAIN consumer[c] = CallFields
      /\ consumer[c].pc = "overcommit" /\ consumer[c].max \in 1..MaxDequeue
      /\ consumer[c].tail \in Indices
  BY <1>2 DEF CallOK, LoadOvercommit
<1>5. /\ DOMAIN consumer'[c] = CallFields /\ consumer'[c].pc = "test"
      /\ consumer'[c].max = consumer[c].max /\ consumer'[c].over = dequeueOvercommit
      /\ consumer'[c].tail = consumer[c].tail
  BY <1>3, <1>4, RestingCall DEF Goes
<1>6. /\ UNCHANGED <<tailIndex, headIndex, dequeueOptimisticCount, dequeueOvercommit, budget>>
      /\ headIndex \in Indices /\ dequeueOvercommit \in Indices
      /\ budget' \in [calls: Nat, elements: Nat, throws: Nat]
  BY DEF LoadOvercommit, sharedByClaim, CountersOK
<1>7. budget.calls * MaxDequeue \in Nat /\ Offset(start, headIndex) \in Nat
      /\ dequeueOvercommit \in Nat /\ MaxDequeue \in Nat
  BY Numbers, ModulusIs
<1>8. CallOK(start, consumer[c])'
  <2>1. consumer'[c].over \in 0..dequeueOvercommit'
    BY <1>5, <1>6, <1>7
  <2> QED
    BY <1>4, <1>5, <2>1 DEF CallOK, Entering, Claiming, TakingPcs
<1>9. /\ MayAnnounce[c] = MaxDequeue /\ MayAnnounce'[c] = MaxDequeue
      /\ Pending[c] = 0 /\ Pending'[c] = 0 /\ GrantedTo[c] = 0 /\ GrantedTo'[c] = 0
  BY <1>4, <1>5 DEF MayAnnounce, Pending, GrantedTo, Entering
<1>10. budget'.calls * MaxDequeue + MayAnnounce'[c] <= budget.calls * MaxDequeue + MayAnnounce[c]
  BY <1>6, <1>7, <1>9
<1>11. /\ Offset(start, headIndex') + GrantedTo'[c] <= Offset(start, headIndex) + GrantedTo[c]
       /\ dequeueOvercommit' + Offset(start, headIndex') + Pending'[c] =
           dequeueOvercommit + Offset(start, headIndex) + Pending[c]
       /\ dequeueOvercommit <= dequeueOvercommit'
       /\ consumer[c].pc # "check" /\ consumer'[c].pc # "check"
  BY <1>4, <1>5, <1>6, <1>7, <1>9
<1> QED
  BY <1>3, <1>6, <1>8, <1>10, <1>11, QuietStep

LEMMA TestOptimisticKeeps ==
  ASSUME NEW start \in StartIndices, CountersOK(start), CallsOK(start), ClaimsOK(start),
         NEW c \in Consumers, TestOptimistic(c)
  PROVE  CountersOK(start)' /\ CallsOK(start)' /\ ClaimsOK(start)'
<1> DEFINE me == consumer[c]
           desired == Hoped(me.tail, dequeueOptimisticCount, me.over)
<1>1. \/ /\ circular_less_than(0, desired)
         /\ consumer' = [consumer EXCEPT ![c] =
              [Goes(c, "claim") EXCEPT !.want = Smaller(desired, me.max), !.tail = 0, !.max = 0]]
      \/ consumer' = [consumer EXCEPT ![c] = Resting]
  BY DEF TestOptimistic
<1>2. DOMAIN consumer = Consumers /\ CallOK(start, consumer[c])
  BY DEF CallsOK
<1>3. /\ consumer' = [consumer EXCEPT ![c] = consumer'[c]]
      /\ \/ /\ circular_less_than(0, desired)
            /\ consumer'[c] = [Goes(c, "claim") EXCEPT !.want = Smaller(desired, me.max),
                                                       !.tail = 0, !.max = 0]
         \/ consumer'[c] = Resting
  BY <1>1, <1>2
<1>4. /\ DOMAIN consumer[c] = CallFields /\ consumer[c].pc = "test"
      /\ consumer[c].max \in 1..MaxDequeue /\ consumer[c].over \in 0..dequeueOvercommit
  BY <1>2 DEF CallOK, TestOptimistic
<1>5. \/ /\ consumer'[c].pc = "claim" /\ DOMAIN consumer'[c] = CallFields
         /\ consumer'[c].over = consumer[c].over /\ circular_less_than(0, desired)
         /\ consumer'[c].want = Smaller(desired, me.max)
      \/ consumer'[c].pc = "idle" /\ DOMAIN consumer'[c] = CallFields
  BY <1>3, <1>4, RestingCall DEF Goes
<1>6. /\ UNCHANGED <<tailIndex, headIndex, dequeueOptimisticCount, dequeueOvercommit, budget>>
      /\ headIndex \in Indices /\ dequeueOvercommit \in Indices
      /\ budget' \in [calls: Nat, elements: Nat, throws: Nat]
  BY DEF TestOptimistic, sharedByClaim, CountersOK
<1>7. budget.calls * MaxDequeue \in Nat /\ Offset(start, headIndex) \in Nat
      /\ dequeueOvercommit \in Nat /\ MaxDequeue \in Nat
  BY Numbers, ModulusIs
<1>8. circular_less_than(0, desired) => Smaller(desired, me.max) \in 1..MaxDequeue
  <2>1. desired \in Indices
    <3>1. me.tail \in Int /\ me.over \in Int /\ dequeueOptimisticCount \in Int
      BY <1>2, <1>4 DEF CallOK, Indices, CountersOK
    <3>2. me.tail - (dequeueOptimisticCount - me.over) \in Int
      BY <3>1
    <3> QED
      BY <3>2, WrapType DEF Hoped
  <2>2. circular_less_than(0, desired) => desired >= 1 /\ desired \in Nat
    BY <2>1, LessThanZero
  <2> HIDE DEF desired
  <2> QED
    BY <1>4, <1>7, <2>2 DEF Smaller
<1>9. CallOK(start, consumer[c])'
  BY <1>4, <1>5, <1>6, <1>8 DEF CallOK, Entering, Claiming, TakingPcs
<1>10. /\ MayAnnounce[c] = MaxDequeue /\ MayAnnounce'[c] \in {0, MaxDequeue}
       /\ Pending[c] = 0 /\ Pending'[c] = 0 /\ GrantedTo[c] = 0 /\ GrantedTo'[c] = 0
  BY <1>4, <1>5 DEF MayAnnounce, Pending, GrantedTo, Entering
<1>11. budget'.calls * MaxDequeue + MayAnnounce'[c] <= budget.calls * MaxDequeue + MayAnnounce[c]
  BY <1>6, <1>7, <1>10
<1>12. /\ Offset(start, headIndex') + GrantedTo'[c] <= Offset(start, headIndex) + GrantedTo[c]
       /\ dequeueOvercommit' + Offset(start, headIndex') + Pending'[c] =
           dequeueOvercommit + Offset(start, headIndex) + Pending[c]
       /\ dequeueOvercommit <= dequeueOvercommit'
       /\ consumer[c].pc # "check" /\ consumer'[c].pc # "check"
  BY <1>4, <1>5, <1>6, <1>7, <1>10
<1> QED
  BY <1>3, <1>6, <1>9, <1>11, <1>12, QuietStep

LEMMA GiveBackKeeps ==
  ASSUME NEW start \in StartIndices, CountersOK(start), CallsOK(start), ClaimsOK(start),
         NEW c \in Consumers, GiveBack(c)
  PROVE  CountersOK(start)' /\ CallsOK(start)' /\ ClaimsOK(start)'
<1> DEFINE me == consumer[c]
<1>1. consumer' = [consumer EXCEPT ![c] =
        IF me.count = 0 THEN Resting ELSE [Goes(c, "advance") EXCEPT !.want = me.count]]
  BY DEF GiveBack
<1>2. DOMAIN consumer = Consumers /\ CallOK(start, consumer[c])
  BY DEF CallsOK
<1>3. /\ consumer' = [consumer EXCEPT ![c] = consumer'[c]]
      /\ consumer'[c] = IF me.count = 0 THEN Resting
                        ELSE [Goes(c, "advance") EXCEPT !.want = me.count]
  BY <1>1, <1>2
<1>4. /\ DOMAIN consumer[c] = CallFields /\ consumer[c].pc = "giveback"
      /\ consumer[c].want \in 1..MaxDequeue /\ consumer[c].count \in 0..(consumer[c].want - 1)
  BY <1>2 DEF CallOK, GiveBack, Claiming
<1>5. /\ DOMAIN consumer'[c] = CallFields
      /\ \/ consumer'[c].pc = "idle" /\ consumer[c].count = 0
         \/ /\ consumer'[c].pc = "advance" /\ consumer[c].count # 0
            /\ consumer'[c].want = consumer[c].count
            /\ consumer'[c].count = consumer[c].count
  BY <1>3, <1>4, RestingCall DEF Goes
<1>6. /\ UNCHANGED <<tailIndex, headIndex, dequeueOptimisticCount, budget>>
      /\ headIndex \in Indices
      /\ budget' \in [calls: Nat, elements: Nat, throws: Nat]
  BY DEF GiveBack, sharedByClaim, CountersOK
<1>7. /\ budget.calls * MaxDequeue \in Nat /\ Offset(start, headIndex) \in Nat
      /\ dequeueOvercommit \in Nat /\ MaxDequeue \in Nat
      /\ Offset(start, dequeueOptimisticCount) \in Nat
      /\ Offset(start, dequeueOptimisticCount) < Modulus
      /\ SumOver(Pending) \in Nat
  BY Numbers, ModulusIs
<1>8. Pending[c] = me.want /\ Pending[c] <= SumOver(Pending)
  <2>1. Pending \in [Consumers -> Nat]
    BY Shares DEF SharesAreNumbers
  <2> QED
    BY <1>4, <2>1, SumOne DEF Pending
<1>9. me.want \in Nat /\ me.count \in Nat /\ me.count <= me.want
  BY <1>4, <1>7
<1>10. dequeueOvercommit' = dequeueOvercommit + (me.want - me.count)
       /\ dequeueOvercommit' \in Indices
  <2>1. dequeueOvercommit' = Wrap(dequeueOvercommit + (me.want - me.count))
    BY DEF GiveBack, ReturnedCount
  <2>2. Offset(start, dequeueOptimisticCount) =
          dequeueOvercommit + Offset(start, headIndex) + SumOver(Pending)
    BY DEF CountersOK
  <2>3. dequeueOvercommit + (me.want - me.count) \in Nat
        /\ dequeueOvercommit + (me.want - me.count) < Modulus
    BY <1>7, <1>8, <1>9, <2>2, ModulusIs
  <2>4. dequeueOvercommit + (me.want - me.count) \in Indices
    BY <2>3, ModulusIs DEF Indices
  <2> QED
    BY <2>1, <2>4, WrapSmall
<1>11. CallOK(start, consumer[c])'
  <2>1. CASE consumer'[c].pc = "idle"
    BY <1>5, <2>1 DEF CallOK, Entering, Claiming, TakingPcs
  <2>2. CASE consumer'[c].pc = "advance"
    <3>1. consumer'[c].want \in 1..MaxDequeue
      BY <1>4, <1>5, <1>7, <2>2
    <3> QED
      BY <1>5, <2>2, <3>1 DEF CallOK, Entering, Claiming, TakingPcs
  <2> QED
    BY <1>5, <2>1, <2>2
<1>12. /\ MayAnnounce[c] = 0 /\ MayAnnounce'[c] = 0
       /\ Pending'[c] = me.count /\ GrantedTo[c] = me.count /\ GrantedTo'[c] = me.count
  BY <1>4, <1>5 DEF MayAnnounce, Pending, GrantedTo, Entering
<1>13. budget'.calls * MaxDequeue + MayAnnounce'[c] <= budget.calls * MaxDequeue + MayAnnounce[c]
  BY <1>6, <1>7, <1>12
<1>14. /\ Offset(start, headIndex') + GrantedTo'[c] <= Offset(start, headIndex) + GrantedTo[c]
       /\ dequeueOvercommit' + Offset(start, headIndex') + Pending'[c] =
           dequeueOvercommit + Offset(start, headIndex) + Pending[c]
       /\ dequeueOvercommit <= dequeueOvercommit'
       /\ consumer[c].pc # "check" /\ consumer'[c].pc # "check"
  BY <1>4, <1>5, <1>6, <1>7, <1>8, <1>9, <1>10, <1>12
<1> QED
  BY <1>3, <1>6, <1>10, <1>11, <1>13, <1>14, QuietStep

LEMMA AdvanceKeeps ==
  ASSUME NEW start \in StartIndices, CountersOK(start), CallsOK(start), ClaimsOK(start),
         NEW c \in Consumers, Advance(c)
  PROVE  CountersOK(start)' /\ CallsOK(start)' /\ ClaimsOK(start)'
<1> DEFINE me == consumer[c]
<1>1. consumer' = [consumer EXCEPT ![c] =
        [Goes(c, "header") EXCEPT !.first = headIndex, !.index = headIndex, !.want = 0]]
  BY DEF Advance
<1>2. DOMAIN consumer = Consumers /\ CallOK(start, consumer[c])
  BY DEF CallsOK
<1>3. /\ consumer' = [consumer EXCEPT ![c] = consumer'[c]]
      /\ consumer'[c] = [Goes(c, "header") EXCEPT !.first = headIndex, !.index = headIndex,
                                                  !.want = 0]
  BY <1>1, <1>2
<1>4. /\ DOMAIN consumer[c] = CallFields /\ consumer[c].pc = "advance"
      /\ consumer[c].want \in 1..MaxDequeue /\ consumer[c].count = consumer[c].want
  BY <1>2 DEF CallOK, Advance, Claiming
<1>5. DOMAIN consumer'[c] = CallFields /\ consumer'[c].pc = "header"
  BY <1>3, <1>4, RestingCall DEF Goes
<1>6. /\ UNCHANGED <<tailIndex, dequeueOptimisticCount, dequeueOvercommit, budget>>
      /\ headIndex \in Indices /\ dequeueOvercommit \in Indices
      /\ headIndex' = Wrap(headIndex + me.count)
      /\ budget' \in [calls: Nat, elements: Nat, throws: Nat]
  BY DEF Advance, sharedByClaim, CountersOK
<1>7. /\ budget.calls * MaxDequeue \in Nat /\ Offset(start, headIndex) \in Nat
      /\ dequeueOvercommit \in Nat /\ MaxDequeue \in Nat
      /\ Offset(start, tailIndex) \in Nat /\ Offset(start, tailIndex) < Modulus
      /\ SumOver(GrantedTo) \in Nat /\ start \in Indices
      /\ Offset(start, headIndex) + SumOver(GrantedTo) <= Offset(start, tailIndex)
  BY Numbers, ModulusIs
<1>8. GrantedTo[c] = me.count /\ GrantedTo[c] <= SumOver(GrantedTo)
  <2>1. GrantedTo \in [Consumers -> Nat]
    BY Shares DEF SharesAreNumbers
  <2> QED
    BY <1>4, <2>1, SumOne DEF GrantedTo
<1>9. me.count \in Nat
  BY <1>4, <1>7
<1>10. /\ headIndex' \in Indices
       /\ Offset(start, headIndex') = Offset(start, headIndex) + me.count
  <2>1. Offset(start, headIndex) + me.count < Modulus
    BY <1>7, <1>8, <1>9, ModulusIs
  <2>2. headIndex \in Indices /\ start \in Indices /\ me.count \in Nat
    BY <1>6, <1>7, <1>9
  <2>3. /\ Wrap(headIndex + me.count) \in Indices
        /\ Offset(start, Wrap(headIndex + me.count)) = Offset(start, headIndex) + me.count
    BY <2>1, <2>2, OffsetPlus
  <2> QED
    BY <1>6, <2>3
<1>11. CallOK(start, consumer[c])'
  BY <1>5 DEF CallOK, Entering, Claiming, TakingPcs
<1>12. /\ MayAnnounce[c] = 0 /\ MayAnnounce'[c] = 0
       /\ Pending[c] = me.count /\ Pending'[c] = 0 /\ GrantedTo'[c] = 0
  BY <1>4, <1>5 DEF MayAnnounce, Pending, GrantedTo, Entering
<1>13. budget'.calls * MaxDequeue + MayAnnounce'[c] <= budget.calls * MaxDequeue + MayAnnounce[c]
  BY <1>6, <1>7, <1>12
<1>14. /\ Offset(start, headIndex') + GrantedTo'[c] <= Offset(start, headIndex) + GrantedTo[c]
       /\ dequeueOvercommit' + Offset(start, headIndex') + Pending'[c] =
           dequeueOvercommit + Offset(start, headIndex) + Pending[c]
       /\ dequeueOvercommit <= dequeueOvercommit' /\ dequeueOvercommit' \in Indices
       /\ consumer[c].pc # "check" /\ consumer'[c].pc # "check"
  BY <1>4, <1>5, <1>6, <1>7, <1>8, <1>9, <1>10, <1>12
<1> QED
  BY <1>3, <1>6, <1>10, <1>11, <1>13, <1>14, QuietStep

\* What consumers are owed they have announced.
LEMMA OwedIsAnnounced ==
  ASSUME NEW start \in StartIndices, CallsOK(start), NEW front \in Int
  PROVE  /\ SumOver(Owed(start, front)) \in Nat /\ SumOver(Pending) \in Nat
         /\ SumOver(Owed(start, front)) <= SumOver(Pending)
<1>1. /\ Owed(start, front) \in [Consumers -> Nat] /\ Pending \in [Consumers -> Nat]
  BY Shares DEF SharesAreNumbers
<1>2. ASSUME NEW d \in Consumers PROVE Owed(start, front)[d] <= Pending[d]
  <2>1. CallOK(start, consumer[d]) /\ MaxDequeue \in Nat
    BY ModulusIs DEF CallsOK
  <2>2. CASE consumer[d].pc = "giveback"
    <3>1. consumer[d].want \in 1..MaxDequeue /\ consumer[d].count \in 0..(consumer[d].want - 1)
      BY <2>1, <2>2 DEF CallOK, Claiming
    <3>2. consumer[d].count <= consumer[d].want
      BY <2>1, <3>1
    <3> QED
      BY <2>2, <3>2 DEF Owed, Pending
  <2>3. CASE consumer[d].pc = "advance"
    <3>1. consumer[d].want \in 1..MaxDequeue /\ consumer[d].count = consumer[d].want
      BY <2>1, <2>3 DEF CallOK, Claiming
    <3> QED
      BY <2>1, <2>3, <3>1 DEF Owed, Pending
  <2>4. CASE consumer[d].pc = "check"
    <3>1. consumer[d].want \in 1..MaxDequeue
      BY <2>1, <2>4 DEF CallOK, Claiming
    <3> QED
      BY <2>1, <2>4, <3>1 DEF Owed, Pending
  <2>5. CASE consumer[d].pc \notin {"giveback", "advance", "check"}
    BY <2>5 DEF Owed, Pending
  <2> QED
    BY <2>2, <2>3, <2>4, <2>5
<1> QED
  BY <1>1, <1>2, SumMonotone, UnitsFinite

LEMMA ClaimKeeps ==
  ASSUME NEW start \in StartIndices, CountersOK(start), CallsOK(start), ClaimsOK(start),
         NEW c \in Consumers, Claim(c)
  PROVE  CountersOK(start)' /\ CallsOK(start)' /\ ClaimsOK(start)'
<1> DEFINE me == consumer[c]
           head == Offset(start, headIndex)
           opt == Offset(start, dequeueOptimisticCount)
           opt1 == Offset(start, dequeueOptimisticCount')
           left == budget.calls * MaxDequeue
<1>1. consumer' = [consumer EXCEPT ![c] =
                     [Goes(c, "check") EXCEPT !.mine = dequeueOptimisticCount]]
  BY DEF Claim
<1>2. DOMAIN consumer = Consumers /\ CallOK(start, consumer[c])
  BY DEF CallsOK
<1>3. /\ consumer' = [consumer EXCEPT ![c] = consumer'[c]]
      /\ consumer'[c] = [Goes(c, "check") EXCEPT !.mine = dequeueOptimisticCount]
  BY <1>1, <1>2
<1>4. /\ DOMAIN consumer[c] = CallFields /\ consumer[c].pc = "claim"
      /\ consumer[c].want \in 1..MaxDequeue /\ consumer[c].over \in 0..dequeueOvercommit
  BY <1>2 DEF CallOK, Claim, Claiming
<1>5. /\ DOMAIN consumer'[c] = CallFields /\ consumer'[c].pc = "check"
      /\ consumer'[c].want = me.want /\ consumer'[c].over = me.over
      /\ consumer'[c].mine = dequeueOptimisticCount
  BY <1>3, <1>4, RestingCall DEF Goes
<1>6. /\ UNCHANGED <<tailIndex, headIndex, dequeueOvercommit, budget>>
      /\ headIndex \in Indices /\ dequeueOvercommit \in Indices
      /\ dequeueOptimisticCount \in Indices
      /\ dequeueOptimisticCount' = Wrap(dequeueOptimisticCount + me.want)
      /\ budget' \in [calls: Nat, elements: Nat, throws: Nat]
  BY DEF Claim, sharedByClaim, CountersOK
<1>7. /\ left \in Nat /\ head \in Nat /\ dequeueOvercommit \in Nat /\ MaxDequeue \in Nat
      /\ Offset(start, tailIndex) \in Nat /\ start \in Indices
      /\ opt \in Nat /\ SumOver(Pending) \in Nat /\ SumOver(MayAnnounce) \in Nat
      /\ dequeueOvercommit <= opt
      /\ MaxCalls * MaxDequeue \in Nat /\ MaxCalls * MaxDequeue < Modulus
  BY Numbers, ModulusIs
<1>8. me.want \in Nat /\ me.want >= 1 /\ me.over \in Nat
  BY <1>4, <1>7
<1>9. MayAnnounce[c] = MaxDequeue /\ MaxDequeue <= SumOver(MayAnnounce)
  <2>1. MayAnnounce \in [Consumers -> Nat]
    BY Shares DEF SharesAreNumbers
  <2>2. MayAnnounce[c] = MaxDequeue
    BY <1>4 DEF MayAnnounce, Entering
  <2>3. MayAnnounce[c] <= SumOver(MayAnnounce)
    BY <2>1, SumOne
  <2> QED
    BY <2>2, <2>3
<1>10. dequeueOptimisticCount' \in Indices /\ opt1 = opt + me.want
  <2>1. opt + left + SumOver(MayAnnounce) <= MaxCalls * MaxDequeue
    BY DEF CountersOK
  <2>2. opt + me.want < Modulus
    BY <1>4, <1>7, <1>8, <1>9, <2>1, ModulusIs
  <2>3. /\ dequeueOptimisticCount \in Indices /\ start \in Indices /\ me.want \in Nat
        /\ Offset(start, dequeueOptimisticCount) + me.want < Modulus
    BY <1>6, <1>7, <1>8, <2>2
  <2>4. /\ Wrap(dequeueOptimisticCount + me.want) \in Indices
        /\ Offset(start, Wrap(dequeueOptimisticCount + me.want)) = opt + me.want
    BY <2>3, OffsetPlus
  <2> QED
    BY <1>6, <2>4
<1>11. CallOK(start, consumer[c])'
  <2>1. /\ consumer'[c].mine \in Indices /\ Offset(start, consumer'[c].mine) = opt
        /\ opt < opt1 /\ consumer'[c].over \in 0..opt
    BY <1>4, <1>5, <1>6, <1>7, <1>8, <1>10
  <2>2. consumer'[c].want \in 1..MaxDequeue
    BY <1>4, <1>5
  <2> QED
    BY <1>5, <2>1, <2>2 DEF CallOK, Entering, Claiming, TakingPcs
<1>12. ASSUME NEW d \in Consumers \ {c}, consumer[d].pc = "check"
       PROVE  /\ Offset(start, consumer[d].mine) \in Nat
              /\ Offset(start, consumer[d].mine) < opt
              /\ consumer[d].mine # dequeueOptimisticCount
  <2>1. /\ consumer[d].mine \in Indices
        /\ Offset(start, consumer[d].mine) < opt
    BY <1>12 DEF CallsOK, CallOK
  <2> QED
    BY <1>7, <2>1, OffsetType
<1>13. CallsOK(start)' /\ \A d \in Consumers \ {c} : consumer'[d] = consumer[d]
  <2>1. /\ dequeueOvercommit \in Int /\ dequeueOvercommit' \in Int
        /\ dequeueOvercommit <= dequeueOvercommit'
        /\ opt \in Int /\ opt1 \in Int /\ opt <= opt1
    BY <1>6, <1>7, <1>8, <1>10
  <2>2. \A d \in Consumers \ {c} :
          consumer[d].pc = "check" => consumer[d].mine # consumer'[c].mine
    BY <1>5, <1>12
  <2> QED
    BY <1>3, <1>11, <2>1, <2>2, CallsStep
<1>14. /\ MayAnnounce'[c] = 0 /\ Pending[c] = 0 /\ Pending'[c] = me.want
       /\ \A f \in Int : Owed(start, f)[c] = 0
       /\ \A f \in Int : f <= opt => Owed(start, f)'[c] = 0
  <2>1. /\ MayAnnounce'[c] = 0 /\ Pending[c] = 0 /\ Pending'[c] = me.want
    BY <1>4, <1>5 DEF MayAnnounce, Pending, Entering
  <2>2. ASSUME NEW f \in Int PROVE Owed(start, f)[c] = 0
    BY <1>4 DEF Owed
  <2>3. ASSUME NEW f \in Int, f <= opt PROVE Owed(start, f)'[c] = 0
    <3>1. ~(Offset(start, consumer'[c].mine) < f)
      BY <1>5, <1>7, <2>3
    <3> QED
      BY <1>5, <3>1 DEF Owed
  <2> QED
    BY <2>1, <2>2, <2>3
<1>15. CountersOK(start)'
  <2>1. opt1 + left + MayAnnounce'[c] <= opt + left + MayAnnounce[c]
    BY <1>4, <1>7, <1>8, <1>9, <1>10, <1>14
  <2>2. opt1 - dequeueOvercommit' - head - Pending'[c] =
          opt - dequeueOvercommit - head - Pending[c]
    BY <1>6, <1>7, <1>8, <1>10, <1>14
  <2>3. opt1 \in Nat /\ head = Offset(start, headIndex') /\ left = budget'.calls * MaxDequeue
        /\ headIndex' \in Indices /\ dequeueOvercommit' \in Indices
        /\ budget'.elements = budget.elements /\ left \in Int
    BY <1>6, <1>7, <1>8, <1>10
  <2> HIDE DEF left
  <2> QED
    BY <1>6, <1>7, <1>10, <1>13, <2>1, <2>2, <2>3, CountersStep DEF left
<1>16. \A f \in Int : /\ SumOver(Owed(start, f)) \in Nat
                      /\ f <= opt => SumOver(Owed(start, f))' = SumOver(Owed(start, f))
  <2> SUFFICES ASSUME NEW f \in Int
               PROVE  /\ SumOver(Owed(start, f)) \in Nat
                      /\ f <= opt => SumOver(Owed(start, f))' = SumOver(Owed(start, f))
    OBVIOUS
  <2>1. /\ SumOver(Owed(start, f)) \in Nat
        /\ SumOver(Owed(start, f))' =
             SumOver(Owed(start, f)) - Owed(start, f)[c] + Owed(start, f)'[c]
    BY <1>13, SharesStep
  <2> QED
    BY <1>14, <2>1
<1>17. ClaimsOK(start)'
  <2>1. PICK front \in 0..opt : CoveredBefore(start, front) /\ SeesEarlier(start, front)
    BY DEF ClaimsOK
  <2>2. front \in Int /\ front <= opt /\ front \in 0..opt1
    BY <1>7, <1>8, <1>10
  <2>3. CoveredBefore(start, front)'
    <3>1. SumOver(Owed(start, front))' = SumOver(Owed(start, front))
      BY <1>16, <2>2
    <3> QED
      BY <1>6, <2>1, <3>1 DEF CoveredBefore
  <2>4. SeesEarlier(start, front)'
    <3> SUFFICES ASSUME NEW d \in Consumers, NEW mine \in Indices,
                        consumer'[d].pc = "check",
                        mine = Offset(start, consumer'[d].mine), mine >= front
                 PROVE  head + SumOver(Owed(start, mine))' <= mine - consumer'[d].over
      BY <1>6 DEF SeesEarlier
    <3>1. mine \in Int
      BY ModulusIs DEF Indices
    <3>2. CASE d = c
      <4>1. mine = opt
        BY <1>5, <3>2
      <4>2. /\ SumOver(Owed(start, mine)) <= SumOver(Pending)
            /\ SumOver(Owed(start, mine))' = SumOver(Owed(start, mine))
            /\ SumOver(Owed(start, mine)) \in Nat
        BY <1>16, <3>1, <4>1, OwedIsAnnounced
      <4>3. opt = dequeueOvercommit + head + SumOver(Pending)
        BY DEF CountersOK
      <4>4. me.over <= dequeueOvercommit
        BY <1>4, <1>7
      <4> QED
        BY <1>5, <1>7, <1>8, <3>2, <4>1, <4>2, <4>3, <4>4
    <3>3. CASE d # c
      <4>1. consumer'[d] = consumer[d] /\ consumer[d].pc = "check"
        BY <1>13, <3>3
      <4>2. mine < opt
        BY <1>12, <3>3, <4>1
      <4>3. head + SumOver(Owed(start, mine)) <= mine - consumer[d].over
        BY <2>1, <4>1 DEF SeesEarlier
      <4>4. SumOver(Owed(start, mine))' = SumOver(Owed(start, mine))
        BY <1>7, <1>16, <3>1, <4>2
      <4> QED
        BY <4>1, <4>3, <4>4
    <3> QED
      BY <3>2, <3>3
  <2> QED
    BY <2>2, <2>3, <2>4 DEF ClaimsOK
<1> QED
  BY <1>13, <1>15, <1>17

\* What the reloaded tail grants is there: the distance that was computed
\* with wrapped indices is the one between them.
LEMMA GrantedIsThere ==
  ASSUME NEW start \in StartIndices, CountersOK(start), CallsOK(start), ClaimsOK(start),
         NEW c \in Consumers, consumer[c].pc = "check",
         NEW count, count = Granted(consumer[c]),
         NEW mine, mine = Offset(start, consumer[c].mine)
  PROVE  /\ count \in Nat /\ count <= consumer[c].want
         /\ mine \in Nat /\ mine < Offset(start, dequeueOptimisticCount)
         /\ count > 0 => count <= Offset(start, tailIndex) - mine + consumer[c].over
<1> DEFINE me == consumer[c]
           tail == Offset(start, tailIndex)
           opt == Offset(start, dequeueOptimisticCount)
           actual == Hoped(tailIndex, me.mine, me.over)
           dist == tail - mine + me.over
<1>1. /\ me.want \in 1..MaxDequeue /\ me.mine \in Indices
      /\ mine < opt /\ me.over \in 0..mine
  BY DEF CallsOK, CallOK, Claiming
<1>2. /\ start \in Indices /\ tail \in Nat /\ opt \in Nat /\ opt <= Modulus \div 2
      /\ tail < Modulus /\ tailIndex \in Indices
  BY Numbers DEF CountersOK
<1>3. mine \in Nat
  BY <1>1, <1>2, OffsetType
<1>4. me.over \in Nat /\ me.over <= mine /\ me.want \in Nat /\ me.want >= 1
  BY <1>1, <1>3, ModulusIs
<1>5. actual = Wrap(dist) /\ dist \in Int
  <2>1. Wrap(tailIndex - me.mine + me.over) = Wrap(dist)
    BY <1>1, <1>2, <1>4, OffsetDistance
  <2>2. tailIndex - (me.mine - me.over) = tailIndex - me.mine + me.over
    BY <1>1, <1>2, <1>4, ModulusIs DEF Indices
  <2>3. dist \in Int
    BY <1>2, <1>3, <1>4
  <2> QED
    BY <2>1, <2>2, <2>3 DEF Hoped
<1>6. actual \in Indices
  BY <1>5, WrapType
<1>7. CASE ~circular_less_than(0, actual)
  <2>1. count = 0
    BY <1>7 DEF Granted
  <2> QED
    BY <1>1, <1>3, <1>4, <2>1
<1>8. CASE circular_less_than(0, actual)
  <2>1. actual \in Nat /\ actual >= 1 /\ actual < Modulus - Modulus \div 2
    BY <1>6, <1>8, LessThanZero
  <2>2. actual = dist
    <3>1. CASE dist >= 0
      <4>1. dist \in Indices
        BY <1>2, <1>3, <1>4, <1>5, <3>1, ModulusIs DEF Indices
      <4> QED
        BY <1>5, <4>1, WrapSmall
    <3>2. CASE dist < 0
      <4>1. dist >= -(Modulus \div 2)
        BY <1>1, <1>2, <1>3, <1>4, ModulusIs
      <4>2. dist + Modulus \in 0..(Modulus - 1)
        BY <1>5, <3>2, <4>1, ModulusIs
      <4>3. dist = Modulus * (-1) + (dist + Modulus)
        BY <1>5, ModulusIs
      <4>4. Wrap(dist) = dist + Modulus
        BY <1>5, <4>2, <4>3, ModulusIs, ModUnique DEF Wrap
      <4> QED
        BY <1>5, <2>1, <4>1, <4>4, ModulusIs
    <3> QED
      BY <1>5, <3>1, <3>2
  <2>3. count = Smaller(me.want, actual)
    BY <1>8 DEF Granted
  <2>4. count \in Nat /\ count <= me.want /\ count <= actual
    <3> HIDE DEF actual
    <3> QED
      BY <1>4, <2>1, <2>3 DEF Smaller
  <2> QED
    BY <1>1, <1>3, <2>2, <2>4
<1> QED
  BY <1>7, <1>8

LEMMA CheckKeeps ==
  ASSUME NEW start \in StartIndices, CountersOK(start), CallsOK(start), ClaimsOK(start),
         NEW c \in Consumers, Check(c)
  PROVE  CountersOK(start)' /\ CallsOK(start)' /\ ClaimsOK(start)'
<1> SUFFICES ASSUME NEW count, count = Granted(consumer[c]),
                    NEW m, m = Offset(start, consumer[c].mine),
                    NEW tail, tail = Offset(start, tailIndex),
                    NEW head, head = Offset(start, headIndex),
                    NEW opt, opt = Offset(start, dequeueOptimisticCount),
                    NEW left, left = budget.calls * MaxDequeue,
                    NEW want, want = consumer[c].want, NEW over, over = consumer[c].over
             PROVE  CountersOK(start)' /\ CallsOK(start)' /\ ClaimsOK(start)'
  OBVIOUS
<1>1. /\ consumer[c].pc = "check"
      /\ consumer' = [consumer EXCEPT ![c] =
          [Goes(c, IF count < want THEN "giveback" ELSE "advance")
             EXCEPT !.count = count, !.mine = 0, !.over = 0]]
  BY DEF Check
<1>2. DOMAIN consumer = Consumers /\ CallOK(start, consumer[c])
  BY DEF CallsOK
<1>3. /\ consumer' = [consumer EXCEPT ![c] = consumer'[c]]
      /\ consumer'[c] = [Goes(c, IF count < want THEN "giveback" ELSE "advance")
                           EXCEPT !.count = count, !.mine = 0, !.over = 0]
  BY <1>1, <1>2
<1>4. /\ DOMAIN consumer[c] = CallFields /\ want \in 1..MaxDequeue
      /\ over \in 0..m /\ consumer[c].mine \in Indices
  BY <1>1, <1>2 DEF CallOK, Claiming
<1>5. /\ DOMAIN consumer'[c] = CallFields
      /\ consumer'[c].pc = IF count < want THEN "giveback" ELSE "advance"
      /\ consumer'[c].want = want /\ consumer'[c].count = count
  BY <1>3, <1>4, RestingCall DEF Goes
<1>6. /\ UNCHANGED <<tailIndex, headIndex, dequeueOptimisticCount, dequeueOvercommit, budget>>
      /\ headIndex \in Indices /\ dequeueOvercommit \in Indices
      /\ dequeueOptimisticCount \in Indices
      /\ budget' \in [calls: Nat, elements: Nat, throws: Nat]
  BY DEF Check, sharedByClaim, CountersOK
<1>7. /\ left \in Nat /\ head \in Nat /\ dequeueOvercommit \in Nat /\ MaxDequeue \in Nat
      /\ tail \in Nat /\ start \in Indices /\ opt \in Nat
  BY Numbers, ModulusIs
<1>8. /\ count \in Nat /\ count <= want /\ m \in Nat /\ m < opt
      /\ count > 0 => count <= tail - m + over
  BY <1>1, GrantedIsThere
<1>9. want \in Nat /\ want >= 1 /\ over \in Nat /\ over <= m
  BY <1>4, <1>7, <1>8
<1>10. CallOK(start, consumer[c])'
  <2>1. CASE count < want
    <3>1. count \in 0..(want - 1)
      BY <1>8, <1>9, <2>1
    <3> QED
      BY <1>4, <1>5, <2>1, <3>1 DEF CallOK, Entering, Claiming, TakingPcs
  <2>2. CASE ~(count < want)
    <3>1. count = want
      BY <1>8, <1>9, <2>2
    <3> QED
      BY <1>4, <1>5, <2>2, <3>1 DEF CallOK, Entering, Claiming, TakingPcs
  <2> QED
    BY <2>1, <2>2
<1>11. CallsOK(start)' /\ \A d \in Consumers \ {c} : consumer'[d] = consumer[d]
  <2>1. /\ dequeueOvercommit \in Int /\ dequeueOvercommit' \in Int
        /\ dequeueOvercommit <= dequeueOvercommit'
        /\ Offset(start, dequeueOptimisticCount) \in Int
        /\ Offset(start, dequeueOptimisticCount') \in Int
        /\ Offset(start, dequeueOptimisticCount) <= Offset(start, dequeueOptimisticCount')
    BY <1>6, <1>7
  <2>2. consumer'[c].pc # "check"
    BY <1>5
  <2> QED
    BY <1>3, <1>10, <2>1, <2>2, CallsStep
<1>12. /\ MayAnnounce[c] = 0 /\ MayAnnounce'[c] = 0
       /\ Pending[c] = want /\ Pending'[c] = want
       /\ \A f \in Int : Owed(start, f)'[c] = count
       /\ \A f \in Int : Owed(start, f)[c] = IF m < f THEN want ELSE 0
  <2>1. /\ MayAnnounce[c] = 0 /\ MayAnnounce'[c] = 0
        /\ Pending[c] = want /\ Pending'[c] = want
    BY <1>1, <1>5 DEF MayAnnounce, Pending, Entering
  <2>2. ASSUME NEW f \in Int PROVE Owed(start, f)'[c] = count
    BY <1>5 DEF Owed
  <2>3. ASSUME NEW f \in Int PROVE Owed(start, f)[c] = IF m < f THEN want ELSE 0
    BY <1>1 DEF Owed
  <2> QED
    BY <2>1, <2>2, <2>3
<1>13. CountersOK(start)'
  <2>1. opt + left + MayAnnounce'[c] <= opt + left + MayAnnounce[c]
    BY <1>7, <1>12
  <2>2. opt - dequeueOvercommit' - head - Pending'[c] =
          opt - dequeueOvercommit - head - Pending[c]
    BY <1>6, <1>12
  <2>3. /\ head = Offset(start, headIndex') /\ left = budget'.calls * MaxDequeue
        /\ opt = Offset(start, dequeueOptimisticCount')
        /\ headIndex' \in Indices /\ dequeueOvercommit' \in Indices
        /\ dequeueOptimisticCount' \in Indices
        /\ budget'.elements = budget.elements /\ left \in Int
    BY <1>6, <1>7
  <2> QED
    BY <1>6, <1>7, <1>11, <2>1, <2>2, <2>3, CountersStep
<1>14. \A f \in Int :
         /\ SumOver(Owed(start, f)) \in Nat /\ SumOver(Owed(start, f))' \in Nat
         /\ SumOver(Owed(start, f))' =
              SumOver(Owed(start, f)) - (IF m < f THEN want ELSE 0) + count
  <2> SUFFICES ASSUME NEW f \in Int
               PROVE  /\ SumOver(Owed(start, f)) \in Nat /\ SumOver(Owed(start, f))' \in Nat
                      /\ SumOver(Owed(start, f))' =
                           SumOver(Owed(start, f)) - (IF m < f THEN want ELSE 0) + count
    OBVIOUS
  <2>1. /\ SumOver(Owed(start, f)) \in Nat /\ SumOver(Owed(start, f))' \in Nat
        /\ SumOver(Owed(start, f))' =
             SumOver(Owed(start, f)) - Owed(start, f)[c] + Owed(start, f)'[c]
    BY <1>11, SharesStep
  <2> QED
    BY <1>12, <2>1
<1>15. PICK front \in 0..opt : CoveredBefore(start, front) /\ SeesEarlier(start, front)
  BY DEF ClaimsOK
<1>16. front \in Int /\ head + SumOver(Owed(start, front)) <= tail
  BY <1>15 DEF CoveredBefore
\* Whoever announced itself after c counts what c wanted.
<1>17. ASSUME NEW g \in Int, g >= front, g <= opt,
              head + SumOver(Owed(start, g))' <= tail, m < g \/ count = 0
       PROVE  ClaimsOK(start)'
  <2>1. CoveredBefore(start, g)'
    BY <1>6, <1>17 DEF CoveredBefore
  <2>2. SeesEarlier(start, g)'
    <3> SUFFICES ASSUME NEW d \in Consumers, NEW mine \in Indices,
                        consumer'[d].pc = "check",
                        mine = Offset(start, consumer'[d].mine), mine >= g
                 PROVE  head + SumOver(Owed(start, mine))' <= mine - consumer'[d].over
      BY <1>6 DEF SeesEarlier
    <3>1. mine \in Int
      BY ModulusIs DEF Indices
    <3>2. d # c
      BY <1>5
    <3>3. consumer'[d] = consumer[d] /\ consumer[d].pc = "check"
      BY <1>11, <3>2
    <3>4. head + SumOver(Owed(start, mine)) <= mine - consumer[d].over
      <4>1. mine >= front
        BY <1>16, <1>17, <3>1
      <4> QED
        BY <1>15, <3>3, <4>1 DEF SeesEarlier
    <3>5. consumer[d].over \in Int
      BY <3>3 DEF CallsOK, CallOK
    <3>6. SumOver(Owed(start, mine))' <= SumOver(Owed(start, mine))
      <4>1. m < mine \/ count = 0
        BY <1>8, <1>17, <3>1
      <4> QED
        BY <1>8, <1>9, <1>14, <3>1, <4>1
    <3>7. SumOver(Owed(start, mine)) \in Nat /\ SumOver(Owed(start, mine))' \in Nat
      BY <1>14, <3>1
    <3> QED
      BY <1>7, <3>1, <3>3, <3>4, <3>5, <3>6, <3>7
  <2>3. g \in 0..opt /\ opt = Offset(start, dequeueOptimisticCount)'
    BY <1>6, <1>7, <1>15, <1>17
  <2> QED
    BY <2>1, <2>2, <2>3 DEF ClaimsOK
<1>18. CASE m < front \/ count = 0
  <2>1. /\ SumOver(Owed(start, front)) \in Nat /\ SumOver(Owed(start, front))' \in Nat
        /\ SumOver(Owed(start, front))' <= SumOver(Owed(start, front))
    BY <1>8, <1>9, <1>14, <1>16, <1>18
  <2>2. head + SumOver(Owed(start, front))' <= tail
    BY <1>7, <1>16, <2>1
  <2> QED
    BY <1>11, <1>13, <1>15, <1>16, <1>17, <1>18, <2>2
<1>19. CASE ~(m < front) /\ count # 0
  <2>1. m \in Int /\ m + 1 \in Int /\ m >= front /\ m + 1 <= opt /\ m + 1 >= front
    BY <1>7, <1>8, <1>16, <1>19
  <2>2. m \in Indices
    BY <1>4, <1>7, OffsetType DEF Indices
  <2>3. head + SumOver(Owed(start, m)) <= m - over
    BY <1>1, <1>15, <2>1, <2>2 DEF SeesEarlier
  <2>4. SumOver(Owed(start, m + 1)) = SumOver(Owed(start, m)) + want
    <3>1. /\ Owed(start, m) \in [Consumers -> Nat] /\ Owed(start, m + 1) \in [Consumers -> Nat]
      BY <2>1, Shares DEF SharesAreNumbers
    <3>2. ASSUME NEW d \in Consumers \ {c}
          PROVE  Owed(start, m + 1)[d] = Owed(start, m)[d]
      <4>1. CASE consumer[d].pc = "check"
        <5>1. consumer[d].mine \in Indices /\ consumer[d].mine # consumer[c].mine
          BY <1>1, <4>1 DEF CallsOK, CallOK
        <5>2. Offset(start, consumer[d].mine) \in Nat /\ Offset(start, consumer[d].mine) # m
          BY <1>4, <1>7, <5>1, OffsetType, OffsetInjective
        <5>3. Offset(start, consumer[d].mine) < m + 1 <=> Offset(start, consumer[d].mine) < m
          BY <1>8, <5>2
        <5> QED
          BY <4>1, <5>3 DEF Owed
      <4>2. CASE consumer[d].pc # "check"
        BY <4>2 DEF Owed
      <4> QED
        BY <4>1, <4>2
    <3>3. Owed(start, m + 1)[c] = want /\ Owed(start, m)[c] = 0
      BY <1>8, <1>12, <2>1
    <3>4. SumOver(Owed(start, m + 1)) =
            SumOver(Owed(start, m)) - Owed(start, m)[c] + Owed(start, m + 1)[c]
      BY <3>1, <3>2, SumChange
    <3>5. SumOver(Owed(start, m)) \in Nat
      BY <1>14, <2>1
    <3> QED
      BY <1>9, <3>3, <3>4, <3>5
  <2>5. SumOver(Owed(start, m + 1))' = SumOver(Owed(start, m)) + count
    <3>1. SumOver(Owed(start, m)) \in Nat /\ SumOver(Owed(start, m + 1)) \in Nat
      BY <1>14, <2>1
    <3>2. SumOver(Owed(start, m + 1))' = SumOver(Owed(start, m + 1)) - want + count
      BY <1>8, <1>14, <2>1
    <3> QED
      BY <1>8, <1>9, <2>4, <3>1, <3>2
  <2>6. SumOver(Owed(start, m)) \in Nat
    BY <1>14, <2>1
  <2>7. head + SumOver(Owed(start, m + 1))' <= tail
    BY <1>7, <1>8, <1>9, <1>19, <2>3, <2>5, <2>6
  <2>8. m < m + 1
    BY <2>1
  <2> QED
    BY <1>11, <1>13, <1>17, <2>1, <2>7, <2>8
<1> QED
  BY <1>18, <1>19

\* The steps that take elements leave all that alone.
LEMMA TakingKeeps ==
  ASSUME NEW start \in StartIndices, CountersOK(start), CallsOK(start), ClaimsOK(start),
         NEW c \in Consumers, NEW r, consumer' = [consumer EXCEPT ![c] = r],
         consumer[c].pc \in TakingPcs, DOMAIN r = CallFields,
         r.pc \in {"idle"} \cup TakingPcs,
         UNCHANGED <<tailIndex, headIndex, dequeueOptimisticCount, dequeueOvercommit, budget>>
  PROVE  CountersOK(start)' /\ CallsOK(start)' /\ ClaimsOK(start)'
<1>1. DOMAIN consumer = Consumers
  BY DEF CallsOK
<1>2. consumer'[c] = r /\ consumer' = [consumer EXCEPT ![c] = consumer'[c]]
  BY <1>1
<1>3. CallOK(start, consumer[c])'
  BY <1>2 DEF CallOK, Entering, Claiming, TakingPcs
<1>4. /\ MayAnnounce[c] = 0 /\ MayAnnounce'[c] = 0 /\ Pending[c] = 0 /\ Pending'[c] = 0
      /\ GrantedTo[c] = 0 /\ GrantedTo'[c] = 0
  BY <1>2 DEF MayAnnounce, Pending, GrantedTo, Entering, TakingPcs
<1>5. /\ headIndex' \in Indices /\ dequeueOvercommit' \in Indices
      /\ budget' \in [calls: Nat, elements: Nat, throws: Nat]
      /\ budget.calls * MaxDequeue \in Nat /\ Offset(start, headIndex) \in Nat
      /\ dequeueOvercommit \in Nat
  BY Numbers DEF CountersOK
<1>6. /\ budget'.calls * MaxDequeue + MayAnnounce'[c] <= budget.calls * MaxDequeue + MayAnnounce[c]
      /\ Offset(start, headIndex') + GrantedTo'[c] <= Offset(start, headIndex) + GrantedTo[c]
      /\ dequeueOvercommit' + Offset(start, headIndex') + Pending'[c] =
           dequeueOvercommit + Offset(start, headIndex) + Pending[c]
      /\ dequeueOvercommit <= dequeueOvercommit'
      /\ consumer[c].pc # "check" /\ consumer'[c].pc # "check"
  BY <1>2, <1>4, <1>5 DEF TakingPcs
<1> QED
  BY <1>2, <1>3, <1>5, <1>6, QuietStep

LEMMA NextBlockCall ==
  ASSUME NEW me, DOMAIN me = CallFields, NEW size
  PROVE  /\ DOMAIN NextBlock(me, size) = CallFields
         /\ NextBlock(me, size).pc \in {"idle", "take"}
BY RestingCall DEF NextBlock

LEMMA ClaimNextKeeps ==
  ASSUME NEW start \in StartIndices, CountersOK(start), CallsOK(start), ClaimsOK(start),
         ClaimNext
  PROVE  CountersOK(start)' /\ CallsOK(start)' /\ ClaimsOK(start)'
BY LoadTailKeeps, LoadOvercommitKeeps, TestOptimisticKeeps, ClaimKeeps, CheckKeeps,
   GiveBackKeeps, AdvanceKeeps DEF ClaimNext

LEMMA TakeNextKeeps ==
  ASSUME NEW start \in StartIndices, CountersOK(start), CallsOK(start), ClaimsOK(start),
         TakeNext
  PROVE  CountersOK(start)' /\ CallsOK(start)' /\ ClaimsOK(start)'
<1>1. PICK c \in Consumers : LoadIndex(c) \/ LoadFront(c) \/ Take(c) \/ SetEmpty(c)
  BY DEF TakeNext
<1>2. DOMAIN consumer[c] = CallFields
  BY DEF CallsOK, CallOK
<1>3. CASE LoadIndex(c)
  <2> DEFINE r == [Goes(c, "front") EXCEPT !.header = Len(headers)]
  <2>1. DOMAIN r = CallFields /\ r.pc = "front"
    BY <1>2, RestingCall DEF Goes
  <2>2. consumer' = [consumer EXCEPT ![c] = r] /\ consumer[c].pc = "header"
    BY <1>3 DEF LoadIndex
  <2> HIDE DEF r
  <2> QED
    BY <1>3, <2>1, <2>2, TakingKeeps DEF LoadIndex, sharedByTake, TakingPcs
<1>4. CASE LoadFront(c)
  <2> DEFINE h == headers[consumer[c].header]
             r == [Goes(c, "take") EXCEPT !.pos = Position(h, h.front, consumer[c].index)]
  <2>1. DOMAIN r = CallFields /\ r.pc = "take"
    BY <1>2, RestingCall DEF Goes
  <2>2. consumer' = [consumer EXCEPT ![c] = r] /\ consumer[c].pc = "front"
    BY <1>4 DEF LoadFront
  <2> HIDE DEF r
  <2> QED
    BY <1>4, <2>1, <2>2, TakingKeeps DEF LoadFront, sharedByTake, TakingPcs
<1>5. CASE Take(c)
  <2> DEFINE r == [Goes(c, "empty") EXCEPT !.block = BlockAt(consumer[c])]
  <2>1. DOMAIN r = CallFields /\ r.pc = "empty"
    BY <1>2, RestingCall DEF Goes
  <2>2. consumer' = [consumer EXCEPT ![c] = r] /\ consumer[c].pc = "take"
    BY <1>5 DEF Take
  <2> HIDE DEF r
  <2> QED
    BY <1>5, <2>1, <2>2, TakingKeeps DEF Take, sharedByTake, TakingPcs
<1>6. CASE SetEmpty(c)
  <2> DEFINE r == NextBlock(consumer[c], headers[consumer[c].header].size)
  <2>1. DOMAIN r = CallFields /\ r.pc \in {"idle", "take"}
    BY <1>2, NextBlockCall
  <2>2. consumer' = [consumer EXCEPT ![c] = r] /\ consumer[c].pc = "empty"
    BY <1>6 DEF SetEmpty
  <2> HIDE DEF r
  <2> QED
    BY <1>6, <2>1, <2>2, TakingKeeps DEF SetEmpty, sharedByTake, TakingPcs
<1> QED
  BY <1>1, <1>3, <1>4, <1>5, <1>6

LEMMA ImTakeNextKeeps ==
  ASSUME NEW start \in StartIndices, CountersOK(start), CallsOK(start), ClaimsOK(start),
         ImTakeNext
  PROVE  CountersOK(start)' /\ CallsOK(start)' /\ ClaimsOK(start)'
<1>1. PICK c \in Consumers :
        \/ ImLoadIndex(c) \/ ImLoadTail(c) \/ ImLoadKey(c) \/ ImTake(c)
        \/ ImSetEmpty(c) \/ ImUnlink(c) \/ ImFree(c)
  BY DEF ImTakeNext
<1>2. DOMAIN consumer[c] = CallFields
  BY DEF CallsOK, CallOK
<1>g. ASSUME NEW pc PROVE DOMAIN Goes(c, pc) = CallFields /\ Goes(c, pc).pc = pc
  BY <1>2, RestingCall DEF Goes
<1>3. CASE ImLoadIndex(c)
  <2> DEFINE r == [Goes(c, "front") EXCEPT !.header = Len(imHeaders)]
  <2>1. DOMAIN r = CallFields /\ r.pc = "front"
    BY <1>2, RestingCall DEF Goes
  <2>2. consumer' = [consumer EXCEPT ![c] = r] /\ consumer[c].pc = "header"
    BY <1>3 DEF ImLoadIndex
  <2> HIDE DEF r
  <2> QED
    BY <1>3, <2>1, <2>2, TakingKeeps DEF ImLoadIndex, sharedByImTake, TakingPcs
<1>4. CASE ImLoadTail(c)
  <2> DEFINE r == [Goes(c, "key") EXCEPT !.pos = imHeaders[consumer[c].header].tail]
  <2>1. DOMAIN r = CallFields /\ r.pc = "key"
    BY <1>2, RestingCall DEF Goes
  <2>2. consumer' = [consumer EXCEPT ![c] = r] /\ consumer[c].pc = "front"
    BY <1>4 DEF ImLoadTail
  <2> HIDE DEF r
  <2> QED
    BY <1>4, <2>1, <2>2, TakingKeeps DEF ImLoadTail, sharedByImTake, TakingPcs
<1>5. CASE ImLoadKey(c)
  <2> DEFINE r == [Goes(c, "take") EXCEPT
                     !.pos = ImPosition(imHeaders[consumer[c].header], consumer[c].pos,
                                        consumer[c].index)]
  <2>1. DOMAIN r = CallFields /\ r.pc = "take"
    BY <1>2, RestingCall DEF Goes
  <2>2. consumer' = [consumer EXCEPT ![c] = r] /\ consumer[c].pc = "key"
    BY <1>5 DEF ImLoadKey
  <2> HIDE DEF r
  <2> QED
    BY <1>5, <2>1, <2>2, TakingKeeps DEF ImLoadKey, sharedByImTake, TakingPcs
<1>6. CASE ImTake(c)
  <2> DEFINE r == [Goes(c, "empty") EXCEPT
                     !.block = imEntries[EntryAt(consumer[c])].value]
  <2>1. DOMAIN r = CallFields /\ r.pc = "empty"
    BY <1>2, RestingCall DEF Goes
  <2>2. consumer' = [consumer EXCEPT ![c] = r] /\ consumer[c].pc = "take"
    BY <1>6 DEF ImTake
  <2> HIDE DEF r
  <2> QED
    BY <1>6, <2>1, <2>2, TakingKeeps DEF ImTake, sharedByImTake, TakingPcs
<1>7. CASE ImSetEmpty(c)
  <2> DEFINE n == NextBlock(consumer[c], imHeaders[consumer[c].header].capacity)
             r == IF emptied'[consumer[c].block] = AllSlots THEN Goes(c, "unlink") ELSE n
  <2>1. DOMAIN n = CallFields /\ n.pc \in {"idle", "take"}
    BY <1>2, NextBlockCall
  <2>2. consumer' = [consumer EXCEPT ![c] = r] /\ consumer[c].pc = "empty"
    BY <1>7 DEF ImSetEmpty
  <2> HIDE DEF n
  <2>3. DOMAIN r = CallFields /\ r.pc \in {"idle", "take", "unlink"}
    BY <1>g, <2>1
  <2> HIDE DEF r
  <2> QED
    BY <1>7, <2>2, <2>3, TakingKeeps DEF ImSetEmpty, sharedByImTake, TakingPcs
<1>8. CASE ImUnlink(c)
  <2> DEFINE r == Goes(c, "free")
  <2>1. consumer' = [consumer EXCEPT ![c] = r] /\ consumer[c].pc = "unlink"
    BY <1>8 DEF ImUnlink
  <2>2. DOMAIN r = CallFields /\ r.pc = "free"
    BY <1>g
  <2> HIDE DEF r
  <2> QED
    BY <1>8, <2>1, <2>2, TakingKeeps DEF ImUnlink, sharedByImTake, TakingPcs
<1>9. CASE ImFree(c)
  <2> DEFINE r == NextBlock(consumer[c], imHeaders[consumer[c].header].capacity)
  <2>1. DOMAIN r = CallFields /\ r.pc \in {"idle", "take"}
    BY <1>2, NextBlockCall
  <2>2. consumer' = [consumer EXCEPT ![c] = r] /\ consumer[c].pc = "free"
    BY <1>9 DEF ImFree
  <2> HIDE DEF r
  <2> QED
    BY <1>9, <2>1, <2>2, TakingKeeps DEF ImFree, sharedByImTake, TakingPcs
<1> QED
  BY <1>1, <1>3, <1>4, <1>5, <1>6, <1>7, <1>8, <1>9

-----------------------------------------------------------------------------
(* The steps of an enqueue. *)

\* The tail moves ahead by what the call had left to enqueue.
LEMMA EnqueueKeeps ==
  ASSUME NEW start \in StartIndices, CountersOK(start), CallsOK(start), ClaimsOK(start),
         NEW k \in 0..budget.elements, tailIndex' = Wrap(tailIndex + k),
         UNCHANGED <<headIndex, dequeueOptimisticCount, dequeueOvercommit, consumer>>,
         budget' \in [calls: Nat, elements: Nat, throws: Nat],
         budget'.calls = budget.calls, budget'.elements = budget.elements - k
  PROVE  CountersOK(start)' /\ CallsOK(start)' /\ ClaimsOK(start)'
<1>1. /\ start \in Indices /\ Offset(start, tailIndex) \in Nat /\ tailIndex \in Indices
      /\ k \in Nat /\ k <= budget.elements /\ budget.elements \in Nat
      /\ Offset(start, tailIndex) + budget.elements <= MaxEnqueued
      /\ MaxEnqueued \in Nat /\ MaxEnqueued < Modulus /\ Modulus \in Nat
  BY Numbers, ModulusIs DEF CountersOK
<1>2. /\ tailIndex' \in Indices
      /\ Offset(start, tailIndex') = Offset(start, tailIndex) + k
  <2>1. Offset(start, tailIndex) + k < Modulus
    BY <1>1
  <2> QED
    BY <1>1, <2>1, OffsetPlus
<1>3. /\ SumOver(Pending)' = SumOver(Pending) /\ SumOver(MayAnnounce)' = SumOver(MayAnnounce)
      /\ \A f \in Int : SumOver(Owed(start, f))' = SumOver(Owed(start, f))
  <2>1. Pending' = Pending /\ MayAnnounce' = MayAnnounce
    BY DEF Pending, MayAnnounce
  <2>2. \A f \in Int : Owed(start, f)' = Owed(start, f)
    BY DEF Owed
  <2> QED
    BY <2>1, <2>2
<1>4. CountersOK(start)'
  <2>1. Offset(start, tailIndex') + budget'.elements <= MaxEnqueued
    BY <1>1, <1>2
  <2> QED
    BY <1>2, <1>3, <2>1 DEF CountersOK
<1>5. CallsOK(start)'
  BY DEF CallsOK, CallOK
<1>6. ClaimsOK(start)'
  <2>1. PICK front \in 0..Offset(start, dequeueOptimisticCount) :
          CoveredBefore(start, front) /\ SeesEarlier(start, front)
    BY DEF ClaimsOK
  <2>2. /\ front \in Int /\ Offset(start, headIndex) \in Nat
        /\ SumOver(Owed(start, front)) \in Nat
    <3>1. front \in Int /\ Offset(start, headIndex) \in Nat
      BY Numbers
    <3> QED
      BY <3>1, OwedIsAnnounced
  <2>3. CoveredBefore(start, front)'
    BY <1>1, <1>2, <1>3, <2>1, <2>2 DEF CoveredBefore
  <2>4. SeesEarlier(start, front)'
    <3>1. \A mine \in Indices : SumOver(Owed(start, mine))' = SumOver(Owed(start, mine))
      BY <1>3, ModulusIs DEF Indices
    <3> SUFFICES ASSUME NEW d \in Consumers, NEW mine \in Indices,
                        consumer'[d].pc = "check",
                        mine = Offset(start, consumer'[d].mine), mine >= front
                 PROVE  Offset(start, headIndex') + SumOver(Owed(start, mine))'
                          <= mine - consumer'[d].over
      BY DEF SeesEarlier
    <3> QED
      BY <2>1, <3>1 DEF SeesEarlier
  <2> QED
    BY <2>1, <2>3, <2>4 DEF ClaimsOK
<1> QED
  BY <1>4, <1>5, <1>6

\* ... and by nothing in the steps before.
LEMMA PreparingKeeps ==
  ASSUME NEW start \in StartIndices, CountersOK(start), CallsOK(start), ClaimsOK(start),
         UNCHANGED sharedByEnqueue,
         budget' \in [calls: Nat, elements: Nat, throws: Nat],
         budget'.calls = budget.calls, budget'.elements = budget.elements
  PROVE  CountersOK(start)' /\ CallsOK(start)' /\ ClaimsOK(start)'
<1>1. /\ tailIndex \in Indices /\ tailIndex + 0 = tailIndex /\ 0 \in 0..budget.elements
      /\ budget.elements - 0 = budget.elements
  BY ModulusIs DEF CountersOK, Indices
<1>2. tailIndex' = Wrap(tailIndex + 0)
  BY <1>1, WrapSmall DEF sharedByEnqueue
<1> QED
  BY <1>1, <1>2, EnqueueKeeps DEF sharedByEnqueue

BudgetOK == budget \in [calls: Nat, elements: Nat, throws: Nat]

\* A step of the enqueueing thread, whose call is p: it prepares, or stores
\* the tail.
EnqueueStep(p) ==
  /\ BudgetOK' /\ budget'.calls = budget.calls
  /\ \/ UNCHANGED sharedByEnqueue /\ budget'.elements = budget.elements
     \/ /\ p.count \in 0..budget.elements
        /\ tailIndex' = Wrap(tailIndex + p.count)
        /\ UNCHANGED <<headIndex, dequeueOptimisticCount, dequeueOvercommit, consumer>>
        /\ budget'.elements = budget.elements - p.count

LEMMA ThrowsBudget ==
  ASSUME BudgetOK, Throws
  PROVE  BudgetOK' /\ budget'.calls = budget.calls /\ budget'.elements = budget.elements
BY DEF BudgetOK, Throws

LEMMA StartsCall ==
  ASSUME NEW count, NEW throwing, NEW pc
  PROVE  /\ DOMAIN Starts(count, throwing, pc) = DOMAIN AtRest
         /\ DOMAIN Writes(count, throwing, pc) = DOMAIN Waiting
         /\ Starts(count, throwing, pc).count = count
         /\ Writes(count, throwing, pc).count = count
BY DEF Starts, Writes, AtRest, Waiting

LEMMA OneElement ==
  ASSUME BudgetOK, UNCHANGED budget, budget.elements > 0,
         NEW b, NEW throwing, NEW pc,
         prod' = [Starts(1, throwing, pc) EXCEPT !.first = b]
  PROVE  EnqueueOK(prod)'
<1>1. 1 \in 0..budget'.elements
  BY DEF BudgetOK
<1>2. DOMAIN prod' = DOMAIN AtRest /\ prod'.count = 1
  BY StartsCall DEF AtRest
<1> QED
  BY <1>1, <1>2 DEF EnqueueOK, AtRest

LEMMA RestIsOK == EnqueueOK(AtRest)' /\ EnqueueOK(Waiting)' /\ EnqueueOK(AtRest) /\ EnqueueOK(Waiting)
BY DEF EnqueueOK, AtRest, Waiting

LEMMA ProducerStep ==
  ASSUME BudgetOK, EnqueueOK(prod), ProducerNext
  PROVE  EnqueueStep(prod) /\ EnqueueOK(prod)'
<1> USE DEF EnqueueStep
<1>s. ASSUME UNCHANGED budget PROVE BudgetOK'
  BY <1>s DEF BudgetOK
<1>f. ASSUME UNCHANGED budget, UNCHANGED sharedByEnqueue, EnqueueOK(prod)'
      PROVE  EnqueueStep(prod) /\ EnqueueOK(prod)'
  BY <1>f, <1>s
<1>1. CASE Enqueue
  <2>1. PICK throwing \in CtorMayThrow : prod' = Starts(1, throwing, "place")
    BY <1>1 DEF Enqueue
  <2>2. EnqueueOK(prod)'
    BY <1>1, <2>1 DEF Enqueue, EnqueueOK, Starts, AtRest, BudgetOK
  <2> QED
    BY <1>1, <2>2, <1>f DEF Enqueue, keptByEnqueue
<1>2. CASE EnqueueReuse
  <2>1. PICK throwing \in CtorMayThrow :
          prod' = [Starts(1, throwing, AfterAcquire(throwing)) EXCEPT !.first = tailBlock']
    BY <1>2 DEF EnqueueReuse
  <2>2. EnqueueOK(prod)'
    BY <1>2, <2>1, OneElement DEF EnqueueReuse
  <2> QED
    BY <1>2, <2>2, <1>f DEF EnqueueReuse, keptByEnqueue
<1>3. CASE EnqueueNewBlock
  <2>1. \/ prod' = prod
        \/ \E b \in requisition_block, throwing \in CtorMayThrow :
             prod' = [Starts(1, throwing, AfterAcquire(throwing)) EXCEPT !.first = b]
    BY <1>3 DEF EnqueueNewBlock
  <2>2. UNCHANGED budget /\ UNCHANGED sharedByEnqueue /\ budget.elements > 0
    BY <1>3 DEF EnqueueNewBlock, keptByEnqueue
  <2>3. CASE prod' = prod
    BY <2>2, <2>3, <1>f DEF EnqueueOK
  <2>4. CASE \E b \in requisition_block, throwing \in CtorMayThrow :
             prod' = [Starts(1, throwing, AfterAcquire(throwing)) EXCEPT !.first = b]
    <3>1. EnqueueOK(prod)'
      BY <2>2, <2>4, OneElement
    <3> QED
      BY <2>2, <3>1, <1>f
  <2> QED
    BY <2>1, <2>3, <2>4
<1>4. CASE Place
  <2>1. EnqueueOK(prod)'
    BY <1>4 DEF Place, EnqueueOK
  <2> QED
    BY <1>4, <2>1, <1>f DEF Place, keptByEnqueue
<1>r. ASSUME UNCHANGED sharedByEnqueue, prod' = AtRest, Throws \/ UNCHANGED budget
      PROVE  EnqueueStep(prod) /\ EnqueueOK(prod)'
  <2>1. EnqueueOK(prod)'
    BY <1>r, RestIsOK DEF EnqueueOK
  <2> QED
    BY <1>r, <1>f, <2>1, ThrowsBudget
<1>5. CASE PlaceThrows
  BY <1>5, <1>r DEF PlaceThrows
<1>6. CASE WriteEntry
  <2>1. EnqueueOK(prod)'
    BY <1>6 DEF WriteEntry, EnqueueOK
  <2> QED
    BY <1>6, <2>1, <1>f DEF WriteEntry, keptByEnqueue
<1>7. CASE StoreFront
  <2>1. EnqueueOK(prod)'
    BY <1>7 DEF StoreFront, EnqueueOK
  <2> QED
    BY <1>7, <2>1, <1>f DEF StoreFront, keptByEnqueue
<1>8. CASE StoreTail
  <2>1. prod.count \in 0..budget.elements /\ prod.count \in Nat /\ budget.elements \in Nat
    BY <1>8 DEF StoreTail, EnqueueOK, BudgetOK
  <2>2. /\ BudgetOK' /\ budget'.calls = budget.calls
        /\ budget'.elements = budget.elements - prod.count
    BY <1>8, <2>1 DEF StoreTail, BudgetOK
  <2>3. EnqueueOK(prod)'
    BY <1>8, RestIsOK DEF StoreTail, EnqueueOK
  <2> QED
    BY <1>8, <2>1, <2>2, <2>3 DEF StoreTail
<1>9. CASE EnqueueBulk
  <2>1. PICK count \in BulkSizes, throwing \in CtorMayThrow :
          /\ count <= budget.elements
          /\ prod' = [Starts(count, throwing,
                          IF BlocksNeeded(count) = 0 THEN "fill" ELSE "ahead")
                     EXCEPT !.bulk = TRUE, !.left = BlocksNeeded(count),
                            !.base = Base(Wrap(tailIndex - 1))]
    BY <1>9 DEF EnqueueBulk
  <2>2. count \in 0..budget.elements
    BY <2>1, BulkAssumption DEF BudgetOK
  <2>3. UNCHANGED budget /\ UNCHANGED sharedByEnqueue
    BY <1>9 DEF EnqueueBulk, keptByEnqueue
  <2>4. EnqueueOK(prod)'
    BY <2>1, <2>2, <2>3 DEF EnqueueOK, Starts, AtRest
  <2> QED
    BY <2>3, <2>4, <1>f
<1>10. CASE TakeAhead
  <2>1. \/ prod' = [prod EXCEPT !.pc = "pools"]
        \/ \E b, n : prod' = [prod EXCEPT !.first = b, !.base = n,
                                       !.left = @ - 1, !.pc = "ahead"]
    BY <1>10 DEF TakeAhead, BlockAcquired
  <2>2. prod.pc # "idle" /\ UNCHANGED budget /\ UNCHANGED sharedByEnqueue
    BY <1>10 DEF TakeAhead, keptByEnqueue
  <2>3. EnqueueOK(prod)'
    BY <2>1, <2>2 DEF EnqueueOK
  <2> QED
    BY <2>2, <2>3, <1>f
<1>11. CASE TakeFromPools
  <2> DEFINE front == IF IndexFull THEN prod.used ELSE prod.front
  <2>1. \/ prod' = AtRest
        \/ \E b \in requisition_block :
             prod' = [prod EXCEPT !.first = FirstIs(b), !.base = NextBase,
                                  !.left = @ - 1, !.front = front]
    BY <1>11 DEF TakeFromPools, BulkGivesUp
  <2>2. prod.pc # "idle" /\ UNCHANGED budget /\ UNCHANGED sharedByEnqueue
    BY <1>11 DEF TakeFromPools
  <2>3. CASE prod' = AtRest
    BY <2>2, <2>3, <1>r
  <2>4. CASE \E b \in requisition_block :
               prod' = [prod EXCEPT !.first = FirstIs(b), !.base = NextBase,
                                    !.left = @ - 1, !.front = front]
    <3>1. EnqueueOK(prod)'
      BY <2>2, <2>4 DEF EnqueueOK
    <3> QED
      BY <2>2, <3>1, <1>f
  <2> QED
    BY <2>1, <2>3, <2>4
<1>12. CASE BulkFails
  BY <1>12, <1>r DEF BulkFails, BulkGivesUp
<1>13. CASE ResetAndPublish
  <2>1. EnqueueOK(prod)'
    BY <1>13 DEF ResetAndPublish, EnqueueOK
  <2> QED
    BY <1>13, <2>1, <1>f DEF ResetAndPublish, keptByEnqueue
<1>14. CASE Fill
  <2>1. EnqueueOK(prod)'
    BY <1>14 DEF Fill, EnqueueOK
  <2> QED
    BY <1>14, <2>1, <1>f DEF Fill, keptByEnqueue
<1>15. CASE FillThrows
  BY <1>15, <1>r DEF FillThrows, BulkGivesUp
<1>16. CASE PublishBulk
  <2>1. EnqueueOK(prod)'
    BY <1>16 DEF PublishBulk, EnqueueOK
  <2> QED
    BY <1>16, <2>1, <1>f DEF PublishBulk, keptByEnqueue
<1> QED
  BY <1>1, <1>2, <1>3, <1>4, <1>5, <1>6, <1>7, <1>8, <1>9, <1>10, <1>11, <1>12,
     <1>13, <1>14, <1>15, <1>16 DEF ProducerNext

LEMMA WriterStep ==
  ASSUME BudgetOK, EnqueueOK(writer), WriterNext
  PROVE  EnqueueStep(writer) /\ EnqueueOK(writer)'
<1> USE DEF EnqueueStep
<1>s. ASSUME UNCHANGED budget PROVE BudgetOK'
  BY <1>s DEF BudgetOK
<1>f. ASSUME UNCHANGED budget, UNCHANGED sharedByEnqueue, EnqueueOK(writer)'
      PROVE  EnqueueStep(writer) /\ EnqueueOK(writer)'
  BY <1>f, <1>s
<1>r. ASSUME UNCHANGED sharedByEnqueue, writer' = Waiting, Throws \/ UNCHANGED budget
      PROVE  EnqueueStep(writer) /\ EnqueueOK(writer)'
  <2>1. EnqueueOK(writer)'
    BY <1>r, RestIsOK DEF EnqueueOK
  <2> QED
    BY <1>r, <1>f, <2>1, ThrowsBudget
<1>1. CASE ImEnqueue
  <2>1. PICK throwing \in ImCtorMayThrow :
          writer' = [Writes(1, throwing, "place") EXCEPT !.new = tailBlock]
    BY <1>1 DEF ImEnqueue
  <2>2. EnqueueOK(writer)'
    BY <1>1, <2>1 DEF ImEnqueue, EnqueueOK, Writes, Waiting, BudgetOK
  <2> QED
    BY <1>1, <2>2, <1>f DEF ImEnqueue
<1>2. CASE ImEnqueueNewBlock
  <2>1. PICK throwing, e : writer' = [Writes(1, throwing, "requisition") EXCEPT !.entry = e]
    BY <1>2 DEF ImEnqueueNewBlock
  <2>2. EnqueueOK(writer)'
    BY <1>2, <2>1 DEF ImEnqueueNewBlock, EnqueueOK, Writes, Waiting, BudgetOK
  <2> QED
    BY <1>2, <2>2, <1>f DEF ImEnqueueNewBlock
<1>3. CASE ImRequisition
  <2>1. EnqueueOK(writer)'
    BY <1>3 DEF ImRequisition, EnqueueOK
  <2> QED
    BY <1>3, <2>1, <1>f DEF ImRequisition
<1>4. CASE ImNoBlock
  BY <1>4, <1>r DEF ImNoBlock
<1>5. CASE ImPlace
  <2>1. EnqueueOK(writer)'
    BY <1>5 DEF ImPlace, EnqueueOK
  <2> QED
    BY <1>5, <2>1, <1>f DEF ImPlace
<1>6. CASE ImPlaceThrows
  BY <1>6, <1>r DEF ImPlaceThrows
<1>7. CASE ImLink
  <2>1. EnqueueOK(writer)'
    BY <1>7 DEF ImLink, EnqueueOK
  <2> QED
    BY <1>7, <2>1, <1>f DEF ImLink
<1>8. CASE ImStoreTail
  <2>1. writer.count \in 0..budget.elements /\ writer.count \in Nat /\ budget.elements \in Nat
    BY <1>8 DEF ImStoreTail, EnqueueOK, BudgetOK
  <2>2. /\ BudgetOK' /\ budget'.calls = budget.calls
        /\ budget'.elements = budget.elements - writer.count
    BY <1>8, <2>1 DEF ImStoreTail, BudgetOK
  <2>3. EnqueueOK(writer)'
    BY <1>8, RestIsOK DEF ImStoreTail, EnqueueOK
  <2> QED
    BY <1>8, <2>1, <2>2, <2>3 DEF ImStoreTail
<1>9. CASE ImEnqueueBulk
  <2>1. PICK count \in ImBulkSizes, throwing \in ImCtorMayThrow :
          /\ count <= budget.elements
          /\ writer' = [Writes(count, throwing,
                       IF BlocksNeeded(count) = 0 THEN "fill" ELSE "insert")
                      EXCEPT !.bulk = TRUE, !.left = BlocksNeeded(count),
                             !.base = Base(Wrap(tailIndex - 1))]
    BY <1>9 DEF ImEnqueueBulk
  <2>2. count \in 0..budget.elements
    BY <2>1, ImBulkAssumption DEF BudgetOK
  <2>3. UNCHANGED budget /\ UNCHANGED sharedByEnqueue
    BY <1>9 DEF ImEnqueueBulk
  <2>4. EnqueueOK(writer)'
    BY <2>1, <2>2, <2>3 DEF EnqueueOK, Writes, Waiting
  <2> QED
    BY <2>3, <2>4, <1>f
<1>10. CASE ImInsert
  <2>1. \E e : writer' = [writer EXCEPT !.pc = "requisition", !.base = ImNextBase, !.entry = e]
    BY <1>10 DEF ImInsert
  <2>2. writer.pc # "idle" /\ UNCHANGED budget /\ UNCHANGED sharedByEnqueue
    BY <1>10 DEF ImInsert
  <2>3. EnqueueOK(writer)'
    BY <2>1, <2>2 DEF EnqueueOK
  <2> QED
    BY <2>2, <2>3, <1>f
<1>11. CASE ImChain
  <2>1. \E b \in requisition_block :
          writer' = [writer EXCEPT
            !.first = IF @ = NoBlock THEN b ELSE @, !.left = @ - 1,
            !.entry = 0, !.pc = IF writer.left = 1 THEN "fill" ELSE "insert"]
    BY <1>11 DEF ImChain
  <2>2. writer.pc # "idle" /\ UNCHANGED budget /\ UNCHANGED sharedByEnqueue
    BY <1>11 DEF ImChain
  <2>3. EnqueueOK(writer)'
    BY <2>1, <2>2 DEF EnqueueOK
  <2> QED
    BY <2>2, <2>3, <1>f
<1>12. CASE ImBulkFails
  BY <1>12, <1>r DEF ImBulkFails, Undone
<1>13. CASE ImFill
  <2>1. EnqueueOK(writer)'
    BY <1>13 DEF ImFill, EnqueueOK
  <2> QED
    BY <1>13, <2>1, <1>f DEF ImFill
<1>14. CASE ImFillThrows
  BY <1>14, <1>r DEF ImFillThrows, Undone
<1> QED
  BY <1>1, <1>2, <1>3, <1>4, <1>5, <1>6, <1>7, <1>8, <1>9, <1>10, <1>11, <1>12,
     <1>13, <1>14 DEF WriterNext

LEMMA EnqueueStepKeeps ==
  ASSUME NEW start \in StartIndices, CountersOK(start), CallsOK(start), ClaimsOK(start),
         NEW p, EnqueueStep(p)
  PROVE  CountersOK(start)' /\ CallsOK(start)' /\ ClaimsOK(start)'
BY EnqueueKeeps, PreparingKeeps DEF EnqueueStep, BudgetOK

-----------------------------------------------------------------------------
(* The sub-queues. *)

LEMMA ClaimsStart ==
  ASSUME NEW start \in StartIndices, NEW b, NEW owned, BaseInit(start, b, owned)
  PROVE  ClaimInv
<1>1. /\ tailIndex = start /\ headIndex = start /\ dequeueOptimisticCount = start
      /\ dequeueOvercommit = 0 /\ consumer = [c \in Consumers |-> Resting]
      /\ budget = [calls |-> MaxCalls, elements |-> MaxEnqueued, throws |-> MaxThrows]
  BY DEF BaseInit
<1>2. start \in Indices /\ 0 \in Indices /\ Offset(start, start) = 0
  BY ModulusIs, OffsetStart DEF Indices
<1>3. SumOver(MayAnnounce) = 0 /\ SumOver(Pending) = 0 /\ SumOver(Owed(start, 0)) = 0
  <2>1. \A c \in Consumers : MayAnnounce[c] = 0 /\ Pending[c] = 0 /\ Owed(start, 0)[c] = 0
    BY <1>1, RestingCall DEF MayAnnounce, Pending, Owed, Entering
  <2> QED
    BY <2>1, SumNone
<1>4. CountersOK(start)
  <2>1. budget \in [calls: Nat, elements: Nat, throws: Nat] /\ budget.elements = MaxEnqueued
        /\ budget.calls = MaxCalls
    BY <1>1, BoundsAssumption
  <2> QED
    BY <1>1, <1>2, <1>3, <2>1, ModulusIs DEF CountersOK
<1>5. CallsOK(start)
  <2>1. ASSUME NEW c \in Consumers PROVE CallOK(start, consumer[c]) /\ consumer[c].pc = "idle"
    <3>1. consumer[c] = Resting
      BY <1>1
    <3> QED
      BY <3>1, RestingCall DEF CallOK, Entering, Claiming
  <2>2. DOMAIN consumer = Consumers
    BY <1>1
  <2> QED
    BY <2>1, <2>2 DEF CallsOK
<1>6. ClaimsOK(start)
  <2>1. CoveredBefore(start, 0)
    BY <1>1, <1>2, <1>3 DEF CoveredBefore
  <2>2. SeesEarlier(start, 0)
    BY <1>1, RestingCall DEF SeesEarlier
  <2>3. 0 \in 0..Offset(start, dequeueOptimisticCount)
    BY <1>1, <1>2
  <2> QED
    BY <2>1, <2>2, <2>3 DEF ClaimsOK
<1> QED
  BY <1>4, <1>5, <1>6 DEF ClaimInv

LEMMA ClaimsAreCovered ==
  ASSUME ClaimInv
  PROVE  NeverPastTail
<1>1. PICK start \in StartIndices : CountersOK(start) /\ CallsOK(start) /\ ClaimsOK(start)
  BY DEF ClaimInv
<1> DEFINE tail == Offset(start, tailIndex)
           head == Offset(start, headIndex)
           opt == Offset(start, dequeueOptimisticCount)
<1>2. /\ start \in Indices /\ tail \in Nat /\ head \in Nat /\ opt \in Nat
      /\ dequeueOvercommit \in Nat /\ tail <= MaxEnqueued /\ tail < Modulus
      /\ SumOver(Pending) \in Nat /\ SumOver(GrantedTo) \in Nat
      /\ head + SumOver(GrantedTo) <= tail
  BY <1>1, Numbers
<1>3. /\ tailIndex \in Indices /\ headIndex \in Indices /\ dequeueOptimisticCount \in Indices
      /\ opt = dequeueOvercommit + head + SumOver(Pending)
  BY <1>1 DEF CountersOK
<1>4. Size = tail - head
  <2>1. tailIndex - headIndex + 0 = tailIndex - headIndex /\ tail - head + 0 = tail - head
    BY <1>2, <1>3, ModulusIs DEF Indices
  <2>2. Wrap(tailIndex - headIndex + 0) = Wrap(tail - head + 0)
    BY <1>2, <1>3, OffsetDistance
  <2>3. tail - head \in Indices
    BY <1>2, ModulusIs DEF Indices
  <2> QED
    BY <2>1, <2>2, <2>3, WrapSmall DEF Size
<1>5. ~circular_less_than(tailIndex, headIndex)
  BY <1>2, <1>4, ModulusIs DEF Size, circular_less_than
<1>6. SumOver(GrantedTo) <= Size
  BY <1>2, <1>4
<1>7. CountersBalance
  <2>1. dequeueOptimisticCount = Wrap(start + opt) /\ headIndex = Wrap(start + head)
    BY <1>2, <1>3, FromOffset
  <2>2. start \in Int /\ headIndex \in Int
    BY <1>2, <1>3, ModulusIs DEF Indices
  <2> HIDE DEF tail, head, opt
  <2>3. Wrap(Wrap(start + head) + (dequeueOvercommit + SumOver(Pending))) =
          Wrap((start + head) + (dequeueOvercommit + SumOver(Pending)))
    BY <1>2, <2>2, WrapPlus
  <2>4. /\ (start + head) + (dequeueOvercommit + SumOver(Pending)) = start + opt
        /\ headIndex + (dequeueOvercommit + SumOver(Pending)) =
             dequeueOvercommit + headIndex + SumOver(Pending)
    BY <1>2, <1>3, <2>2
  <2> QED
    BY <2>1, <2>3, <2>4 DEF CountersBalance
<1> QED
  BY <1>5, <1>6, <1>7 DEF NeverPastTail

LEMMA ClaimInvStays ==
  ASSUME ClaimInv, UNCHANGED baseVars
  PROVE  ClaimInv'
<1>1. PICK start \in StartIndices : CountersOK(start) /\ CallsOK(start) /\ ClaimsOK(start)
  BY DEF ClaimInv
<1>2. BudgetOK /\ UNCHANGED sharedByEnqueue /\ BudgetOK' /\ UNCHANGED budget
  BY <1>1 DEF CountersOK, BudgetOK, baseVars, sharedByEnqueue
<1> QED
  BY <1>1, <1>2, PreparingKeeps DEF ClaimInv, BudgetOK

\* The inductive invariant of the explicit sub-queue, ...
THEOREM ExplicitInvariant == ExplicitSpec => []ExplicitInv
<1>1. ExplicitInit => ExplicitInv
  <2> SUFFICES ASSUME ExplicitInit PROVE ExplicitInv
    OBVIOUS
  <2>1. ClaimInv
    BY ClaimsStart DEF ExplicitInit, FreshInit, UsedInit
  <2>2. EnqueueOK(prod)
    BY RestIsOK DEF ExplicitInit, EnqueueOK
  <2> QED
    BY <2>1, <2>2 DEF ExplicitInv
<1>2. ExplicitInv /\ [ExplicitNext]_<<baseVars, explicitVars>> => ExplicitInv'
  <2> SUFFICES ASSUME ExplicitInv, [ExplicitNext]_<<baseVars, explicitVars>>
               PROVE  ExplicitInv'
    OBVIOUS
  <2>1. PICK start \in StartIndices : CountersOK(start) /\ CallsOK(start) /\ ClaimsOK(start)
    BY DEF ExplicitInv, ClaimInv
  <2>2. EnqueueOK(prod) /\ BudgetOK
    BY <2>1 DEF ExplicitInv, CountersOK, BudgetOK
  <2>3. CASE ClaimNext /\ UNCHANGED explicitVars
    <3>1. ClaimInv'
      BY <2>1, <2>3, ClaimNextKeeps DEF ClaimInv
    <3>2. budget'.elements = budget.elements
      BY <2>2, <2>3 DEF ClaimNext, LoadTail, LoadOvercommit, TestOptimistic, Claim, Check,
         GiveBack, Advance, BudgetOK
    <3> QED
      BY <2>2, <2>3, <3>1, <3>2 DEF ExplicitInv, EnqueueOK, explicitVars
  <2>4. CASE ProducerNext
    BY <2>1, <2>2, <2>4, ProducerStep, EnqueueStepKeeps DEF ExplicitInv, ClaimInv
  <2>5. CASE TakeNext
    <3>1. ClaimInv'
      BY <2>1, <2>5, TakeNextKeeps DEF ClaimInv
    <3>2. UNCHANGED <<prod, budget>>
      BY <2>5 DEF TakeNext, LoadIndex, LoadFront, Take, SetEmpty, sharedByTake, explicitVars
    <3> QED
      BY <2>2, <3>1, <3>2 DEF ExplicitInv, EnqueueOK
  <2>6. CASE UNCHANGED <<baseVars, explicitVars>>
    <3>1. ClaimInv'
      BY <2>6, ClaimInvStays DEF ExplicitInv
    <3>2. UNCHANGED <<prod, budget>>
      BY <2>6 DEF baseVars, explicitVars
    <3> QED
      BY <2>2, <3>1, <3>2 DEF ExplicitInv, EnqueueOK
  <2> QED
    BY <2>3, <2>4, <2>5, <2>6 DEF ExplicitNext
<1> QED
  BY <1>1, <1>2, PTL DEF ExplicitSpec

\* ... and of the implicit one.
THEOREM ImplicitInvariant == ImplicitSpec => []ImplicitInv
<1>1. ImplicitInit => ImplicitInv
  <2> SUFFICES ASSUME ImplicitInit PROVE ImplicitInv
    OBVIOUS
  <2>1. ClaimInv
    BY ClaimsStart DEF ImplicitInit, ImFreshInit, ImUsedInit
  <2>2. EnqueueOK(writer)
    BY RestIsOK DEF ImplicitInit, EnqueueOK
  <2> QED
    BY <2>1, <2>2 DEF ImplicitInv
<1>2. ImplicitInv /\ [ImplicitNext]_<<baseVars, implicitVars>> => ImplicitInv'
  <2> SUFFICES ASSUME ImplicitInv, [ImplicitNext]_<<baseVars, implicitVars>>
               PROVE  ImplicitInv'
    OBVIOUS
  <2>1. PICK start \in StartIndices : CountersOK(start) /\ CallsOK(start) /\ ClaimsOK(start)
    BY DEF ImplicitInv, ClaimInv
  <2>2. EnqueueOK(writer) /\ BudgetOK
    BY <2>1 DEF ImplicitInv, CountersOK, BudgetOK
  <2>3. CASE ClaimNext /\ UNCHANGED implicitVars
    <3>1. ClaimInv'
      BY <2>1, <2>3, ClaimNextKeeps DEF ClaimInv
    <3>2. budget'.elements = budget.elements
      BY <2>2, <2>3 DEF ClaimNext, LoadTail, LoadOvercommit, TestOptimistic, Claim, Check,
         GiveBack, Advance, BudgetOK
    <3> QED
      BY <2>2, <2>3, <3>1, <3>2 DEF ImplicitInv, EnqueueOK, implicitVars
  <2>4. CASE WriterNext
    BY <2>1, <2>2, <2>4, WriterStep, EnqueueStepKeeps DEF ImplicitInv, ClaimInv
  <2>5. CASE ImTakeNext
    <3>1. ClaimInv'
      BY <2>1, <2>5, ImTakeNextKeeps DEF ClaimInv
    <3>2. UNCHANGED <<writer, budget>>
      BY <2>5 DEF ImTakeNext, ImLoadIndex, ImLoadTail, ImLoadKey, ImTake, ImSetEmpty,
         ImUnlink, ImFree, sharedByImTake
    <3> QED
      BY <2>2, <3>1, <3>2 DEF ImplicitInv, EnqueueOK
  <2>6. CASE UNCHANGED <<baseVars, implicitVars>>
    <3>1. ClaimInv'
      BY <2>6, ClaimInvStays DEF ImplicitInv
    <3>2. UNCHANGED <<writer, budget>>
      BY <2>6 DEF baseVars, implicitVars
    <3> QED
      BY <2>2, <3>1, <3>2 DEF ImplicitInv, EnqueueOK
  <2> QED
    BY <2>3, <2>4, <2>5, <2>6 DEF ImplicitNext
<1> QED
  BY <1>1, <1>2, PTL DEF ImplicitSpec

\* No consumer of a sub-queue is granted, or advances the head over, what
\* the producer has not published, however consumers and producer interleave
\* and whatever counters wrap; and the counters consumers claim with balance
\* (dequeue and dequeue_bulk of ExplicitProducer).
THEOREM ExplicitNeverPastTail == ExplicitSpec => []NeverPastTail
<1>1. ExplicitInv => NeverPastTail
  BY ClaimsAreCovered DEF ExplicitInv
<1> QED
  BY <1>1, ExplicitInvariant, PTL

\* The same for ImplicitProducer.
THEOREM ImplicitNeverPastTail == ImplicitSpec => []NeverPastTail
<1>1. ImplicitInv => NeverPastTail
  BY ClaimsAreCovered DEF ImplicitInv
<1> QED
  BY <1>1, ImplicitInvariant, PTL

-----------------------------------------------------------------------------
(* The ring of blocks. *)

Used == Blocks \ pool

\* Every set of blocks that next does not leave is the whole ring.
OneRing ==
  \A S \in SUBSET Used : S # {} /\ (\A x \in S : next[x] \in S) => S = Used

\* What a call that fails falls back to is in the ring.
FallbackInRing ==
  /\ DOMAIN prod = DOMAIN AtRest
  /\ prod.first \in Used \cup {NoBlock} /\ prod.startBlock \in Used \cup {NoBlock}
  /\ prod.pc # "idle" /\ prod.first = NoBlock /\ prod.startBlock = NoBlock => Used = {}

\* The producer stays in the ring.
TailInRing ==
  /\ tailBlock \in Used \cup {NoBlock}
  /\ tailBlock = NoBlock => Used = {}

RingClosed ==
  /\ pool \subseteq Blocks /\ DOMAIN next = Blocks
  /\ \A b \in Used : next[b] \in Used
  /\ OneRing

RingInv == RingClosed /\ TailInRing /\ FallbackInRing

LEMMA RingIsUsed ==
  ASSUME RingInv
  PROVE  Ring = Used
<1>1. CASE tailBlock = NoBlock
  BY <1>1 DEF RingInv, TailInRing, Ring
<1>2. CASE tailBlock # NoBlock
  <2>1. tailBlock \in Used /\ Used \in SUBSET Blocks /\ \A x \in Used : next[x] \in Used
    BY <1>2 DEF RingInv, TailInRing, RingClosed, Used
  <2>2. ASSUME NEW b \in Used, NEW S \in SUBSET Blocks,
               tailBlock \in S, \A x \in S : next[x] \in S
        PROVE  b \in S
    <3> DEFINE T == S \cap Used
    <3>1. T \in SUBSET Used /\ T # {} /\ \A x \in T : next[x] \in T
      BY <2>1, <2>2
    <3>2. T = Used
      BY <3>1 DEF RingInv, RingClosed, OneRing
    <3> QED
      BY <3>2
  <2>3. ASSUME NEW b \in Ring PROVE b \in Used
    BY <1>2, <2>1, <2>3 DEF Ring
  <2>4. ASSUME NEW b \in Used PROVE b \in Ring
    BY <1>2, <2>1, <2>2, <2>4 DEF Ring
  <2> QED
    BY <2>3, <2>4
<1> QED
  BY <1>1, <1>2

LEMMA RingStands ==
  ASSUME RingInv, UNCHANGED <<next, pool>>, TailInRing', FallbackInRing'
  PROVE  RingInv'
<1>1. Used' = Used
  BY DEF Used
<1>2. OneRing'
  BY <1>1 DEF OneRing, RingInv, RingClosed
<1> QED
  BY <1>1, <1>2 DEF RingInv, RingClosed

LEMMA RingGrows ==
  ASSUME RingInv, NEW b \in pool, pool' = pool \ {b}, next' = Inserted(b),
         tailBlock' = b
  PROVE  RingClosed' /\ TailInRing' /\ Used' = Used \cup {b} /\ b \in Blocks /\ b # NoBlock
<1>1. /\ b \in Blocks /\ b # NoBlock /\ b \notin Used /\ Used' = Used \cup {b}
      /\ pool' \subseteq Blocks
  BY QueueAssumption DEF RingInv, RingClosed, Used
<1>2. TailInRing'
  BY <1>1 DEF TailInRing
<1>3. CASE tailBlock = NoBlock
  <2>1. Used = {} /\ next' = [next EXCEPT ![b] = b] /\ next'[b] = b /\ DOMAIN next' = Blocks
    BY <1>1, <1>3 DEF RingInv, RingClosed, TailInRing, Inserted
  <2>2. OneRing' /\ \A x \in Used' : next'[x] \in Used'
    BY <1>1, <2>1 DEF OneRing
  <2> QED
    BY <1>1, <1>2, <2>1, <2>2 DEF RingClosed
<1>4. CASE tailBlock # NoBlock
  <2>1. /\ tailBlock \in Used /\ tailBlock # b /\ tailBlock \in Blocks
        /\ next' = [next EXCEPT ![b] = next[tailBlock], ![tailBlock] = b]
    BY <1>1, <1>4 DEF RingInv, TailInRing, Inserted, Used
  <2>2. /\ DOMAIN next' = Blocks /\ next'[b] = next[tailBlock] /\ next'[tailBlock] = b
        /\ \A x \in Used \ {tailBlock} : next'[x] = next[x]
        /\ \A x \in Used : next[x] \in Used /\ x # b
    BY <1>1, <2>1 DEF RingInv, RingClosed, Used
  <2>3. \A x \in Used' : next'[x] \in Used'
    BY <1>1, <2>1, <2>2
  <2>4. ASSUME NEW S \in SUBSET Used', S # {}, \A x \in S : next'[x] \in S
        PROVE  S = Used'
    <3> DEFINE T == S \ {b}
    <3>1. T \in SUBSET Used
      BY <1>1, <2>4
    <3>2. T # {}
      BY <1>1, <2>1, <2>2, <2>4
    <3>3. ASSUME NEW x \in T PROVE next[x] \in T
      <4>1. CASE x = tailBlock
        <5>1. b \in S
          BY <2>2, <2>4, <4>1
        <5>2. next'[b] \in S
          BY <2>4, <5>1
        <5> QED
          BY <2>1, <2>2, <4>1, <5>2
      <4>2. CASE x # tailBlock
        <5>1. next'[x] = next[x] /\ next'[x] \in S /\ next[x] # b
          BY <2>2, <2>4, <3>1, <4>2
        <5> QED
          BY <5>1
      <4> QED
        BY <4>1, <4>2
    <3>4. T = Used
      BY <3>1, <3>2, <3>3 DEF RingInv, RingClosed, OneRing
    <3>5. tailBlock \in S /\ b \in S
      BY <2>1, <2>2, <2>4, <3>4
    <3> QED
      BY <1>1, <2>4, <3>4, <3>5
  <2>5. OneRing'
    BY <2>4 DEF OneRing
  <2> QED
    BY <1>1, <1>2, <2>2, <2>3, <2>5 DEF RingClosed
<1> QED
  BY <1>1, <1>2, <1>3, <1>4

\* A call that begins: it falls back to where the tail block is.
LEMMA CallStarts ==
  ASSUME RingInv, UNCHANGED <<next, pool, tailBlock>>,
         NEW count, NEW throwing, NEW pc,
         \/ prod' = Starts(count, throwing, pc)
         \/ \E left, base : prod' = [Starts(count, throwing, pc)
                  EXCEPT !.bulk = TRUE, !.left = left, !.base = base]
  PROVE  RingInv'
<1>1. /\ DOMAIN prod' = DOMAIN AtRest /\ prod'.startBlock = tailBlock
      /\ prod'.first = NoBlock
  BY DEF Starts, AtRest
<1>2. Used' = Used
  BY DEF Used
<1>3. TailInRing' /\ FallbackInRing'
  BY <1>1, <1>2 DEF RingInv, TailInRing, FallbackInRing
<1> QED
  BY <1>3, RingStands

\* A step of a call that only moves on in the ring.
LEMMA CallGoesOn ==
  ASSUME RingInv, UNCHANGED <<next, pool>>, TailInRing',
         DOMAIN prod' = DOMAIN prod, prod.pc # "idle",
         prod'.startBlock = prod.startBlock,
         prod'.first = prod.first \/ prod'.first \in Used
  PROVE  RingInv'
<1>1. Used' = Used /\ \A b \in Used : b # NoBlock
  BY QueueAssumption DEF Used
<1>2. FallbackInRing'
  BY <1>1 DEF RingInv, FallbackInRing
<1> QED
  BY <1>2, RingStands

LEMMA RestInRing ==
  ASSUME prod' = AtRest
  PROVE  FallbackInRing'
BY DEF FallbackInRing, AtRest

\* A call that fails or throws.
LEMMA CallFallsBack ==
  ASSUME RingInv, UNCHANGED <<next, pool>>, prod.pc # "idle",
         tailBlock' = FallbackBlock, prod' = AtRest
  PROVE  RingInv'
<1>1. Used' = Used
  BY DEF Used
<1>2. TailInRing'
  BY <1>1 DEF RingInv, FallbackInRing, FallbackBlock, TailInRing
<1> QED
  BY <1>2, RestInRing, RingStands

\* A call that takes a new block into the ring.
LEMMA CallGrowsRing ==
  ASSUME RingInv, NEW b \in pool, pool' = pool \ {b}, next' = Inserted(b),
         tailBlock' = b, DOMAIN prod' = DOMAIN AtRest,
         prod'.startBlock \in Used \cup {NoBlock}, prod'.first \in Used \cup {b}
  PROVE  RingInv'
<1>1. /\ RingClosed' /\ TailInRing' /\ Used' = Used \cup {b} /\ b # NoBlock
      /\ \A x \in Used : x # NoBlock
  BY RingGrows, QueueAssumption DEF Used
<1>2. FallbackInRing'
  BY <1>1 DEF FallbackInRing
<1> QED
  BY <1>1, <1>2 DEF RingInv

LEMMA ProducerKeepsRing ==
  ASSUME RingInv, ProducerNext
  PROVE  RingInv'
<1>a. \A b \in Used : b # NoBlock /\ b \in Blocks
  BY QueueAssumption DEF Used
<1>b. ASSUME UNCHANGED <<next, pool, tailBlock>> PROVE TailInRing'
  BY <1>b DEF RingInv, TailInRing, Used
<1>c. AheadIsEmpty => tailBlock \in Used /\ next[tailBlock] \in Used
  BY DEF AheadIsEmpty, RingInv, RingClosed, TailInRing
<1>1. CASE Enqueue
  <2>1. PICK throwing \in CtorMayThrow : prod' = Starts(1, throwing, "place")
    BY <1>1 DEF Enqueue
  <2> QED
    BY <1>1, <2>1, CallStarts DEF Enqueue
<1>2. CASE EnqueueReuse
  <2>1. PICK throwing \in CtorMayThrow :
          prod' = [Starts(1, throwing, AfterAcquire(throwing)) EXCEPT !.first = tailBlock']
    BY <1>2 DEF EnqueueReuse
  <2>2. /\ UNCHANGED <<next, pool>> /\ tailBlock' \in Used /\ Used' = Used
        /\ tailBlock \in Used
    BY <1>2, <1>c DEF EnqueueReuse, Used
  <2>3. /\ DOMAIN prod' = DOMAIN AtRest /\ prod'.first = tailBlock'
        /\ prod'.startBlock = tailBlock
    BY <2>1 DEF Starts, AtRest
  <2>4. TailInRing' /\ FallbackInRing'
    BY <1>a, <2>2, <2>3 DEF TailInRing, FallbackInRing
  <2> QED
    BY <2>2, <2>4, RingStands
<1>3. CASE EnqueueNewBlock
  <2>1. CASE UNCHANGED <<pool, next, tailBlock, prod>>
    <3>1. FallbackInRing'
      BY <2>1 DEF RingInv, FallbackInRing, Used
    <3> QED
      BY <1>b, <2>1, <3>1, RingStands
  <2>2. ASSUME NEW b \in requisition_block, NEW throwing \in CtorMayThrow,
               pool' = pool \ {b}, next' = Inserted(b), tailBlock' = b,
               prod' = [Starts(1, throwing, AfterAcquire(throwing)) EXCEPT !.first = b]
        PROVE  RingInv'
    <3>1. /\ DOMAIN prod' = DOMAIN AtRest /\ prod'.first = b /\ prod'.startBlock = tailBlock
      BY <2>2 DEF Starts, AtRest
    <3>2. tailBlock \in Used \cup {NoBlock}
      BY DEF RingInv, TailInRing
    <3> QED
      BY <2>2, <3>1, <3>2, CallGrowsRing DEF requisition_block
  <2>3. \/ UNCHANGED <<pool, next, tailBlock, prod>>
        \/ \E b \in requisition_block, throwing \in CtorMayThrow :
             /\ pool' = pool \ {b} /\ next' = Inserted(b) /\ tailBlock' = b
             /\ prod' = [Starts(1, throwing, AfterAcquire(throwing)) EXCEPT !.first = b]
    BY <1>3 DEF EnqueueNewBlock
  <2> QED
    BY <2>1, <2>2, <2>3
<1>4. CASE Place
  <2>1. /\ DOMAIN prod' = DOMAIN prod /\ prod.pc # "idle" /\ UNCHANGED <<next, pool, tailBlock>>
        /\ prod'.startBlock = prod.startBlock /\ prod'.first = prod.first
    BY <1>4 DEF Place
  <2> QED
    BY <1>b, <2>1, CallGoesOn
<1>5. CASE PlaceThrows
  BY <1>5, CallFallsBack DEF PlaceThrows
<1>6. CASE WriteEntry
  <2>1. /\ DOMAIN prod' = DOMAIN prod /\ prod.pc # "idle" /\ UNCHANGED <<next, pool, tailBlock>>
        /\ prod'.startBlock = prod.startBlock /\ prod'.first = prod.first
    BY <1>6 DEF WriteEntry, keptByEnqueue
  <2> QED
    BY <1>b, <2>1, CallGoesOn
<1>7. CASE StoreFront
  <2>1. /\ DOMAIN prod' = DOMAIN prod /\ prod.pc # "idle" /\ UNCHANGED <<next, pool, tailBlock>>
        /\ prod'.startBlock = prod.startBlock /\ prod'.first = prod.first
    BY <1>7 DEF StoreFront, keptByEnqueue
  <2> QED
    BY <1>b, <2>1, CallGoesOn
<1>8. CASE StoreTail
  <2>1. UNCHANGED <<next, pool, tailBlock>> /\ prod' = AtRest
    BY <1>8 DEF StoreTail
  <2> QED
    BY <1>b, <2>1, RestInRing, RingStands
<1>9. CASE EnqueueBulk
  <2>1. PICK count \in BulkSizes, throwing \in CtorMayThrow :
          prod' = [Starts(count, throwing,
                          IF BlocksNeeded(count) = 0 THEN "fill" ELSE "ahead")
                     EXCEPT !.bulk = TRUE, !.left = BlocksNeeded(count),
                            !.base = Base(Wrap(tailIndex - 1))]
    BY <1>9 DEF EnqueueBulk
  <2> QED
    BY <1>9, <2>1, CallStarts DEF EnqueueBulk
<1>10. CASE TakeAhead
  <2>1. prod.pc # "idle" /\ UNCHANGED <<next, pool>> /\ Used' = Used
    BY <1>10 DEF TakeAhead, Used
  <2>2. CASE AheadIsEmpty /\ BlockAcquired(next[tailBlock], headers, pr, "ahead")
    <3>1. /\ DOMAIN prod' = DOMAIN prod /\ prod'.startBlock = prod.startBlock
          /\ tailBlock' = next[tailBlock]
          /\ prod'.first = prod.first \/ prod'.first = next[tailBlock]
      BY <2>2 DEF BlockAcquired, FirstIs, RingInv, FallbackInRing, AtRest
    <3>2. TailInRing'
      BY <1>a, <1>c, <2>1, <2>2, <3>1 DEF TailInRing
    <3> QED
      BY <1>c, <2>1, <2>2, <3>1, <3>2, CallGoesOn
  <2>3. CASE prod' = [prod EXCEPT !.pc = "pools"] /\ tailBlock' = tailBlock
    <3>1. /\ DOMAIN prod' = DOMAIN prod /\ prod'.startBlock = prod.startBlock
          /\ prod'.first = prod.first
      BY <2>3
    <3> QED
      BY <1>b, <2>1, <2>3, <3>1, CallGoesOn
  <2> QED
    BY <1>10, <2>2, <2>3 DEF TakeAhead
<1>11. CASE TakeFromPools
  <2> DEFINE front == IF IndexFull THEN prod.used ELSE prod.front
  <2>1. prod.pc # "idle"
    BY <1>11 DEF TakeFromPools
  <2>2. ASSUME NEW b \in requisition_block,
               pool' = pool \ {b}, next' = Inserted(b), tailBlock' = b,
               prod' = [prod EXCEPT !.first = FirstIs(b), !.base = NextBase,
                                    !.left = @ - 1, !.front = front]
        PROVE  RingInv'
    <3> HIDE DEF front
    <3>1. /\ DOMAIN prod' = DOMAIN AtRest /\ prod'.startBlock = prod.startBlock
          /\ prod'.first = FirstIs(b)
      BY <2>2 DEF RingInv, FallbackInRing, AtRest
    <3>2. prod.startBlock \in Used \cup {NoBlock} /\ FirstIs(b) \in Used \cup {b}
      BY DEF RingInv, FallbackInRing, FirstIs
    <3> QED
      BY <2>2, <3>1, <3>2, CallGrowsRing DEF requisition_block
  <2>3. CASE UNCHANGED <<next, pool>> /\ tailBlock' = FallbackBlock /\ prod' = AtRest
    BY <2>1, <2>3, CallFallsBack
  <2>4. \/ UNCHANGED <<next, pool>> /\ tailBlock' = FallbackBlock /\ prod' = AtRest
        \/ \E b \in requisition_block :
             /\ pool' = pool \ {b} /\ next' = Inserted(b) /\ tailBlock' = b
             /\ prod' = [prod EXCEPT !.first = FirstIs(b), !.base = NextBase,
                                     !.left = @ - 1, !.front = front]
    BY <1>11 DEF TakeFromPools, BulkGivesUp
  <2> QED
    BY <2>2, <2>3, <2>4
<1>12. CASE BulkFails
  BY <1>12, CallFallsBack DEF BulkFails, BulkGivesUp
<1>13. CASE ResetAndPublish
  <2>1. /\ DOMAIN prod' = DOMAIN prod /\ prod.pc # "idle" /\ UNCHANGED <<next, pool, tailBlock>>
        /\ prod'.startBlock = prod.startBlock /\ prod'.first = prod.first
    BY <1>13 DEF ResetAndPublish, keptByEnqueue
  <2> QED
    BY <1>b, <2>1, CallGoesOn
<1>14. CASE Fill
  <2>1. /\ DOMAIN prod' = DOMAIN prod /\ prod.pc # "idle" /\ UNCHANGED <<next, pool, tailBlock>>
        /\ prod'.startBlock = prod.startBlock /\ prod'.first = prod.first
    BY <1>14 DEF Fill
  <2> QED
    BY <1>b, <2>1, CallGoesOn
<1>15. CASE FillThrows
  BY <1>15, CallFallsBack DEF FillThrows, BulkGivesUp
<1>16. CASE PublishBulk
  <2>1. /\ DOMAIN prod' = DOMAIN prod /\ prod.pc # "idle" /\ UNCHANGED <<next, pool, tailBlock>>
        /\ prod'.startBlock = prod.startBlock /\ prod'.first = prod.first
    BY <1>16 DEF PublishBulk, keptByEnqueue
  <2> QED
    BY <1>b, <2>1, CallGoesOn
<1> QED
  BY <1>1, <1>2, <1>3, <1>4, <1>5, <1>6, <1>7, <1>8, <1>9, <1>10, <1>11, <1>12,
     <1>13, <1>14, <1>15, <1>16 DEF ProducerNext

LEMMA RingStarts ==
  ASSUME ExplicitInit
  PROVE  RingInv
<1>1. \E owned \in SUBSET Blocks, b \in Blocks \cup {NoBlock},
         start \in StartIndices :
        /\ BaseInit(start, b, owned)
        /\ (owned = {} /\ b = NoBlock) \/ (owned = {b} /\ b \in Blocks)
  BY DEF ExplicitInit, FreshInit, UsedInit
<1>2. PICK owned \in SUBSET Blocks, b \in Blocks \cup {NoBlock} :
        /\ (owned = {} /\ b = NoBlock) \/ (owned = {b} /\ b \in Blocks)
        /\ tailBlock = b /\ pool = Blocks \ owned
        /\ next = [x \in Blocks |-> IF x \in owned THEN x ELSE NoBlock]
  BY <1>1 DEF BaseInit
<1>3. Used = owned /\ DOMAIN next = Blocks /\ \A x \in owned : next[x] = x
  BY <1>2 DEF Used
<1>4. RingClosed
  BY <1>2, <1>3 DEF RingClosed, OneRing
<1>5. TailInRing
  BY <1>2, <1>3, QueueAssumption DEF TailInRing
<1>6. FallbackInRing
  BY DEF ExplicitInit, FallbackInRing, AtRest
<1> QED
  BY <1>4, <1>5, <1>6 DEF RingInv

\* Every block of an explicit sub-queue is in the ring the producer goes round
\* or in the pools, never in both and never lost, also after bulks that failed
\* half way and constructors that threw (enqueue and enqueue_bulk of
\* ExplicitProducer, "keep injected blocks").
THEOREM ExplicitBlocksAccounted == ExplicitSpec => []BlocksAccounted
<1>1. ExplicitInit => RingInv
  BY RingStarts
<1>2. RingInv /\ [ExplicitNext]_<<baseVars, explicitVars>> => RingInv'
  <2> SUFFICES ASSUME RingInv, [ExplicitNext]_<<baseVars, explicitVars>>
               PROVE  RingInv'
    OBVIOUS
  <2>1. ASSUME UNCHANGED <<next, pool, tailBlock, prod>> PROVE RingInv'
    <3>1. Used' = Used
      BY <2>1 DEF Used
    <3>2. TailInRing' /\ FallbackInRing'
      BY <2>1, <3>1 DEF RingInv, TailInRing, FallbackInRing
    <3> QED
      BY <2>1, <3>2, RingStands
  <2>2. CASE ClaimNext /\ UNCHANGED explicitVars
    <3>1. UNCHANGED <<next, pool, tailBlock, prod>>
      BY <2>2 DEF ClaimNext, LoadTail, LoadOvercommit, TestOptimistic, Claim, Check,
         GiveBack, Advance, sharedByClaim, explicitVars
    <3> QED
      BY <2>1, <3>1
  <2>3. CASE ProducerNext
    BY <2>3, ProducerKeepsRing
  <2>4. CASE TakeNext
    <3>1. UNCHANGED <<next, pool, tailBlock, prod>>
      BY <2>4 DEF TakeNext, LoadIndex, LoadFront, Take, SetEmpty, sharedByTake, explicitVars
    <3> QED
      BY <2>1, <3>1
  <2>5. CASE UNCHANGED <<baseVars, explicitVars>>
    <3>1. UNCHANGED <<next, pool, tailBlock, prod>>
      BY <2>5 DEF baseVars, explicitVars
    <3> QED
      BY <2>1, <3>1
  <2> QED
    BY <2>2, <2>3, <2>4, <2>5 DEF ExplicitNext
<1>3. RingInv => BlocksAccounted
  <2> SUFFICES ASSUME RingInv PROVE BlocksAccounted
    OBVIOUS
  <2>1. Ring = Used /\ pool \subseteq Blocks
    BY RingIsUsed DEF RingInv, RingClosed
  <2> QED
    BY <2>1 DEF BlocksAccounted, Used
<1> QED
  BY <1>1, <1>2, <1>3, PTL DEF ExplicitSpec
=============================================================================
