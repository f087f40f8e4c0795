------------------------------ MODULE FreeList ------------------------------
(***************************************************************************)
(* The lock-free free list of blocks (os_lockless_queue.h, FreeList).      *)
(* freeListRefs counts the threads that look at a node, one for the list   *)
(* itself, and carries a bit that says the node should be on the list: a   *)
(* node may only be linked, and its next pointer changed, while nobody     *)
(* looks at it, so whoever drops the last reference links it.              *)
(*                                                                         *)
(* Every atomic operation is a step.  A thread owns the blocks in has[t]:  *)
(* those try_get gave it and those it was handed at first.                 *)
(***************************************************************************)
EXTENDS Integers, FiniteSets

CONSTANTS
  PoolThreads,   \* threads that free and take blocks
  Nodes,         \* the blocks
  NoNode

ASSUME FreeListAssumption ==
  IsFiniteSet(PoolThreads) /\ IsFiniteSet(Nodes) /\ NoNode \notin Nodes

VARIABLES
  freeListHead,
  freeListRefs,  \* node -> references
  shouldBeOn,    \* node -> SHOULD_BE_ON_FREELIST
  freeListNext,  \* node -> node
  has,           \* thread -> blocks it owns
  step           \* thread -> its position and locals

freeListVars ==
  <<freeListHead, freeListRefs, shouldBeOn, freeListNext, has, step>>

Parked == [pc |-> "idle", head |-> NoNode, next |-> NoNode, refs |-> 0,
           bit |-> FALSE, node |-> NoNode, getting |-> FALSE]

Moves(t, pc) == [step[t] EXCEPT !.pc = pc]

(***************************************************************************)
(* add                                                                     *)
(***************************************************************************)
(* The thread starts add_knowing_refcount_is_zero. *)
Links(t, n) ==
  [step[t] EXCEPT !.pc = "loadhead", !.node = n]

\* Mutant: the node is linked while others look at it.
NobodyLooks_Ignored(n) == TRUE

(* The last one to reference the node links it. *)
NobodyLooks(n) == freeListRefs[n] = 0

Add(t) ==
  \E n \in has[t] :
    /\ step[t].pc = "idle"
    /\ shouldBeOn' = [shouldBeOn EXCEPT ![n] = TRUE]
    /\ has' = [has EXCEPT ![t] = @ \ {n}]
    /\ step' = [step EXCEPT ![t] = IF NobodyLooks(n) THEN Links(t, n) ELSE @]
    /\ UNCHANGED <<freeListHead, freeListRefs, freeListNext>>

(***************************************************************************)
(* add_knowing_refcount_is_zero                                            *)
(***************************************************************************)
LoadLinkHead(t) ==
  /\ step[t].pc = "loadhead"
  /\ step' = [step EXCEPT ![t] = [Moves(t, "storenext") EXCEPT
                                    !.next = freeListHead]]
  /\ UNCHANGED <<freeListHead, freeListRefs, shouldBeOn, freeListNext, has>>

StoreNext(t) ==
  /\ step[t].pc = "storenext"
  /\ freeListNext' = [freeListNext EXCEPT ![step[t].node] = step[t].next]
  /\ step' = [step EXCEPT ![t] = Moves(t, "storerefs")]
  /\ UNCHANGED <<freeListHead, freeListRefs, shouldBeOn, has>>

(* The store of 1 clears the bit as well. *)
StoreRefs(t) ==
  /\ step[t].pc = "storerefs"
  /\ freeListRefs' = [freeListRefs EXCEPT ![step[t].node] = 1]
  /\ shouldBeOn' = [shouldBeOn EXCEPT ![step[t].node] = FALSE]
  /\ step' = [step EXCEPT ![t] = Moves(t, "push")]
  /\ UNCHANGED <<freeListHead, freeListNext, has>>

(* add returns; try_get goes on with the head its failed exchange saw. *)
AfterLink(t) ==
  IF step[t].getting
  THEN [Parked EXCEPT !.pc = "loop", !.head = step[t].head,
                      !.getting = TRUE]
  ELSE Parked

Push(t) ==
  LET me == step[t] IN
  /\ me.pc = "push"
  /\ \/ /\ freeListHead = me.next
        /\ freeListHead' = me.node
        /\ step' = [step EXCEPT ![t] = AfterLink(t)]
     \/ /\ freeListHead # me.next
        /\ step' = [step EXCEPT ![t] = [Moves(t, "unref") EXCEPT
                                          !.next = freeListHead]]
        /\ UNCHANGED freeListHead
  /\ UNCHANGED <<freeListRefs, shouldBeOn, freeListNext, has>>

(* The push failed: take the list's reference back and leave the node to   *)
(* whoever drops the last one, perhaps to us.                              *)
Unref(t) ==
  LET n == step[t].node IN
  /\ step[t].pc = "unref"
  /\ freeListRefs' = [freeListRefs EXCEPT ![n] = @ - 1]
  /\ shouldBeOn' = [shouldBeOn EXCEPT ![n] = TRUE]
  /\ step' = [step EXCEPT ![t] = IF freeListRefs[n] = 1 THEN Moves(t, "storenext")
                                 ELSE AfterLink(t)]
  /\ UNCHANGED <<freeListHead, freeListNext, has>>

(***************************************************************************)
(* try_get                                                                 *)
(***************************************************************************)
TryGet(t) ==
  /\ step[t].pc = "idle"
  /\ step' = [step EXCEPT ![t] = [Parked EXCEPT !.pc = "loop",
                                    !.head = freeListHead, !.getting = TRUE]]
  /\ UNCHANGED <<freeListHead, freeListRefs, shouldBeOn, freeListNext, has>>

(* while (head != nullptr): load the node's count. *)
LoadRefs(t) ==
  LET me == step[t] IN
  /\ me.pc = "loop"
  /\ step' = [step EXCEPT ![t] =
       IF me.head = NoNode THEN Parked
       ELSE [Moves(t, "ref") EXCEPT !.refs = freeListRefs[me.head],
                                 !.bit = shouldBeOn[me.head]]]
  /\ UNCHANGED <<freeListHead, freeListRefs, shouldBeOn, freeListNext, has>>

(* A count of zero is never raised: the node is not on the list. *)
MayRef(me) ==
  /\ me.refs # 0
  /\ freeListRefs[me.head] = me.refs
  /\ shouldBeOn[me.head] = me.bit

Ref(t) ==
  LET me == step[t] IN
  /\ me.pc = "ref"
  /\ \/ /\ MayRef(me)
        /\ freeListRefs' = [freeListRefs EXCEPT ![me.head] = @ + 1]
        /\ step' = [step EXCEPT ![t] = [Moves(t, "next") EXCEPT !.refs = 0,
                                                             !.bit = FALSE]]
     \/ /\ ~MayRef(me)
        /\ step' = [step EXCEPT ![t] = [Moves(t, "loop") EXCEPT
                       !.head = freeListHead, !.refs = 0, !.bit = FALSE]]
        /\ UNCHANGED freeListRefs
  /\ UNCHANGED <<freeListHead, shouldBeOn, freeListNext, has>>

LoadNext(t) ==
  /\ step[t].pc = "next"
  /\ step' = [step EXCEPT ![t] = [Moves(t, "pop") EXCEPT
                                    !.next = freeListNext[step[t].head]]]
  /\ UNCHANGED <<freeListHead, freeListRefs, shouldBeOn, freeListNext, has>>

(* A failed exchange loads the head it found; the node looked at is kept   *)
(* to drop the reference.                                                  *)
Pop(t) ==
  LET me == step[t] IN
  /\ me.pc = "pop"
  /\ \/ /\ freeListHead = me.head
        /\ freeListHead' = me.next
        /\ step' = [step EXCEPT ![t] = [Moves(t, "got") EXCEPT !.next = NoNode]]
     \/ /\ freeListHead # me.head
        /\ step' = [step EXCEPT ![t] = [Moves(t, "drop") EXCEPT !.next = NoNode,
                       !.node = me.head, !.head = freeListHead]]
        /\ UNCHANGED freeListHead
  /\ UNCHANGED <<freeListRefs, shouldBeOn, freeListNext, has>>

(* "Decrease refcount twice, once for our ref, and once for the list's". *)
Got(t) ==
  LET n == step[t].head IN
  /\ step[t].pc = "got"
  /\ freeListRefs' = [freeListRefs EXCEPT ![n] = @ - 2]
  /\ has' = [has EXCEPT ![t] = @ \cup {n}]
  /\ step' = [step EXCEPT ![t] = Parked]
  /\ UNCHANGED <<freeListHead, shouldBeOn, freeListNext>>

(* Whoever drops the last reference of a node that should be on the list   *)
(* links it.                                                               *)
MustLink(n) == freeListRefs[n] = 1 /\ shouldBeOn[n]

Drop(t) ==
  LET n == step[t].node IN
  /\ step[t].pc = "drop"
  /\ freeListRefs' = [freeListRefs EXCEPT ![n] = @ - 1]
  /\ step' = [step EXCEPT ![t] = IF MustLink(n) THEN Links(t, n) ELSE AfterLink(t)]
  /\ UNCHANGED <<freeListHead, shouldBeOn, freeListNext, has>>

FreeListInit ==
  /\ freeListHead = NoNode
  /\ freeListRefs = [n \in Nodes |-> 0]
  /\ shouldBeOn = [n \in Nodes |-> FALSE]
  /\ freeListNext = [n \in Nodes |-> NoNode]
  /\ \E owner \in [Nodes -> PoolThreads] :
       has = [t \in PoolThreads |-> {n \in Nodes : owner[n] = t}]
  /\ step = [t \in PoolThreads |-> Parked]

FreeListNext ==
  \E t \in PoolThreads :
    \/ Add(t) \/ LoadLinkHead(t) \/ StoreNext(t) \/ StoreRefs(t) \/ Push(t)
    \/ Unref(t) \/ TryGet(t) \/ LoadRefs(t) \/ Ref(t) \/ LoadNext(t) \/ Pop(t)
    \/ Got(t) \/ Drop(t)

FreeListSpec == FreeListInit /\ [][FreeListNext]_freeListVars

(***************************************************************************)
(* Properties                                                              *)
(***************************************************************************)
Linking(t) == step[t].pc \in {"loadhead", "storenext", "storerefs", "push",
                              "unref"}

(* S has x and, with every node, the one after it. *)
Closed(S, x) ==
  /\ x # NoNode => x \in S
  /\ \A n \in S : freeListNext[n] # NoNode => freeListNext[n] \in S

(* The nodes reached from x: those in every closed set that has x. *)
From(x) == {n \in Nodes : \A S \in SUBSET Nodes : Closed(S, x) => n \in S}

OnList == From(freeListHead)

Looks(t, n) ==
  \/ step[t].pc \in {"next", "pop"} /\ step[t].head = n
  \/ step[t].pc = "drop" /\ step[t].node = n

(* The ways a node can be somewhere; one of them at any time. *)
Places(n) ==
  LET owners == {<<"owned", t>> : t \in {u \in PoolThreads : n \in has[u]}}
      takers == {<<"taken", t>> : t \in {u \in PoolThreads :
                   step[u].pc = "got" /\ step[u].head = n}}
      linkers == {<<"linking", t>> : t \in {u \in PoolThreads :
                    Linking(u) /\ step[u].node = n}}
      listed == {<<"listed", n>> : x \in {n} \cap OnList}
      wanted == {<<"wanted", n>> : x \in {y \in {n} :
                   /\ shouldBeOn[n]
                   /\ ~\E u \in PoolThreads : Linking(u) /\ step[u].node = n
                   /\ \E u \in PoolThreads : Looks(u, n)}}
  IN owners \cup takers \cup linkers \cup listed \cup wanted

(* No block is given to two threads, linked twice, linked while somebody   *)
(* owns it, or lost: it is owned by one thread, or on the list, or just    *)
(* taken off it, or being linked by one thread, or waits for the last      *)
(* thread that looks at it.                                                *)
BlockInOnePlace == \A n \in Nodes : Cardinality(Places(n)) = 1

(* The exchange on the head cannot suffer from a node that left the list   *)
(* and came back: if it would succeed, the next pointer loaded before is   *)
(* still the node's.                                                       *)
PopSeesNext ==
  \A t \in PoolThreads :
    step[t].pc = "pop" /\ freeListHead = step[t].head =>
      step[t].next = freeListNext[step[t].head]

(* The free list hands out each block to one thread at a time (add,        *)
(* try_get): the reference count makes up for the missing tag on the head. *)
FreeListIntact == BlockInOnePlace /\ PopSeesNext
=============================================================================
