--------------------------- MODULE ProducerListProofs --------------------------
(***************************************************************************)
(* What the threads of the lock-free queue rely on when they find their    *)
(* sub-queues and go through those of the others, for any finite number of *)
(* threads, any hash of their ids, any first size of the hash table and    *)
(* any number of readers (os_lockless_queue.h, ConcurrentQueue).           *)
(*                                                                         *)
(* The inductive invariant has four parts, each kept by every step.        *)
(*                                                                         *)
(*  - ListInv: the list has exactly the producers whose push succeeded, is *)
(*    without a cycle, and a producer in use has one thread.  The chain    *)
(*    from a producer is the least set that has it and with each producer  *)
(*    the next one, so that no induction along the list is needed.         *)
(*  - HashInv: a thread is at most once in each table, probing for it      *)
(*    finds it, and all tables agree on its producer.                      *)
(*  - RoomInv: the threads counted in implicitProducerHashCount can be     *)
(*    numbered so that each one's number is at most the count it got, and  *)
(*    below three quarters of every table it is in or has decided for.     *)
(*    A count may be stale, and may be given to two threads after one that *)
(*    failed took its own back; the numbering stays possible, and so a     *)
(*    table is never full.                                                 *)
(*  - ReaderInv: what a dequeue that got nothing has still to look at is   *)
(*    ahead of it in the list, where only younger producers are added.     *)
(***************************************************************************)
EXTENDS ProducerList, FiniteSetTheorems, WellFoundedInduction, TLAPS

-----------------------------------------------------------------------------
(* Natural numbers. *)

\* A set of natural numbers has a least member: the form induction takes here.
LEMMA Least ==
  ASSUME NEW T \in SUBSET Nat, T # {}
  PROVE  \E x \in T : \A y \in T : x <= y
<1> DEFINE R == OpToRel(<, Nat)
<1>1. IsWellFoundedOn(R, Nat)
  BY NatLessThanWellFounded
<1>2. \A x, y \in Nat : x < y => <<x, y>> \in R
  BY SMT DEF OpToRel
<1> HIDE DEF R
<1>3. PICK x \in T : \A y \in T : ~(<<y, x>> \in R)
  BY <1>1, WFMin
<1>4. ASSUME NEW y \in T
      PROVE  x <= y
  <2>1. x \in Nat /\ y \in Nat
    OBVIOUS
  <2>2. ~(y < x)
    BY <1>2, <1>3, <2>1
  <2> QED
    BY <2>1, <2>2
<1> QED
  BY <1>4

LEMMA Greatest ==
  ASSUME NEW n \in Nat, NEW T \in SUBSET (1..n), T # {}
  PROVE  \E x \in T : \A y \in T : y <= x
<1> DEFINE U == {m \in Nat : n - m \in T}
<1>1. \A y \in T : n - y \in U
  <2>1. \A y \in T : n - y \in Nat /\ n - (n - y) = y
    OBVIOUS
  <2> QED
    BY <2>1
<1>2. U # {}
  BY <1>1
<1>3. PICK u \in U : \A y \in U : u <= y
  BY <1>2, Least
<1>4. ASSUME NEW y \in T
      PROVE  y <= n - u
  <2>1. u <= n - y
    BY <1>1, <1>3
  <2> QED
    BY <2>1
<1> QED
  BY <1>4

-----------------------------------------------------------------------------
(* The list: its invariant. *)

From(p) == ChainFrom(producers, p)

ThreadPcs ==
  {"idle", "look", "grab", "head", "link", "push", "acquired", "unown", "retire",
   "count", "room", "reload", "resize", "unlock", "giveup", "insert"}

\* Where a thread has a producer in its hands that is to become its own, or was.
HandPcs == {"head", "link", "push", "acquired", "unown", "retire"}
MakingPcs == {"look", "grab", "head", "link", "push", "acquired"}

OrNone == 0..Len(producers)

ThreadStates ==
  [pc: ThreadPcs, isExplicit: BOOLEAN, main: Nat, newCount: Int, ptr: OrNone,
   index: Nat, producer: OrNone, token: OrNone, mine: OrNone]

ProducerStates ==
  [isExplicit: BOOLEAN, inactive: BOOLEAN, next: OrNone,
   token: Enqueuers \cup {NoThread}]

ListTypeOK ==
  /\ producers \in Seq([isExplicit: BOOLEAN, inactive: BOOLEAN, next: Nat,
                        token: Enqueuers \cup {NoThread}])
  /\ \A p \in AllProducers : producers[p] \in ProducerStates
  /\ producerListTail \in OrNone
  /\ producerCount = Len(producers)
  /\ thread \in [Enqueuers -> ThreadStates]

\* A thread in state me has producer p as its token's, or makes, takes or gives
\* it up.
HasIn(me, p) ==
  \/ me.token = p
  \/ me.pc \in HandPcs /\ me.producer = p

PushesIn(me, p) == me.pc \in {"head", "link", "push"} /\ me.producer = p

\* What thread t knows in state me of the list and the producers it works on.
Knows(t, me, list, tail) ==
  /\ me.pc = "idle" =>
       me = [AtEase EXCEPT !.token = me.token, !.mine = me.mine]
  /\ me.pc = "grab" =>
       me.ptr # 0 /\ list[me.ptr].isExplicit = me.isExplicit
  /\ me.pc \in HandPcs =>
       /\ me.producer # 0 /\ me.producer # me.token
       /\ list[me.producer].isExplicit =
            (me.isExplicit \/ me.pc \in {"unown", "retire"})
  /\ me.pc \in MakingPcs /\ me.isExplicit => me.token = 0
  /\ me.pc \notin MakingPcs => ~me.isExplicit
  /\ me.pc \in {"unown", "retire"} => me.token = 0
  /\ me.pc \in {"link", "push"} => me.ptr \in ChainFrom(list, tail) \cup {0}
  /\ me.pc = "push" => list[me.producer].next = me.ptr
  /\ me.token # 0 =>
       list[me.token].token = t /\ list[me.token].isExplicit

\* A producer in use has one thread and is active; only explicit ones retire.
OneOwnerEach ==
  /\ \A t \in Enqueuers, p \in AllProducers :
       HasIn(thread[t], p) => ~producers[p].inactive
  /\ \A t, u \in Enqueuers, p \in AllProducers :
       HasIn(thread[t], p) /\ HasIn(thread[u], p) => t = u
  /\ \A p \in AllProducers : producers[p].inactive => producers[p].isExplicit

\* The list has every producer but those being pushed, and no cycle.
ListRight ==
  /\ \A p \in AllProducers :
       p \in Listed <=> ~\E t \in Enqueuers : PushesIn(thread[t], p)
  /\ \A p \in Listed : p \notin From(next_prod(p))

ListInv ==
  /\ ListTypeOK
  /\ \A t \in Enqueuers : Knows(t, thread[t], producers, producerListTail)
  /\ OneOwnerEach
  /\ ListRight

-----------------------------------------------------------------------------
(* Chains. *)

\* Every next pointer of the list leads to a producer or to none.
Linked(list) ==
  /\ 0 \notin DOMAIN list
  /\ \A x \in DOMAIN list : list[x].next \in DOMAIN list \cup {0}

\* S has p, if it is one, and with each producer the next one.
Holding(list, S, p) ==
  /\ S \subseteq DOMAIN list
  /\ p \in S \cup {0}
  /\ \A x \in S : list[x].next \in S \cup {0}

\* A chain is contained in every set that holds it.
LEMMA ChainLeast ==
  ASSUME NEW list, NEW p, NEW S, Holding(list, S, p)
  PROVE  ChainFrom(list, p) \subseteq S
BY DEF ChainFrom, Holding

\* A chain holds its first producer and is closed under next.
LEMMA ChainHolds ==
  ASSUME NEW list, Linked(list), NEW p \in DOMAIN list \cup {0}
  PROVE  Holding(list, ChainFrom(list, p), p)
<1>1. p # 0 => p \in ChainFrom(list, p)
  BY DEF ChainFrom
<1>2. ASSUME NEW x \in ChainFrom(list, p), list[x].next # 0
      PROVE  list[x].next \in ChainFrom(list, p)
  <2>1. list[x].next \in DOMAIN list
    BY <1>2 DEF Linked, ChainFrom
  <2>2. ASSUME NEW S \in SUBSET DOMAIN list, p \in S \cup {0},
               \A y \in S : list[y].next \in S \cup {0}
        PROVE  list[x].next \in S
    <3>1. x \in S
      BY <2>2 DEF ChainFrom
    <3> QED
      BY <2>2, <3>1, <1>2
  <2> QED
    BY <2>1, <2>2 DEF ChainFrom
<1>3. ChainFrom(list, p) \subseteq DOMAIN list
  BY DEF ChainFrom
<1> QED
  BY <1>1, <1>2, <1>3 DEF Holding

\* The chain from no producer is empty.
LEMMA ChainOfNone ==
  ASSUME NEW list
  PROVE  ChainFrom(list, 0) = {}
<1>1. Holding(list, {}, 0)
  BY DEF Holding
<1> QED
  BY <1>1, ChainLeast

\* A chain is its first producer and what follows it.
LEMMA ChainFirst ==
  ASSUME NEW list, Linked(list), NEW p \in DOMAIN list
  PROVE  ChainFrom(list, p) = {p} \cup ChainFrom(list, list[p].next)
<1> DEFINE n == list[p].next
<1>1. n \in DOMAIN list \cup {0} /\ p # 0
  BY DEF Linked
<1>2. Holding(list, ChainFrom(list, n), n) /\ Holding(list, ChainFrom(list, p), p)
  BY <1>1, ChainHolds
<1>3. Holding(list, {p} \cup ChainFrom(list, n), p)
  BY <1>2 DEF Holding
<1>4. p \in ChainFrom(list, p)
  BY <1>1, <1>2 DEF Holding
<1>5. Holding(list, ChainFrom(list, p), n)
  BY <1>2, <1>4 DEF Holding
<1> QED
  BY <1>3, <1>4, <1>5, ChainLeast

\* The chain from a member is part of the chain.
LEMMA ChainOn ==
  ASSUME NEW list, Linked(list), NEW p \in DOMAIN list \cup {0},
         NEW q \in ChainFrom(list, p)
  PROVE  /\ q \in DOMAIN list
         /\ q \in ChainFrom(list, q)
         /\ ChainFrom(list, q) \subseteq ChainFrom(list, p)
         /\ list[q].next \in ChainFrom(list, p) \cup {0}
<1>1. Holding(list, ChainFrom(list, p), p)
  BY ChainHolds
<1>2. q \in DOMAIN list /\ q # 0
  BY DEF ChainFrom, Linked
<1>3. Holding(list, ChainFrom(list, p), q)
  BY <1>1 DEF Holding
<1>4. q \in ChainFrom(list, q)
  BY <1>2, ChainHolds DEF Holding
<1>5. list[q].next \in ChainFrom(list, p) \cup {0}
  BY <1>1 DEF Holding
<1> QED
  BY <1>2, <1>3, <1>4, <1>5, ChainLeast

\* A chain stays when its own links do.
LEMMA ChainStays ==
  ASSUME NEW list, NEW new, Linked(list), Linked(new),
         DOMAIN list \subseteq DOMAIN new,
         NEW p \in DOMAIN list \cup {0},
         \A x \in ChainFrom(list, p) : new[x].next = list[x].next
  PROVE  ChainFrom(new, p) = ChainFrom(list, p)
<1>1. Holding(list, ChainFrom(list, p), p)
  BY ChainHolds
<1>2. Holding(new, ChainFrom(list, p), p)
  BY <1>1 DEF Holding
<1>3. ChainFrom(new, p) \subseteq ChainFrom(list, p)
  BY <1>2, ChainLeast
<1>4. Holding(new, ChainFrom(new, p), p)
  BY ChainHolds
<1>5. Holding(list, ChainFrom(new, p), p)
  BY <1>1, <1>3, <1>4 DEF Holding
<1> QED
  BY <1>3, <1>5, ChainLeast

-----------------------------------------------------------------------------
(* The list: steps that leave the producers alone. *)

\* What the types say of the list.
LEMMA ListFacts ==
  ASSUME ListTypeOK
  PROVE  /\ DOMAIN producers = AllProducers
         /\ Linked(producers)
         /\ 0 \notin AllProducers
         /\ OrNone = AllProducers \cup {0}
         /\ Listed \subseteq AllProducers
         /\ \A p \in AllProducers : producers[p] \in ProducerStates /\ next_prod(p) \in OrNone
         /\ \A t \in Enqueuers : thread[t] \in ThreadStates
<1>1. Len(producers) \in Nat /\ DOMAIN producers = AllProducers
  BY DEF ListTypeOK, AllProducers
<1>2. 0 \notin AllProducers /\ OrNone = AllProducers \cup {0}
  BY <1>1 DEF AllProducers, OrNone
<1>3. \A p \in AllProducers : producers[p] \in ProducerStates /\ next_prod(p) \in OrNone
  BY DEF ListTypeOK, ProducerStates, next_prod
<1>4. Linked(producers)
  BY <1>1, <1>2, <1>3 DEF Linked, next_prod
<1>5. Listed \subseteq AllProducers
  BY <1>1 DEF Listed, ChainFrom
<1> QED
  BY <1>1, <1>2, <1>3, <1>4, <1>5 DEF ListTypeOK

LEMMA ReturnsTyped ==
  ASSUME ListTypeOK, NEW t \in Enqueuers
  PROVE  /\ Returns(t) \in ThreadStates
         /\ Returns(t).pc = "idle" /\ Returns(t).producer = 0 /\ Returns(t).index = 0
         /\ Returns(t).token = thread[t].token /\ Returns(t).mine = thread[t].mine
         /\ Returns(t).isExplicit = FALSE /\ Returns(t).ptr = 0
<1>1. thread[t].token \in OrNone /\ thread[t].mine \in OrNone /\ 0 \in OrNone
  BY ListFacts DEF ThreadStates
<1>2. AtEase \in ThreadStates
  BY <1>1 DEF AtEase, ThreadStates, ThreadPcs
<1>3. /\ Returns(t) \in ThreadStates
      /\ Returns(t).token = thread[t].token /\ Returns(t).mine = thread[t].mine
  BY <1>1, <1>2 DEF Returns, ThreadStates
<1>4. /\ Returns(t).pc = "idle" /\ Returns(t).producer = 0 /\ Returns(t).index = 0
      /\ Returns(t).isExplicit = FALSE /\ Returns(t).ptr = 0
  BY DEF Returns, AtEase
<1> QED
  BY <1>3, <1>4

\* A step of a thread that leaves the producers alone and takes none.
LEMMA ThreadMoves ==
  ASSUME ListInv, NEW t \in Enqueuers, NEW new \in ThreadStates,
         thread' = [thread EXCEPT ![t] = new],
         UNCHANGED <<producerListTail, producerCount, producers>>,
         Knows(t, new, producers, producerListTail),
         \A p \in AllProducers : /\ HasIn(new, p) => HasIn(thread[t], p)
                                 /\ PushesIn(new, p) <=> PushesIn(thread[t], p)
  PROVE  ListInv'
<1>1. /\ Listed' = Listed /\ AllProducers' = AllProducers /\ OrNone' = OrNone
      /\ ThreadStates' = ThreadStates /\ ProducerStates' = ProducerStates
  BY DEF Listed, AllProducers, OrNone, ThreadStates, ProducerStates
<1>2. thread \in [Enqueuers -> ThreadStates]
  BY DEF ListInv, ListTypeOK
<1>3. ListTypeOK'
  BY <1>1, <1>2 DEF ListInv, ListTypeOK
<1>5. \A u \in Enqueuers : Knows(u, thread'[u], producers', producerListTail')
  BY <1>2 DEF ListInv
<1>6. \A u \in Enqueuers, p \in AllProducers :
        /\ HasIn(thread'[u], p) => HasIn(thread[u], p)
        /\ PushesIn(thread'[u], p) <=> PushesIn(thread[u], p)
  BY <1>2
<1>7. OneOwnerEach'
  BY <1>1, <1>6 DEF ListInv, OneOwnerEach
<1>8. ListRight'
  BY <1>1, <1>6 DEF ListInv, ListRight, From, next_prod
<1> QED
  BY <1>3, <1>5, <1>7, <1>8 DEF ListInv

LEMMA LookKeepsList ==
  ASSUME ListInv, NEW t \in Enqueuers, Look(t)
  PROVE  ListInv'
<1>0. /\ thread[t] \in ThreadStates /\ thread \in [Enqueuers -> ThreadStates]
      /\ Knows(t, thread[t], producers, producerListTail)
      /\ OrNone = AllProducers \cup {0} /\ 0 \notin AllProducers
      /\ \A p \in AllProducers : next_prod(p) \in OrNone
      /\ producerListTail \in OrNone /\ producerListTail \in Listed \cup {0}
  BY ListFacts, ChainHolds DEF ListInv, ListTypeOK, Listed, Holding
<1>1. CASE thread' = [thread EXCEPT ![t] = LookOn(t)] /\ Look(t)
  <2>0. PICK new : new = LookOn(t)
    OBVIOUS
  <2>1. new \in ThreadStates
    BY <1>0, <1>1, <2>0 DEF Look, LookOn, ThreadStates, ThreadPcs, Goto, OrNone, next_prod
  <2>2. /\ Knows(t, new, producers, producerListTail)
        /\ \A p \in AllProducers : /\ HasIn(new, p) => HasIn(thread[t], p)
                                   /\ PushesIn(new, p) <=> PushesIn(thread[t], p)
    BY <1>0, <1>1, <2>0 DEF Look, LookOn, ThreadStates, Knows, HasIn, PushesIn,
       MakingPcs, HandPcs,
                Goto, Returns, AtEase, Listed, next_prod
  <2>3. UNCHANGED <<producerListTail, producerCount, producers>>
    BY DEF Look
  <2>4. thread' = [thread EXCEPT ![t] = new]
    BY <1>1, <2>0
  <2> QED
    BY <2>4, <2>1, <2>2, <2>3, ThreadMoves
<1>2. CASE thread' = [thread EXCEPT ![t] = Goto(t, "grab")] /\ Look(t)
                 /\ producers[thread[t].ptr].isExplicit = thread[t].isExplicit
  <2>0. PICK new : new = Goto(t, "grab")
    OBVIOUS
  <2>1. new \in ThreadStates
    BY <1>0, <1>2, <2>0 DEF Look, LookOn, ThreadStates, ThreadPcs, Goto, OrNone
  <2>2. /\ Knows(t, new, producers, producerListTail)
        /\ \A p \in AllProducers : /\ HasIn(new, p) => HasIn(thread[t], p)
                                   /\ PushesIn(new, p) <=> PushesIn(thread[t], p)
    BY <1>0, <1>2, <2>0 DEF Look, LookOn, ThreadStates, Knows, HasIn, PushesIn,
       MakingPcs, HandPcs,
                Goto, Returns, AtEase, Listed
  <2>3. UNCHANGED <<producerListTail, producerCount, producers>>
    BY DEF Look
  <2>4. thread' = [thread EXCEPT ![t] = new]
    BY <1>2, <2>0
  <2> QED
    BY <2>4, <2>1, <2>2, <2>3, ThreadMoves
<1> QED
  BY <1>1, <1>2 DEF Look, Sets

LEMMA LoadListTailKeepsList ==
  ASSUME ListInv, NEW t \in Enqueuers, LoadListTail(t)
  PROVE  ListInv'
<1>0. /\ thread[t] \in ThreadStates /\ thread \in [Enqueuers -> ThreadStates]
      /\ Knows(t, thread[t], producers, producerListTail)
      /\ OrNone = AllProducers \cup {0} /\ 0 \notin AllProducers
      /\ \A p \in AllProducers : next_prod(p) \in OrNone
      /\ producerListTail \in OrNone /\ producerListTail \in Listed \cup {0}
  BY ListFacts, ChainHolds DEF ListInv, ListTypeOK, Listed, Holding
<1>1. CASE thread' = [thread EXCEPT ![t] = [Goto(t, "link") EXCEPT !.ptr = producerListTail]]
  <2>0. PICK new : new = [Goto(t, "link") EXCEPT !.ptr = producerListTail]
    OBVIOUS
  <2>1. new \in ThreadStates
    BY <1>0, <1>1, <2>0 DEF LoadListTail, ThreadStates, ThreadPcs, Goto, OrNone
  <2>2. /\ Knows(t, new, producers, producerListTail)
        /\ \A p \in AllProducers : /\ HasIn(new, p) => HasIn(thread[t], p)
                                   /\ PushesIn(new, p) <=> PushesIn(thread[t], p)
    BY <1>0, <1>1, <2>0 DEF LoadListTail, ThreadStates, Knows, HasIn, PushesIn,
       MakingPcs, HandPcs,
                Goto, Returns, AtEase, Listed
  <2>3. UNCHANGED <<producerListTail, producerCount, producers>>
    BY DEF LoadListTail
  <2>4. thread' = [thread EXCEPT ![t] = new]
    BY <1>1, <2>0
  <2> QED
    BY <2>4, <2>1, <2>2, <2>3, ThreadMoves
<1> QED
  BY <1>1 DEF LoadListTail, Sets

LEMMA MakeTokenKeepsList ==
  ASSUME ListInv, NEW t \in Enqueuers, MakeToken(t)
  PROVE  ListInv'
<1>0. /\ thread[t] \in ThreadStates /\ thread \in [Enqueuers -> ThreadStates]
      /\ Knows(t, thread[t], producers, producerListTail)
      /\ OrNone = AllProducers \cup {0} /\ 0 \notin AllProducers
      /\ \A p \in AllProducers : next_prod(p) \in OrNone
      /\ producerListTail \in OrNone /\ producerListTail \in Listed \cup {0}
  BY ListFacts, ChainHolds DEF ListInv, ListTypeOK, Listed, Holding
<1>1. CASE thread' = [thread EXCEPT ![t] = recycle_or_create_producer(t, TRUE)]
  <2>0. PICK new : new = recycle_or_create_producer(t, TRUE)
    OBVIOUS
  <2>1. new \in ThreadStates
    BY <1>0, <1>1, <2>0 DEF MakeToken, recycle_or_create_producer, ThreadStates,
       ThreadPcs, Goto, OrNone
  <2>2. /\ Knows(t, new, producers, producerListTail)
        /\ \A p \in AllProducers : /\ HasIn(new, p) => HasIn(thread[t], p)
                                   /\ PushesIn(new, p) <=> PushesIn(thread[t], p)
    BY <1>0, <1>1, <2>0 DEF MakeToken, recycle_or_create_producer, ThreadStates,
       Knows, HasIn, PushesIn, MakingPcs, HandPcs,
                Goto, Returns, AtEase, Listed
  <2>3. UNCHANGED <<producerListTail, producerCount, producers>>
    BY DEF MakeToken
  <2>4. thread' = [thread EXCEPT ![t] = new]
    BY <1>1, <2>0
  <2> QED
    BY <2>4, <2>1, <2>2, <2>3, ThreadMoves
<1> QED
  BY <1>1 DEF MakeToken, Sets

LEMMA TokenFailsKeepsList ==
  ASSUME ListInv, NEW t \in Enqueuers, TokenFails(t)
  PROVE  ListInv'
<1>0. /\ thread[t] \in ThreadStates /\ thread \in [Enqueuers -> ThreadStates]
      /\ Knows(t, thread[t], producers, producerListTail)
      /\ OrNone = AllProducers \cup {0} /\ 0 \notin AllProducers
      /\ \A p \in AllProducers : next_prod(p) \in OrNone
      /\ producerListTail \in OrNone /\ producerListTail \in Listed \cup {0}
  BY ListFacts, ChainHolds DEF ListInv, ListTypeOK, Listed, Holding
<1>1. CASE thread' = [thread EXCEPT ![t] = Returns(t)]
  <2>0. PICK new : new = Returns(t)
    OBVIOUS
  <2>1. new \in ThreadStates
    BY <2>0, ReturnsTyped DEF ListInv
  <2>2. /\ Knows(t, new, producers, producerListTail)
        /\ \A p \in AllProducers : /\ HasIn(new, p) => HasIn(thread[t], p)
                                   /\ PushesIn(new, p) <=> PushesIn(thread[t], p)
    BY <1>0, <1>1, <2>0 DEF TokenFails, ThreadStates, Knows, HasIn, PushesIn,
       MakingPcs, HandPcs,
                Goto, Returns, AtEase, Listed
  <2>3. UNCHANGED <<producerListTail, producerCount, producers>>
    BY DEF TokenFails
  <2>4. thread' = [thread EXCEPT ![t] = new]
    BY <1>1, <2>0
  <2> QED
    BY <2>4, <2>1, <2>2, <2>3, ThreadMoves
<1> QED
  BY <1>1 DEF TokenFails, Sets

LEMMA DestroyTokenKeepsList ==
  ASSUME ListInv, NEW t \in Enqueuers, DestroyToken(t)
  PROVE  ListInv'
<1>0. /\ thread[t] \in ThreadStates /\ thread \in [Enqueuers -> ThreadStates]
      /\ Knows(t, thread[t], producers, producerListTail)
      /\ OrNone = AllProducers \cup {0} /\ 0 \notin AllProducers
      /\ \A p \in AllProducers : next_prod(p) \in OrNone
      /\ producerListTail \in OrNone /\ producerListTail \in Listed \cup {0}
  BY ListFacts, ChainHolds DEF ListInv, ListTypeOK, Listed, Holding
<1>1. CASE thread' = [thread EXCEPT ![t] = [Goto(t, "unown") EXCEPT !.producer =
      thread[t].token, !.token = 0]]
  <2>0. PICK new : new = [Goto(t, "unown") EXCEPT !.producer = thread[t].token, !.token = 0]
    OBVIOUS
  <2>1. new \in ThreadStates
    BY <1>0, <1>1, <2>0 DEF DestroyToken, ThreadStates, ThreadPcs, Goto, OrNone
  <2>2. /\ Knows(t, new, producers, producerListTail)
        /\ \A p \in AllProducers : /\ HasIn(new, p) => HasIn(thread[t], p)
                                   /\ PushesIn(new, p) <=> PushesIn(thread[t], p)
    BY <1>0, <1>1, <2>0 DEF DestroyToken, ThreadStates, Knows, HasIn, PushesIn,
       MakingPcs, HandPcs,
                Goto, Returns, AtEase, Listed
  <2>3. UNCHANGED <<producerListTail, producerCount, producers>>
    BY DEF DestroyToken
  <2>4. thread' = [thread EXCEPT ![t] = new]
    BY <1>1, <2>0
  <2> QED
    BY <2>4, <2>1, <2>2, <2>3, ThreadMoves
<1> QED
  BY <1>1 DEF DestroyToken, Sets

LEMMA GotProducerKeepsList ==
  ASSUME ListInv, NEW t \in Enqueuers, GotProducer(t)
  PROVE  ListInv'
<1>0. /\ thread[t] \in ThreadStates /\ thread \in [Enqueuers -> ThreadStates]
      /\ Knows(t, thread[t], producers, producerListTail)
      /\ OrNone = AllProducers \cup {0} /\ 0 \notin AllProducers
      /\ \A p \in AllProducers : next_prod(p) \in OrNone
      /\ producerListTail \in OrNone /\ producerListTail \in Listed \cup {0}
  BY ListFacts, ChainHolds DEF ListInv, ListTypeOK, Listed, Holding
<1>1. CASE thread' = [thread EXCEPT ![t] = Goto(t, "insert")]
  <2>0. PICK new : new = Goto(t, "insert")
    OBVIOUS
  <2>1. new \in ThreadStates
    BY <1>0, <1>1, <2>0 DEF GotProducer, ThreadStates, ThreadPcs, Goto, OrNone
  <2>2. /\ Knows(t, new, producers, producerListTail)
        /\ \A p \in AllProducers : /\ HasIn(new, p) => HasIn(thread[t], p)
                                   /\ PushesIn(new, p) <=> PushesIn(thread[t], p)
    BY <1>0, <1>1, <2>0 DEF GotProducer, ThreadStates, Knows, HasIn, PushesIn,
       MakingPcs, HandPcs,
                Goto, Returns, AtEase, Listed
  <2>3. UNCHANGED <<producerListTail, producerCount, producers>>
    BY DEF GotProducer
  <2>4. thread' = [thread EXCEPT ![t] = new]
    BY <1>1, <2>0
  <2> QED
    BY <2>4, <2>1, <2>2, <2>3, ThreadMoves
<1> QED
  BY <1>1 DEF GotProducer, Sets

-----------------------------------------------------------------------------
(* The list: steps that change a producer, add one or link one. *)

\* A step that changes a producer nobody else has, but not where it leads.
LEMMA ProducerChanges ==
  ASSUME ListInv, NEW t \in Enqueuers, NEW new \in ThreadStates,
         NEW p \in AllProducers, NEW prod \in ProducerStates,
         producers' = [producers EXCEPT ![p] = prod],
         thread' = [thread EXCEPT ![t] = new],
         UNCHANGED <<producerListTail, producerCount>>,
         prod.next = producers[p].next,
         prod.isExplicit = producers[p].isExplicit,
         prod.inactive => prod.isExplicit /\ ~HasIn(new, p),
         \A u \in Enqueuers \ {t} : ~HasIn(thread[u], p),
         Knows(t, new, producers', producerListTail),
         \A q \in AllProducers : /\ HasIn(new, q) => HasIn(thread[t], q) \/ q = p
                                 /\ PushesIn(new, q) <=> PushesIn(thread[t], q)
  PROVE  ListInv'
<1>0. /\ DOMAIN producers = AllProducers /\ Linked(producers) /\ 0 \notin AllProducers
      /\ OrNone = AllProducers \cup {0} /\ Listed \subseteq AllProducers
      /\ \A q \in AllProducers : producers[q] \in ProducerStates /\ producers[q].next \in OrNone
      /\ \A u \in Enqueuers : thread[u] \in ThreadStates
  BY ListFacts DEF ListInv, next_prod
<1>1. /\ Len(producers') = Len(producers) /\ DOMAIN producers' = DOMAIN producers
      /\ producers' \in Seq([isExplicit: BOOLEAN, inactive: BOOLEAN, next: Nat,
                             token: Enqueuers \cup {NoThread}])
  BY <1>0 DEF ListInv, ListTypeOK, ProducerStates, OrNone
<1>2. AllProducers' = AllProducers /\ OrNone' = OrNone
  BY <1>1 DEF AllProducers, OrNone
<1>3. \A q \in AllProducers : /\ producers'[q] = IF q = p THEN prod ELSE producers[q]
                              /\ producers'[q].next = producers[q].next
                              /\ producers'[q].isExplicit = producers[q].isExplicit
  BY <1>0
<1>4. Linked(producers')
  BY <1>0, <1>1, <1>3 DEF Linked
<1>5. \A q \in OrNone : ChainFrom(producers', q) = ChainFrom(producers, q)
  <2> SUFFICES ASSUME NEW q \in OrNone
               PROVE  ChainFrom(producers', q) = ChainFrom(producers, q)
    OBVIOUS
  <2>1. ChainFrom(producers, q) \subseteq AllProducers
    BY <1>0 DEF ChainFrom
  <2>2. \A x \in ChainFrom(producers, q) : producers'[x].next = producers[x].next
    BY <2>1, <1>3
  <2>3. /\ DOMAIN producers \subseteq DOMAIN producers' /\ q \in DOMAIN producers \cup {0}
        /\ Linked(producers) /\ Linked(producers')
    BY <1>0, <1>1, <1>4
  <2> QED
    BY <2>2, <2>3, ChainStays
<1>6. Listed' = Listed
  BY <1>5 DEF Listed, ListInv, ListTypeOK
<1>7. /\ thread \in [Enqueuers -> ThreadStates]
      /\ \A u \in Enqueuers : thread'[u] = IF u = t THEN new ELSE thread[u]
  BY DEF ListInv, ListTypeOK
<1>8. ListTypeOK'
  <2>1. ThreadStates' = ThreadStates /\ ProducerStates' = ProducerStates
    BY <1>2 DEF ThreadStates, ProducerStates
  <2>2. \A q \in AllProducers : producers'[q] \in ProducerStates
    BY <1>0, <1>3
  <2>3. thread' \in [Enqueuers -> ThreadStates]
    BY <1>7
  <2> QED
    BY <1>1, <1>2, <2>1, <2>2, <2>3 DEF ListInv, ListTypeOK
<1>9. \A u \in Enqueuers : Knows(u, thread'[u], producers', producerListTail')
  <2> SUFFICES ASSUME NEW u \in Enqueuers, u # t
               PROVE  Knows(u, thread[u], producers', producerListTail)
    BY <1>7
  <2>1. Knows(u, thread[u], producers, producerListTail) /\ thread[u] \in ThreadStates
    BY <1>0 DEF ListInv
  <2>2. thread[u].token # p
    BY <1>0 DEF HasIn
  <2>3. thread[u].ptr \in OrNone /\ thread[u].producer \in OrNone /\ thread[u].token \in OrNone
    BY <2>1 DEF ThreadStates
  <2>4. ChainFrom(producers', producerListTail) = ChainFrom(producers, producerListTail)
    BY <1>5 DEF ListInv, ListTypeOK
  <2>5. thread[u].token \in AllProducers => producers'[thread[u].token] =
        producers[thread[u].token]
    BY <1>3, <2>2
  <2> QED
    BY <1>0, <1>3, <2>1, <2>3, <2>4, <2>5 DEF Knows
<1>10. OneOwnerEach'
  <2>1. \A u \in Enqueuers, q \in AllProducers :
          HasIn(thread'[u], q) => HasIn(thread[u], q) \/ (u = t /\ q = p)
    BY <1>7
  <2>2. \A u \in Enqueuers, q \in AllProducers : HasIn(thread'[u], q) => ~producers'[q].inactive
    BY <2>1, <1>3, <1>7 DEF ListInv, OneOwnerEach
  <2>3. \A u, v \in Enqueuers, q \in AllProducers :
          HasIn(thread'[u], q) /\ HasIn(thread'[v], q) => u = v
    BY <2>1, <1>7 DEF ListInv, OneOwnerEach
  <2>4. \A q \in AllProducers : producers'[q].inactive => producers'[q].isExplicit
    BY <1>3 DEF ListInv, OneOwnerEach
  <2> QED
    BY <1>2, <2>2, <2>3, <2>4 DEF OneOwnerEach
<1>11. ListRight'
  <2>1. \A u \in Enqueuers, q \in AllProducers :
          PushesIn(thread'[u], q) <=> PushesIn(thread[u], q)
    BY <1>7
  <2>2. \A q \in Listed : q \notin ChainFrom(producers', producers'[q].next)
    <3> SUFFICES ASSUME NEW q \in Listed
                 PROVE  q \notin ChainFrom(producers', producers'[q].next)
      OBVIOUS
    <3>1. producers'[q].next = producers[q].next /\ producers[q].next \in OrNone
      BY <1>0, <1>3
    <3>2. q \notin ChainFrom(producers, producers[q].next)
      BY DEF ListInv, ListRight, From, next_prod
    <3> QED
      BY <1>5, <3>1, <3>2
  <2> QED
    BY <1>2, <1>6, <2>1, <2>2 DEF ListInv, ListRight, From, next_prod
<1> QED
  BY <1>8, <1>9, <1>10, <1>11 DEF ListInv

\* The exchange on inactive gives a producer to one thread.
LEMMA GrabKeepsList ==
  ASSUME ListInv, NEW t \in Enqueuers, Grab(t)
  PROVE  ListInv'
<1>0. /\ thread[t] \in ThreadStates /\ thread \in [Enqueuers -> ThreadStates]
      /\ Knows(t, thread[t], producers, producerListTail)
      /\ OrNone = AllProducers \cup {0} /\ 0 \notin AllProducers
      /\ \A p \in AllProducers : next_prod(p) \in OrNone /\ producers[p] \in ProducerStates
      /\ DOMAIN producers = AllProducers
  BY ListFacts DEF ListInv, ListTypeOK
<1> DEFINE p == thread[t].ptr
<1>1. p \in AllProducers /\ producers[p] \in ProducerStates
  BY <1>0 DEF Grab, Knows, ThreadStates
<1>2. CASE /\ StillInactive(p)
           /\ producers' = [producers EXCEPT ![p].inactive = FALSE]
           /\ Sets(t, AcquiredProducer(t, p))
  <2>1. PICK new : new = AcquiredProducer(t, p)
    OBVIOUS
  <2>2. PICK prod : prod = [producers[p] EXCEPT !.inactive = FALSE]
    OBVIOUS
  <2>3. PICK q \in AllProducers : q = p
    BY <1>1
  <2>4. /\ producers' = [producers EXCEPT ![q] = prod] /\ producers'[q] = prod
        /\ thread' = [thread EXCEPT ![t] = new]
        /\ UNCHANGED <<producerListTail, producerCount>>
    BY <1>0, <1>2, <2>1, <2>2, <2>3 DEF Sets, Grab
  <2>5. new \in ThreadStates /\ prod \in ProducerStates
    BY <1>0, <1>1, <2>1, <2>2
    DEF AcquiredProducer, Goto, ThreadStates, ThreadPcs, ProducerStates, OrNone
  <2>6. /\ prod.next = producers[q].next /\ prod.isExplicit = producers[q].isExplicit
        /\ ~prod.inactive
    BY <1>1, <2>2, <2>3 DEF ProducerStates
  <2>7. \A u \in Enqueuers : ~HasIn(thread[u], q)
    BY <1>1, <1>2, <2>3 DEF ListInv, OneOwnerEach, StillInactive
  <2>8. Knows(t, new, producers', producerListTail)
    BY <1>0, <1>1, <2>1, <2>3, <2>4, <2>6, <2>7
    DEF Knows, Grab, AcquiredProducer, Goto, ThreadStates, MakingPcs, HandPcs, HasIn
  <2>9. \A r \in AllProducers : /\ HasIn(new, r) => HasIn(thread[t], r) \/ r = q
                                /\ PushesIn(new, r) <=> PushesIn(thread[t], r)
    BY <1>0, <2>1, <2>3 DEF HasIn, PushesIn, Grab, AcquiredProducer, Goto, ThreadStates, HandPcs
  <2> QED
    BY <2>4, <2>5, <2>6, <2>7, <2>8, <2>9, ProducerChanges
<1>3. CASE Sets(t, LookOn(t)) /\ UNCHANGED producers
  <2>1. PICK new : new = LookOn(t)
    OBVIOUS
  <2>2. new \in ThreadStates
    BY <1>0, <1>1, <2>1 DEF LookOn, ThreadStates, ThreadPcs, next_prod
  <2>3. /\ Knows(t, new, producers, producerListTail)
        /\ \A r \in AllProducers : /\ HasIn(new, r) => HasIn(thread[t], r)
                                   /\ PushesIn(new, r) <=> PushesIn(thread[t], r)
    BY <1>0, <2>1 DEF LookOn, ThreadStates, Knows, Grab, HasIn, PushesIn, MakingPcs, HandPcs
  <2>4. /\ thread' = [thread EXCEPT ![t] = new]
        /\ UNCHANGED <<producerListTail, producerCount, producers>>
    BY <1>3, <2>1 DEF Sets, Grab
  <2> QED
    BY <2>2, <2>3, <2>4, ThreadMoves
<1> QED
  BY <1>2, <1>3 DEF Grab

LEMMA OwnProducerKeepsList ==
  ASSUME ListInv, NEW t \in Enqueuers, OwnProducer(t)
  PROVE  ListInv'
<1>0. /\ thread[t] \in ThreadStates /\ thread \in [Enqueuers -> ThreadStates]
      /\ Knows(t, thread[t], producers, producerListTail)
      /\ OrNone = AllProducers \cup {0} /\ 0 \notin AllProducers
      /\ \A p \in AllProducers : next_prod(p) \in OrNone /\ producers[p] \in ProducerStates
      /\ DOMAIN producers = AllProducers
  BY ListFacts DEF ListInv, ListTypeOK
<1>1. PICK p \in AllProducers : p = thread[t].producer /\ producers[p] \in ProducerStates
  BY <1>0 DEF OwnProducer, Knows, ThreadStates, HandPcs
<1>2. PICK new : new = [Returns(t) EXCEPT !.token = thread[t].producer]
  OBVIOUS
<1>3. PICK prod : prod = [producers[p] EXCEPT !.token = t]
  OBVIOUS
<1>4. /\ producers' = [producers EXCEPT ![p] = prod] /\ producers'[p] = prod
      /\ thread' = [thread EXCEPT ![t] = new]
      /\ UNCHANGED <<producerListTail, producerCount>>
  BY <1>0, <1>1, <1>2, <1>3 DEF Sets, OwnProducer
<1>5. new \in ThreadStates /\ prod \in ProducerStates
  <2>1. new \in ThreadStates
    BY <1>0, <1>2, ReturnsTyped DEF ListInv, ThreadStates
  <2>2. prod \in ProducerStates
    BY <1>1, <1>3 DEF ProducerStates
  <2> QED
    BY <2>1, <2>2
<1>6. /\ prod.next = producers[p].next /\ prod.isExplicit = producers[p].isExplicit
      /\ prod.inactive => prod.isExplicit /\ ~HasIn(new, p)
  <2>1. HasIn(thread[t], p)
    BY <1>1 DEF HasIn, HandPcs, OwnProducer
  <2>2. ~producers[p].inactive
    BY <2>1 DEF ListInv, OneOwnerEach
  <2>3. /\ prod.next = producers[p].next /\ prod.isExplicit = producers[p].isExplicit
        /\ ~prod.inactive
    BY <1>1, <1>3, <2>2 DEF ProducerStates
  <2> QED
    BY <2>3
<1>7. \A u \in Enqueuers \ {t} : ~HasIn(thread[u], p)
  BY <1>1 DEF ListInv, OneOwnerEach, HasIn, HandPcs, OwnProducer
<1>8. Knows(t, new, producers', producerListTail)
  <2>1. prod.token = t
    BY <1>1, <1>3 DEF ProducerStates
  <2> QED
    BY <1>0, <1>1, <1>2, <1>4, <1>6, <2>1
    DEF Knows, OwnProducer, Returns, AtEase, Goto, ThreadStates, MakingPcs, HandPcs
<1>9. \A q \in AllProducers : /\ HasIn(new, q) => HasIn(thread[t], q) \/ q = p
                              /\ PushesIn(new, q) <=> PushesIn(thread[t], q)
  BY <1>0, <1>1, <1>2 DEF HasIn, PushesIn, OwnProducer, Returns, AtEase, Goto,
     ThreadStates, HandPcs
<1> QED
  BY <1>4, <1>5, <1>6, <1>7, <1>8, <1>9, ProducerChanges

LEMMA UnownKeepsList ==
  ASSUME ListInv, NEW t \in Enqueuers, Unown(t)
  PROVE  ListInv'
<1>0. /\ thread[t] \in ThreadStates /\ thread \in [Enqueuers -> ThreadStates]
      /\ Knows(t, thread[t], producers, producerListTail)
      /\ OrNone = AllProducers \cup {0} /\ 0 \notin AllProducers
      /\ \A p \in AllProducers : next_prod(p) \in OrNone /\ producers[p] \in ProducerStates
      /\ DOMAIN producers = AllProducers
  BY ListFacts DEF ListInv, ListTypeOK
<1>1. PICK p \in AllProducers : p = thread[t].producer /\ producers[p] \in ProducerStates
  BY <1>0 DEF Unown, Knows, ThreadStates, HandPcs
<1>2. PICK new : new = Goto(t, "retire")
  OBVIOUS
<1>3. PICK prod : prod = [producers[p] EXCEPT !.token = NoThread]
  OBVIOUS
<1>4. /\ producers' = [producers EXCEPT ![p] = prod] /\ producers'[p] = prod
      /\ thread' = [thread EXCEPT ![t] = new]
      /\ UNCHANGED <<producerListTail, producerCount>>
  BY <1>0, <1>1, <1>2, <1>3 DEF Sets, Unown
<1>5. new \in ThreadStates /\ prod \in ProducerStates
  <2>1. new \in ThreadStates
    BY <1>0, <1>2 DEF Goto, ThreadStates, ThreadPcs
  <2>2. prod \in ProducerStates
    BY <1>1, <1>3 DEF ProducerStates
  <2> QED
    BY <2>1, <2>2
<1>6. /\ prod.next = producers[p].next /\ prod.isExplicit = producers[p].isExplicit
      /\ prod.inactive => prod.isExplicit /\ ~HasIn(new, p)
  <2>1. HasIn(thread[t], p)
    BY <1>1 DEF HasIn, HandPcs, Unown
  <2>2. ~producers[p].inactive
    BY <2>1 DEF ListInv, OneOwnerEach
  <2>3. /\ prod.next = producers[p].next /\ prod.isExplicit = producers[p].isExplicit
        /\ ~prod.inactive
    BY <1>1, <1>3, <2>2 DEF ProducerStates
  <2> QED
    BY <2>3
<1>7. \A u \in Enqueuers \ {t} : ~HasIn(thread[u], p)
  BY <1>1 DEF ListInv, OneOwnerEach, HasIn, HandPcs, Unown
<1>8. Knows(t, new, producers', producerListTail)
  <2>1. prod.isExplicit = producers[p].isExplicit
    BY <1>1, <1>3 DEF ProducerStates
  <2> QED
    BY <1>0, <1>1, <1>2, <1>4, <1>6, <2>1
    DEF Knows, Unown, Returns, AtEase, Goto, ThreadStates, MakingPcs, HandPcs
<1>9. \A q \in AllProducers : /\ HasIn(new, q) => HasIn(thread[t], q) \/ q = p
                              /\ PushesIn(new, q) <=> PushesIn(thread[t], q)
  BY <1>0, <1>1, <1>2 DEF HasIn, PushesIn, Unown, Returns, AtEase, Goto, ThreadStates, HandPcs
<1> QED
  BY <1>4, <1>5, <1>6, <1>7, <1>8, <1>9, ProducerChanges

LEMMA RetireProducerKeepsList ==
  ASSUME ListInv, NEW t \in Enqueuers, RetireProducer(t)
  PROVE  ListInv'
<1>0. /\ thread[t] \in ThreadStates /\ thread \in [Enqueuers -> ThreadStates]
      /\ Knows(t, thread[t], producers, producerListTail)
      /\ OrNone = AllProducers \cup {0} /\ 0 \notin AllProducers
      /\ \A p \in AllProducers : next_prod(p) \in OrNone /\ producers[p] \in ProducerStates
      /\ DOMAIN producers = AllProducers
  BY ListFacts DEF ListInv, ListTypeOK
<1>1. PICK p \in AllProducers : p = thread[t].producer /\ producers[p] \in ProducerStates
  BY <1>0 DEF RetireProducer, Knows, ThreadStates, HandPcs
<1>2. PICK new : new = Returns(t)
  OBVIOUS
<1>3. PICK prod : prod = [producers[p] EXCEPT !.inactive = TRUE]
  OBVIOUS
<1>4. /\ producers' = [producers EXCEPT ![p] = prod] /\ producers'[p] = prod
      /\ thread' = [thread EXCEPT ![t] = new]
      /\ UNCHANGED <<producerListTail, producerCount>>
  BY <1>0, <1>1, <1>2, <1>3 DEF Sets, RetireProducer
<1>5. new \in ThreadStates /\ prod \in ProducerStates
  <2>1. new \in ThreadStates
    BY <1>2, ReturnsTyped DEF ListInv
  <2>2. prod \in ProducerStates
    BY <1>1, <1>3 DEF ProducerStates
  <2> QED
    BY <2>1, <2>2
<1>6. /\ prod.next = producers[p].next /\ prod.isExplicit = producers[p].isExplicit
      /\ prod.inactive => prod.isExplicit /\ ~HasIn(new, p)
  <2>1. HasIn(thread[t], p)
    BY <1>1 DEF HasIn, HandPcs, RetireProducer
  <2>2. ~producers[p].inactive
    BY <2>1 DEF ListInv, OneOwnerEach
  <2>3. /\ prod.next = producers[p].next /\ prod.isExplicit = producers[p].isExplicit
        /\ TRUE
    BY <1>1, <1>3, <2>2 DEF ProducerStates
  <2> QED
    BY <1>0, <1>1, <1>2, <2>3
    DEF Knows, RetireProducer, HandPcs, HasIn, Returns, AtEase, ThreadStates
<1>7. \A u \in Enqueuers \ {t} : ~HasIn(thread[u], p)
  BY <1>1 DEF ListInv, OneOwnerEach, HasIn, HandPcs, RetireProducer
<1>8. Knows(t, new, producers', producerListTail)
  <2>1. prod.isExplicit = producers[p].isExplicit
    BY <1>1, <1>3 DEF ProducerStates
  <2> QED
    BY <1>0, <1>1, <1>2, <1>4, <1>6, <2>1
    DEF Knows, RetireProducer, Returns, AtEase, Goto, ThreadStates, MakingPcs, HandPcs
<1>9. \A q \in AllProducers : /\ HasIn(new, q) => HasIn(thread[t], q) \/ q = p
                              /\ PushesIn(new, q) <=> PushesIn(thread[t], q)
  BY <1>0, <1>1, <1>2 DEF HasIn, PushesIn, RetireProducer, Returns, AtEase, Goto,
     ThreadStates, HandPcs
<1> QED
  BY <1>4, <1>5, <1>6, <1>7, <1>8, <1>9, ProducerChanges

\* The new producer is in nobody's chain.
LEMMA CreateKeepsList ==
  ASSUME ListInv, NEW t \in Enqueuers, Create(t)
  PROVE  ListInv'
<1>0. /\ thread[t] \in ThreadStates /\ thread \in [Enqueuers -> ThreadStates]
      /\ Knows(t, thread[t], producers, producerListTail)
      /\ OrNone = AllProducers \cup {0} /\ 0 \notin AllProducers
      /\ DOMAIN producers = AllProducers /\ Linked(producers) /\ Listed \subseteq AllProducers
      /\ \A p \in AllProducers : producers[p] \in ProducerStates /\ producers[p].next \in OrNone
      /\ \A u \in Enqueuers : thread[u] \in ThreadStates
      /\ producerListTail \in OrNone
  BY ListFacts DEF ListInv, ListTypeOK, next_prod
<1>1. PICK p : p = Len(producers) + 1
  OBVIOUS
<1>2. PICK prod : prod = [isExplicit |-> thread[t].isExplicit, inactive |-> FALSE,
                          next |-> 0, token |-> NoThread]
  OBVIOUS
<1>3. PICK new : new = [Goto(t, "head") EXCEPT !.producer = p]
  OBVIOUS
<1>4. /\ producers' = Append(producers, prod)
      /\ thread' = [thread EXCEPT ![t] = new]
      /\ producerCount' = producerCount + 1
      /\ producerListTail' = producerListTail
      /\ thread[t].pc = "look"
  BY <1>1, <1>2, <1>3 DEF Create, Sets, Counted
<1>5. /\ prod \in [isExplicit: BOOLEAN, inactive: BOOLEAN, next: Nat,
                   token: Enqueuers \cup {NoThread}]
      /\ producers \in Seq([isExplicit: BOOLEAN, inactive: BOOLEAN, next: Nat,
                            token: Enqueuers \cup {NoThread}])
  BY <1>0, <1>2 DEF ThreadStates, ListInv, ListTypeOK
<1>6. /\ Len(producers') = p /\ Len(producers) \in Nat
      /\ producers' \in Seq([isExplicit: BOOLEAN, inactive: BOOLEAN, next: Nat,
                             token: Enqueuers \cup {NoThread}])
      /\ \A q \in 1..Len(producers) : producers'[q] = producers[q]
      /\ producers'[p] = prod
      /\ DOMAIN producers' = 1..p
  BY <1>1, <1>4, <1>5
<1>7. /\ AllProducers' = AllProducers \cup {p} /\ p \notin AllProducers /\ p # 0
      /\ OrNone' = OrNone \cup {p} /\ DOMAIN producers' = AllProducers \cup {p}
      /\ 0 \notin AllProducers'
  BY <1>1, <1>6 DEF AllProducers, OrNone
<1>8. Linked(producers')
  BY <1>0, <1>2, <1>6, <1>7 DEF Linked, AllProducers
<1>9. \A q \in OrNone : ChainFrom(producers', q) = ChainFrom(producers, q)
  <2> SUFFICES ASSUME NEW q \in OrNone
               PROVE  ChainFrom(producers', q) = ChainFrom(producers, q)
    OBVIOUS
  <2>1. \A x \in ChainFrom(producers, q) : producers'[x].next = producers[x].next
    BY <1>0, <1>6 DEF ChainFrom, AllProducers
  <2>2. /\ DOMAIN producers \subseteq DOMAIN producers' /\ q \in DOMAIN producers \cup {0}
        /\ Linked(producers) /\ Linked(producers')
    BY <1>0, <1>7, <1>8
  <2> QED
    BY <2>1, <2>2, ChainStays
<1>10. Listed' = Listed
  BY <1>0, <1>4, <1>9 DEF Listed
<1>11. \A u \in Enqueuers : thread'[u] = IF u = t THEN new ELSE thread[u]
  BY <1>0, <1>4
<1>12. \A u \in Enqueuers : ~HasIn(thread[u], p) /\ ~PushesIn(thread[u], p)
  BY <1>0, <1>7 DEF HasIn, PushesIn, ThreadStates
<1>13. ListTypeOK'
  <2>1. new \in ThreadStates'
    <3>1. thread[t].token \in OrNone' /\ thread[t].mine \in OrNone' /\ thread[t].ptr \in OrNone'
          /\ p \in OrNone'
      BY <1>0, <1>7 DEF ThreadStates
    <3> QED
      BY <1>0, <1>3, <3>1 DEF ThreadStates, ThreadPcs, Goto
  <2>2. \A u \in Enqueuers : thread[u] \in ThreadStates'
    BY <1>0, <1>7 DEF ThreadStates
  <2>3. thread' \in [Enqueuers -> ThreadStates']
    BY <1>0, <1>4, <2>1, <2>2
  <2>4. \A q \in AllProducers' : producers'[q] \in ProducerStates'
    <3>1. prod \in ProducerStates'
      BY <1>0, <1>2, <1>5, <1>7 DEF ProducerStates
    <3>2. \A q \in AllProducers : producers'[q] \in ProducerStates
      BY <1>0, <1>6 DEF AllProducers
    <3>3. ProducerStates \subseteq ProducerStates'
      BY <1>7 DEF ProducerStates
    <3> QED
      BY <1>6, <1>7, <3>1, <3>2, <3>3
  <2>5. producerListTail' \in OrNone' /\ producerCount' = Len(producers')
    BY <1>0, <1>1, <1>4, <1>6, <1>7 DEF ListInv, ListTypeOK
  <2> QED
    BY <1>6, <2>3, <2>4, <2>5 DEF ListTypeOK
<1>14. \A u \in Enqueuers : Knows(u, thread'[u], producers', producerListTail')
  <2>1. ChainFrom(producers', producerListTail) = ChainFrom(producers, producerListTail)
    BY <1>0, <1>9
  <2>2. ASSUME NEW u \in Enqueuers, u # t
        PROVE  Knows(u, thread[u], producers', producerListTail)
    <3>1. Knows(u, thread[u], producers, producerListTail) /\ thread[u] \in ThreadStates
      BY <1>0 DEF ListInv
    <3>2. thread[u].ptr \in OrNone /\ thread[u].producer \in OrNone
          /\ thread[u].token \in OrNone
      BY <3>1 DEF ThreadStates
    <3>3. \A q \in OrNone \ {0} : producers'[q] = producers[q]
      BY <1>0, <1>6 DEF AllProducers
    <3>4. thread[u].pc = "grab" => producers'[thread[u].ptr] = producers[thread[u].ptr]
      BY <3>1, <3>2, <3>3 DEF Knows
    <3>5. thread[u].pc \in HandPcs =>
            producers'[thread[u].producer] = producers[thread[u].producer]
      BY <3>1, <3>2, <3>3 DEF Knows
    <3>6. thread[u].token # 0 => producers'[thread[u].token] = producers[thread[u].token]
      BY <3>2, <3>3
    <3>7. thread[u].pc = "push" => thread[u].pc \in HandPcs
      BY DEF HandPcs
    <3> QED
      BY <3>1, <3>4, <3>5, <3>6, <3>7, <2>1 DEF Knows
  <2>3. Knows(t, new, producers', producerListTail)
    <3>1. thread[t].token \in OrNone
      BY <1>0 DEF ThreadStates
    <3>2. thread[t].token # 0 => producers'[thread[t].token] = producers[thread[t].token]
      BY <1>0, <1>6, <3>1 DEF AllProducers
    <3>3. p # thread[t].token
      BY <1>0, <1>7, <3>1
    <3> QED
      BY <1>0, <1>2, <1>3, <1>4, <1>6, <1>7, <3>2, <3>3
      DEF Knows, Goto, ThreadStates, HandPcs, MakingPcs
  <2> QED
    BY <1>4, <1>11, <2>2, <2>3
<1>15. OneOwnerEach'
  <2>1. \A u \in Enqueuers, q \in AllProducers :
          HasIn(thread'[u], q) => HasIn(thread[u], q)
    BY <1>3, <1>4, <1>7, <1>11, <1>0 DEF HasIn, Goto, ThreadStates, HandPcs
  <2>2. \A u \in Enqueuers : HasIn(thread'[u], p) => u = t
    BY <1>11, <1>12
  <2>3. \A u \in Enqueuers, q \in AllProducers' : HasIn(thread'[u], q) =>
        ~producers'[q].inactive
    BY <2>1, <1>2, <1>6, <1>7 DEF ListInv, OneOwnerEach, AllProducers
  <2>4. \A u, v \in Enqueuers, q \in AllProducers' :
          HasIn(thread'[u], q) /\ HasIn(thread'[v], q) => u = v
    BY <2>1, <2>2, <1>7 DEF ListInv, OneOwnerEach
  <2>5. \A q \in AllProducers' : producers'[q].inactive => producers'[q].isExplicit
    BY <1>2, <1>6, <1>7 DEF ListInv, OneOwnerEach, AllProducers
  <2> QED
    BY <2>3, <2>4, <2>5 DEF OneOwnerEach
<1>16. ListRight'
  <2>1. \A u \in Enqueuers, q \in AllProducers :
          PushesIn(thread'[u], q) <=> PushesIn(thread[u], q)
    <3>1. \A q \in AllProducers : ~PushesIn(new, q) /\ ~PushesIn(thread[t], q)
      BY <1>0, <1>3, <1>4, <1>7 DEF PushesIn, Goto, ThreadStates
    <3> QED
      BY <1>11, <3>1
  <2>2. PushesIn(thread'[t], p)
    BY <1>0, <1>3, <1>11 DEF PushesIn, Goto, ThreadStates
  <2>3. \A q \in AllProducers' : q \in Listed' <=> ~\E u \in Enqueuers : PushesIn(thread'[u], q)
    BY <1>0, <1>7, <1>10, <2>1, <2>2 DEF ListInv, ListRight
  <2>4. \A q \in Listed' : q \notin ChainFrom(producers', producers'[q].next)
    <3> SUFFICES ASSUME NEW q \in Listed
                 PROVE  q \notin ChainFrom(producers', producers'[q].next)
      BY <1>10
    <3>1. producers'[q].next = producers[q].next /\ producers[q].next \in OrNone
      BY <1>0, <1>6 DEF AllProducers
    <3>2. q \notin ChainFrom(producers, producers[q].next)
      BY DEF ListInv, ListRight, From, next_prod
    <3> QED
      BY <1>9, <3>1, <3>2
  <2> QED
    BY <2>3, <2>4 DEF ListRight, From, next_prod
<1> QED
  BY <1>13, <1>14, <1>15, <1>16 DEF ListInv

\* The producer being linked is not in the list yet: no chain changes.
LEMMA LinkNextKeepsList ==
  ASSUME ListInv, NEW t \in Enqueuers, LinkNext(t)
  PROVE  ListInv'
<1>0. /\ thread[t] \in ThreadStates /\ thread \in [Enqueuers -> ThreadStates]
      /\ Knows(t, thread[t], producers, producerListTail)
      /\ OrNone = AllProducers \cup {0} /\ 0 \notin AllProducers
      /\ DOMAIN producers = AllProducers /\ Linked(producers) /\ Listed \subseteq AllProducers
      /\ \A q \in AllProducers : producers[q] \in ProducerStates /\ producers[q].next \in OrNone
      /\ \A u \in Enqueuers : thread[u] \in ThreadStates
      /\ producerListTail \in OrNone
  BY ListFacts DEF ListInv, ListTypeOK, next_prod
<1>1. PICK p \in AllProducers : p = thread[t].producer
  BY <1>0 DEF LinkNext, Knows, ThreadStates, HandPcs
<1>2. PICK new : new = Goto(t, "push")
  OBVIOUS
<1>3. PICK n \in OrNone : n = thread[t].ptr
  BY <1>0 DEF ThreadStates
<1>4. PICK prod : prod = [producers[p] EXCEPT !.next = n]
  OBVIOUS
<1>5. /\ producers' = [producers EXCEPT ![p] = prod]
      /\ thread' = [thread EXCEPT ![t] = new]
      /\ producerCount' = producerCount /\ producerListTail' = producerListTail
      /\ thread[t].pc = "link"
  BY <1>0, <1>1, <1>2, <1>3, <1>4 DEF LinkNext, Sets
<1>6. /\ new \in ThreadStates /\ prod \in ProducerStates
      /\ prod.next = n /\ prod.isExplicit = producers[p].isExplicit
      /\ prod.inactive = producers[p].inactive /\ prod.token = producers[p].token
  BY <1>0, <1>2, <1>3, <1>4 DEF Goto, ThreadStates, ThreadPcs, ProducerStates
<1>7. /\ Len(producers') = Len(producers) /\ DOMAIN producers' = DOMAIN producers
      /\ producers' \in Seq([isExplicit: BOOLEAN, inactive: BOOLEAN, next: Nat,
                             token: Enqueuers \cup {NoThread}])
  BY <1>0, <1>5, <1>6 DEF ListInv, ListTypeOK, ProducerStates, OrNone
<1>8. AllProducers' = AllProducers /\ OrNone' = OrNone
  BY <1>7 DEF AllProducers, OrNone
<1>9. \A q \in AllProducers : producers'[q] = IF q = p THEN prod ELSE producers[q]
  BY <1>0, <1>5
<1>10. Linked(producers')
  BY <1>0, <1>6, <1>7, <1>9 DEF Linked
<1>11. p \notin Listed
  BY <1>1, <1>5 DEF ListInv, ListRight, PushesIn
<1>12. \A q \in Listed \cup {0} : /\ ChainFrom(producers', q) = ChainFrom(producers, q)
                                  /\ ChainFrom(producers, q) \subseteq Listed
  <2> SUFFICES ASSUME NEW q \in Listed \cup {0}
               PROVE  /\ ChainFrom(producers', q) = ChainFrom(producers, q)
                      /\ ChainFrom(producers, q) \subseteq Listed
    OBVIOUS
  <2>1. ChainFrom(producers, q) \subseteq Listed
    <3>1. CASE q = 0
      BY <3>1, ChainOfNone
    <3>2. CASE q \in Listed
      BY <3>2, <1>0, ChainOn DEF Listed
    <3> QED
      BY <3>1, <3>2
  <2>2. \A x \in ChainFrom(producers, q) : producers'[x].next = producers[x].next
    BY <2>1, <1>0, <1>9, <1>11
  <2>3. q \in DOMAIN producers \cup {0} /\ DOMAIN producers \subseteq DOMAIN producers'
    BY <1>0, <1>7
  <2> QED
    BY <2>1, <2>2, <2>3, <1>0, <1>10, ChainStays
<1>13. Listed' = Listed
  <2>1. producerListTail \in Listed \cup {0}
    BY <1>0, ChainHolds DEF Listed, Holding
  <2> QED
    BY <2>1, <1>5, <1>12 DEF Listed
<1>14. \A u \in Enqueuers : thread'[u] = IF u = t THEN new ELSE thread[u]
  BY <1>0, <1>5
<1>15. \A u \in Enqueuers : ~(u # t /\ HasIn(thread[u], p)) /\ HasIn(thread[t], p)
  BY <1>1, <1>5 DEF ListInv, OneOwnerEach, HasIn, HandPcs
<1>16. ListTypeOK'
  <2>1. ThreadStates' = ThreadStates /\ ProducerStates' = ProducerStates
    BY <1>8 DEF ThreadStates, ProducerStates
  <2>2. \A q \in AllProducers : producers'[q] \in ProducerStates
    BY <1>0, <1>6, <1>9
  <2>3. thread' \in [Enqueuers -> ThreadStates]
    BY <1>0, <1>6, <1>14, <1>5
  <2> QED
    BY <1>5, <1>7, <1>8, <2>1, <2>2, <2>3 DEF ListInv, ListTypeOK
<1>17. \A u \in Enqueuers : Knows(u, thread'[u], producers', producerListTail')
  <2>1. ASSUME NEW u \in Enqueuers, u # t
        PROVE  Knows(u, thread[u], producers', producerListTail)
    <3>1. Knows(u, thread[u], producers, producerListTail) /\ thread[u] \in ThreadStates
      BY <1>0 DEF ListInv
    <3>2. thread[u].ptr \in OrNone /\ thread[u].producer \in OrNone
          /\ thread[u].token \in OrNone
      BY <3>1 DEF ThreadStates
    <3>3. ChainFrom(producers', producerListTail) = ChainFrom(producers, producerListTail)
      BY <1>13, <1>5 DEF Listed
    <3>4. \A q \in AllProducers : /\ producers'[q].isExplicit = producers[q].isExplicit
                                  /\ producers'[q].token = producers[q].token
      BY <1>6, <1>9
    <3>5. thread[u].pc = "push" => producers'[thread[u].producer] =
          producers[thread[u].producer]
      <4> SUFFICES ASSUME thread[u].pc = "push"
                   PROVE  producers'[thread[u].producer] = producers[thread[u].producer]
        OBVIOUS
      <4>1. HasIn(thread[u], thread[u].producer) /\ thread[u].producer # 0
        BY <3>1 DEF HasIn, HandPcs, Knows
      <4>2. thread[u].producer \in AllProducers /\ thread[u].producer # p
        BY <4>1, <3>2, <1>0, <1>15, <2>1
      <4> QED
        BY <4>2, <1>9
    <3>6. thread[u].token # 0 => thread[u].token \in AllProducers
      BY <3>2, <1>0
    <3>7. thread[u].pc \in HandPcs => thread[u].producer \in AllProducers
      BY <3>1, <3>2, <1>0 DEF Knows
    <3>8. thread[u].pc = "grab" => thread[u].ptr \in AllProducers
      BY <3>1, <3>2, <1>0 DEF Knows
    <3> QED
      BY <3>1, <3>3, <3>4, <3>5, <3>6, <3>7, <3>8 DEF Knows
  <2>2. Knows(t, new, producers', producerListTail)
    <3>1. thread[t].token \in OrNone /\ thread[t].token # p
      BY <1>0, <1>1, <1>5 DEF ThreadStates, Knows, HandPcs
    <3>2. thread[t].token # 0 => producers'[thread[t].token] = producers[thread[t].token]
      BY <1>0, <1>9, <3>1
    <3>3. producers'[p].next = n /\ producers'[p].isExplicit = producers[p].isExplicit
      BY <1>6, <1>9
    <3>4. ChainFrom(producers', producerListTail) = ChainFrom(producers, producerListTail)
      BY <1>13, <1>5 DEF Listed
    <3> QED
      BY <1>0, <1>1, <1>2, <1>3, <1>5, <3>2, <3>3, <3>4
      DEF Knows, Goto, ThreadStates, HandPcs, MakingPcs
  <2> QED
    BY <1>5, <1>14, <2>1, <2>2
<1>18. \A u \in Enqueuers, q \in AllProducers :
         /\ HasIn(thread'[u], q) <=> HasIn(thread[u], q)
         /\ PushesIn(thread'[u], q) <=> PushesIn(thread[u], q)
  <2>1. \A q \in AllProducers : /\ HasIn(new, q) <=> HasIn(thread[t], q)
                                /\ PushesIn(new, q) <=> PushesIn(thread[t], q)
    BY <1>0, <1>2, <1>5 DEF HasIn, PushesIn, Goto, ThreadStates, HandPcs
  <2> QED
    BY <2>1, <1>14
<1>19. OneOwnerEach'
  <2>1. \A q \in AllProducers : /\ producers'[q].isExplicit = producers[q].isExplicit
                                /\ producers'[q].inactive = producers[q].inactive
    BY <1>6, <1>9
  <2> QED
    BY <1>8, <1>18, <2>1 DEF ListInv, OneOwnerEach
<1>20. ListRight'
  <2>1. \A q \in Listed : q \notin ChainFrom(producers', producers'[q].next)
    <3> SUFFICES ASSUME NEW q \in Listed
                 PROVE  q \notin ChainFrom(producers', producers'[q].next)
      OBVIOUS
    <3>1. producers'[q].next = producers[q].next
      BY <1>0, <1>9, <1>11
    <3>2. producers[q].next \in Listed \cup {0}
      BY <1>0, ChainOn DEF Listed
    <3>3. q \notin ChainFrom(producers, producers[q].next)
      BY DEF ListInv, ListRight, From, next_prod
    <3> QED
      BY <1>12, <3>1, <3>2, <3>3
  <2> QED
    BY <1>8, <1>13, <1>18, <2>1 DEF ListInv, ListRight, From, next_prod
<1> QED
  BY <1>16, <1>17, <1>19, <1>20 DEF ListInv

\* The exchange found the head the producer is linked to: it comes before all
\* others.
LEMMA PushProducerKeepsList ==
  ASSUME ListInv, NEW t \in Enqueuers, PushProducer(t)
  PROVE  ListInv'
<1>0. /\ thread[t] \in ThreadStates /\ thread \in [Enqueuers -> ThreadStates]
      /\ Knows(t, thread[t], producers, producerListTail)
      /\ OrNone = AllProducers \cup {0} /\ 0 \notin AllProducers
      /\ DOMAIN producers = AllProducers /\ Linked(producers) /\ Listed \subseteq AllProducers
      /\ producerListTail \in OrNone /\ producerListTail \in Listed \cup {0}
  BY ListFacts, ChainHolds DEF ListInv, ListTypeOK, Listed, Holding
<1>1. PICK p \in AllProducers : p = thread[t].producer
  BY <1>0 DEF PushProducer, Knows, ThreadStates, HandPcs
<1>2. thread[t].pc = "push" /\ UNCHANGED <<producerCount, producers>>
  BY DEF PushProducer
<1>3. p \notin Listed /\ next_prod(p) = thread[t].ptr
  BY <1>0, <1>1, <1>2 DEF ListInv, ListRight, PushesIn, Knows, next_prod
<1>4. CASE /\ producerListTail = thread[t].ptr
           /\ producerListTail' = thread[t].producer
           /\ Sets(t, AcquiredProducer(t, thread[t].producer))
  <2>1. PICK new : new = AcquiredProducer(t, p)
    OBVIOUS
  <2>2. /\ thread' = [thread EXCEPT ![t] = new] /\ producerListTail' = p
        /\ \A u \in Enqueuers : thread'[u] = IF u = t THEN new ELSE thread[u]
    BY <1>0, <1>1, <1>4, <2>1 DEF Sets
  <2>3. new \in ThreadStates
    BY <1>0, <1>1, <2>1 DEF AcquiredProducer, Goto, ThreadStates, ThreadPcs
  <2>4. /\ AllProducers' = AllProducers /\ OrNone' = OrNone
        /\ ThreadStates' = ThreadStates /\ ProducerStates' = ProducerStates
        /\ \A q : From(q)' = From(q) /\ next_prod(q)' = next_prod(q)
    BY <1>2 DEF AllProducers, OrNone, ThreadStates, ProducerStates, From, next_prod
  <2>5. /\ Listed' = {p} \cup Listed
        /\ ChainFrom(producers, p) = {p} \cup ChainFrom(producers, producerListTail)
    BY <1>0, <1>2, <1>3, <1>4, <2>2, ChainFirst DEF Listed, next_prod
  <2>6. ListTypeOK'
    <3>1. thread' \in [Enqueuers -> ThreadStates] /\ producerListTail' \in OrNone
      BY <1>0, <2>2, <2>3
    <3> QED
      BY <1>2, <2>4, <3>1 DEF ListInv, ListTypeOK
  <2>7. \A u \in Enqueuers : Knows(u, thread'[u], producers', producerListTail')
    <3>1. ASSUME NEW u \in Enqueuers, Knows(u, thread[u], producers, producerListTail)
          PROVE  Knows(u, thread[u], producers, p)
      BY <2>5, <3>1 DEF Knows
    <3>2. Knows(t, new, producers, p)
      BY <1>0, <1>1, <1>2, <2>1
      DEF Knows, AcquiredProducer, Goto, ThreadStates, HandPcs, MakingPcs
    <3> QED
      BY <1>2, <2>2, <3>1, <3>2 DEF ListInv
  <2>8. \A u \in Enqueuers, q \in AllProducers :
          /\ HasIn(thread'[u], q) <=> HasIn(thread[u], q)
          /\ PushesIn(thread'[u], q) <=> PushesIn(thread[u], q) /\ ~(u = t /\ q = p)
    <3>1. \A q \in AllProducers : /\ HasIn(new, q) <=> HasIn(thread[t], q)
                                  /\ ~PushesIn(new, q)
                                  /\ PushesIn(thread[t], q) <=> q = p
      BY <1>0, <1>1, <1>2, <2>1
      DEF HasIn, PushesIn, AcquiredProducer, Goto, ThreadStates, HandPcs
    <3> QED
      BY <2>2, <3>1
  <2>9. OneOwnerEach'
    BY <1>2, <2>4, <2>8 DEF ListInv, OneOwnerEach
  <2>10. ListRight'
    <3>1. \A u \in Enqueuers \ {t} : ~PushesIn(thread[u], p)
      BY <1>1, <1>2 DEF ListInv, OneOwnerEach, PushesIn, HasIn, HandPcs
    <3>2. \A q \in AllProducers : q \in Listed' <=> ~\E u \in Enqueuers :
          PushesIn(thread'[u], q)
      <4> SUFFICES ASSUME NEW q \in AllProducers
                   PROVE  q \in Listed' <=> ~\E u \in Enqueuers : PushesIn(thread'[u], q)
        OBVIOUS
      <4>1. CASE q = p
        BY <4>1, <2>5, <2>8, <3>1
      <4>2. CASE q # p
        BY <4>2, <2>5, <2>8 DEF ListInv, ListRight
      <4> QED
        BY <4>1, <4>2
    <3>3. p \notin From(next_prod(p))
      BY <1>3, <1>4 DEF From, Listed
    <3> QED
      BY <2>4, <2>5, <3>2, <3>3 DEF ListInv, ListRight
  <2> QED
    BY <2>6, <2>7, <2>9, <2>10 DEF ListInv
<1>5. CASE Sets(t, AfterFailedPush(t)) /\ UNCHANGED producerListTail
  <2>1. PICK new : new = AfterFailedPush(t)
    OBVIOUS
  <2>2. new \in ThreadStates
    BY <1>0, <2>1 DEF AfterFailedPush, Goto, ThreadStates, ThreadPcs
  <2>3. /\ Knows(t, new, producers, producerListTail)
        /\ \A q \in AllProducers : /\ HasIn(new, q) => HasIn(thread[t], q)
                                   /\ PushesIn(new, q) <=> PushesIn(thread[t], q)
    BY <1>0, <1>2, <2>1
    DEF AfterFailedPush, Goto, ThreadStates, Knows, HasIn, PushesIn, MakingPcs, HandPcs, Listed
  <2>4. /\ thread' = [thread EXCEPT ![t] = new]
        /\ UNCHANGED <<producerListTail, producerCount, producers>>
    BY <1>2, <1>5, <2>1 DEF Sets
  <2> QED
    BY <2>2, <2>3, <2>4, ThreadMoves
<1> QED
  BY <1>4, <1>5 DEF PushProducer

-----------------------------------------------------------------------------
(* The hash of threads: its invariant. *)

TableStates ==
  UNION {[capacity: {c}, key: [0..(c - 1) -> Enqueuers \cup {NoThread}],
          value: [0..(c - 1) -> Nat]] : c \in Nat \ {0}}

AllTables == 1..Len(tables)

Slots(table) == 0..(table.capacity - 1)

IsIn(t, table) == \E k \in Slots(table) : table.key[k] = t

\* v is the producer of thread t wherever t is in a table.
HasValue(t, v, all) ==
  \A i \in 1..Len(all) : \A k \in Slots(all[i]) :
    all[i].key[k] = t => all[i].value[k] = v

\* Making an implicit producer, before it is in a table.
Registers(me) ==
  \/ me.pc \in {"count", "room", "reload", "resize", "unlock", "giveup"}
  \/ me.pc \in MakingPcs /\ ~me.isExplicit

\* A thread is once in a table, probing for it finds it, and with one producer.
KeepThread(t, all) ==
  /\ \A i \in 1..Len(all) :
       /\ \A k, l \in Slots(all[i]) :
            all[i].key[k] = t /\ all[i].key[l] = t => k = l
       /\ IsIn(t, all[i]) => FoundIn(t, all[i])
  /\ \E v \in Nat \ {0} : HasValue(t, v, all)

\* What thread t knows in state me of the tables.
KnowsTables(t, me, all) ==
  /\ Registers(me) => /\ me.mine = 0
                      /\ me.main \in 1..Len(all)
                      /\ \A i \in 1..Len(all) : ~IsIn(t, all[i])
  /\ me.pc # "insert" => me.index = 0
  /\ me.mine # 0 => HasValue(t, me.mine, all)
  /\ (\A i \in 1..Len(all) : ~IsIn(t, all[i])) => me.mine = 0
  /\ me.pc = "insert" =>
       /\ me.producer # 0
       /\ me.main \in 1..Len(all)
       /\ ~IsIn(t, all[me.main])
       /\ HasValue(t, me.producer, all)
       /\ me.mine \in {0, me.producer}
       /\ me.index < all[me.main].capacity
       /\ \A j \in 0..(me.index - 1) :
            all[me.main].key[Probe(t, all[me.main].capacity, j)] # NoThread

HashTypeOK ==
  /\ tables \in Seq(TableStates) /\ Len(tables) > 0
  /\ \A i \in AllTables : \A k \in Slots(tables[i]) : tables[i].value[k] \in OrNone
  /\ hashCount \in Int

HashInv ==
  /\ HashTypeOK
  /\ \A t \in Enqueuers : /\ KeepThread(t, tables)
                          /\ KnowsTables(t, thread[t], tables)

\* What the types say of the tables.
LEMMA TableFacts ==
  ASSUME HashTypeOK
  PROVE  /\ DOMAIN tables = AllTables /\ Len(tables) \in Nat /\ Len(tables) \in AllTables
         /\ \A i \in AllTables :
              /\ tables[i] \in TableStates
              /\ tables[i].capacity \in Nat \ {0}
              /\ tables[i].key \in [Slots(tables[i]) -> Enqueuers \cup {NoThread}]
              /\ tables[i].value \in [Slots(tables[i]) -> Nat]
<1>1. DOMAIN tables = AllTables /\ Len(tables) \in Nat /\ Len(tables) \in AllTables
  BY DEF HashTypeOK, AllTables
<1>2. \A i \in AllTables : tables[i] \in TableStates
  BY DEF HashTypeOK, AllTables
<1>3. ASSUME NEW table \in TableStates
      PROVE  /\ table.capacity \in Nat \ {0}
             /\ table.key \in [0..(table.capacity - 1) -> Enqueuers \cup {NoThread}]
             /\ table.value \in [0..(table.capacity - 1) -> Nat]
  BY DEF TableStates
<1> QED
  BY <1>1, <1>2, <1>3 DEF Slots

\* A probe looks at a slot of the table.
LEMMA ProbeInTable ==
  ASSUME NEW t \in Enqueuers, NEW c \in Nat \ {0}, NEW k \in Nat
  PROVE  Probe(t, c, k) \in 0..(c - 1)
<1>1. HashIds[t] \in Nat
  BY ListAssumption
<1>2. HashIds[t] + k \in Nat
  BY <1>1
<1> QED
  BY <1>2 DEF Probe

\* A table in which a thread is found has the thread's producer.
LEMMA FoundHasValue ==
  ASSUME HashTypeOK, ListTypeOK, NEW t \in Enqueuers, NEW i \in AllTables,
         FoundIn(t, tables[i])
  PROVE  /\ IsIn(t, tables[i])
         /\ ValueIn(t, tables[i]) \in OrNone
         /\ \A v : HasValue(t, v, tables) => ValueIn(t, tables[i]) = v
<1>0. /\ tables[i].capacity \in Nat \ {0}
      /\ DOMAIN tables[i].key = Slots(tables[i])
  BY TableFacts
<1>1. PICK k \in 0..(tables[i].capacity - 1) :
        tables[i].key[Probe(t, tables[i].capacity, k)] = t
  BY DEF FoundIn
<1>2. Probe(t, tables[i].capacity, k) \in Slots(tables[i])
  <2>1. k \in Nat
    BY <1>0
  <2> QED
    BY <1>0, <2>1, ProbeInTable DEF Slots
<1> DEFINE s == CHOOSE j \in DOMAIN tables[i].key : tables[i].key[j] = t
<1>3. s \in Slots(tables[i]) /\ tables[i].key[s] = t
  BY <1>0, <1>1, <1>2
<1>4. ValueIn(t, tables[i]) = tables[i].value[s]
  BY DEF ValueIn
<1> QED
  BY <1>1, <1>2, <1>3, <1>4 DEF IsIn, HasValue, HashTypeOK, AllTables

LEMMA MineReturned ==
  ASSUME ListInv, NEW t \in Enqueuers, ~thread[t].isExplicit, NEW m \in OrNone,
         NEW new, new = [Returns(t) EXCEPT !.mine = m],
         thread[t].pc \notin {"push", "head", "link"}
  PROVE  /\ new \in ThreadStates
         /\ Knows(t, new, producers, producerListTail)
         /\ \A p \in AllProducers : /\ HasIn(new, p) => HasIn(thread[t], p)
                                    /\ PushesIn(new, p) <=> PushesIn(thread[t], p)
<1>1. /\ Returns(t) \in ThreadStates /\ Returns(t).pc = "idle"
      /\ Returns(t).token = thread[t].token /\ Returns(t).isExplicit = FALSE
  BY ReturnsTyped DEF ListInv
<1>2. /\ new \in ThreadStates /\ new.pc = "idle" /\ new.token = thread[t].token
      /\ new.mine = m /\ new.isExplicit = FALSE
  BY <1>1 DEF ThreadStates
<1>3. new = [AtEase EXCEPT !.token = new.token, !.mine = new.mine]
  BY <1>2 DEF Returns, AtEase
<1>4. Knows(t, thread[t], producers, producerListTail)
  BY DEF ListInv
<1>5. Knows(t, new, producers, producerListTail)
  BY <1>2, <1>3, <1>4 DEF Knows, HandPcs, MakingPcs
<1> QED
  BY <1>2, <1>5 DEF HasIn, PushesIn, HandPcs

-----------------------------------------------------------------------------
(* The list: steps on the hash of threads. *)

\* The search finds the newest table that has the thread.
LEMMA NewestTable ==
  ASSUME HashTypeOK, NEW t \in Enqueuers, TablesWith(t) # {}
  PROVE  LET newest == CHOOSE i \in TablesWith(t) : \A j \in TablesWith(t) : j <= i
         IN newest \in TablesWith(t) /\ \A j \in TablesWith(t) : j <= newest
<1>1. TablesWith(t) \in SUBSET (1..Len(tables)) /\ Len(tables) \in Nat
  BY TableFacts DEF TablesWith
<1>2. \E i \in TablesWith(t) : \A j \in TablesWith(t) : j <= i
  BY <1>1, Greatest
<1> QED
  BY <1>2

LEMMA GetProducerKeepsList ==
  ASSUME ListInv, HashTypeOK, NEW t \in Enqueuers, GetProducer(t)
  PROVE  ListInv'
<1>0. /\ thread[t] \in ThreadStates /\ thread \in [Enqueuers -> ThreadStates]
      /\ Knows(t, thread[t], producers, producerListTail)
      /\ OrNone = AllProducers \cup {0} /\ 0 \notin AllProducers
      /\ producerListTail \in OrNone
      /\ Len(tables) \in AllTables /\ AllTables \subseteq Nat /\ hashCount \in Int
  BY ListFacts, TableFacts DEF ListInv, ListTypeOK, HashTypeOK, AllTables
<1>a. UNCHANGED <<producerListTail, producerCount, producers>>
  BY DEF GetProducer
<1> DEFINE newest == CHOOSE i \in TablesWith(t) : \A j \in TablesWith(t) : j <= i
<1>b. /\ newest \in TablesWith(t)
       /\ \A j \in TablesWith(t) : j <= newest
  BY NewestTable DEF GetProducer
<1>02. PICK value \in OrNone : value = ValueIn(t, tables[newest])
  BY <1>b, FoundHasValue DEF ListInv, TablesWith, AllTables
<1> HIDE DEF newest
<1>1. CASE thread' = [thread EXCEPT ![t] = [Returns(t) EXCEPT !.mine = value]]
  <2>0. PICK new : new = [Returns(t) EXCEPT !.mine = value]
    OBVIOUS
  <2>1. value \in OrNone /\ ~thread[t].isExplicit /\ thread[t].pc \notin {"push",
        "head", "link"}
    BY <1>0 DEF GetProducer, Knows, MakingPcs, ThreadStates
  <2>2. thread' = [thread EXCEPT ![t] = new]
    BY <1>1, <2>0
  <2> QED
    BY <1>a, <2>0, <2>1, <2>2, MineReturned, ThreadMoves
<1>2. CASE thread' = [thread EXCEPT ![t] = [Goto(t, "insert") EXCEPT !.main =
      Len(tables), !.producer = value]]
  <2>0. PICK new : new = [Goto(t, "insert") EXCEPT !.main = Len(tables), !.producer = value]
    OBVIOUS
  <2>1. new \in ThreadStates
    BY <1>0, <1>2, <2>0 DEF GetProducer, Goto, ThreadStates, ThreadPcs
  <2>2. /\ Knows(t, new, producers, producerListTail)
        /\ \A p \in AllProducers : /\ HasIn(new, p) => HasIn(thread[t], p)
                                   /\ PushesIn(new, p) <=> PushesIn(thread[t], p)
    BY <1>0, <1>2, <2>0 DEF GetProducer, Goto, ThreadStates, Knows, HasIn, PushesIn,
       MakingPcs, HandPcs
  <2>3. thread' = [thread EXCEPT ![t] = new]
    BY <1>2, <2>0
  <2> QED
    BY <1>a, <2>1, <2>2, <2>3, ThreadMoves
<1> QED
  BY <1>1, <1>2, <1>02 DEF GetProducer, Sets, newest

LEMMA GetNothingKeepsList ==
  ASSUME ListInv, HashTypeOK, NEW t \in Enqueuers, GetNothing(t)
  PROVE  ListInv'
<1>0. /\ thread[t] \in ThreadStates /\ thread \in [Enqueuers -> ThreadStates]
      /\ Knows(t, thread[t], producers, producerListTail)
      /\ OrNone = AllProducers \cup {0} /\ 0 \notin AllProducers
      /\ producerListTail \in OrNone
      /\ Len(tables) \in AllTables /\ AllTables \subseteq Nat /\ hashCount \in Int
  BY ListFacts, TableFacts DEF ListInv, ListTypeOK, HashTypeOK, AllTables
<1>a. UNCHANGED <<producerListTail, producerCount, producers>>
  BY DEF GetNothing
<1>1. CASE thread' = [thread EXCEPT ![t] = [Goto(t, "count") EXCEPT !.main = Len(tables)]]
  <2>0. PICK new : new = [Goto(t, "count") EXCEPT !.main = Len(tables)]
    OBVIOUS
  <2>1. new \in ThreadStates
    BY <1>0, <1>1, <2>0 DEF GetNothing, Goto, ThreadStates, ThreadPcs
  <2>2. /\ Knows(t, new, producers, producerListTail)
        /\ \A p \in AllProducers : /\ HasIn(new, p) => HasIn(thread[t], p)
                                   /\ PushesIn(new, p) <=> PushesIn(thread[t], p)
    BY <1>0, <1>1, <2>0 DEF GetNothing, Goto, ThreadStates, Knows, HasIn, PushesIn,
       MakingPcs, HandPcs
  <2>3. thread' = [thread EXCEPT ![t] = new]
    BY <1>1, <2>0
  <2> QED
    BY <1>a, <2>1, <2>2, <2>3, ThreadMoves
<1> QED
  BY <1>1 DEF GetNothing, Sets

LEMMA CountThreadKeepsList ==
  ASSUME ListInv, HashTypeOK, NEW t \in Enqueuers, CountThread(t)
  PROVE  ListInv'
<1>0. /\ thread[t] \in ThreadStates /\ thread \in [Enqueuers -> ThreadStates]
      /\ Knows(t, thread[t], producers, producerListTail)
      /\ OrNone = AllProducers \cup {0} /\ 0 \notin AllProducers
      /\ producerListTail \in OrNone
      /\ Len(tables) \in AllTables /\ AllTables \subseteq Nat /\ hashCount \in Int
  BY ListFacts, TableFacts DEF ListInv, ListTypeOK, HashTypeOK, AllTables
<1>a. UNCHANGED <<producerListTail, producerCount, producers>>
  BY DEF CountThread
<1>b. hashCount + 1 \in Int
  BY <1>0
<1>1. CASE thread' = [thread EXCEPT ![t] = [Goto(t, "room") EXCEPT !.newCount = hashCount + 1]]
  <2>0. PICK new : new = [Goto(t, "room") EXCEPT !.newCount = hashCount + 1]
    OBVIOUS
  <2>1. new \in ThreadStates
    BY <1>0, <1>1, <2>0, <1>b DEF CountThread, Goto, ThreadStates, ThreadPcs
  <2>2. /\ Knows(t, new, producers, producerListTail)
        /\ \A p \in AllProducers : /\ HasIn(new, p) => HasIn(thread[t], p)
                                   /\ PushesIn(new, p) <=> PushesIn(thread[t], p)
    BY <1>0, <1>1, <2>0 DEF CountThread, Goto, ThreadStates, Knows, HasIn, PushesIn,
       MakingPcs, HandPcs
  <2>3. thread' = [thread EXCEPT ![t] = new]
    BY <1>1, <2>0
  <2> QED
    BY <1>a, <2>1, <2>2, <2>3, ThreadMoves
<1> QED
  BY <1>1 DEF CountThread, Sets

LEMMA LoopTopKeepsList ==
  ASSUME ListInv, HashTypeOK, NEW t \in Enqueuers, LoopTop(t)
  PROVE  ListInv'
<1>0. /\ thread[t] \in ThreadStates /\ thread \in [Enqueuers -> ThreadStates]
      /\ Knows(t, thread[t], producers, producerListTail)
      /\ OrNone = AllProducers \cup {0} /\ 0 \notin AllProducers
      /\ producerListTail \in OrNone
      /\ Len(tables) \in AllTables /\ AllTables \subseteq Nat /\ hashCount \in Int
  BY ListFacts, TableFacts DEF ListInv, ListTypeOK, HashTypeOK, AllTables
<1>a. UNCHANGED <<producerListTail, producerCount, producers>>
  BY DEF LoopTop
<1>1. CASE thread' = [thread EXCEPT ![t] = Goto(t, "resize")]
  <2>0. PICK new : new = Goto(t, "resize")
    OBVIOUS
  <2>1. new \in ThreadStates
    BY <1>0, <1>1, <2>0 DEF LoopTop, Goto, ThreadStates, ThreadPcs
  <2>2. /\ Knows(t, new, producers, producerListTail)
        /\ \A p \in AllProducers : /\ HasIn(new, p) => HasIn(thread[t], p)
                                   /\ PushesIn(new, p) <=> PushesIn(thread[t], p)
    BY <1>0, <1>1, <2>0 DEF LoopTop, Goto, ThreadStates, Knows, HasIn, PushesIn,
       MakingPcs, HandPcs
  <2>3. thread' = [thread EXCEPT ![t] = new]
    BY <1>1, <2>0
  <2> QED
    BY <1>a, <2>1, <2>2, <2>3, ThreadMoves
<1>2. CASE thread' = [thread EXCEPT ![t] = [recycle_or_create_producer(t, FALSE)
      EXCEPT !.main = thread[t].main]]
  <2>0. PICK new : new = [recycle_or_create_producer(t, FALSE) EXCEPT !.main = thread[t].main]
    OBVIOUS
  <2>1. new \in ThreadStates
    BY <1>0, <1>2, <2>0 DEF LoopTop, recycle_or_create_producer, Goto, ThreadStates, ThreadPcs
  <2>2. /\ Knows(t, new, producers, producerListTail)
        /\ \A p \in AllProducers : /\ HasIn(new, p) => HasIn(thread[t], p)
                                   /\ PushesIn(new, p) <=> PushesIn(thread[t], p)
    BY <1>0, <1>2, <2>0 DEF LoopTop, recycle_or_create_producer, Goto, ThreadStates,
       Knows, HasIn, PushesIn, MakingPcs, HandPcs
  <2>3. thread' = [thread EXCEPT ![t] = new]
    BY <1>2, <2>0
  <2> QED
    BY <1>a, <2>1, <2>2, <2>3, ThreadMoves
<1>3. CASE thread' = [thread EXCEPT ![t] = [Goto(t, "reload") EXCEPT !.main = thread[t].main]]
  <2>0. PICK new : new = [Goto(t, "reload") EXCEPT !.main = thread[t].main]
    OBVIOUS
  <2>1. new \in ThreadStates
    BY <1>0, <1>3, <2>0 DEF LoopTop, Goto, ThreadStates, ThreadPcs
  <2>2. /\ Knows(t, new, producers, producerListTail)
        /\ \A p \in AllProducers : /\ HasIn(new, p) => HasIn(thread[t], p)
                                   /\ PushesIn(new, p) <=> PushesIn(thread[t], p)
    BY <1>0, <1>3, <2>0 DEF LoopTop, Goto, ThreadStates, Knows, HasIn, PushesIn,
       MakingPcs, HandPcs
  <2>3. thread' = [thread EXCEPT ![t] = new]
    BY <1>3, <2>0
  <2> QED
    BY <1>a, <2>1, <2>2, <2>3, ThreadMoves
<1> QED
  BY <1>1, <1>2, <1>3 DEF LoopTop, Sets, Decided

LEMMA ReloadKeepsList ==
  ASSUME ListInv, HashTypeOK, NEW t \in Enqueuers, Reload(t)
  PROVE  ListInv'
<1>0. /\ thread[t] \in ThreadStates /\ thread \in [Enqueuers -> ThreadStates]
      /\ Knows(t, thread[t], producers, producerListTail)
      /\ OrNone = AllProducers \cup {0} /\ 0 \notin AllProducers
      /\ producerListTail \in OrNone
      /\ Len(tables) \in AllTables /\ AllTables \subseteq Nat /\ hashCount \in Int
  BY ListFacts, TableFacts DEF ListInv, ListTypeOK, HashTypeOK, AllTables
<1>a. UNCHANGED <<producerListTail, producerCount, producers>>
  BY DEF Reload
<1>1. CASE thread' = [thread EXCEPT ![t] = [Goto(t, "room") EXCEPT !.main = Len(tables)]]
  <2>0. PICK new : new = [Goto(t, "room") EXCEPT !.main = Len(tables)]
    OBVIOUS
  <2>1. new \in ThreadStates
    BY <1>0, <1>1, <2>0 DEF Reload, Goto, ThreadStates, ThreadPcs
  <2>2. /\ Knows(t, new, producers, producerListTail)
        /\ \A p \in AllProducers : /\ HasIn(new, p) => HasIn(thread[t], p)
                                   /\ PushesIn(new, p) <=> PushesIn(thread[t], p)
    BY <1>0, <1>1, <2>0 DEF Reload, Goto, ThreadStates, Knows, HasIn, PushesIn,
       MakingPcs, HandPcs
  <2>3. thread' = [thread EXCEPT ![t] = new]
    BY <1>1, <2>0
  <2> QED
    BY <1>a, <2>1, <2>2, <2>3, ThreadMoves
<1> QED
  BY <1>1 DEF Reload, Sets

LEMMA ResizeTableKeepsList ==
  ASSUME ListInv, HashTypeOK, NEW t \in Enqueuers, ResizeTable(t)
  PROVE  ListInv'
<1>0. /\ thread[t] \in ThreadStates /\ thread \in [Enqueuers -> ThreadStates]
      /\ Knows(t, thread[t], producers, producerListTail)
      /\ OrNone = AllProducers \cup {0} /\ 0 \notin AllProducers
      /\ producerListTail \in OrNone
      /\ Len(tables) \in AllTables /\ AllTables \subseteq Nat /\ hashCount \in Int
  BY ListFacts, TableFacts DEF ListInv, ListTypeOK, HashTypeOK, AllTables
<1>a. UNCHANGED <<producerListTail, producerCount, producers>>
  BY DEF ResizeTable
<1>b. Len(tables') \in Nat
  BY <1>0 DEF ResizeTable, HashTypeOK, AllTables
<1>1. CASE thread' = [thread EXCEPT ![t] = [Goto(t, "unlock") EXCEPT !.main = Len(tables')]]
  <2>0. PICK new : new = [Goto(t, "unlock") EXCEPT !.main = Len(tables')]
    OBVIOUS
  <2>1. new \in ThreadStates
    BY <1>0, <1>1, <2>0, <1>b DEF ResizeTable, Goto, ThreadStates, ThreadPcs
  <2>2. /\ Knows(t, new, producers, producerListTail)
        /\ \A p \in AllProducers : /\ HasIn(new, p) => HasIn(thread[t], p)
                                   /\ PushesIn(new, p) <=> PushesIn(thread[t], p)
    BY <1>0, <1>1, <2>0 DEF ResizeTable, Goto, ThreadStates, Knows, HasIn, PushesIn,
       MakingPcs, HandPcs
  <2>3. thread' = [thread EXCEPT ![t] = new]
    BY <1>1, <2>0
  <2> QED
    BY <1>a, <2>1, <2>2, <2>3, ThreadMoves
<1> QED
  BY <1>1 DEF ResizeTable, Sets

LEMMA ResizeUnlockKeepsList ==
  ASSUME ListInv, HashTypeOK, NEW t \in Enqueuers, ResizeUnlock(t)
  PROVE  ListInv'
<1>0. /\ thread[t] \in ThreadStates /\ thread \in [Enqueuers -> ThreadStates]
      /\ Knows(t, thread[t], producers, producerListTail)
      /\ OrNone = AllProducers \cup {0} /\ 0 \notin AllProducers
      /\ producerListTail \in OrNone
      /\ Len(tables) \in AllTables /\ AllTables \subseteq Nat /\ hashCount \in Int
  BY ListFacts, TableFacts DEF ListInv, ListTypeOK, HashTypeOK, AllTables
<1>a. UNCHANGED <<producerListTail, producerCount, producers>>
  BY DEF ResizeUnlock
<1>1. CASE thread' = [thread EXCEPT ![t] = [recycle_or_create_producer(t, FALSE)
      EXCEPT !.main = thread[t].main]]
  <2>0. PICK new : new = [recycle_or_create_producer(t, FALSE) EXCEPT !.main = thread[t].main]
    OBVIOUS
  <2>1. new \in ThreadStates
    BY <1>0, <1>1, <2>0 DEF ResizeUnlock, recycle_or_create_producer, Goto,
       ThreadStates, ThreadPcs
  <2>2. /\ Knows(t, new, producers, producerListTail)
        /\ \A p \in AllProducers : /\ HasIn(new, p) => HasIn(thread[t], p)
                                   /\ PushesIn(new, p) <=> PushesIn(thread[t], p)
    BY <1>0, <1>1, <2>0 DEF ResizeUnlock, recycle_or_create_producer, Goto,
       ThreadStates, Knows, HasIn, PushesIn, MakingPcs, HandPcs
  <2>3. thread' = [thread EXCEPT ![t] = new]
    BY <1>1, <2>0
  <2> QED
    BY <1>a, <2>1, <2>2, <2>3, ThreadMoves
<1>2. CASE thread' = [thread EXCEPT ![t] = [Goto(t, "reload") EXCEPT !.main = thread[t].main]]
  <2>0. PICK new : new = [Goto(t, "reload") EXCEPT !.main = thread[t].main]
    OBVIOUS
  <2>1. new \in ThreadStates
    BY <1>0, <1>2, <2>0 DEF ResizeUnlock, Goto, ThreadStates, ThreadPcs
  <2>2. /\ Knows(t, new, producers, producerListTail)
        /\ \A p \in AllProducers : /\ HasIn(new, p) => HasIn(thread[t], p)
                                   /\ PushesIn(new, p) <=> PushesIn(thread[t], p)
    BY <1>0, <1>2, <2>0 DEF ResizeUnlock, Goto, ThreadStates, Knows, HasIn,
       PushesIn, MakingPcs, HandPcs
  <2>3. thread' = [thread EXCEPT ![t] = new]
    BY <1>2, <2>0
  <2> QED
    BY <1>a, <2>1, <2>2, <2>3, ThreadMoves
<1> QED
  BY <1>1, <1>2 DEF ResizeUnlock, Sets, Decided

LEMMA ResizeFailsKeepsList ==
  ASSUME ListInv, HashTypeOK, NEW t \in Enqueuers, ResizeFails(t)
  PROVE  ListInv'
<1>0. /\ thread[t] \in ThreadStates /\ thread \in [Enqueuers -> ThreadStates]
      /\ Knows(t, thread[t], producers, producerListTail)
      /\ OrNone = AllProducers \cup {0} /\ 0 \notin AllProducers
      /\ producerListTail \in OrNone
      /\ Len(tables) \in AllTables /\ AllTables \subseteq Nat /\ hashCount \in Int
  BY ListFacts, TableFacts DEF ListInv, ListTypeOK, HashTypeOK, AllTables
<1>a. UNCHANGED <<producerListTail, producerCount, producers>>
  BY DEF ResizeFails
<1>1. CASE thread' = [thread EXCEPT ![t] = Goto(t, "giveup")]
  <2>0. PICK new : new = Goto(t, "giveup")
    OBVIOUS
  <2>1. new \in ThreadStates
    BY <1>0, <1>1, <2>0 DEF ResizeFails, Goto, ThreadStates, ThreadPcs
  <2>2. /\ Knows(t, new, producers, producerListTail)
        /\ \A p \in AllProducers : /\ HasIn(new, p) => HasIn(thread[t], p)
                                   /\ PushesIn(new, p) <=> PushesIn(thread[t], p)
    BY <1>0, <1>1, <2>0 DEF ResizeFails, Goto, ThreadStates, Knows, HasIn, PushesIn,
       MakingPcs, HandPcs
  <2>3. thread' = [thread EXCEPT ![t] = new]
    BY <1>1, <2>0
  <2> QED
    BY <1>a, <2>1, <2>2, <2>3, ThreadMoves
<1> QED
  BY <1>1 DEF ResizeFails, Sets

LEMMA ResizeGiveUpKeepsList ==
  ASSUME ListInv, HashTypeOK, NEW t \in Enqueuers, ResizeGiveUp(t)
  PROVE  ListInv'
<1>0. /\ thread[t] \in ThreadStates /\ thread \in [Enqueuers -> ThreadStates]
      /\ Knows(t, thread[t], producers, producerListTail)
      /\ OrNone = AllProducers \cup {0} /\ 0 \notin AllProducers
      /\ producerListTail \in OrNone
      /\ Len(tables) \in AllTables /\ AllTables \subseteq Nat /\ hashCount \in Int
  BY ListFacts, TableFacts DEF ListInv, ListTypeOK, HashTypeOK, AllTables
<1>a. UNCHANGED <<producerListTail, producerCount, producers>>
  BY DEF ResizeGiveUp
<1>1. CASE thread' = [thread EXCEPT ![t] = Returns(t)]
  <2>0. PICK new : new = Returns(t)
    OBVIOUS
  <2>1. new \in ThreadStates
    BY <2>0, ReturnsTyped DEF ListInv
  <2>2. /\ Knows(t, new, producers, producerListTail)
        /\ \A p \in AllProducers : /\ HasIn(new, p) => HasIn(thread[t], p)
                                   /\ PushesIn(new, p) <=> PushesIn(thread[t], p)
    BY <1>0, <1>1, <2>0 DEF ResizeGiveUp, Goto, Returns, AtEase, ThreadStates,
       Knows, HasIn, PushesIn, MakingPcs, HandPcs
  <2>3. thread' = [thread EXCEPT ![t] = new]
    BY <1>1, <2>0
  <2> QED
    BY <1>a, <2>1, <2>2, <2>3, ThreadMoves
<1> QED
  BY <1>1 DEF ResizeGiveUp, Sets

LEMMA ProducerFailsKeepsList ==
  ASSUME ListInv, HashTypeOK, NEW t \in Enqueuers, ProducerFails(t)
  PROVE  ListInv'
<1>0. /\ thread[t] \in ThreadStates /\ thread \in [Enqueuers -> ThreadStates]
      /\ Knows(t, thread[t], producers, producerListTail)
      /\ OrNone = AllProducers \cup {0} /\ 0 \notin AllProducers
      /\ producerListTail \in OrNone
      /\ Len(tables) \in AllTables /\ AllTables \subseteq Nat /\ hashCount \in Int
  BY ListFacts, TableFacts DEF ListInv, ListTypeOK, HashTypeOK, AllTables
<1>a. UNCHANGED <<producerListTail, producerCount, producers>>
  BY DEF ProducerFails
<1>1. CASE thread' = [thread EXCEPT ![t] = Returns(t)]
  <2>0. PICK new : new = Returns(t)
    OBVIOUS
  <2>1. new \in ThreadStates
    BY <2>0, ReturnsTyped DEF ListInv
  <2>2. /\ Knows(t, new, producers, producerListTail)
        /\ \A p \in AllProducers : /\ HasIn(new, p) => HasIn(thread[t], p)
                                   /\ PushesIn(new, p) <=> PushesIn(thread[t], p)
    BY <1>0, <1>1, <2>0 DEF ProducerFails, Goto, Returns, AtEase, ThreadStates,
       Knows, HasIn, PushesIn, MakingPcs, HandPcs
  <2>3. thread' = [thread EXCEPT ![t] = new]
    BY <1>1, <2>0
  <2> QED
    BY <1>a, <2>1, <2>2, <2>3, ThreadMoves
<1> QED
  BY <1>1 DEF ProducerFails, Sets

LEMMA InsertSlotKeepsList ==
  ASSUME ListInv, HashTypeOK, NEW t \in Enqueuers,
         KnowsTables(t, thread[t], tables), InsertSlot(t)
  PROVE  ListInv'
<1>0. /\ thread[t] \in ThreadStates /\ thread \in [Enqueuers -> ThreadStates]
      /\ Knows(t, thread[t], producers, producerListTail)
      /\ OrNone = AllProducers \cup {0} /\ 0 \notin AllProducers
      /\ producerListTail \in OrNone
      /\ Len(tables) \in AllTables /\ AllTables \subseteq Nat /\ hashCount \in Int
  BY ListFacts, TableFacts DEF ListInv, ListTypeOK, HashTypeOK, AllTables
<1>a. UNCHANGED <<producerListTail, producerCount, producers>>
  BY DEF InsertSlot
<1>b. /\ Main(t).capacity \in Nat \ {0} /\ thread[t].index \in Nat
       /\ (thread[t].index + 1) % Main(t).capacity \in Nat
  <2>1. Main(t).capacity \in Nat \ {0}
    <3>1. thread[t].main \in AllTables
      BY DEF KnowsTables, InsertSlot, AllTables
    <3> QED
      BY <3>1, TableFacts DEF Main
  <2>2. thread[t].index \in Nat
    BY <1>0 DEF ThreadStates
  <2> QED
    BY <2>1, <2>2
<1>1. CASE thread' = [thread EXCEPT ![t] = [Returns(t) EXCEPT !.mine = thread[t].producer]]
  <2>0. PICK new : new = [Returns(t) EXCEPT !.mine = thread[t].producer]
    OBVIOUS
  <2>1. thread[t].producer \in OrNone /\ ~thread[t].isExplicit /\ thread[t].pc
        \notin {"push", "head", "link"}
    BY <1>0 DEF InsertSlot, Knows, MakingPcs, ThreadStates
  <2>2. thread' = [thread EXCEPT ![t] = new]
    BY <1>1, <2>0
  <2> QED
    BY <1>a, <2>0, <2>1, <2>2, MineReturned, ThreadMoves
<1>2. CASE thread' = [thread EXCEPT ![t] = [thread[t] EXCEPT !.index = (@ + 1) %
      Main(t).capacity]]
  <2>0. PICK new : new = [thread[t] EXCEPT !.index = (@ + 1) % Main(t).capacity]
    OBVIOUS
  <2>1. new \in ThreadStates
    BY <1>0, <1>2, <2>0, <1>b DEF InsertSlot, Goto, ThreadStates, ThreadPcs
  <2>2. /\ Knows(t, new, producers, producerListTail)
        /\ \A p \in AllProducers : /\ HasIn(new, p) => HasIn(thread[t], p)
                                   /\ PushesIn(new, p) <=> PushesIn(thread[t], p)
    BY <1>0, <1>2, <2>0 DEF InsertSlot, Goto, ThreadStates, Knows, HasIn, PushesIn,
       MakingPcs, HandPcs
  <2>3. thread' = [thread EXCEPT ![t] = new]
    BY <1>2, <2>0
  <2> QED
    BY <1>a, <2>1, <2>2, <2>3, ThreadMoves
<1> QED
  BY <1>1, <1>2 DEF InsertSlot, Sets

-----------------------------------------------------------------------------
(* The hash of threads: steps that leave the tables alone. *)

\* A step of a thread that leaves the tables alone.
LEMMA TablesStay ==
  ASSUME HashInv, thread \in [Enqueuers -> ThreadStates],
         NEW t \in Enqueuers, NEW new, thread' = [thread EXCEPT ![t] = new],
         tables' = tables, hashCount' \in Int, OrNone \subseteq OrNone',
         KnowsTables(t, new, tables)
  PROVE  HashInv'
<1>1. \A u \in Enqueuers : thread'[u] = IF u = t THEN new ELSE thread[u]
  OBVIOUS
<1>2. HashTypeOK'
  BY DEF HashInv, HashTypeOK, AllTables
<1>3. \A u \in Enqueuers : KeepThread(u, tables') /\ KnowsTables(u, thread'[u], tables')
  BY <1>1 DEF HashInv
<1> QED
  BY <1>2, <1>3 DEF HashInv

\* The number of producers never falls.
LEMMA ProducersGrow ==
  ASSUME ListInv, ListInv', DOMAIN producers \subseteq DOMAIN producers'
  PROVE  AllProducers \subseteq AllProducers' /\ OrNone \subseteq OrNone'
<1>1. /\ DOMAIN producers = 1..Len(producers) /\ Len(producers) \in Nat
      /\ DOMAIN producers' = 1..Len(producers') /\ Len(producers') \in Nat
  BY DEF ListInv, ListTypeOK
<1>2. Len(producers) <= Len(producers')
  BY <1>1
<1> QED
  BY <1>1, <1>2 DEF AllProducers, OrNone

\* The same of a thread that takes up no producer for a table.
LEMMA GoesOn ==
  ASSUME HashInv, thread \in [Enqueuers -> ThreadStates],
         NEW t \in Enqueuers, NEW new, thread' = [thread EXCEPT ![t] = new],
         tables' = tables, hashCount' \in Int, OrNone \subseteq OrNone',
         new.mine = thread[t].mine, new.index = 0, new.pc # "insert",
         Registers(new) => Registers(thread[t]) /\ new.main \in AllTables
  PROVE  HashInv'
<1>1. KnowsTables(t, thread[t], tables)
  BY DEF HashInv
<1>2. KnowsTables(t, new, tables)
  BY <1>1 DEF KnowsTables, AllTables
<1> QED
  BY <1>2, TablesStay

LEMMA LookKeepsHash ==
  ASSUME ListInv, HashInv, NEW t \in Enqueuers, Look(t)
  PROVE  HashInv'
<1>0. /\ thread[t] \in ThreadStates /\ thread \in [Enqueuers -> ThreadStates]
      /\ Knows(t, thread[t], producers, producerListTail)
      /\ KnowsTables(t, thread[t], tables) /\ HashTypeOK
      /\ hashCount \in Int /\ Len(tables) \in AllTables
  BY ListFacts, TableFacts DEF ListInv, ListTypeOK, HashInv, HashTypeOK
<1>1. tables' = tables /\ hashCount' \in Int
  BY <1>0 DEF Look, tableVars
<1>2. OrNone \subseteq OrNone'
  BY DEF Look, OrNone
<1>3. CASE thread' = [thread EXCEPT ![t] = LookOn(t)]
  <2>1. PICK new : new = LookOn(t)
    OBVIOUS
  <2>2. new.mine = thread[t].mine /\ new.index = 0 /\ new.pc # "insert"
    BY <1>0, <2>1 DEF Look, LookOn, ThreadStates, KnowsTables
  <2>3. Registers(new) => Registers(thread[t]) /\ new.main \in AllTables
    BY <1>0, <2>1 DEF Look, LookOn, ThreadStates, KnowsTables, Registers, MakingPcs, AllTables
  <2>4. thread' = [thread EXCEPT ![t] = new]
    BY <1>3, <2>1
  <2> QED
    BY <1>0, <1>1, <1>2, <2>2, <2>3, <2>4, GoesOn
<1>4. CASE thread' = [thread EXCEPT ![t] = Goto(t, "grab")]
  <2>1. PICK new : new = Goto(t, "grab")
    OBVIOUS
  <2>2. new.mine = thread[t].mine /\ new.index = 0 /\ new.pc # "insert"
    BY <1>0, <2>1 DEF Look, Goto, ThreadStates, KnowsTables
  <2>3. Registers(new) => Registers(thread[t]) /\ new.main \in AllTables
    BY <1>0, <2>1 DEF Look, Goto, ThreadStates, KnowsTables, Registers, MakingPcs, AllTables
  <2>4. thread' = [thread EXCEPT ![t] = new]
    BY <1>4, <2>1
  <2> QED
    BY <1>0, <1>1, <1>2, <2>2, <2>3, <2>4, GoesOn
<1> QED
  BY <1>3, <1>4 DEF Look, Sets

LEMMA GrabKeepsHash ==
  ASSUME ListInv, ListInv', HashInv, NEW t \in Enqueuers, Grab(t)
  PROVE  HashInv'
<1>0. /\ thread[t] \in ThreadStates /\ thread \in [Enqueuers -> ThreadStates]
      /\ Knows(t, thread[t], producers, producerListTail)
      /\ KnowsTables(t, thread[t], tables) /\ HashTypeOK
      /\ hashCount \in Int /\ Len(tables) \in AllTables
  BY ListFacts, TableFacts DEF ListInv, ListTypeOK, HashInv, HashTypeOK
<1>1. tables' = tables /\ hashCount' \in Int
  BY <1>0 DEF Grab, tableVars
<1>2. OrNone \subseteq OrNone'
  BY ProducersGrow DEF Grab
<1>3. CASE thread' = [thread EXCEPT ![t] = AcquiredProducer(t, thread[t].ptr)]
  <2>1. PICK new : new = AcquiredProducer(t, thread[t].ptr)
    OBVIOUS
  <2>2. new.mine = thread[t].mine /\ new.index = 0 /\ new.pc # "insert"
    BY <1>0, <2>1 DEF Grab, AcquiredProducer, Goto, ThreadStates, KnowsTables
  <2>3. Registers(new) => Registers(thread[t]) /\ new.main \in AllTables
    BY <1>0, <2>1 DEF Grab, AcquiredProducer, Goto, ThreadStates, KnowsTables,
       Registers, MakingPcs, AllTables
  <2>4. thread' = [thread EXCEPT ![t] = new]
    BY <1>3, <2>1
  <2> QED
    BY <1>0, <1>1, <1>2, <2>2, <2>3, <2>4, GoesOn
<1>4. CASE thread' = [thread EXCEPT ![t] = LookOn(t)]
  <2>1. PICK new : new = LookOn(t)
    OBVIOUS
  <2>2. new.mine = thread[t].mine /\ new.index = 0 /\ new.pc # "insert"
    BY <1>0, <2>1 DEF Grab, LookOn, ThreadStates, KnowsTables
  <2>3. Registers(new) => Registers(thread[t]) /\ new.main \in AllTables
    BY <1>0, <2>1 DEF Grab, LookOn, ThreadStates, KnowsTables, Registers, MakingPcs, AllTables
  <2>4. thread' = [thread EXCEPT ![t] = new]
    BY <1>4, <2>1
  <2> QED
    BY <1>0, <1>1, <1>2, <2>2, <2>3, <2>4, GoesOn
<1> QED
  BY <1>3, <1>4 DEF Grab, Sets

LEMMA CreateKeepsHash ==
  ASSUME ListInv, ListInv', HashInv, NEW t \in Enqueuers, Create(t)
  PROVE  HashInv'
<1>0. /\ thread[t] \in ThreadStates /\ thread \in [Enqueuers -> ThreadStates]
      /\ Knows(t, thread[t], producers, producerListTail)
      /\ KnowsTables(t, thread[t], tables) /\ HashTypeOK
      /\ hashCount \in Int /\ Len(tables) \in AllTables
  BY ListFacts, TableFacts DEF ListInv, ListTypeOK, HashInv, HashTypeOK
<1>1. tables' = tables /\ hashCount' \in Int
  BY <1>0 DEF Create, tableVars
<1>2. OrNone \subseteq OrNone'
  <2>1. PICK p : producers' = Append(producers, p)
    BY DEF Create
  <2>2. DOMAIN producers \subseteq DOMAIN producers'
    BY <2>1 DEF ListInv, ListTypeOK
  <2> QED
    BY <2>2, ProducersGrow
<1>3. CASE thread' = [thread EXCEPT ![t] = [Goto(t, "head") EXCEPT !.producer =
      Len(producers) + 1]]
  <2>1. PICK new : new = [Goto(t, "head") EXCEPT !.producer = Len(producers) + 1]
    OBVIOUS
  <2>2. new.mine = thread[t].mine /\ new.index = 0 /\ new.pc # "insert"
    BY <1>0, <2>1 DEF Create, Goto, ThreadStates, KnowsTables
  <2>3. Registers(new) => Registers(thread[t]) /\ new.main \in AllTables
    BY <1>0, <2>1 DEF Create, Goto, ThreadStates, KnowsTables, Registers, MakingPcs, AllTables
  <2>4. thread' = [thread EXCEPT ![t] = new]
    BY <1>3, <2>1
  <2> QED
    BY <1>0, <1>1, <1>2, <2>2, <2>3, <2>4, GoesOn
<1> QED
  BY <1>3 DEF Create, Sets

LEMMA LoadListTailKeepsHash ==
  ASSUME ListInv, HashInv, NEW t \in Enqueuers, LoadListTail(t)
  PROVE  HashInv'
<1>0. /\ thread[t] \in ThreadStates /\ thread \in [Enqueuers -> ThreadStates]
      /\ Knows(t, thread[t], producers, producerListTail)
      /\ KnowsTables(t, thread[t], tables) /\ HashTypeOK
      /\ hashCount \in Int /\ Len(tables) \in AllTables
  BY ListFacts, TableFacts DEF ListInv, ListTypeOK, HashInv, HashTypeOK
<1>1. tables' = tables /\ hashCount' \in Int
  BY <1>0 DEF LoadListTail, tableVars
<1>2. OrNone \subseteq OrNone'
  BY DEF LoadListTail, OrNone
<1>3. CASE thread' = [thread EXCEPT ![t] = [Goto(t, "link") EXCEPT !.ptr = producerListTail]]
  <2>1. PICK new : new = [Goto(t, "link") EXCEPT !.ptr = producerListTail]
    OBVIOUS
  <2>2. new.mine = thread[t].mine /\ new.index = 0 /\ new.pc # "insert"
    BY <1>0, <2>1 DEF LoadListTail, Goto, ThreadStates, KnowsTables
  <2>3. Registers(new) => Registers(thread[t]) /\ new.main \in AllTables
    BY <1>0, <2>1 DEF LoadListTail, Goto, ThreadStates, KnowsTables, Registers,
       MakingPcs, AllTables
  <2>4. thread' = [thread EXCEPT ![t] = new]
    BY <1>3, <2>1
  <2> QED
    BY <1>0, <1>1, <1>2, <2>2, <2>3, <2>4, GoesOn
<1> QED
  BY <1>3 DEF LoadListTail, Sets

LEMMA LinkNextKeepsHash ==
  ASSUME ListInv, ListInv', HashInv, NEW t \in Enqueuers, LinkNext(t)
  PROVE  HashInv'
<1>0. /\ thread[t] \in ThreadStates /\ thread \in [Enqueuers -> ThreadStates]
      /\ Knows(t, thread[t], producers, producerListTail)
      /\ KnowsTables(t, thread[t], tables) /\ HashTypeOK
      /\ hashCount \in Int /\ Len(tables) \in AllTables
  BY ListFacts, TableFacts DEF ListInv, ListTypeOK, HashInv, HashTypeOK
<1>1. tables' = tables /\ hashCount' \in Int
  BY <1>0 DEF LinkNext, tableVars
<1>2. OrNone \subseteq OrNone'
  BY ProducersGrow DEF LinkNext
<1>3. CASE thread' = [thread EXCEPT ![t] = Goto(t, "push")]
  <2>1. PICK new : new = Goto(t, "push")
    OBVIOUS
  <2>2. new.mine = thread[t].mine /\ new.index = 0 /\ new.pc # "insert"
    BY <1>0, <2>1 DEF LinkNext, Goto, ThreadStates, KnowsTables
  <2>3. Registers(new) => Registers(thread[t]) /\ new.main \in AllTables
    BY <1>0, <2>1 DEF LinkNext, Goto, ThreadStates, KnowsTables, Registers, MakingPcs, AllTables
  <2>4. thread' = [thread EXCEPT ![t] = new]
    BY <1>3, <2>1
  <2> QED
    BY <1>0, <1>1, <1>2, <2>2, <2>3, <2>4, GoesOn
<1> QED
  BY <1>3 DEF LinkNext, Sets

LEMMA PushProducerKeepsHash ==
  ASSUME ListInv, HashInv, NEW t \in Enqueuers, PushProducer(t)
  PROVE  HashInv'
<1>0. /\ thread[t] \in ThreadStates /\ thread \in [Enqueuers -> ThreadStates]
      /\ Knows(t, thread[t], producers, producerListTail)
      /\ KnowsTables(t, thread[t], tables) /\ HashTypeOK
      /\ hashCount \in Int /\ Len(tables) \in AllTables
  BY ListFacts, TableFacts DEF ListInv, ListTypeOK, HashInv, HashTypeOK
<1>1. tables' = tables /\ hashCount' \in Int
  BY <1>0 DEF PushProducer, tableVars
<1>2. OrNone \subseteq OrNone'
  BY DEF PushProducer, OrNone
<1>3. CASE thread' = [thread EXCEPT ![t] = AcquiredProducer(t, thread[t].producer)]
  <2>1. PICK new : new = AcquiredProducer(t, thread[t].producer)
    OBVIOUS
  <2>2. new.mine = thread[t].mine /\ new.index = 0 /\ new.pc # "insert"
    BY <1>0, <2>1 DEF PushProducer, AcquiredProducer, Goto, ThreadStates, KnowsTables
  <2>3. Registers(new) => Registers(thread[t]) /\ new.main \in AllTables
    BY <1>0, <2>1 DEF PushProducer, AcquiredProducer, Goto, ThreadStates,
       KnowsTables, Registers, MakingPcs, AllTables
  <2>4. thread' = [thread EXCEPT ![t] = new]
    BY <1>3, <2>1
  <2> QED
    BY <1>0, <1>1, <1>2, <2>2, <2>3, <2>4, GoesOn
<1>4. CASE thread' = [thread EXCEPT ![t] = AfterFailedPush(t)]
  <2>1. PICK new : new = AfterFailedPush(t)
    OBVIOUS
  <2>2. new.mine = thread[t].mine /\ new.index = 0 /\ new.pc # "insert"
    BY <1>0, <2>1 DEF PushProducer, AfterFailedPush, Goto, ThreadStates, KnowsTables
  <2>3. Registers(new) => Registers(thread[t]) /\ new.main \in AllTables
    BY <1>0, <2>1 DEF PushProducer, AfterFailedPush, Goto, ThreadStates,
       KnowsTables, Registers, MakingPcs, AllTables
  <2>4. thread' = [thread EXCEPT ![t] = new]
    BY <1>4, <2>1
  <2> QED
    BY <1>0, <1>1, <1>2, <2>2, <2>3, <2>4, GoesOn
<1> QED
  BY <1>3, <1>4 DEF PushProducer, Sets

LEMMA MakeTokenKeepsHash ==
  ASSUME ListInv, HashInv, NEW t \in Enqueuers, MakeToken(t)
  PROVE  HashInv'
<1>0. /\ thread[t] \in ThreadStates /\ thread \in [Enqueuers -> ThreadStates]
      /\ Knows(t, thread[t], producers, producerListTail)
      /\ KnowsTables(t, thread[t], tables) /\ HashTypeOK
      /\ hashCount \in Int /\ Len(tables) \in AllTables
  BY ListFacts, TableFacts DEF ListInv, ListTypeOK, HashInv, HashTypeOK
<1>1. tables' = tables /\ hashCount' \in Int
  BY <1>0 DEF MakeToken, tableVars
<1>2. OrNone \subseteq OrNone'
  BY DEF MakeToken, OrNone
<1>3. CASE thread' = [thread EXCEPT ![t] = recycle_or_create_producer(t, TRUE)]
  <2>1. PICK new : new = recycle_or_create_producer(t, TRUE)
    OBVIOUS
  <2>2. new.mine = thread[t].mine /\ new.index = 0 /\ new.pc # "insert"
    BY <1>0, <2>1 DEF MakeToken, recycle_or_create_producer, ThreadStates, KnowsTables
  <2>3. Registers(new) => Registers(thread[t]) /\ new.main \in AllTables
    BY <1>0, <2>1 DEF MakeToken, recycle_or_create_producer, ThreadStates,
       KnowsTables, Registers, MakingPcs, AllTables
  <2>4. thread' = [thread EXCEPT ![t] = new]
    BY <1>3, <2>1
  <2> QED
    BY <1>0, <1>1, <1>2, <2>2, <2>3, <2>4, GoesOn
<1> QED
  BY <1>3 DEF MakeToken, Sets

LEMMA OwnProducerKeepsHash ==
  ASSUME ListInv, ListInv', HashInv, NEW t \in Enqueuers, OwnProducer(t)
  PROVE  HashInv'
<1>0. /\ thread[t] \in ThreadStates /\ thread \in [Enqueuers -> ThreadStates]
      /\ Knows(t, thread[t], producers, producerListTail)
      /\ KnowsTables(t, thread[t], tables) /\ HashTypeOK
      /\ hashCount \in Int /\ Len(tables) \in AllTables
  BY ListFacts, TableFacts DEF ListInv, ListTypeOK, HashInv, HashTypeOK
<1>1. tables' = tables /\ hashCount' \in Int
  BY <1>0 DEF OwnProducer, tableVars
<1>2. OrNone \subseteq OrNone'
  BY ProducersGrow DEF OwnProducer
<1>3. CASE thread' = [thread EXCEPT ![t] = [Returns(t) EXCEPT !.token = thread[t].producer]]
  <2>1. PICK new : new = [Returns(t) EXCEPT !.token = thread[t].producer]
    OBVIOUS
  <2>2. new.mine = thread[t].mine /\ new.index = 0 /\ new.pc # "insert"
    BY <1>0, <2>1 DEF OwnProducer, Returns, AtEase, ThreadStates, KnowsTables
  <2>3. Registers(new) => Registers(thread[t]) /\ new.main \in AllTables
    BY <1>0, <2>1 DEF OwnProducer, Returns, AtEase, ThreadStates, KnowsTables,
       Registers, MakingPcs, AllTables
  <2>4. thread' = [thread EXCEPT ![t] = new]
    BY <1>3, <2>1
  <2> QED
    BY <1>0, <1>1, <1>2, <2>2, <2>3, <2>4, GoesOn
<1> QED
  BY <1>3 DEF OwnProducer, Sets

LEMMA TokenFailsKeepsHash ==
  ASSUME ListInv, HashInv, NEW t \in Enqueuers, TokenFails(t)
  PROVE  HashInv'
<1>0. /\ thread[t] \in ThreadStates /\ thread \in [Enqueuers -> ThreadStates]
      /\ Knows(t, thread[t], producers, producerListTail)
      /\ KnowsTables(t, thread[t], tables) /\ HashTypeOK
      /\ hashCount \in Int /\ Len(tables) \in AllTables
  BY ListFacts, TableFacts DEF ListInv, ListTypeOK, HashInv, HashTypeOK
<1>1. tables' = tables /\ hashCount' \in Int
  BY <1>0 DEF TokenFails, tableVars
<1>2. OrNone \subseteq OrNone'
  BY DEF TokenFails, OrNone
<1>3. CASE thread' = [thread EXCEPT ![t] = Returns(t)]
  <2>1. PICK new : new = Returns(t)
    OBVIOUS
  <2>2. new.mine = thread[t].mine /\ new.index = 0 /\ new.pc # "insert"
    BY <1>0, <2>1 DEF TokenFails, Returns, AtEase, ThreadStates, KnowsTables
  <2>3. Registers(new) => Registers(thread[t]) /\ new.main \in AllTables
    BY <1>0, <2>1 DEF TokenFails, Returns, AtEase, ThreadStates, KnowsTables,
       Registers, MakingPcs, AllTables
  <2>4. thread' = [thread EXCEPT ![t] = new]
    BY <1>3, <2>1
  <2> QED
    BY <1>0, <1>1, <1>2, <2>2, <2>3, <2>4, GoesOn
<1> QED
  BY <1>3 DEF TokenFails, Sets

LEMMA DestroyTokenKeepsHash ==
  ASSUME ListInv, HashInv, NEW t \in Enqueuers, DestroyToken(t)
  PROVE  HashInv'
<1>0. /\ thread[t] \in ThreadStates /\ thread \in [Enqueuers -> ThreadStates]
      /\ Knows(t, thread[t], producers, producerListTail)
      /\ KnowsTables(t, thread[t], tables) /\ HashTypeOK
      /\ hashCount \in Int /\ Len(tables) \in AllTables
  BY ListFacts, TableFacts DEF ListInv, ListTypeOK, HashInv, HashTypeOK
<1>1. tables' = tables /\ hashCount' \in Int
  BY <1>0 DEF DestroyToken, tableVars
<1>2. OrNone \subseteq OrNone'
  BY DEF DestroyToken, OrNone
<1>3. CASE thread' = [thread EXCEPT ![t] = [Goto(t, "unown") EXCEPT !.producer =
      thread[t].token, !.token = 0]]
  <2>1. PICK new : new = [Goto(t, "unown") EXCEPT !.producer = thread[t].token, !.token = 0]
    OBVIOUS
  <2>2. new.mine = thread[t].mine /\ new.index = 0 /\ new.pc # "insert"
    BY <1>0, <2>1 DEF DestroyToken, Goto, ThreadStates, KnowsTables
  <2>3. Registers(new) => Registers(thread[t]) /\ new.main \in AllTables
    BY <1>0, <2>1 DEF DestroyToken, Goto, ThreadStates, KnowsTables, Registers,
       MakingPcs, AllTables
  <2>4. thread' = [thread EXCEPT ![t] = new]
    BY <1>3, <2>1
  <2> QED
    BY <1>0, <1>1, <1>2, <2>2, <2>3, <2>4, GoesOn
<1> QED
  BY <1>3 DEF DestroyToken, Sets

LEMMA UnownKeepsHash ==
  ASSUME ListInv, ListInv', HashInv, NEW t \in Enqueuers, Unown(t)
  PROVE  HashInv'
<1>0. /\ thread[t] \in ThreadStates /\ thread \in [Enqueuers -> ThreadStates]
      /\ Knows(t, thread[t], producers, producerListTail)
      /\ KnowsTables(t, thread[t], tables) /\ HashTypeOK
      /\ hashCount \in Int /\ Len(tables) \in AllTables
  BY ListFacts, TableFacts DEF ListInv, ListTypeOK, HashInv, HashTypeOK
<1>1. tables' = tables /\ hashCount' \in Int
  BY <1>0 DEF Unown, tableVars
<1>2. OrNone \subseteq OrNone'
  BY ProducersGrow DEF Unown
<1>3. CASE thread' = [thread EXCEPT ![t] = Goto(t, "retire")]
  <2>1. PICK new : new = Goto(t, "retire")
    OBVIOUS
  <2>2. new.mine = thread[t].mine /\ new.index = 0 /\ new.pc # "insert"
    BY <1>0, <2>1 DEF Unown, Goto, ThreadStates, KnowsTables
  <2>3. Registers(new) => Registers(thread[t]) /\ new.main \in AllTables
    BY <1>0, <2>1 DEF Unown, Goto, ThreadStates, KnowsTables, Registers, MakingPcs, AllTables
  <2>4. thread' = [thread EXCEPT ![t] = new]
    BY <1>3, <2>1
  <2> QED
    BY <1>0, <1>1, <1>2, <2>2, <2>3, <2>4, GoesOn
<1> QED
  BY <1>3 DEF Unown, Sets

LEMMA RetireProducerKeepsHash ==
  ASSUME ListInv, ListInv', HashInv, NEW t \in Enqueuers, RetireProducer(t)
  PROVE  HashInv'
<1>0. /\ thread[t] \in ThreadStates /\ thread \in [Enqueuers -> ThreadStates]
      /\ Knows(t, thread[t], producers, producerListTail)
      /\ KnowsTables(t, thread[t], tables) /\ HashTypeOK
      /\ hashCount \in Int /\ Len(tables) \in AllTables
  BY ListFacts, TableFacts DEF ListInv, ListTypeOK, HashInv, HashTypeOK
<1>1. tables' = tables /\ hashCount' \in Int
  BY <1>0 DEF RetireProducer, tableVars
<1>2. OrNone \subseteq OrNone'
  BY ProducersGrow DEF RetireProducer
<1>3. CASE thread' = [thread EXCEPT ![t] = Returns(t)]
  <2>1. PICK new : new = Returns(t)
    OBVIOUS
  <2>2. new.mine = thread[t].mine /\ new.index = 0 /\ new.pc # "insert"
    BY <1>0, <2>1 DEF RetireProducer, Returns, AtEase, ThreadStates, KnowsTables
  <2>3. Registers(new) => Registers(thread[t]) /\ new.main \in AllTables
    BY <1>0, <2>1 DEF RetireProducer, Returns, AtEase, ThreadStates, KnowsTables,
       Registers, MakingPcs, AllTables
  <2>4. thread' = [thread EXCEPT ![t] = new]
    BY <1>3, <2>1
  <2> QED
    BY <1>0, <1>1, <1>2, <2>2, <2>3, <2>4, GoesOn
<1> QED
  BY <1>3 DEF RetireProducer, Sets

LEMMA CountThreadKeepsHash ==
  ASSUME ListInv, HashInv, NEW t \in Enqueuers, CountThread(t)
  PROVE  HashInv'
<1>0. /\ thread[t] \in ThreadStates /\ thread \in [Enqueuers -> ThreadStates]
      /\ Knows(t, thread[t], producers, producerListTail)
      /\ KnowsTables(t, thread[t], tables) /\ HashTypeOK
      /\ hashCount \in Int /\ Len(tables) \in AllTables
  BY ListFacts, TableFacts DEF ListInv, ListTypeOK, HashInv, HashTypeOK
<1>1. tables' = tables /\ hashCount' \in Int
  BY <1>0 DEF CountThread, tableVars
<1>2. OrNone \subseteq OrNone'
  BY DEF CountThread, OrNone
<1>3. CASE thread' = [thread EXCEPT ![t] = [Goto(t, "room") EXCEPT !.newCount = hashCount + 1]]
  <2>1. PICK new : new = [Goto(t, "room") EXCEPT !.newCount = hashCount + 1]
    OBVIOUS
  <2>2. new.mine = thread[t].mine /\ new.index = 0 /\ new.pc # "insert"
    BY <1>0, <2>1 DEF CountThread, Goto, ThreadStates, KnowsTables
  <2>3. Registers(new) => Registers(thread[t]) /\ new.main \in AllTables
    BY <1>0, <2>1 DEF CountThread, Goto, ThreadStates, KnowsTables, Registers,
       MakingPcs, AllTables
  <2>4. thread' = [thread EXCEPT ![t] = new]
    BY <1>3, <2>1
  <2> QED
    BY <1>0, <1>1, <1>2, <2>2, <2>3, <2>4, GoesOn
<1> QED
  BY <1>3 DEF CountThread, Sets

LEMMA LoopTopKeepsHash ==
  ASSUME ListInv, HashInv, NEW t \in Enqueuers, LoopTop(t)
  PROVE  HashInv'
<1>0. /\ thread[t] \in ThreadStates /\ thread \in [Enqueuers -> ThreadStates]
      /\ Knows(t, thread[t], producers, producerListTail)
      /\ KnowsTables(t, thread[t], tables) /\ HashTypeOK
      /\ hashCount \in Int /\ Len(tables) \in AllTables
  BY ListFacts, TableFacts DEF ListInv, ListTypeOK, HashInv, HashTypeOK
<1>1. tables' = tables /\ hashCount' \in Int
  BY <1>0 DEF LoopTop, tableVars
<1>2. OrNone \subseteq OrNone'
  BY DEF LoopTop, OrNone
<1>3. CASE thread' = [thread EXCEPT ![t] = Goto(t, "resize")]
  <2>1. PICK new : new = Goto(t, "resize")
    OBVIOUS
  <2>2. new.mine = thread[t].mine /\ new.index = 0 /\ new.pc # "insert"
    BY <1>0, <2>1 DEF LoopTop, Goto, ThreadStates, KnowsTables
  <2>3. Registers(new) => Registers(thread[t]) /\ new.main \in AllTables
    BY <1>0, <2>1 DEF LoopTop, Goto, ThreadStates, KnowsTables, Registers, MakingPcs, AllTables
  <2>4. thread' = [thread EXCEPT ![t] = new]
    BY <1>3, <2>1
  <2> QED
    BY <1>0, <1>1, <1>2, <2>2, <2>3, <2>4, GoesOn
<1>4. CASE thread' = [thread EXCEPT ![t] = [recycle_or_create_producer(t, FALSE)
      EXCEPT !.main = thread[t].main]]
  <2>1. PICK new : new = [recycle_or_create_producer(t, FALSE) EXCEPT !.main = thread[t].main]
    OBVIOUS
  <2>2. new.mine = thread[t].mine /\ new.index = 0 /\ new.pc # "insert"
    BY <1>0, <2>1 DEF LoopTop, recycle_or_create_producer, ThreadStates, KnowsTables
  <2>3. Registers(new) => Registers(thread[t]) /\ new.main \in AllTables
    BY <1>0, <2>1 DEF LoopTop, recycle_or_create_producer, ThreadStates,
       KnowsTables, Registers, MakingPcs, AllTables
  <2>4. thread' = [thread EXCEPT ![t] = new]
    BY <1>4, <2>1
  <2> QED
    BY <1>0, <1>1, <1>2, <2>2, <2>3, <2>4, GoesOn
<1>5. CASE thread' = [thread EXCEPT ![t] = [Goto(t, "reload") EXCEPT !.main = thread[t].main]]
  <2>1. PICK new : new = [Goto(t, "reload") EXCEPT !.main = thread[t].main]
    OBVIOUS
  <2>2. new.mine = thread[t].mine /\ new.index = 0 /\ new.pc # "insert"
    BY <1>0, <2>1 DEF LoopTop, Goto, ThreadStates, KnowsTables
  <2>3. Registers(new) => Registers(thread[t]) /\ new.main \in AllTables
    BY <1>0, <2>1 DEF LoopTop, Goto, ThreadStates, KnowsTables, Registers, MakingPcs, AllTables
  <2>4. thread' = [thread EXCEPT ![t] = new]
    BY <1>5, <2>1
  <2> QED
    BY <1>0, <1>1, <1>2, <2>2, <2>3, <2>4, GoesOn
<1> QED
  BY <1>3, <1>4, <1>5 DEF LoopTop, Sets, Decided

LEMMA ReloadKeepsHash ==
  ASSUME ListInv, HashInv, NEW t \in Enqueuers, Reload(t)
  PROVE  HashInv'
<1>0. /\ thread[t] \in ThreadStates /\ thread \in [Enqueuers -> ThreadStates]
      /\ Knows(t, thread[t], producers, producerListTail)
      /\ KnowsTables(t, thread[t], tables) /\ HashTypeOK
      /\ hashCount \in Int /\ Len(tables) \in AllTables
  BY ListFacts, TableFacts DEF ListInv, ListTypeOK, HashInv, HashTypeOK
<1>1. tables' = tables /\ hashCount' \in Int
  BY <1>0 DEF Reload, tableVars
<1>2. OrNone \subseteq OrNone'
  BY DEF Reload, OrNone
<1>3. CASE thread' = [thread EXCEPT ![t] = [Goto(t, "room") EXCEPT !.main = Len(tables)]]
  <2>1. PICK new : new = [Goto(t, "room") EXCEPT !.main = Len(tables)]
    OBVIOUS
  <2>2. new.mine = thread[t].mine /\ new.index = 0 /\ new.pc # "insert"
    BY <1>0, <2>1 DEF Reload, Goto, ThreadStates, KnowsTables
  <2>3. Registers(new) => Registers(thread[t]) /\ new.main \in AllTables
    BY <1>0, <2>1 DEF Reload, Goto, ThreadStates, KnowsTables, Registers, MakingPcs, AllTables
  <2>4. thread' = [thread EXCEPT ![t] = new]
    BY <1>3, <2>1
  <2> QED
    BY <1>0, <1>1, <1>2, <2>2, <2>3, <2>4, GoesOn
<1> QED
  BY <1>3 DEF Reload, Sets

LEMMA ResizeUnlockKeepsHash ==
  ASSUME ListInv, HashInv, NEW t \in Enqueuers, ResizeUnlock(t)
  PROVE  HashInv'
<1>0. /\ thread[t] \in ThreadStates /\ thread \in [Enqueuers -> ThreadStates]
      /\ Knows(t, thread[t], producers, producerListTail)
      /\ KnowsTables(t, thread[t], tables) /\ HashTypeOK
      /\ hashCount \in Int /\ Len(tables) \in AllTables
  BY ListFacts, TableFacts DEF ListInv, ListTypeOK, HashInv, HashTypeOK
<1>1. tables' = tables /\ hashCount' \in Int
  BY <1>0 DEF ResizeUnlock, tableVars
<1>2. OrNone \subseteq OrNone'
  BY DEF ResizeUnlock, OrNone
<1>3. CASE thread' = [thread EXCEPT ![t] = [recycle_or_create_producer(t, FALSE)
      EXCEPT !.main = thread[t].main]]
  <2>1. PICK new : new = [recycle_or_create_producer(t, FALSE) EXCEPT !.main = thread[t].main]
    OBVIOUS
  <2>2. new.mine = thread[t].mine /\ new.index = 0 /\ new.pc # "insert"
    BY <1>0, <2>1 DEF ResizeUnlock, recycle_or_create_producer, ThreadStates, KnowsTables
  <2>3. Registers(new) => Registers(thread[t]) /\ new.main \in AllTables
    BY <1>0, <2>1 DEF ResizeUnlock, recycle_or_create_producer, ThreadStates,
       KnowsTables, Registers, MakingPcs, AllTables
  <2>4. thread' = [thread EXCEPT ![t] = new]
    BY <1>3, <2>1
  <2> QED
    BY <1>0, <1>1, <1>2, <2>2, <2>3, <2>4, GoesOn
<1>4. CASE thread' = [thread EXCEPT ![t] = [Goto(t, "reload") EXCEPT !.main = thread[t].main]]
  <2>1. PICK new : new = [Goto(t, "reload") EXCEPT !.main = thread[t].main]
    OBVIOUS
  <2>2. new.mine = thread[t].mine /\ new.index = 0 /\ new.pc # "insert"
    BY <1>0, <2>1 DEF ResizeUnlock, Goto, ThreadStates, KnowsTables
  <2>3. Registers(new) => Registers(thread[t]) /\ new.main \in AllTables
    BY <1>0, <2>1 DEF ResizeUnlock, Goto, ThreadStates, KnowsTables, Registers,
       MakingPcs, AllTables
  <2>4. thread' = [thread EXCEPT ![t] = new]
    BY <1>4, <2>1
  <2> QED
    BY <1>0, <1>1, <1>2, <2>2, <2>3, <2>4, GoesOn
<1> QED
  BY <1>3, <1>4 DEF ResizeUnlock, Sets, Decided

LEMMA ResizeFailsKeepsHash ==
  ASSUME ListInv, HashInv, NEW t \in Enqueuers, ResizeFails(t)
  PROVE  HashInv'
<1>0. /\ thread[t] \in ThreadStates /\ thread \in [Enqueuers -> ThreadStates]
      /\ Knows(t, thread[t], producers, producerListTail)
      /\ KnowsTables(t, thread[t], tables) /\ HashTypeOK
      /\ hashCount \in Int /\ Len(tables) \in AllTables
  BY ListFacts, TableFacts DEF ListInv, ListTypeOK, HashInv, HashTypeOK
<1>1. tables' = tables /\ hashCount' \in Int
  BY <1>0 DEF ResizeFails, tableVars
<1>2. OrNone \subseteq OrNone'
  BY DEF ResizeFails, OrNone
<1>3. CASE thread' = [thread EXCEPT ![t] = Goto(t, "giveup")]
  <2>1. PICK new : new = Goto(t, "giveup")
    OBVIOUS
  <2>2. new.mine = thread[t].mine /\ new.index = 0 /\ new.pc # "insert"
    BY <1>0, <2>1 DEF ResizeFails, Goto, ThreadStates, KnowsTables
  <2>3. Registers(new) => Registers(thread[t]) /\ new.main \in AllTables
    BY <1>0, <2>1 DEF ResizeFails, Goto, ThreadStates, KnowsTables, Registers,
       MakingPcs, AllTables
  <2>4. thread' = [thread EXCEPT ![t] = new]
    BY <1>3, <2>1
  <2> QED
    BY <1>0, <1>1, <1>2, <2>2, <2>3, <2>4, GoesOn
<1> QED
  BY <1>3 DEF ResizeFails, Sets

LEMMA ResizeGiveUpKeepsHash ==
  ASSUME ListInv, HashInv, NEW t \in Enqueuers, ResizeGiveUp(t)
  PROVE  HashInv'
<1>0. /\ thread[t] \in ThreadStates /\ thread \in [Enqueuers -> ThreadStates]
      /\ Knows(t, thread[t], producers, producerListTail)
      /\ KnowsTables(t, thread[t], tables) /\ HashTypeOK
      /\ hashCount \in Int /\ Len(tables) \in AllTables
  BY ListFacts, TableFacts DEF ListInv, ListTypeOK, HashInv, HashTypeOK
<1>1. tables' = tables /\ hashCount' \in Int
  BY <1>0 DEF ResizeGiveUp, tableVars
<1>2. OrNone \subseteq OrNone'
  BY DEF ResizeGiveUp, OrNone
<1>3. CASE thread' = [thread EXCEPT ![t] = Returns(t)]
  <2>1. PICK new : new = Returns(t)
    OBVIOUS
  <2>2. new.mine = thread[t].mine /\ new.index = 0 /\ new.pc # "insert"
    BY <1>0, <2>1 DEF ResizeGiveUp, Returns, AtEase, ThreadStates, KnowsTables
  <2>3. Registers(new) => Registers(thread[t]) /\ new.main \in AllTables
    BY <1>0, <2>1 DEF ResizeGiveUp, Returns, AtEase, ThreadStates, KnowsTables,
       Registers, MakingPcs, AllTables
  <2>4. thread' = [thread EXCEPT ![t] = new]
    BY <1>3, <2>1
  <2> QED
    BY <1>0, <1>1, <1>2, <2>2, <2>3, <2>4, GoesOn
<1> QED
  BY <1>3 DEF ResizeGiveUp, Sets

LEMMA ProducerFailsKeepsHash ==
  ASSUME ListInv, HashInv, NEW t \in Enqueuers, ProducerFails(t)
  PROVE  HashInv'
<1>0. /\ thread[t] \in ThreadStates /\ thread \in [Enqueuers -> ThreadStates]
      /\ Knows(t, thread[t], producers, producerListTail)
      /\ KnowsTables(t, thread[t], tables) /\ HashTypeOK
      /\ hashCount \in Int /\ Len(tables) \in AllTables
  BY ListFacts, TableFacts DEF ListInv, ListTypeOK, HashInv, HashTypeOK
<1>1. tables' = tables /\ hashCount' \in Int
  BY <1>0 DEF ProducerFails, tableVars
<1>2. OrNone \subseteq OrNone'
  BY DEF ProducerFails, OrNone
<1>3. CASE thread' = [thread EXCEPT ![t] = Returns(t)]
  <2>1. PICK new : new = Returns(t)
    OBVIOUS
  <2>2. new.mine = thread[t].mine /\ new.index = 0 /\ new.pc # "insert"
    BY <1>0, <2>1 DEF ProducerFails, Returns, AtEase, ThreadStates, KnowsTables
  <2>3. Registers(new) => Registers(thread[t]) /\ new.main \in AllTables
    BY <1>0, <2>1 DEF ProducerFails, Returns, AtEase, ThreadStates, KnowsTables,
       Registers, MakingPcs, AllTables
  <2>4. thread' = [thread EXCEPT ![t] = new]
    BY <1>3, <2>1
  <2> QED
    BY <1>0, <1>1, <1>2, <2>2, <2>3, <2>4, GoesOn
<1> QED
  BY <1>3 DEF ProducerFails, Sets

LEMMA GetProducerKeepsHash ==
  ASSUME ListInv, HashInv, NEW t \in Enqueuers, GetProducer(t)
  PROVE  HashInv'
<1>0. /\ thread[t] \in ThreadStates /\ thread \in [Enqueuers -> ThreadStates]
      /\ Knows(t, thread[t], producers, producerListTail)
      /\ KnowsTables(t, thread[t], tables) /\ KeepThread(t, tables) /\ HashTypeOK
      /\ hashCount \in Int /\ Len(tables) \in AllTables /\ ListTypeOK
  BY ListFacts, TableFacts DEF ListInv, ListTypeOK, HashInv, HashTypeOK
<1>1. tables' = tables /\ hashCount' = hashCount /\ OrNone' = OrNone /\ thread[t].pc = "idle"
  BY DEF GetProducer, tableVars, OrNone
<1> DEFINE newest == CHOOSE i \in TablesWith(t) : \A j \in TablesWith(t) : j <= i
<1>2. /\ newest \in TablesWith(t)
      /\ \A j \in TablesWith(t) : j <= newest
  BY <1>0, NewestTable DEF GetProducer
<1>3. PICK value : value = ValueIn(t, tables[newest])
  OBVIOUS
<1>4. /\ newest \in AllTables /\ FoundIn(t, tables[newest])
      /\ IsIn(t, tables[newest])
      /\ \A v : HasValue(t, v, tables) => value = v
  BY <1>0, <1>2, <1>3, FoundHasValue DEF TablesWith, AllTables
<1>5. value # 0 /\ HasValue(t, value, tables)
  BY <1>0, <1>4 DEF KeepThread
<1> HIDE DEF newest
<1>6. CASE thread' = [thread EXCEPT ![t] = [Returns(t) EXCEPT !.mine = value]]
  <2>1. PICK new : new = [Returns(t) EXCEPT !.mine = value]
    OBVIOUS
  <2>2. new.mine = value /\ new.index = 0 /\ new.pc = "idle"
    BY <2>1 DEF Returns, AtEase
  <2>3. KnowsTables(t, new, tables)
    BY <1>4, <1>5, <2>2 DEF KnowsTables, Registers, MakingPcs, AllTables
  <2>4. thread' = [thread EXCEPT ![t] = new]
    BY <1>6, <2>1
  <2> QED
    BY <1>0, <1>1, <2>3, <2>4, TablesStay
<1>7. CASE /\ newest # Len(tables)
           /\ thread' = [thread EXCEPT ![t] = [Goto(t, "insert") EXCEPT !.main = Len(tables),
                                                                        !.producer = value]]
  <2>1. PICK new : new = [Goto(t, "insert") EXCEPT !.main = Len(tables), !.producer = value]
    OBVIOUS
  <2>2. /\ new.mine = thread[t].mine /\ new.index = 0 /\ new.pc = "insert"
        /\ new.main = Len(tables) /\ new.producer = value
    BY <1>0, <1>1, <2>1 DEF Goto, ThreadStates, KnowsTables
  <2>3. ~IsIn(t, tables[Len(tables)])
    <3>1. Len(tables) \notin TablesWith(t)
      BY <1>0, <1>2, <1>7 DEF TablesWith, AllTables
    <3> QED
      BY <3>1, <1>0 DEF KeepThread, TablesWith, AllTables
  <2>4. new.mine \in {0, value}
    BY <1>0, <1>4, <2>2 DEF KnowsTables
  <2>5. tables[Len(tables)].capacity \in Nat \ {0}
    BY <1>0, TableFacts
  <2>6. KnowsTables(t, new, tables)
    <3>1. ~Registers(new)
      BY <2>2 DEF Registers, MakingPcs
    <3>2. new.mine # 0 => HasValue(t, new.mine, tables)
      BY <2>4, <1>5
    <3>3. ~\A i \in 1..Len(tables) : ~IsIn(t, tables[i])
      BY <1>4 DEF AllTables
    <3>4. Len(tables) \in 1..Len(tables)
      BY <1>0 DEF AllTables
    <3>5. 0..(new.index - 1) = {}
      BY <2>2
    <3> QED
      BY <1>5, <2>2, <2>3, <2>4, <2>5, <3>1, <3>2, <3>3, <3>4, <3>5 DEF KnowsTables
  <2>7. thread' = [thread EXCEPT ![t] = new]
    BY <1>7, <2>1
  <2> QED
    BY <1>0, <1>1, <2>6, <2>7, TablesStay
<1> QED
  BY <1>3, <1>6, <1>7 DEF GetProducer, Sets, newest

LEMMA GetNothingKeepsHash ==
  ASSUME ListInv, HashInv, NEW t \in Enqueuers, GetNothing(t)
  PROVE  HashInv'
<1>0. /\ thread[t] \in ThreadStates /\ thread \in [Enqueuers -> ThreadStates]
      /\ KnowsTables(t, thread[t], tables) /\ KeepThread(t, tables) /\ HashTypeOK
      /\ hashCount \in Int /\ Len(tables) \in AllTables
  BY ListFacts, TableFacts DEF ListInv, ListTypeOK, HashInv, HashTypeOK
<1>1. /\ tables' = tables /\ hashCount' = hashCount /\ OrNone' = OrNone
      /\ thread[t].pc = "idle" /\ TablesWith(t) = {}
  BY DEF GetNothing, tableVars, OrNone
<1>2. PICK new : new = [Goto(t, "count") EXCEPT !.main = Len(tables)]
  OBVIOUS
<1>3. /\ new.mine = thread[t].mine /\ new.index = 0 /\ new.pc = "count"
      /\ new.main = Len(tables)
  BY <1>0, <1>1, <1>2 DEF Goto, ThreadStates, KnowsTables
<1>4. \A i \in 1..Len(tables) : ~IsIn(t, tables[i])
  BY <1>0, <1>1 DEF KeepThread, TablesWith
<1>5. KnowsTables(t, new, tables)
  BY <1>0, <1>3, <1>4 DEF KnowsTables, AllTables
<1>6. thread' = [thread EXCEPT ![t] = new]
  BY <1>2 DEF GetNothing, Sets
<1> QED
  BY <1>0, <1>1, <1>5, <1>6, TablesStay

LEMMA GotProducerKeepsHash ==
  ASSUME ListInv, HashInv, NEW t \in Enqueuers, GotProducer(t)
  PROVE  HashInv'
<1>0. /\ thread[t] \in ThreadStates /\ thread \in [Enqueuers -> ThreadStates]
      /\ Knows(t, thread[t], producers, producerListTail)
      /\ KnowsTables(t, thread[t], tables) /\ HashTypeOK
      /\ hashCount \in Int /\ Len(tables) \in AllTables
  BY ListFacts, TableFacts DEF ListInv, ListTypeOK, HashInv, HashTypeOK
<1>1. /\ tables' = tables /\ hashCount' = hashCount /\ OrNone' = OrNone
      /\ thread[t].pc = "acquired" /\ ~thread[t].isExplicit
  BY DEF GotProducer, tableVars, OrNone
<1>2. PICK new : new = Goto(t, "insert")
  OBVIOUS
<1>3. /\ new.mine = thread[t].mine /\ new.index = 0 /\ new.pc = "insert"
      /\ new.main = thread[t].main /\ new.producer = thread[t].producer
      /\ new.producer # 0
  BY <1>0, <1>1, <1>2 DEF Goto, ThreadStates, KnowsTables, Knows, HandPcs
<1>4. Registers(thread[t])
  BY <1>1 DEF Registers, MakingPcs
<1>5. /\ new.mine = 0 /\ new.main \in AllTables
      /\ \A i \in 1..Len(tables) : ~IsIn(t, tables[i])
  BY <1>0, <1>3, <1>4 DEF KnowsTables, AllTables
<1>6. tables[new.main].capacity \in Nat \ {0} /\ 0..(new.index - 1) = {}
  BY <1>0, <1>3, <1>5, TableFacts
<1>7. HasValue(t, new.producer, tables)
  BY <1>5 DEF HasValue, IsIn
<1>8. ~Registers(new)
  BY <1>3 DEF Registers, MakingPcs
<1>9. KnowsTables(t, new, tables)
  BY <1>3, <1>5, <1>6, <1>7, <1>8 DEF KnowsTables, AllTables
<1>10. thread' = [thread EXCEPT ![t] = new]
  BY <1>2 DEF GotProducer, Sets
<1> QED
  BY <1>0, <1>1, <1>9, <1>10, TablesStay

-----------------------------------------------------------------------------
(* The hash of threads: a new table. *)

\* f doubles c, up to n times.
Doubles(f, c, n) == f = [k \in 0..n |-> IF k = 0 THEN c ELSE 2 * f[k - 1]]

\* The capacities a table may get: the recursive function exists.
LEMMA Doubling ==
  ASSUME NEW c, NEW n \in Nat
  PROVE  \E f : Doubles(f, c, n)
<1> DEFINE Is(f, m) == Doubles(f, c, m)
           Without == {m \in Nat : ~\E f : Is(f, m)}
<1>1. SUFFICES ASSUME Without # {}
               PROVE  FALSE
  OBVIOUS
<1>2. PICK m \in Without : \A k \in Without : m <= k
  BY <1>1, Least
<1>3. m # 0
  <2>1. Is([k \in 0..0 |-> c], 0)
    BY DEF Doubles
  <2> QED
    BY <2>1
<1>4. m - 1 \in Nat /\ m - 1 \notin Without
  <2>1. m \in Nat /\ m - 1 \in Nat /\ ~(m <= m - 1)
    BY <1>3
  <2> HIDE DEF Without
  <2> QED
    BY <1>2, <2>1
<1>5. PICK f : Is(f, m - 1)
  BY <1>4
<1> DEFINE g == [k \in 0..m |-> IF k = m THEN 2 * f[m - 1] ELSE f[k]]
<1>6. ASSUME NEW k \in 0..m
      PROVE  g[k] = IF k = 0 THEN c ELSE 2 * g[k - 1]
  <2>1. CASE k = m
    BY <2>1, <1>3
  <2>2. CASE k # m
    <3>1. k \in 0..(m - 1)
      BY <2>2
    <3>2. f[k] = IF k = 0 THEN c ELSE 2 * f[k - 1]
      BY <3>1, <1>5 DEF Doubles
    <3>3. g[k] = f[k] /\ (k # 0 => g[k - 1] = f[k - 1])
      BY <3>1
    <3> QED
      BY <3>2, <3>3
  <2> QED
    BY <2>1, <2>2
<1>7. Is(g, m)
  BY <1>6 DEF Doubles
<1> QED
  BY <1>7

\* The new capacity is at least double the old and the count is below half.
LEMMA CapacityDoubles ==
  ASSUME NEW t \in Enqueuers, thread[t].newCount \in Nat, NEW c \in Nat \ {0}
  PROVE  /\ NewCapacity(t, c) \in Nat \ {0}
         /\ NewCapacity(t, c) >= c
         /\ thread[t].newCount < NewCapacity(t, c) \div 2
<1> DEFINE n == thread[t].newCount
           doubled == CHOOSE f : f = [k \in 0..(n + 1) |-> IF k = 0 THEN c ELSE 2 * f[k - 1]]
           enough(k) == n < doubled[k] \div 2
           first == CHOOSE k \in 1..(n + 1) : enough(k) /\ \A j \in 1..(k - 1) : ~enough(j)
<1>1. NewCapacity(t, c) = doubled[first]
  BY DEF NewCapacity
<1>2. n \in Nat /\ n + 1 \in Nat
  OBVIOUS
<1>3. doubled = [k \in 0..(n + 1) |-> IF k = 0 THEN c ELSE 2 * doubled[k - 1]]
  <2>1. PICK m \in Nat : m = n + 1
    BY <1>2
  <2>2. \E f : Doubles(f, c, m)
    BY Doubling
  <2>3. \E f : f = [k \in 0..(n + 1) |-> IF k = 0 THEN c ELSE 2 * f[k - 1]]
    BY <2>1, <2>2 DEF Doubles
  <2> QED
    BY <2>3
<1> HIDE DEF doubled
<1>4. \A k \in 0..(n + 1) : doubled[k] = IF k = 0 THEN c ELSE 2 * doubled[k - 1]
  BY <1>3
<1>5. \A k \in 0..(n + 1) : doubled[k] \in Nat /\ doubled[k] >= k + 1 /\ doubled[k] >= c
  <2> DEFINE Wrong == {k \in 0..(n + 1) : ~(/\ doubled[k] \in Nat
                                            /\ doubled[k] >= k + 1 /\ doubled[k] >= c)}
  <2>1. SUFFICES ASSUME Wrong # {}
                 PROVE  FALSE
    OBVIOUS
  <2>2. PICK k \in Wrong : \A j \in Wrong : k <= j
    <3>1. Wrong \in SUBSET Nat
      BY <1>2
    <3> HIDE DEF Wrong
    <3> QED
      BY <2>1, <3>1, Least
  <2>3. k # 0
    BY <1>4
  <2>4. k - 1 \in 0..(n + 1) /\ k - 1 \notin Wrong
    BY <2>2, <2>3, <1>2
  <2>5. doubled[k] = 2 * doubled[k - 1]
    BY <2>3, <1>4
  <2> QED
    BY <2>3, <2>4, <2>5
<1>6. enough(n + 1)
  <2>1. doubled[n + 1] = 2 * doubled[n] /\ doubled[n] \in Nat /\ doubled[n] >= n + 1
    BY <1>2, <1>4, <1>5
  <2>2. (2 * doubled[n]) \div 2 = doubled[n]
    BY <2>1
  <2> QED
    BY <2>1, <2>2, <1>2
<1>7. first \in 1..(n + 1) /\ enough(first)
  <2> DEFINE E == {k \in 1..(n + 1) : enough(k)}
  <2>1. E \in SUBSET Nat /\ E # {}
    BY <1>2, <1>6
  <2>2. PICK k \in E : \A j \in E : k <= j
    BY <2>1, Least
  <2>3. enough(k) /\ \A j \in 1..(k - 1) : ~enough(j)
    <3>1. ASSUME NEW j \in 1..(k - 1), enough(j)
          PROVE  FALSE
      <4>1. j \in E
        BY <3>1, <1>2
      <4> QED
        BY <4>1, <2>2
    <3> QED
      BY <3>1
  <2> QED
    BY <2>2, <2>3
<1> HIDE DEF first
<1> QED
  BY <1>1, <1>2, <1>5, <1>7

\* A new table has no thread.
LEMMA EmptyTableTyped ==
  ASSUME NEW c \in Nat \ {0}
  PROVE  /\ EmptyTable(c) \in TableStates
         /\ EmptyTable(c).capacity = c
         /\ \A k \in Slots(EmptyTable(c)) : /\ EmptyTable(c).key[k] = NoThread
                                            /\ EmptyTable(c).value[k] = 0
         /\ \A u \in Enqueuers : ~IsIn(u, EmptyTable(c))
<1> DEFINE E == EmptyTable(c)
<1>1. /\ E.capacity = c
      /\ E.key = [i \in 0..(c - 1) |-> NoThread]
      /\ E.value = [i \in 0..(c - 1) |-> 0]
      /\ E = [capacity |-> E.capacity, key |-> E.key, value |-> E.value]
  BY DEF EmptyTable
<1>2. /\ E.key \in [0..(c - 1) -> Enqueuers \cup {NoThread}]
      /\ E.value \in [0..(c - 1) -> Nat]
  BY <1>1
<1>3. E \in [capacity: {c}, key: [0..(c - 1) -> Enqueuers \cup {NoThread}],
             value: [0..(c - 1) -> Nat]]
  BY <1>1, <1>2
<1>4. E \in TableStates
  BY <1>3 DEF TableStates
<1>5. \A k \in Slots(E) : E.key[k] = NoThread /\ E.value[k] = 0
  BY <1>1 DEF Slots
<1>6. \A u \in Enqueuers : ~IsIn(u, E)
  BY <1>5, ListAssumption DEF IsIn
<1> QED
  BY <1>1, <1>4, <1>5, <1>6

\* Tables with a new one added.
LEMMA TableAdded ==
  ASSUME NEW all \in Seq(TableStates), NEW c \in Nat \ {0},
         NEW new, new = Append(all, EmptyTable(c))
  PROVE  /\ new \in Seq(TableStates) /\ Len(new) = Len(all) + 1
         /\ \A i \in 1..Len(all) : new[i] = all[i]
         /\ new[Len(new)] = EmptyTable(c)
         /\ \A v : \A u \in Enqueuers : HasValue(u, v, new) <=> HasValue(u, v, all)
         /\ \A u \in Enqueuers :
              (\A i \in 1..Len(new) : ~IsIn(u, new[i]))
                <=> (\A i \in 1..Len(all) : ~IsIn(u, all[i]))
<1>1. PICK table : table = EmptyTable(c)
  OBVIOUS
<1>2. /\ table \in TableStates
      /\ \A u \in Enqueuers : ~IsIn(u, table)
  BY <1>1, EmptyTableTyped
<1>3. new = Append(all, table)
  BY <1>1
<1>4. /\ new \in Seq(TableStates) /\ Len(new) = Len(all) + 1 /\ Len(all) \in Nat
      /\ \A i \in 1..Len(all) : new[i] = all[i]
      /\ new[Len(all) + 1] = table
  BY <1>2, <1>3
<1>5. 1..Len(new) = (1..Len(all)) \cup {Len(new)}
  BY <1>4
<1>6. \A v : \A u \in Enqueuers : HasValue(u, v, new) <=> HasValue(u, v, all)
  BY <1>2, <1>4, <1>5 DEF HasValue, IsIn
<1>7. \A u \in Enqueuers :
        (\A i \in 1..Len(new) : ~IsIn(u, new[i])) <=> (\A i \in 1..Len(all) : ~IsIn(u, all[i]))
  BY <1>2, <1>4, <1>5
<1> QED
  BY <1>1, <1>4, <1>6, <1>7

\* The new table is empty: nobody is found in it with another producer.
LEMMA ResizeTableKeepsHash ==
  ASSUME ListInv, HashInv, NEW t \in Enqueuers, ResizeTable(t)
  PROVE  HashInv'
<1>0. /\ thread[t] \in ThreadStates /\ thread \in [Enqueuers -> ThreadStates]
      /\ KnowsTables(t, thread[t], tables) /\ HashTypeOK
      /\ hashCount \in Int /\ Len(tables) \in AllTables
      /\ tables[Len(tables)].capacity \in Nat \ {0}
      /\ thread[t].newCount \in Int
  BY ListFacts, TableFacts DEF ListInv, ListTypeOK, HashInv, HashTypeOK, ThreadStates
<1>1. hashCount' = hashCount /\ OrNone' = OrNone /\ thread[t].pc = "resize"
  BY DEF ResizeTable, OrNone
<1>2. PICK new : new = [Goto(t, "unlock") EXCEPT !.main = Len(tables')]
  OBVIOUS
<1>3. thread' = [thread EXCEPT ![t] = new]
  BY <1>2 DEF ResizeTable, Sets
<1>4. /\ new.mine = thread[t].mine /\ new.index = 0 /\ new.pc = "unlock"
      /\ new.main = Len(tables') /\ new.isExplicit = thread[t].isExplicit
  BY <1>0, <1>1, <1>2 DEF Goto, ThreadStates, KnowsTables
<1>5. Registers(thread[t])
  BY <1>1 DEF Registers
<1>6. CASE tables' = tables
  <2>1. new.main \in AllTables
    BY <1>0, <1>4, <1>6
  <2> QED
    BY <1>0, <1>1, <1>3, <1>4, <1>5, <1>6, <2>1, GoesOn
<1>7. CASE /\ HalfFull(t, tables[Len(tables)])
           /\ tables' = Append(tables,
                EmptyTable(NewCapacity(t, tables[Len(tables)].capacity)))
  <2>1. thread[t].newCount \in Nat
    BY <1>0, <1>7 DEF HalfFull
  <2>2. PICK c \in Nat \ {0} : c = NewCapacity(t, tables[Len(tables)].capacity)
    BY <1>0, <2>1, CapacityDoubles
  <2>3. tables \in Seq(TableStates) /\ tables' = Append(tables, EmptyTable(c))
    BY <1>0, <1>7, <2>2 DEF HashTypeOK
  <2>4. PICK all : all = tables' /\ all = Append(tables, EmptyTable(c))
    BY <2>3
  <2>5. /\ all \in Seq(TableStates) /\ Len(all) = Len(tables) + 1
        /\ \A i \in 1..Len(tables) : all[i] = tables[i]
        /\ all[Len(all)] = EmptyTable(c)
        /\ \A v : \A u \in Enqueuers : HasValue(u, v, all) <=> HasValue(u, v, tables)
        /\ \A u \in Enqueuers :
             (\A i \in 1..Len(all) : ~IsIn(u, all[i]))
               <=> (\A i \in 1..Len(tables) : ~IsIn(u, tables[i]))
    BY <2>3, <2>4, TableAdded
  <2>6. /\ Len(tables) \in Nat /\ 1..Len(all) = (1..Len(tables)) \cup {Len(all)}
        /\ \A i \in 1..Len(tables) : i # Len(all)
    BY <2>3, <2>5
  <2>7. \A u \in Enqueuers : KeepThread(u, all)
    <3> SUFFICES ASSUME NEW u \in Enqueuers
                 PROVE  KeepThread(u, all)
      OBVIOUS
    <3>1. KeepThread(u, tables)
      BY DEF HashInv
    <3>2. ~IsIn(u, all[Len(all)])
      BY <2>2, <2>5, EmptyTableTyped
    <3>3. \A i \in 1..Len(all) :
            /\ \A k, l \in Slots(all[i]) : all[i].key[k] = u /\ all[i].key[l] = u => k = l
            /\ IsIn(u, all[i]) => FoundIn(u, all[i])
      BY <2>5, <2>6, <3>1, <3>2 DEF KeepThread, IsIn
    <3>4. \E v \in Nat \ {0} : HasValue(u, v, all)
      BY <2>5, <3>1 DEF KeepThread
    <3> QED
      BY <3>3, <3>4 DEF KeepThread
  <2>8. ASSUME NEW u \in Enqueuers, NEW me, KnowsTables(u, me, tables)
        PROVE  KnowsTables(u, me, all)
    BY <2>5, <2>6, <2>8 DEF KnowsTables
  <2>9. KnowsTables(t, new, all)
    <3>1. Registers(new) => new.main \in 1..Len(all)
      BY <1>4, <2>4, <2>5, <2>6
    <3> QED
      BY <1>0, <1>4, <1>5, <2>5, <3>1 DEF KnowsTables
  <2>10. \A u \in Enqueuers : thread'[u] = IF u = t THEN new ELSE thread[u]
    BY <1>0, <1>3
  <2>11. \A u \in Enqueuers : KnowsTables(u, thread'[u], all)
    BY <2>8, <2>9, <2>10 DEF HashInv
  <2>12. \A i \in 1..Len(all) : \A k \in Slots(all[i]) : all[i].value[k] \in OrNone
    <3>1. \A k \in Slots(all[Len(all)]) : all[Len(all)].value[k] = 0
      BY <2>2, <2>5, EmptyTableTyped
    <3>2. 0 \in OrNone
      BY ListFacts DEF ListInv
    <3> QED
      BY <1>0, <2>5, <2>6, <3>1, <3>2 DEF HashTypeOK, AllTables
  <2>13. HashTypeOK'
    BY <1>0, <1>1, <2>4, <2>5, <2>6, <2>12 DEF HashTypeOK, AllTables
  <2> QED
    BY <2>4, <2>7, <2>11, <2>13 DEF HashInv
<1> QED
  BY <1>6, <1>7 DEF ResizeTable

-----------------------------------------------------------------------------
(* The hash of threads: a thread takes a slot. *)

Taking(t, old, s, v) == [old EXCEPT !.key[s] = t, !.value[s] = v]

\* A table in which thread t took the free slot s.
LEMMA SlotTaken ==
  ASSUME NEW t \in Enqueuers, NEW old \in TableStates, NEW s \in Slots(old),
         old.key[s] = NoThread, NEW v \in Nat,
         NEW table, table = Taking(t, old, s, v)
  PROVE  /\ table \in TableStates /\ table.capacity = old.capacity
         /\ \A k \in Slots(old) : /\ table.key[k] = IF k = s THEN t ELSE old.key[k]
                                  /\ table.value[k] = IF k = s THEN v ELSE old.value[k]
         /\ \A u \in Enqueuers \ {t} : /\ IsIn(u, table) <=> IsIn(u, old)
                                       /\ FoundIn(u, old) => FoundIn(u, table)
<1>1. PICK c \in Nat \ {0} :
        old \in [capacity: {c}, key: [0..(c - 1) -> Enqueuers \cup {NoThread}],
                 value: [0..(c - 1) -> Nat]]
  BY DEF TableStates
<1>2. table \in [capacity: {c}, key: [0..(c - 1) -> Enqueuers \cup {NoThread}],
                 value: [0..(c - 1) -> Nat]]
  <2>1. /\ old.key \in [0..(c - 1) -> Enqueuers \cup {NoThread}]
        /\ old.value \in [0..(c - 1) -> Nat]
    BY <1>1
  <2>2. /\ [old.key EXCEPT ![s] = t] \in [0..(c - 1) -> Enqueuers \cup {NoThread}]
        /\ [old.value EXCEPT ![s] = v] \in [0..(c - 1) -> Nat]
    BY <2>1
  <2> QED
    BY <1>1, <2>2 DEF Taking
<1>3. table \in TableStates
  BY <1>2 DEF TableStates
<1>4. /\ table.capacity = c /\ old.capacity = c /\ Slots(old) = 0..(c - 1)
      /\ \A k \in Slots(old) : /\ table.key[k] = IF k = s THEN t ELSE old.key[k]
                               /\ table.value[k] = IF k = s THEN v ELSE old.value[k]
  BY <1>1 DEF Slots, Taking
<1>5. NoThread \notin Enqueuers
  BY ListAssumption
<1>6. ASSUME NEW u \in Enqueuers \ {t}
      PROVE  /\ IsIn(u, table) <=> IsIn(u, old)
             /\ FoundIn(u, old) => FoundIn(u, table)
  <2>1. IsIn(u, table) <=> IsIn(u, old)
    BY <1>4, <1>5 DEF IsIn, Slots
  <2>2. ASSUME FoundIn(u, old)
        PROVE  FoundIn(u, table)
    <3>1. PICK k \in 0..(c - 1) :
            /\ old.key[Probe(u, c, k)] = u
            /\ \A j \in 0..(k - 1) : old.key[Probe(u, c, j)] # NoThread
      BY <1>4, <2>2 DEF FoundIn
    <3>2. \A j \in 0..k : Probe(u, c, j) \in Slots(old)
      <4>1. \A j \in 0..k : j \in Nat
        OBVIOUS
      <4> QED
        BY <1>4, <4>1, ProbeInTable
    <3>3. \A j \in 0..k : old.key[Probe(u, c, j)] # NoThread
      BY <3>1, <1>5
    <3>4. \A j \in 0..k : table.key[Probe(u, c, j)] = old.key[Probe(u, c, j)]
      BY <1>4, <3>2, <3>3
    <3>5. k \in 0..k /\ \A j \in 0..(k - 1) : j \in 0..k
      OBVIOUS
    <3> QED
      BY <1>4, <3>1, <3>4, <3>5 DEF FoundIn
  <2> QED
    BY <2>1, <2>2
<1> QED
  BY <1>3, <1>4, <1>6

\* A thread takes the first free slot of its probe sequence: it is found there,
\* and whoever was found before still is.
LEMMA InsertSlotKeepsHash ==
  ASSUME ListInv, HashInv, NEW t \in Enqueuers, InsertSlot(t)
  PROVE  HashInv'
<1>0. /\ thread[t] \in ThreadStates /\ thread \in [Enqueuers -> ThreadStates]
      /\ KnowsTables(t, thread[t], tables) /\ KeepThread(t, tables) /\ HashTypeOK
      /\ hashCount \in Int /\ DOMAIN tables = AllTables
  BY ListFacts, TableFacts DEF ListInv, ListTypeOK, HashInv, HashTypeOK
<1>1. hashCount' = hashCount /\ OrNone' = OrNone /\ thread[t].pc = "insert"
  BY DEF InsertSlot, OrNone
<1>2. PICK m \in AllTables : m = thread[t].main
  BY <1>0, <1>1 DEF KnowsTables, AllTables
<1>3. PICK old \in TableStates : old = tables[m] /\ old = Main(t)
  BY <1>0, <1>2, TableFacts DEF Main
<1>4. PICK c \in Nat \ {0} : c = old.capacity
  BY <1>0, <1>2, <1>3, TableFacts
<1>5. PICK n \in 0..(c - 1) : n = thread[t].index
  BY <1>0, <1>1, <1>2, <1>3, <1>4 DEF KnowsTables, ThreadStates
<1>6. PICK s \in Slots(old) : s = Probe(t, c, n)
  BY <1>4, ProbeInTable DEF Slots
<1>7. PICK v : v = thread[t].producer
  OBVIOUS
<1>8. /\ v \in OrNone /\ v \in Nat /\ v # 0
      /\ \A j \in 0..(n - 1) : old.key[Probe(t, c, j)] # NoThread
      /\ ~IsIn(t, old) /\ HasValue(t, v, tables)
  BY <1>0, <1>1, <1>2, <1>3, <1>4, <1>5, <1>7 DEF KnowsTables, ThreadStates, OrNone
<1>9. CASE /\ old.key[s] = NoThread
           /\ tables' = [tables EXCEPT ![m] = Taking(t, old, s, v)]
           /\ thread' = [thread EXCEPT ![t] = [Returns(t) EXCEPT !.mine = v]]
  <2>1. PICK new : new = [Returns(t) EXCEPT !.mine = v]
    OBVIOUS
  <2>2. new.mine = v /\ new.index = 0 /\ new.pc = "idle"
    BY <2>1 DEF Returns, AtEase
  <2>3. PICK table : table = Taking(t, old, s, v)
    OBVIOUS
  <2>4. /\ table \in TableStates /\ table.capacity = old.capacity
        /\ \A k \in Slots(old) : /\ table.key[k] = IF k = s THEN t ELSE old.key[k]
                                 /\ table.value[k] = IF k = s THEN v ELSE old.value[k]
        /\ \A u \in Enqueuers \ {t} : /\ IsIn(u, table) <=> IsIn(u, old)
                                      /\ FoundIn(u, old) => FoundIn(u, table)
    BY <1>8, <1>9, <2>3, SlotTaken
  <2>5. PICK all : all = tables' /\ all = [tables EXCEPT ![m] = table]
    BY <1>9, <2>3
  <2>6. /\ all \in Seq(TableStates) /\ Len(all) = Len(tables)
        /\ \A i \in AllTables : all[i] = IF i = m THEN table ELSE tables[i]
    BY <1>0, <2>4, <2>5 DEF HashTypeOK
  <2>7. Slots(table) = Slots(old)
    BY <2>4 DEF Slots
  <2>8. NoThread \notin Enqueuers
    BY ListAssumption
  <2>9. ASSUME NEW u \in Enqueuers \ {t}
        PROVE  KeepThread(u, all) /\ KnowsTables(u, thread[u], all)
    <3>1. KeepThread(u, tables) /\ KnowsTables(u, thread[u], tables)
      BY DEF HashInv
    <3>3. \A i \in AllTables : /\ IsIn(u, all[i]) <=> IsIn(u, tables[i])
                               /\ FoundIn(u, tables[i]) => FoundIn(u, all[i])
                               /\ all[i].capacity = tables[i].capacity
                               /\ Slots(all[i]) = Slots(tables[i])
      BY <1>3, <2>4, <2>6, <2>7
    <3>4. \A i \in AllTables : \A k \in Slots(tables[i]) :
            /\ all[i].key[k] = u <=> tables[i].key[k] = u
            /\ tables[i].key[k] # NoThread => all[i].key[k] # NoThread
            /\ tables[i].key[k] = u => all[i].value[k] = tables[i].value[k]
      BY <1>3, <1>9, <2>4, <2>6, <2>8
    <3>2. \A w : HasValue(u, w, all) <=> HasValue(u, w, tables)
      BY <2>6, <3>3, <3>4 DEF HasValue, AllTables
    <3>5. KeepThread(u, all)
      BY <2>6, <3>1, <3>2, <3>3, <3>4 DEF KeepThread, AllTables
    <3>6. ASSUME thread[u].pc = "insert"
          PROVE  \A j \in 0..(thread[u].index - 1) :
                   all[thread[u].main].key[Probe(u, all[thread[u].main].capacity, j)] # NoThread
      <4>1. PICK i \in AllTables : i = thread[u].main
        BY <3>1, <3>6 DEF KnowsTables, AllTables
      <4>2. thread[u].index \in Nat
        BY <1>0 DEF ThreadStates
      <4>3. \A j \in 0..(thread[u].index - 1) :
              /\ Probe(u, tables[i].capacity, j) \in Slots(tables[i])
              /\ tables[i].key[Probe(u, tables[i].capacity, j)] # NoThread
        <5>1. \A j \in 0..(thread[u].index - 1) : j \in Nat
          BY <4>2
        <5>2. tables[i].capacity \in Nat \ {0}
          BY <1>0, TableFacts
        <5>3. \A j \in 0..(thread[u].index - 1) :
                Probe(u, tables[i].capacity, j) \in Slots(tables[i])
          BY <5>1, <5>2, ProbeInTable DEF Slots
        <5> QED
          BY <3>1, <3>6, <4>1, <5>3 DEF KnowsTables
      <4> QED
        BY <3>3, <3>4, <4>1, <4>3
    <3>7. KnowsTables(u, thread[u], all)
      BY <2>6, <3>1, <3>2, <3>3, <3>6 DEF KnowsTables, AllTables
    <3> QED
      BY <3>5, <3>7
  <2>10. HasValue(t, v, all)
    <3>1. \A k \in Slots(table) : table.key[k] = t => table.value[k] = v
      BY <1>8, <2>4, <2>7 DEF IsIn
    <3>2. \A i \in AllTables : \A k \in Slots(all[i]) :
            all[i].key[k] = t => all[i].value[k] = v
      BY <1>8, <2>6, <3>1 DEF HasValue, AllTables
    <3> QED
      BY <2>6, <3>2 DEF HasValue, AllTables
  <2>11. KeepThread(t, all)
    <3>1. FoundIn(t, table)
      <4>1. table.key[Probe(t, c, n)] = t
        BY <1>6, <2>4
      <4>2. \A j \in 0..(n - 1) : Probe(t, c, j) \in Slots(old)
        BY <1>4, ProbeInTable DEF Slots
      <4>3. \A j \in 0..(n - 1) : table.key[Probe(t, c, j)] # NoThread
        BY <1>8, <2>4, <2>8, <4>2
      <4>4. table.capacity = c
        BY <1>4, <2>4
      <4> QED
        BY <4>1, <4>3, <4>4 DEF FoundIn
    <3>2. \A k, l \in Slots(table) : table.key[k] = t /\ table.key[l] = t => k = l
      BY <1>8, <2>4, <2>7 DEF IsIn
    <3>3. \A i \in 1..Len(all) :
            /\ \A k, l \in Slots(all[i]) : all[i].key[k] = t /\ all[i].key[l] = t => k = l
            /\ IsIn(t, all[i]) => FoundIn(t, all[i])
      BY <1>0, <2>6, <3>1, <3>2 DEF KeepThread, AllTables
    <3> QED
      BY <1>8, <2>10, <3>3 DEF KeepThread
  <2>12. KnowsTables(t, new, all)
    <3>1. IsIn(t, table)
      BY <2>4, <2>7 DEF IsIn
    <3>2. ~\A i \in 1..Len(all) : ~IsIn(t, all[i])
      BY <1>2, <2>6, <3>1 DEF AllTables
    <3>3. ~Registers(new)
      BY <2>2 DEF Registers, MakingPcs
    <3> QED
      BY <2>2, <2>10, <3>2, <3>3 DEF KnowsTables
  <2>13. \A u \in Enqueuers : thread'[u] = IF u = t THEN new ELSE thread[u]
    BY <1>0, <1>9, <2>1
  <2>14. HashTypeOK'
    <3>1. \A i \in AllTables : \A k \in Slots(all[i]) : all[i].value[k] \in OrNone
      <4>1. \A i \in AllTables : \A k \in Slots(tables[i]) : tables[i].value[k] \in OrNone
        BY <1>0 DEF HashTypeOK
      <4>2. \A k \in Slots(table) : table.value[k] \in OrNone
        BY <1>3, <1>8, <2>4, <2>7, <4>1
      <4> QED
        BY <2>6, <4>1, <4>2
    <3> QED
      BY <1>0, <1>1, <2>5, <2>6, <3>1 DEF HashTypeOK, AllTables
  <2> QED
    BY <2>5, <2>9, <2>11, <2>12, <2>13, <2>14 DEF HashInv
<1>10. CASE /\ old.key[s] # NoThread
            /\ tables' = tables
            /\ thread' = [thread EXCEPT ![t] = [thread[t] EXCEPT !.index = (n + 1) % c]]
  <2>1. PICK new : new = [thread[t] EXCEPT !.index = (n + 1) % c]
    OBVIOUS
  <2>2. /\ new.index = (n + 1) % c /\ new.pc = "insert" /\ new.mine = thread[t].mine
        /\ new.main = m /\ new.producer = v
    BY <1>0, <1>1, <1>2, <1>7, <2>1 DEF ThreadStates
  <2>3. (n + 1) % c = IF n + 1 = c THEN 0 ELSE n + 1
    <3>1. CASE n + 1 = c
      BY <3>1
    <3>2. CASE n + 1 # c
      BY <3>2
    <3> QED
      BY <3>1, <3>2
  <2>4. \A j \in 0..(new.index - 1) : old.key[Probe(t, c, j)] # NoThread
    <3>1. \A j \in 0..(new.index - 1) : j \in 0..(n - 1) \/ j = n
      BY <2>2, <2>3
    <3> QED
      BY <1>6, <1>8, <1>10, <3>1
  <2>5. new.index < c
    BY <2>2, <2>3
  <2>6. ~Registers(new)
    BY <2>2 DEF Registers, MakingPcs
  <2>7. KnowsTables(t, new, tables)
    BY <1>0, <1>1, <1>2, <1>3, <1>4, <1>7, <1>8, <2>2, <2>4, <2>5, <2>6 DEF
       KnowsTables, AllTables
  <2>8. thread' = [thread EXCEPT ![t] = new]
    BY <1>10, <2>1
  <2> QED
    BY <1>0, <1>1, <1>10, <2>7, <2>8, TablesStay
<1> QED
  BY <1>2, <1>3, <1>4, <1>5, <1>6, <1>7, <1>9, <1>10 DEF InsertSlot, Sets, Taking

-----------------------------------------------------------------------------
(* Room in the tables: its invariant. *)

CountedPcs == {"room", "reload", "resize", "unlock"}

\* Has chosen the table its producer goes into.
Decides(me) == me.pc = "insert" \/ (me.pc \in MakingPcs /\ ~me.isExplicit)

\* Thread t is counted in implicitProducerHashCount.
IsLive(t, me, all) ==
  \/ me.pc \in CountedPcs
  \/ Decides(me)
  \/ \E i \in 1..Len(all) : IsIn(t, all[i])

Live == {t \in Enqueuers : IsLive(t, thread[t], tables)}

\* Three quarters of a table.
Limit(table) == table.capacity \div 2 + table.capacity \div 4

\* n is no larger than the count thread t got, and below three quarters of every
\* table the thread is in or goes into.
RankFits(t, n, me, all) ==
  /\ me.pc \in CountedPcs => n <= me.newCount
  /\ Decides(me) => n < Limit(all[me.main])
  /\ \A i \in 1..Len(all) : IsIn(t, all[i]) => n < Limit(all[i])

\* r numbers the counted threads.
Ranks(r) ==
  /\ \A t, u \in Live : r[t] = r[u] => t = u
  /\ \A t \in Live : RankFits(t, r[t], thread[t], tables)

TablesGrow ==
  \A i, j \in AllTables : i <= j => tables[i].capacity <= tables[j].capacity

RoomInv ==
  /\ TablesGrow
  /\ hashCount = Cardinality(Live)
  /\ \E r \in [Enqueuers -> Nat \ {0}] : Ranks(r)

\* Of n + 1 numbers one is not used by n threads.
LEMMA FreeRank ==
  ASSUME NEW S \in SUBSET Enqueuers, NEW r \in [Enqueuers -> Nat \ {0}]
  PROVE  /\ Cardinality(S) \in Nat
         /\ \E x \in 1..(Cardinality(S) + 1) : \A u \in S : r[u] # x
<1>1. IsFiniteSet(S)
  BY ListAssumption, FS_Subset
<1>2. PICK n \in Nat : n = Cardinality(S)
  BY <1>1, FS_CardinalityType
<1>3. SUFFICES ASSUME \A x \in 1..(n + 1) : \E u \in S : r[u] = x
               PROVE  FALSE
  BY <1>2
<1> DEFINE g == [x \in 1..(n + 1) |-> CHOOSE u \in S : r[u] = x]
<1>4. g \in [1..(n + 1) -> S]
  BY <1>3
<1>5. \A x \in 1..(n + 1) : r[g[x]] = x
  BY <1>3
<1>6. IsFiniteSet(1..(n + 1)) /\ Cardinality(1..(n + 1)) = n + 1
  BY FS_Interval
<1> HIDE DEF g
<1>7. \E x, y \in 1..(n + 1) : x # y /\ g[x] = g[y]
  BY <1>1, <1>2, <1>4, <1>6, FS_PigeonHole
<1> QED
  BY <1>5, <1>7

LEMMA LimitBelowCapacity ==
  ASSUME NEW t1, NEW t2, t1.capacity \in Nat \ {0}, t2.capacity \in Nat \ {0}
  PROVE  /\ Limit(t1) \in Nat /\ Limit(t1) <= t1.capacity
         /\ t1.capacity <= t2.capacity => Limit(t1) <= Limit(t2)
BY DEF Limit

\* "At least one slot is free in the hash table".
LEMMA FreeSlot ==
  ASSUME HashInv, RoomInv, NEW i \in AllTables
  PROVE  \E k \in Slots(tables[i]) : tables[i].key[k] = NoThread
<1>1. SUFFICES ASSUME \A k \in Slots(tables[i]) : tables[i].key[k] # NoThread
               PROVE  FALSE
  OBVIOUS
<1>2. PICK r \in [Enqueuers -> Nat \ {0}] : Ranks(r)
  BY DEF RoomInv
<1>3. /\ tables[i].capacity \in Nat \ {0}
      /\ tables[i].key \in [Slots(tables[i]) -> Enqueuers \cup {NoThread}]
  BY TableFacts DEF HashInv
<1>4. PICK c \in Nat \ {0} : c = tables[i].capacity
  BY <1>3
<1>5. PICK m \in Nat : m = Limit(tables[i]) /\ m <= c
  BY <1>3, <1>4, LimitBelowCapacity
<1>6. PICK key : key = tables[i].key
  OBVIOUS
<1>7. key \in [0..(c - 1) -> Enqueuers]
  BY <1>1, <1>3, <1>4, <1>6 DEF Slots
<1>8. \A k \in 0..(c - 1) : key[k] \in Live /\ r[key[k]] < m
  <2> SUFFICES ASSUME NEW k \in 0..(c - 1)
               PROVE  key[k] \in Live /\ r[key[k]] < m
    OBVIOUS
  <2>1. PICK u \in Enqueuers : u = key[k]
    BY <1>7
  <2>2. IsIn(u, tables[i])
    BY <1>4, <1>6, <2>1 DEF IsIn, Slots
  <2>3. u \in Live
    BY <2>2 DEF Live, IsLive, AllTables
  <2>4. r[u] < m
    BY <1>2, <1>5, <2>2, <2>3 DEF Ranks, RankFits, AllTables
  <2> QED
    BY <2>1, <2>3, <2>4
<1>9. \A k, l \in 0..(c - 1) : key[k] = key[l] => k = l
  <2> SUFFICES ASSUME NEW k \in 0..(c - 1), NEW l \in 0..(c - 1), key[k] = key[l]
               PROVE  k = l
    OBVIOUS
  <2>1. PICK u \in Enqueuers : u = key[k]
    BY <1>7
  <2>2. KeepThread(u, tables)
    BY DEF HashInv
  <2> QED
    BY <1>4, <1>6, <2>1, <2>2 DEF KeepThread, AllTables, Slots
<1> DEFINE g == [k \in 0..(c - 1) |-> r[key[k]]]
<1>10. g \in [0..(c - 1) -> 1..(m - 1)]
  BY <1>7, <1>8
<1>11. \A k, l \in 0..(c - 1) : g[k] = g[l] => k = l
  BY <1>2, <1>8, <1>9 DEF Ranks
<1>12. /\ IsFiniteSet(0..(c - 1)) /\ Cardinality(0..(c - 1)) = c
       /\ IsFiniteSet(1..(m - 1)) /\ Cardinality(1..(m - 1)) < c
  <2>1. c - 1 \in Int /\ m - 1 \in Int
    OBVIOUS
  <2>2. /\ IsFiniteSet(0..(c - 1))
        /\ Cardinality(0..(c - 1)) = IF 0 > c - 1 THEN 0 ELSE (c - 1) - 0 + 1
    BY <2>1, FS_Interval
  <2>3. /\ IsFiniteSet(1..(m - 1))
        /\ Cardinality(1..(m - 1)) = IF 1 > m - 1 THEN 0 ELSE (m - 1) - 1 + 1
    BY <2>1, FS_Interval
  <2> QED
    BY <1>5, <2>2, <2>3
<1> HIDE DEF g
<1>13. \E k, l \in 0..(c - 1) : k # l /\ g[k] = g[l]
  BY <1>10, <1>12, FS_PigeonHole
<1> QED
  BY <1>11, <1>13

\* A step that leaves the counted threads, and the ranks they may have, alone.
LEMMA RoomKept ==
  ASSUME RoomInv, TablesGrow', hashCount' = hashCount,
         \A u \in Enqueuers : IsLive(u, thread'[u], tables') <=> IsLive(u, thread[u], tables),
         \A u \in Live, n \in Nat \ {0} :
           RankFits(u, n, thread[u], tables) => RankFits(u, n, thread'[u], tables')
  PROVE  RoomInv'
<1>1. Live' = Live
  BY DEF Live
<1>2. PICK r \in [Enqueuers -> Nat \ {0}] : Ranks(r)
  BY DEF RoomInv
<1>3. \A u \in Live : r[u] \in Nat \ {0}
  BY DEF Live
<1>4. Ranks(r)'
  BY <1>1, <1>2, <1>3 DEF Ranks
<1> QED
  BY <1>1, <1>2, <1>4 DEF RoomInv

\* A step of a thread that leaves the tables alone and is counted as before.
LEMMA RoomGoesOn ==
  ASSUME RoomInv, thread \in [Enqueuers -> ThreadStates],
         NEW t \in Enqueuers, NEW new, thread' = [thread EXCEPT ![t] = new],
         tables' = tables, hashCount' = hashCount,
         IsLive(t, new, tables) <=> IsLive(t, thread[t], tables),
         \A n \in Nat \ {0} :
           RankFits(t, n, thread[t], tables) => RankFits(t, n, new, tables)
  PROVE  RoomInv'
<1>1. \A u \in Enqueuers : thread'[u] = IF u = t THEN new ELSE thread[u]
  OBVIOUS
<1>2. TablesGrow'
  BY DEF RoomInv, TablesGrow, AllTables
<1>3. \A u \in Live, n \in Nat \ {0} :
        RankFits(u, n, thread[u], tables) => RankFits(u, n, thread'[u], tables')
  BY <1>1 DEF Live
<1>4. \A u \in Enqueuers : IsLive(u, thread'[u], tables') <=> IsLive(u, thread[u], tables)
  BY <1>1
<1> QED
  BY <1>2, <1>3, <1>4, RoomKept

\* A counted thread is taken back.
LEMMA RoomLeft ==
  ASSUME RoomInv, thread \in [Enqueuers -> ThreadStates],
         NEW t \in Enqueuers, NEW new, thread' = [thread EXCEPT ![t] = new],
         tables' = tables, hashCount' = hashCount - 1,
         IsLive(t, thread[t], tables), ~IsLive(t, new, tables)
  PROVE  RoomInv'
<1>1. \A u \in Enqueuers : thread'[u] = IF u = t THEN new ELSE thread[u]
  OBVIOUS
<1>2. TablesGrow'
  BY DEF RoomInv, TablesGrow, AllTables
<1>3. Live' = Live \ {t} /\ t \in Live
  BY <1>1 DEF Live
<1>4. IsFiniteSet(Live)
  BY ListAssumption, FS_Subset DEF Live
<1>5. hashCount' = Cardinality(Live')
  BY <1>3, <1>4, FS_RemoveElement DEF RoomInv
<1>6. PICK r \in [Enqueuers -> Nat \ {0}] : Ranks(r)
  BY DEF RoomInv
<1>7. Ranks(r)'
  BY <1>1, <1>3, <1>6 DEF Ranks, Live
<1> QED
  BY <1>2, <1>5, <1>6, <1>7 DEF RoomInv

-----------------------------------------------------------------------------
(* Room in the tables: steps that leave the tables alone. *)

LEMMA LookKeepsRoom ==
  ASSUME ListInv, HashInv, RoomInv, NEW t \in Enqueuers, Look(t)
  PROVE  RoomInv'
<1>0. /\ thread[t] \in ThreadStates /\ thread \in [Enqueuers -> ThreadStates]
      /\ KnowsTables(t, thread[t], tables) /\ HashTypeOK
      /\ Knows(t, thread[t], producers, producerListTail)
  BY ListFacts DEF ListInv, ListTypeOK, HashInv
<1>1. tables' = tables /\ hashCount' = hashCount
  BY DEF Look, tableVars
<1>2. CASE thread' = [thread EXCEPT ![t] = LookOn(t)]
  <2>1. PICK new : new = LookOn(t)
    OBVIOUS
  <2>2. thread' = [thread EXCEPT ![t] = new]
    BY <1>2, <2>1
  <2>3. IsLive(t, new, tables) <=> IsLive(t, thread[t], tables)
    BY <1>0, <2>1 DEF Look, LookOn, ThreadStates, Knows, IsLive, Decides, CountedPcs, MakingPcs
  <2>4. ASSUME NEW n \in Nat \ {0}, RankFits(t, n, thread[t], tables)
        PROVE  RankFits(t, n, new, tables)
    BY <1>0, <2>1, <2>4
    DEF Look, LookOn, ThreadStates, Knows, RankFits, Decides, CountedPcs, MakingPcs
  <2> QED
    BY <1>0, <1>1, <2>2, <2>3, <2>4, RoomGoesOn
<1>3. CASE thread' = [thread EXCEPT ![t] = Goto(t, "grab")]
  <2>1. PICK new : new = Goto(t, "grab")
    OBVIOUS
  <2>2. thread' = [thread EXCEPT ![t] = new]
    BY <1>3, <2>1
  <2>3. IsLive(t, new, tables) <=> IsLive(t, thread[t], tables)
    BY <1>0, <2>1 DEF Look, Goto, ThreadStates, Knows, IsLive, Decides, CountedPcs, MakingPcs
  <2>4. ASSUME NEW n \in Nat \ {0}, RankFits(t, n, thread[t], tables)
        PROVE  RankFits(t, n, new, tables)
    BY <1>0, <2>1, <2>4
    DEF Look, Goto, ThreadStates, Knows, RankFits, Decides, CountedPcs, MakingPcs
  <2> QED
    BY <1>0, <1>1, <2>2, <2>3, <2>4, RoomGoesOn
<1> QED
  BY <1>2, <1>3 DEF Look, Sets

LEMMA GrabKeepsRoom ==
  ASSUME ListInv, HashInv, RoomInv, NEW t \in Enqueuers, Grab(t)
  PROVE  RoomInv'
<1>0. /\ thread[t] \in ThreadStates /\ thread \in [Enqueuers -> ThreadStates]
      /\ KnowsTables(t, thread[t], tables) /\ HashTypeOK
      /\ Knows(t, thread[t], producers, producerListTail)
  BY ListFacts DEF ListInv, ListTypeOK, HashInv
<1>1. tables' = tables /\ hashCount' = hashCount
  BY DEF Grab, tableVars
<1>2. CASE thread' = [thread EXCEPT ![t] = AcquiredProducer(t, thread[t].ptr)]
  <2>1. PICK new : new = AcquiredProducer(t, thread[t].ptr)
    OBVIOUS
  <2>2. thread' = [thread EXCEPT ![t] = new]
    BY <1>2, <2>1
  <2>3. IsLive(t, new, tables) <=> IsLive(t, thread[t], tables)
    BY <1>0, <2>1 DEF Grab, AcquiredProducer, Goto, ThreadStates, Knows, IsLive,
       Decides, CountedPcs, MakingPcs
  <2>4. ASSUME NEW n \in Nat \ {0}, RankFits(t, n, thread[t], tables)
        PROVE  RankFits(t, n, new, tables)
    BY <1>0, <2>1, <2>4
    DEF Grab, AcquiredProducer, Goto, ThreadStates, Knows, RankFits, Decides,
       CountedPcs, MakingPcs
  <2> QED
    BY <1>0, <1>1, <2>2, <2>3, <2>4, RoomGoesOn
<1>3. CASE thread' = [thread EXCEPT ![t] = LookOn(t)]
  <2>1. PICK new : new = LookOn(t)
    OBVIOUS
  <2>2. thread' = [thread EXCEPT ![t] = new]
    BY <1>3, <2>1
  <2>3. IsLive(t, new, tables) <=> IsLive(t, thread[t], tables)
    BY <1>0, <2>1 DEF Grab, LookOn, ThreadStates, Knows, IsLive, Decides, CountedPcs, MakingPcs
  <2>4. ASSUME NEW n \in Nat \ {0}, RankFits(t, n, thread[t], tables)
        PROVE  RankFits(t, n, new, tables)
    BY <1>0, <2>1, <2>4
    DEF Grab, LookOn, ThreadStates, Knows, RankFits, Decides, CountedPcs, MakingPcs
  <2> QED
    BY <1>0, <1>1, <2>2, <2>3, <2>4, RoomGoesOn
<1> QED
  BY <1>2, <1>3 DEF Grab, Sets

LEMMA CreateKeepsRoom ==
  ASSUME ListInv, HashInv, RoomInv, NEW t \in Enqueuers, Create(t)
  PROVE  RoomInv'
<1>0. /\ thread[t] \in ThreadStates /\ thread \in [Enqueuers -> ThreadStates]
      /\ KnowsTables(t, thread[t], tables) /\ HashTypeOK
      /\ Knows(t, thread[t], producers, producerListTail)
  BY ListFacts DEF ListInv, ListTypeOK, HashInv
<1>1. tables' = tables /\ hashCount' = hashCount
  BY DEF Create, tableVars
<1>2. CASE thread' = [thread EXCEPT ![t] = [Goto(t, "head") EXCEPT !.producer =
      Len(producers) + 1]]
  <2>1. PICK new : new = [Goto(t, "head") EXCEPT !.producer = Len(producers) + 1]
    OBVIOUS
  <2>2. thread' = [thread EXCEPT ![t] = new]
    BY <1>2, <2>1
  <2>3. IsLive(t, new, tables) <=> IsLive(t, thread[t], tables)
    BY <1>0, <2>1 DEF Create, Goto, ThreadStates, Knows, IsLive, Decides, CountedPcs, MakingPcs
  <2>4. ASSUME NEW n \in Nat \ {0}, RankFits(t, n, thread[t], tables)
        PROVE  RankFits(t, n, new, tables)
    BY <1>0, <2>1, <2>4
    DEF Create, Goto, ThreadStates, Knows, RankFits, Decides, CountedPcs, MakingPcs
  <2> QED
    BY <1>0, <1>1, <2>2, <2>3, <2>4, RoomGoesOn
<1> QED
  BY <1>2 DEF Create, Sets

LEMMA LoadListTailKeepsRoom ==
  ASSUME ListInv, HashInv, RoomInv, NEW t \in Enqueuers, LoadListTail(t)
  PROVE  RoomInv'
<1>0. /\ thread[t] \in ThreadStates /\ thread \in [Enqueuers -> ThreadStates]
      /\ KnowsTables(t, thread[t], tables) /\ HashTypeOK
      /\ Knows(t, thread[t], producers, producerListTail)
  BY ListFacts DEF ListInv, ListTypeOK, HashInv
<1>1. tables' = tables /\ hashCount' = hashCount
  BY DEF LoadListTail, tableVars
<1>2. CASE thread' = [thread EXCEPT ![t] = [Goto(t, "link") EXCEPT !.ptr = producerListTail]]
  <2>1. PICK new : new = [Goto(t, "link") EXCEPT !.ptr = producerListTail]
    OBVIOUS
  <2>2. thread' = [thread EXCEPT ![t] = new]
    BY <1>2, <2>1
  <2>3. IsLive(t, new, tables) <=> IsLive(t, thread[t], tables)
    BY <1>0, <2>1 DEF LoadListTail, Goto, ThreadStates, Knows, IsLive, Decides,
       CountedPcs, MakingPcs
  <2>4. ASSUME NEW n \in Nat \ {0}, RankFits(t, n, thread[t], tables)
        PROVE  RankFits(t, n, new, tables)
    BY <1>0, <2>1, <2>4
    DEF LoadListTail, Goto, ThreadStates, Knows, RankFits, Decides, CountedPcs, MakingPcs
  <2> QED
    BY <1>0, <1>1, <2>2, <2>3, <2>4, RoomGoesOn
<1> QED
  BY <1>2 DEF LoadListTail, Sets

LEMMA LinkNextKeepsRoom ==
  ASSUME ListInv, HashInv, RoomInv, NEW t \in Enqueuers, LinkNext(t)
  PROVE  RoomInv'
<1>0. /\ thread[t] \in ThreadStates /\ thread \in [Enqueuers -> ThreadStates]
      /\ KnowsTables(t, thread[t], tables) /\ HashTypeOK
      /\ Knows(t, thread[t], producers, producerListTail)
  BY ListFacts DEF ListInv, ListTypeOK, HashInv
<1>1. tables' = tables /\ hashCount' = hashCount
  BY DEF LinkNext, tableVars
<1>2. CASE thread' = [thread EXCEPT ![t] = Goto(t, "push")]
  <2>1. PICK new : new = Goto(t, "push")
    OBVIOUS
  <2>2. thread' = [thread EXCEPT ![t] = new]
    BY <1>2, <2>1
  <2>3. IsLive(t, new, tables) <=> IsLive(t, thread[t], tables)
    BY <1>0, <2>1 DEF LinkNext, Goto, ThreadStates, Knows, IsLive, Decides,
       CountedPcs, MakingPcs
  <2>4. ASSUME NEW n \in Nat \ {0}, RankFits(t, n, thread[t], tables)
        PROVE  RankFits(t, n, new, tables)
    BY <1>0, <2>1, <2>4
    DEF LinkNext, Goto, ThreadStates, Knows, RankFits, Decides, CountedPcs, MakingPcs
  <2> QED
    BY <1>0, <1>1, <2>2, <2>3, <2>4, RoomGoesOn
<1> QED
  BY <1>2 DEF LinkNext, Sets

LEMMA PushProducerKeepsRoom ==
  ASSUME ListInv, HashInv, RoomInv, NEW t \in Enqueuers, PushProducer(t)
  PROVE  RoomInv'
<1>0. /\ thread[t] \in ThreadStates /\ thread \in [Enqueuers -> ThreadStates]
      /\ KnowsTables(t, thread[t], tables) /\ HashTypeOK
      /\ Knows(t, thread[t], producers, producerListTail)
  BY ListFacts DEF ListInv, ListTypeOK, HashInv
<1>1. tables' = tables /\ hashCount' = hashCount
  BY DEF PushProducer, tableVars
<1>2. CASE thread' = [thread EXCEPT ![t] = AcquiredProducer(t, thread[t].producer)]
  <2>1. PICK new : new = AcquiredProducer(t, thread[t].producer)
    OBVIOUS
  <2>2. thread' = [thread EXCEPT ![t] = new]
    BY <1>2, <2>1
  <2>3. IsLive(t, new, tables) <=> IsLive(t, thread[t], tables)
    BY <1>0, <2>1 DEF PushProducer, AcquiredProducer, Goto, ThreadStates, Knows,
       IsLive, Decides, CountedPcs, MakingPcs
  <2>4. ASSUME NEW n \in Nat \ {0}, RankFits(t, n, thread[t], tables)
        PROVE  RankFits(t, n, new, tables)
    BY <1>0, <2>1, <2>4
    DEF PushProducer, AcquiredProducer, Goto, ThreadStates, Knows, RankFits,
       Decides, CountedPcs, MakingPcs
  <2> QED
    BY <1>0, <1>1, <2>2, <2>3, <2>4, RoomGoesOn
<1>3. CASE thread' = [thread EXCEPT ![t] = AfterFailedPush(t)]
  <2>1. PICK new : new = AfterFailedPush(t)
    OBVIOUS
  <2>2. thread' = [thread EXCEPT ![t] = new]
    BY <1>3, <2>1
  <2>3. IsLive(t, new, tables) <=> IsLive(t, thread[t], tables)
    BY <1>0, <2>1 DEF PushProducer, AfterFailedPush, Goto, ThreadStates, Knows,
       IsLive, Decides, CountedPcs, MakingPcs
  <2>4. ASSUME NEW n \in Nat \ {0}, RankFits(t, n, thread[t], tables)
        PROVE  RankFits(t, n, new, tables)
    BY <1>0, <2>1, <2>4
    DEF PushProducer, AfterFailedPush, Goto, ThreadStates, Knows, RankFits, Decides,
       CountedPcs, MakingPcs
  <2> QED
    BY <1>0, <1>1, <2>2, <2>3, <2>4, RoomGoesOn
<1> QED
  BY <1>2, <1>3 DEF PushProducer, Sets

LEMMA MakeTokenKeepsRoom ==
  ASSUME ListInv, HashInv, RoomInv, NEW t \in Enqueuers, MakeToken(t)
  PROVE  RoomInv'
<1>0. /\ thread[t] \in ThreadStates /\ thread \in [Enqueuers -> ThreadStates]
      /\ KnowsTables(t, thread[t], tables) /\ HashTypeOK
      /\ Knows(t, thread[t], producers, producerListTail)
  BY ListFacts DEF ListInv, ListTypeOK, HashInv
<1>1. tables' = tables /\ hashCount' = hashCount
  BY DEF MakeToken, tableVars
<1>2. CASE thread' = [thread EXCEPT ![t] = recycle_or_create_producer(t, TRUE)]
  <2>1. PICK new : new = recycle_or_create_producer(t, TRUE)
    OBVIOUS
  <2>2. thread' = [thread EXCEPT ![t] = new]
    BY <1>2, <2>1
  <2>3. IsLive(t, new, tables) <=> IsLive(t, thread[t], tables)
    BY <1>0, <2>1 DEF MakeToken, recycle_or_create_producer, ThreadStates, Knows,
       IsLive, Decides, CountedPcs, MakingPcs
  <2>4. ASSUME NEW n \in Nat \ {0}, RankFits(t, n, thread[t], tables)
        PROVE  RankFits(t, n, new, tables)
    BY <1>0, <2>1, <2>4
    DEF MakeToken, recycle_or_create_producer, ThreadStates, Knows, RankFits,
       Decides, CountedPcs, MakingPcs
  <2> QED
    BY <1>0, <1>1, <2>2, <2>3, <2>4, RoomGoesOn
<1> QED
  BY <1>2 DEF MakeToken, Sets

LEMMA OwnProducerKeepsRoom ==
  ASSUME ListInv, HashInv, RoomInv, NEW t \in Enqueuers, OwnProducer(t)
  PROVE  RoomInv'
<1>0. /\ thread[t] \in ThreadStates /\ thread \in [Enqueuers -> ThreadStates]
      /\ KnowsTables(t, thread[t], tables) /\ HashTypeOK
      /\ Knows(t, thread[t], producers, producerListTail)
  BY ListFacts DEF ListInv, ListTypeOK, HashInv
<1>1. tables' = tables /\ hashCount' = hashCount
  BY DEF OwnProducer, tableVars
<1>2. CASE thread' = [thread EXCEPT ![t] = [Returns(t) EXCEPT !.token = thread[t].producer]]
  <2>1. PICK new : new = [Returns(t) EXCEPT !.token = thread[t].producer]
    OBVIOUS
  <2>2. thread' = [thread EXCEPT ![t] = new]
    BY <1>2, <2>1
  <2>3. IsLive(t, new, tables) <=> IsLive(t, thread[t], tables)
    BY <1>0, <2>1 DEF OwnProducer, Returns, AtEase, ThreadStates, Knows, IsLive,
       Decides, CountedPcs, MakingPcs
  <2>4. ASSUME NEW n \in Nat \ {0}, RankFits(t, n, thread[t], tables)
        PROVE  RankFits(t, n, new, tables)
    BY <1>0, <2>1, <2>4
    DEF OwnProducer, Returns, AtEase, ThreadStates, Knows, RankFits, Decides,
       CountedPcs, MakingPcs
  <2> QED
    BY <1>0, <1>1, <2>2, <2>3, <2>4, RoomGoesOn
<1> QED
  BY <1>2 DEF OwnProducer, Sets

LEMMA TokenFailsKeepsRoom ==
  ASSUME ListInv, HashInv, RoomInv, NEW t \in Enqueuers, TokenFails(t)
  PROVE  RoomInv'
<1>0. /\ thread[t] \in ThreadStates /\ thread \in [Enqueuers -> ThreadStates]
      /\ KnowsTables(t, thread[t], tables) /\ HashTypeOK
      /\ Knows(t, thread[t], producers, producerListTail)
  BY ListFacts DEF ListInv, ListTypeOK, HashInv
<1>1. tables' = tables /\ hashCount' = hashCount
  BY DEF TokenFails, tableVars
<1>2. CASE thread' = [thread EXCEPT ![t] = Returns(t)]
  <2>1. PICK new : new = Returns(t)
    OBVIOUS
  <2>2. thread' = [thread EXCEPT ![t] = new]
    BY <1>2, <2>1
  <2>3. IsLive(t, new, tables) <=> IsLive(t, thread[t], tables)
    BY <1>0, <2>1 DEF TokenFails, Returns, AtEase, ThreadStates, Knows, IsLive,
       Decides, CountedPcs, MakingPcs
  <2>4. ASSUME NEW n \in Nat \ {0}, RankFits(t, n, thread[t], tables)
        PROVE  RankFits(t, n, new, tables)
    BY <1>0, <2>1, <2>4
    DEF TokenFails, Returns, AtEase, ThreadStates, Knows, RankFits, Decides,
       CountedPcs, MakingPcs
  <2> QED
    BY <1>0, <1>1, <2>2, <2>3, <2>4, RoomGoesOn
<1> QED
  BY <1>2 DEF TokenFails, Sets

LEMMA DestroyTokenKeepsRoom ==
  ASSUME ListInv, HashInv, RoomInv, NEW t \in Enqueuers, DestroyToken(t)
  PROVE  RoomInv'
<1>0. /\ thread[t] \in ThreadStates /\ thread \in [Enqueuers -> ThreadStates]
      /\ KnowsTables(t, thread[t], tables) /\ HashTypeOK
      /\ Knows(t, thread[t], producers, producerListTail)
  BY ListFacts DEF ListInv, ListTypeOK, HashInv
<1>1. tables' = tables /\ hashCount' = hashCount
  BY DEF DestroyToken, tableVars
<1>2. CASE thread' = [thread EXCEPT ![t] = [Goto(t, "unown") EXCEPT !.producer =
      thread[t].token, !.token = 0]]
  <2>1. PICK new : new = [Goto(t, "unown") EXCEPT !.producer = thread[t].token, !.token = 0]
    OBVIOUS
  <2>2. thread' = [thread EXCEPT ![t] = new]
    BY <1>2, <2>1
  <2>3. IsLive(t, new, tables) <=> IsLive(t, thread[t], tables)
    BY <1>0, <2>1 DEF DestroyToken, Goto, ThreadStates, Knows, IsLive, Decides,
       CountedPcs, MakingPcs
  <2>4. ASSUME NEW n \in Nat \ {0}, RankFits(t, n, thread[t], tables)
        PROVE  RankFits(t, n, new, tables)
    BY <1>0, <2>1, <2>4
    DEF DestroyToken, Goto, ThreadStates, Knows, RankFits, Decides, CountedPcs, MakingPcs
  <2> QED
    BY <1>0, <1>1, <2>2, <2>3, <2>4, RoomGoesOn
<1> QED
  BY <1>2 DEF DestroyToken, Sets

LEMMA UnownKeepsRoom ==
  ASSUME ListInv, HashInv, RoomInv, NEW t \in Enqueuers, Unown(t)
  PROVE  RoomInv'
<1>0. /\ thread[t] \in ThreadStates /\ thread \in [Enqueuers -> ThreadStates]
      /\ KnowsTables(t, thread[t], tables) /\ HashTypeOK
      /\ Knows(t, thread[t], producers, producerListTail)
  BY ListFacts DEF ListInv, ListTypeOK, HashInv
<1>1. tables' = tables /\ hashCount' = hashCount
  BY DEF Unown, tableVars
<1>2. CASE thread' = [thread EXCEPT ![t] = Goto(t, "retire")]
  <2>1. PICK new : new = Goto(t, "retire")
    OBVIOUS
  <2>2. thread' = [thread EXCEPT ![t] = new]
    BY <1>2, <2>1
  <2>3. IsLive(t, new, tables) <=> IsLive(t, thread[t], tables)
    BY <1>0, <2>1 DEF Unown, Goto, ThreadStates, Knows, IsLive, Decides, CountedPcs, MakingPcs
  <2>4. ASSUME NEW n \in Nat \ {0}, RankFits(t, n, thread[t], tables)
        PROVE  RankFits(t, n, new, tables)
    BY <1>0, <2>1, <2>4
    DEF Unown, Goto, ThreadStates, Knows, RankFits, Decides, CountedPcs, MakingPcs
  <2> QED
    BY <1>0, <1>1, <2>2, <2>3, <2>4, RoomGoesOn
<1> QED
  BY <1>2 DEF Unown, Sets

LEMMA RetireProducerKeepsRoom ==
  ASSUME ListInv, HashInv, RoomInv, NEW t \in Enqueuers, RetireProducer(t)
  PROVE  RoomInv'
<1>0. /\ thread[t] \in ThreadStates /\ thread \in [Enqueuers -> ThreadStates]
      /\ KnowsTables(t, thread[t], tables) /\ HashTypeOK
      /\ Knows(t, thread[t], producers, producerListTail)
  BY ListFacts DEF ListInv, ListTypeOK, HashInv
<1>1. tables' = tables /\ hashCount' = hashCount
  BY DEF RetireProducer, tableVars
<1>2. CASE thread' = [thread EXCEPT ![t] = Returns(t)]
  <2>1. PICK new : new = Returns(t)
    OBVIOUS
  <2>2. thread' = [thread EXCEPT ![t] = new]
    BY <1>2, <2>1
  <2>3. IsLive(t, new, tables) <=> IsLive(t, thread[t], tables)
    BY <1>0, <2>1 DEF RetireProducer, Returns, AtEase, ThreadStates, Knows, IsLive,
       Decides, CountedPcs, MakingPcs
  <2>4. ASSUME NEW n \in Nat \ {0}, RankFits(t, n, thread[t], tables)
        PROVE  RankFits(t, n, new, tables)
    BY <1>0, <2>1, <2>4
    DEF RetireProducer, Returns, AtEase, ThreadStates, Knows, RankFits, Decides,
       CountedPcs, MakingPcs
  <2> QED
    BY <1>0, <1>1, <2>2, <2>3, <2>4, RoomGoesOn
<1> QED
  BY <1>2 DEF RetireProducer, Sets

LEMMA GetNothingKeepsRoom ==
  ASSUME ListInv, HashInv, RoomInv, NEW t \in Enqueuers, GetNothing(t)
  PROVE  RoomInv'
<1>0. /\ thread[t] \in ThreadStates /\ thread \in [Enqueuers -> ThreadStates]
      /\ KnowsTables(t, thread[t], tables) /\ HashTypeOK
      /\ Knows(t, thread[t], producers, producerListTail)
  BY ListFacts DEF ListInv, ListTypeOK, HashInv
<1>1. tables' = tables /\ hashCount' = hashCount
  BY DEF GetNothing, tableVars
<1>2. CASE thread' = [thread EXCEPT ![t] = [Goto(t, "count") EXCEPT !.main = Len(tables)]]
  <2>1. PICK new : new = [Goto(t, "count") EXCEPT !.main = Len(tables)]
    OBVIOUS
  <2>2. thread' = [thread EXCEPT ![t] = new]
    BY <1>2, <2>1
  <2>3. IsLive(t, new, tables) <=> IsLive(t, thread[t], tables)
    BY <1>0, <2>1 DEF GetNothing, Goto, ThreadStates, Knows, IsLive, Decides,
       CountedPcs, MakingPcs
  <2>4. ASSUME NEW n \in Nat \ {0}, RankFits(t, n, thread[t], tables)
        PROVE  RankFits(t, n, new, tables)
    BY <1>0, <2>1, <2>4
    DEF GetNothing, Goto, ThreadStates, Knows, RankFits, Decides, CountedPcs, MakingPcs
  <2> QED
    BY <1>0, <1>1, <2>2, <2>3, <2>4, RoomGoesOn
<1> QED
  BY <1>2 DEF GetNothing, Sets

LEMMA LoopTopKeepsRoom ==
  ASSUME ListInv, HashInv, RoomInv, NEW t \in Enqueuers, LoopTop(t)
  PROVE  RoomInv'
<1>0. /\ thread[t] \in ThreadStates /\ thread \in [Enqueuers -> ThreadStates]
      /\ KnowsTables(t, thread[t], tables) /\ HashTypeOK
      /\ Knows(t, thread[t], producers, producerListTail)
  BY ListFacts DEF ListInv, ListTypeOK, HashInv
<1>1. tables' = tables /\ hashCount' = hashCount
  BY DEF LoopTop, tableVars
<1>2. CASE thread' = [thread EXCEPT ![t] = Goto(t, "resize")]
  <2>1. PICK new : new = Goto(t, "resize")
    OBVIOUS
  <2>2. thread' = [thread EXCEPT ![t] = new]
    BY <1>2, <2>1
  <2>3. IsLive(t, new, tables) <=> IsLive(t, thread[t], tables)
    BY <1>0, <2>1 DEF LoopTop, Goto, ThreadStates, Knows, IsLive, Decides, CountedPcs, MakingPcs
  <2>4. ASSUME NEW n \in Nat \ {0}, RankFits(t, n, thread[t], tables)
        PROVE  RankFits(t, n, new, tables)
    BY <1>0, <2>1, <2>4
    DEF LoopTop, Goto, ThreadStates, Knows, RankFits, Decides, CountedPcs, MakingPcs
  <2> QED
    BY <1>0, <1>1, <2>2, <2>3, <2>4, RoomGoesOn
<1>3. CASE /\ thread' = [thread EXCEPT ![t] =
                [recycle_or_create_producer(t, FALSE) EXCEPT !.main = thread[t].main]]
           /\ RoomIn(t, tables[thread[t].main])
  <2>1. PICK new : new = [recycle_or_create_producer(t, FALSE) EXCEPT !.main = thread[t].main]
    OBVIOUS
  <2>2. thread' = [thread EXCEPT ![t] = new]
    BY <1>3, <2>1
  <2>3. IsLive(t, new, tables) <=> IsLive(t, thread[t], tables)
    BY <1>0, <2>1 DEF LoopTop, recycle_or_create_producer, ThreadStates, Knows,
       IsLive, Decides, CountedPcs, MakingPcs
  <2>4. ASSUME NEW n \in Nat \ {0}, RankFits(t, n, thread[t], tables)
        PROVE  RankFits(t, n, new, tables)
    <3>1. n <= thread[t].newCount /\ thread[t].newCount \in Int
      BY <1>0, <2>4 DEF LoopTop, RankFits, CountedPcs, ThreadStates
    <3>2. PICK m \in Nat : m = Limit(tables[thread[t].main]) /\ thread[t].newCount < m
      <4>1. thread[t].main \in AllTables
        BY <1>0 DEF LoopTop, KnowsTables, Registers, AllTables
      <4>2. Limit(tables[thread[t].main]) \in Nat
        BY <1>0, <4>1, TableFacts, LimitBelowCapacity
      <4> QED
        BY <1>3, <4>2 DEF RoomIn, Limit
    <3>3. n < m
      BY <3>1, <3>2
    <3>4. new.pc \notin CountedPcs /\ new.main = thread[t].main
      BY <1>0, <2>1 DEF LoopTop, recycle_or_create_producer, CountedPcs, ThreadStates
    <3> QED
      BY <2>4, <3>2, <3>3, <3>4 DEF RankFits
  <2> QED
    BY <1>0, <1>1, <2>2, <2>3, <2>4, RoomGoesOn
<1>4. CASE thread' = [thread EXCEPT ![t] = [Goto(t, "reload") EXCEPT !.main = thread[t].main]]
  <2>1. PICK new : new = [Goto(t, "reload") EXCEPT !.main = thread[t].main]
    OBVIOUS
  <2>2. thread' = [thread EXCEPT ![t] = new]
    BY <1>4, <2>1
  <2>3. IsLive(t, new, tables) <=> IsLive(t, thread[t], tables)
    BY <1>0, <2>1 DEF LoopTop, Goto, ThreadStates, Knows, IsLive, Decides, CountedPcs, MakingPcs
  <2>4. ASSUME NEW n \in Nat \ {0}, RankFits(t, n, thread[t], tables)
        PROVE  RankFits(t, n, new, tables)
    BY <1>0, <2>1, <2>4
    DEF LoopTop, Goto, ThreadStates, Knows, RankFits, Decides, CountedPcs, MakingPcs
  <2> QED
    BY <1>0, <1>1, <2>2, <2>3, <2>4, RoomGoesOn
<1> QED
  BY <1>2, <1>3, <1>4 DEF LoopTop, Sets, Decided

LEMMA ReloadKeepsRoom ==
  ASSUME ListInv, HashInv, RoomInv, NEW t \in Enqueuers, Reload(t)
  PROVE  RoomInv'
<1>0. /\ thread[t] \in ThreadStates /\ thread \in [Enqueuers -> ThreadStates]
      /\ KnowsTables(t, thread[t], tables) /\ HashTypeOK
      /\ Knows(t, thread[t], producers, producerListTail)
  BY ListFacts DEF ListInv, ListTypeOK, HashInv
<1>1. tables' = tables /\ hashCount' = hashCount
  BY DEF Reload, tableVars
<1>2. CASE thread' = [thread EXCEPT ![t] = [Goto(t, "room") EXCEPT !.main = Len(tables)]]
  <2>1. PICK new : new = [Goto(t, "room") EXCEPT !.main = Len(tables)]
    OBVIOUS
  <2>2. thread' = [thread EXCEPT ![t] = new]
    BY <1>2, <2>1
  <2>3. IsLive(t, new, tables) <=> IsLive(t, thread[t], tables)
    BY <1>0, <2>1 DEF Reload, Goto, ThreadStates, Knows, IsLive, Decides, CountedPcs, MakingPcs
  <2>4. ASSUME NEW n \in Nat \ {0}, RankFits(t, n, thread[t], tables)
        PROVE  RankFits(t, n, new, tables)
    BY <1>0, <2>1, <2>4
    DEF Reload, Goto, ThreadStates, Knows, RankFits, Decides, CountedPcs, MakingPcs
  <2> QED
    BY <1>0, <1>1, <2>2, <2>3, <2>4, RoomGoesOn
<1> QED
  BY <1>2 DEF Reload, Sets

LEMMA ResizeUnlockKeepsRoom ==
  ASSUME ListInv, HashInv, RoomInv, NEW t \in Enqueuers, ResizeUnlock(t)
  PROVE  RoomInv'
<1>0. /\ thread[t] \in ThreadStates /\ thread \in [Enqueuers -> ThreadStates]
      /\ KnowsTables(t, thread[t], tables) /\ HashTypeOK
      /\ Knows(t, thread[t], producers, producerListTail)
  BY ListFacts DEF ListInv, ListTypeOK, HashInv
<1>1. tables' = tables /\ hashCount' = hashCount
  BY DEF ResizeUnlock, tableVars
<1>2. CASE /\ thread' = [thread EXCEPT ![t] =
                [recycle_or_create_producer(t, FALSE) EXCEPT !.main = thread[t].main]]
           /\ RoomIn(t, tables[thread[t].main])
  <2>1. PICK new : new = [recycle_or_create_producer(t, FALSE) EXCEPT !.main = thread[t].main]
    OBVIOUS
  <2>2. thread' = [thread EXCEPT ![t] = new]
    BY <1>2, <2>1
  <2>3. IsLive(t, new, tables) <=> IsLive(t, thread[t], tables)
    BY <1>0, <2>1 DEF ResizeUnlock, recycle_or_create_producer, ThreadStates, Knows,
       IsLive, Decides, CountedPcs, MakingPcs
  <2>4. ASSUME NEW n \in Nat \ {0}, RankFits(t, n, thread[t], tables)
        PROVE  RankFits(t, n, new, tables)
    <3>1. n <= thread[t].newCount /\ thread[t].newCount \in Int
      BY <1>0, <2>4 DEF ResizeUnlock, RankFits, CountedPcs, ThreadStates
    <3>2. PICK m \in Nat : m = Limit(tables[thread[t].main]) /\ thread[t].newCount < m
      <4>1. thread[t].main \in AllTables
        BY <1>0 DEF ResizeUnlock, KnowsTables, Registers, AllTables
      <4>2. Limit(tables[thread[t].main]) \in Nat
        BY <1>0, <4>1, TableFacts, LimitBelowCapacity
      <4> QED
        BY <1>2, <4>2 DEF RoomIn, Limit
    <3>3. n < m
      BY <3>1, <3>2
    <3>4. new.pc \notin CountedPcs /\ new.main = thread[t].main
      BY <1>0, <2>1 DEF ResizeUnlock, recycle_or_create_producer, CountedPcs, ThreadStates
    <3> QED
      BY <2>4, <3>2, <3>3, <3>4 DEF RankFits
  <2> QED
    BY <1>0, <1>1, <2>2, <2>3, <2>4, RoomGoesOn
<1>3. CASE thread' = [thread EXCEPT ![t] = [Goto(t, "reload") EXCEPT !.main = thread[t].main]]
  <2>1. PICK new : new = [Goto(t, "reload") EXCEPT !.main = thread[t].main]
    OBVIOUS
  <2>2. thread' = [thread EXCEPT ![t] = new]
    BY <1>3, <2>1
  <2>3. IsLive(t, new, tables) <=> IsLive(t, thread[t], tables)
    BY <1>0, <2>1 DEF ResizeUnlock, Goto, ThreadStates, Knows, IsLive, Decides,
       CountedPcs, MakingPcs
  <2>4. ASSUME NEW n \in Nat \ {0}, RankFits(t, n, thread[t], tables)
        PROVE  RankFits(t, n, new, tables)
    BY <1>0, <2>1, <2>4
    DEF ResizeUnlock, Goto, ThreadStates, Knows, RankFits, Decides, CountedPcs, MakingPcs
  <2> QED
    BY <1>0, <1>1, <2>2, <2>3, <2>4, RoomGoesOn
<1> QED
  BY <1>2, <1>3 DEF ResizeUnlock, Sets, Decided

LEMMA ResizeGiveUpKeepsRoom ==
  ASSUME ListInv, HashInv, RoomInv, NEW t \in Enqueuers, ResizeGiveUp(t)
  PROVE  RoomInv'
<1>0. /\ thread[t] \in ThreadStates /\ thread \in [Enqueuers -> ThreadStates]
      /\ KnowsTables(t, thread[t], tables) /\ HashTypeOK
      /\ Knows(t, thread[t], producers, producerListTail)
  BY ListFacts DEF ListInv, ListTypeOK, HashInv
<1>1. tables' = tables /\ hashCount' = hashCount
  BY DEF ResizeGiveUp, tableVars
<1>2. CASE thread' = [thread EXCEPT ![t] = Returns(t)]
  <2>1. PICK new : new = Returns(t)
    OBVIOUS
  <2>2. thread' = [thread EXCEPT ![t] = new]
    BY <1>2, <2>1
  <2>3. IsLive(t, new, tables) <=> IsLive(t, thread[t], tables)
    BY <1>0, <2>1 DEF ResizeGiveUp, Returns, AtEase, ThreadStates, Knows, IsLive,
       Decides, CountedPcs, MakingPcs
  <2>4. ASSUME NEW n \in Nat \ {0}, RankFits(t, n, thread[t], tables)
        PROVE  RankFits(t, n, new, tables)
    BY <1>0, <2>1, <2>4
    DEF ResizeGiveUp, Returns, AtEase, ThreadStates, Knows, RankFits, Decides,
       CountedPcs, MakingPcs
  <2> QED
    BY <1>0, <1>1, <2>2, <2>3, <2>4, RoomGoesOn
<1> QED
  BY <1>2 DEF ResizeGiveUp, Sets

LEMMA GotProducerKeepsRoom ==
  ASSUME ListInv, HashInv, RoomInv, NEW t \in Enqueuers, GotProducer(t)
  PROVE  RoomInv'
<1>0. /\ thread[t] \in ThreadStates /\ thread \in [Enqueuers -> ThreadStates]
      /\ KnowsTables(t, thread[t], tables) /\ HashTypeOK
      /\ Knows(t, thread[t], producers, producerListTail)
  BY ListFacts DEF ListInv, ListTypeOK, HashInv
<1>1. tables' = tables /\ hashCount' = hashCount
  BY DEF GotProducer, tableVars
<1>2. CASE thread' = [thread EXCEPT ![t] = Goto(t, "insert")]
  <2>1. PICK new : new = Goto(t, "insert")
    OBVIOUS
  <2>2. thread' = [thread EXCEPT ![t] = new]
    BY <1>2, <2>1
  <2>3. IsLive(t, new, tables) <=> IsLive(t, thread[t], tables)
    BY <1>0, <2>1 DEF GotProducer, Goto, ThreadStates, Knows, IsLive, Decides,
       CountedPcs, MakingPcs
  <2>4. ASSUME NEW n \in Nat \ {0}, RankFits(t, n, thread[t], tables)
        PROVE  RankFits(t, n, new, tables)
    BY <1>0, <2>1, <2>4
    DEF GotProducer, Goto, ThreadStates, Knows, RankFits, Decides, CountedPcs, MakingPcs
  <2> QED
    BY <1>0, <1>1, <2>2, <2>3, <2>4, RoomGoesOn
<1> QED
  BY <1>2 DEF GotProducer, Sets

LEMMA ResizeFailsKeepsRoom ==
  ASSUME ListInv, HashInv, RoomInv, NEW t \in Enqueuers, ResizeFails(t)
  PROVE  RoomInv'
<1>0. /\ thread[t] \in ThreadStates /\ thread \in [Enqueuers -> ThreadStates]
      /\ KnowsTables(t, thread[t], tables) /\ HashTypeOK
      /\ Knows(t, thread[t], producers, producerListTail)
  BY ListFacts DEF ListInv, ListTypeOK, HashInv
<1>1. tables' = tables /\ hashCount' = hashCount - 1
  BY DEF ResizeFails, tableVars
<1>2. CASE thread' = [thread EXCEPT ![t] = Goto(t, "giveup")]
  <2>1. PICK new : new = Goto(t, "giveup")
    OBVIOUS
  <2>2. thread' = [thread EXCEPT ![t] = new]
    BY <1>2, <2>1
  <2>3. IsLive(t, thread[t], tables) /\ ~IsLive(t, new, tables)
    BY <1>0, <2>1
    DEF ResizeFails, Goto, ThreadStates, KnowsTables, Registers, IsLive, Decides,
       CountedPcs, MakingPcs
  <2> QED
    BY <1>0, <1>1, <2>2, <2>3, RoomLeft
<1> QED
  BY <1>2 DEF ResizeFails, Sets

LEMMA ProducerFailsKeepsRoom ==
  ASSUME ListInv, HashInv, RoomInv, NEW t \in Enqueuers, ProducerFails(t)
  PROVE  RoomInv'
<1>0. /\ thread[t] \in ThreadStates /\ thread \in [Enqueuers -> ThreadStates]
      /\ KnowsTables(t, thread[t], tables) /\ HashTypeOK
      /\ Knows(t, thread[t], producers, producerListTail)
  BY ListFacts DEF ListInv, ListTypeOK, HashInv
<1>1. tables' = tables /\ hashCount' = hashCount - 1
  BY DEF ProducerFails, tableVars
<1>2. CASE thread' = [thread EXCEPT ![t] = Returns(t)]
  <2>1. PICK new : new = Returns(t)
    OBVIOUS
  <2>2. thread' = [thread EXCEPT ![t] = new]
    BY <1>2, <2>1
  <2>3. IsLive(t, thread[t], tables) /\ ~IsLive(t, new, tables)
    BY <1>0, <2>1
    DEF ProducerFails, Returns, AtEase, ThreadStates, KnowsTables, Registers,
       IsLive, Decides, CountedPcs, MakingPcs
  <2> QED
    BY <1>0, <1>1, <2>2, <2>3, RoomLeft
<1> QED
  BY <1>2 DEF ProducerFails, Sets

-----------------------------------------------------------------------------
(* Room in the tables: a thread is counted, found, put into a table. *)

\* One of the numbers up to the new count is free, and the thread takes it.
LEMMA CountThreadKeepsRoom ==
  ASSUME ListInv, HashInv, RoomInv, NEW t \in Enqueuers, CountThread(t)
  PROVE  RoomInv'
<1>0. /\ thread[t] \in ThreadStates /\ thread \in [Enqueuers -> ThreadStates]
      /\ KnowsTables(t, thread[t], tables) /\ HashTypeOK
  BY ListFacts DEF ListInv, ListTypeOK, HashInv
<1>1. tables' = tables /\ hashCount' = hashCount + 1 /\ thread[t].pc = "count"
  BY DEF CountThread
<1>2. PICK new : new = [Goto(t, "room") EXCEPT !.newCount = hashCount + 1]
  OBVIOUS
<1>3. /\ thread' = [thread EXCEPT ![t] = new]
      /\ \A u \in Enqueuers : thread'[u] = IF u = t THEN new ELSE thread[u]
  BY <1>0, <1>2 DEF CountThread, Sets
<1>4. new.pc = "room" /\ new.newCount = hashCount + 1
  BY <1>0, <1>2 DEF Goto, ThreadStates
<1>5. \A i \in 1..Len(tables) : ~IsIn(t, tables[i])
  BY <1>0, <1>1 DEF KnowsTables, Registers
<1>6. t \notin Live /\ Live' = Live \cup {t}
  <2>1. ~IsLive(t, thread[t], tables) /\ IsLive(t, new, tables)
    BY <1>1, <1>4, <1>5 DEF IsLive, Decides, CountedPcs, MakingPcs
  <2> QED
    BY <1>1, <1>3, <2>1 DEF Live
<1>7. hashCount' = Cardinality(Live')
  <2>1. IsFiniteSet(Live)
    BY ListAssumption, FS_Subset DEF Live
  <2> QED
    BY <1>1, <1>6, <2>1, FS_AddElement DEF RoomInv
<1>8. PICK r \in [Enqueuers -> Nat \ {0}] : Ranks(r)
  BY DEF RoomInv
<1>9. PICK x \in 1..(hashCount + 1) : \A u \in Live : r[u] # x
  BY FreeRank DEF RoomInv, Live
<1>10. hashCount \in Nat
  BY FreeRank, <1>8 DEF RoomInv, Live
<1> DEFINE q == [r EXCEPT ![t] = x]
<1>11. q \in [Enqueuers -> Nat \ {0}]
  BY <1>9, <1>10
<1>12. \A u \in Live' : q[u] = IF u = t THEN x ELSE r[u]
  BY DEF Live
<1>13. \A u, v \in Live' : q[u] = q[v] => u = v
  BY <1>6, <1>8, <1>9, <1>12 DEF Ranks
<1>14. RankFits(t, x, new, tables)
  BY <1>4, <1>5, <1>9, <1>10 DEF RankFits, Decides, MakingPcs
<1>15. \A u \in Live' : RankFits(u, q[u], thread'[u], tables')
  <2> HIDE DEF q
  <2>1. \A u \in Live' : u \in Enqueuers
    BY <1>6 DEF Live
  <2> QED
    BY <1>1, <1>3, <1>6, <1>8, <1>12, <1>14, <2>1 DEF Ranks
<1>16. Ranks(q)'
  BY <1>13, <1>15 DEF Ranks
<1>17. TablesGrow'
  BY <1>1 DEF RoomInv, TablesGrow, AllTables
<1> QED
  BY <1>7, <1>11, <1>16, <1>17 DEF RoomInv

\* A thread found in an old table is counted already, and its number is below
\* three quarters of every later table.
LEMMA GetProducerKeepsRoom ==
  ASSUME ListInv, HashInv, RoomInv, NEW t \in Enqueuers, GetProducer(t)
  PROVE  RoomInv'
<1>0. /\ thread[t] \in ThreadStates /\ thread \in [Enqueuers -> ThreadStates]
      /\ HashTypeOK /\ ListTypeOK
      /\ Len(tables) \in AllTables /\ DOMAIN tables = AllTables
  BY ListFacts, TableFacts DEF ListInv, ListTypeOK, HashInv
<1>1. tables' = tables /\ hashCount' = hashCount /\ thread[t].pc = "idle"
  BY DEF GetProducer, tableVars
<1> DEFINE newest == CHOOSE i \in TablesWith(t) : \A j \in TablesWith(t) : j <= i
<1>2. newest \in TablesWith(t)
  BY <1>0, NewestTable DEF GetProducer
<1>3. PICK value : value = ValueIn(t, tables[newest])
  OBVIOUS
<1>4. newest \in AllTables /\ IsIn(t, tables[newest])
  BY <1>0, <1>2, FoundHasValue DEF TablesWith, AllTables
<1> HIDE DEF newest
<1>5. CASE thread' = [thread EXCEPT ![t] = [Returns(t) EXCEPT !.mine = value]]
  <2>1. PICK new : new = [Returns(t) EXCEPT !.mine = value]
    OBVIOUS
  <2>2. new.pc = "idle"
    BY <2>1 DEF Returns, AtEase
  <2>3. thread' = [thread EXCEPT ![t] = new]
    BY <1>5, <2>1
  <2>4. IsLive(t, new, tables) <=> IsLive(t, thread[t], tables)
    BY <1>1, <2>2 DEF IsLive, Decides, CountedPcs, MakingPcs
  <2>5. \A n \in Nat \ {0} : RankFits(t, n, thread[t], tables) => RankFits(t, n, new, tables)
    BY <1>1, <2>2 DEF RankFits, Decides, CountedPcs, MakingPcs
  <2> QED
    BY <1>0, <1>1, <2>3, <2>4, <2>5, RoomGoesOn
<1>6. CASE thread' = [thread EXCEPT ![t] = [Goto(t, "insert") EXCEPT !.main = Len(tables),
                                                                     !.producer = value]]
  <2>1. PICK new : new = [Goto(t, "insert") EXCEPT !.main = Len(tables), !.producer = value]
    OBVIOUS
  <2>2. new.pc = "insert" /\ new.main = Len(tables)
    BY <1>0, <2>1 DEF Goto, ThreadStates
  <2>3. thread' = [thread EXCEPT ![t] = new]
    BY <1>6, <2>1
  <2>4. IsLive(t, new, tables) /\ IsLive(t, thread[t], tables)
    BY <1>4, <2>2 DEF IsLive, Decides, AllTables
  <2>5. ASSUME NEW n \in Nat \ {0}, RankFits(t, n, thread[t], tables)
        PROVE  RankFits(t, n, new, tables)
    <3>1. n < Limit(tables[newest])
      BY <1>4, <2>5 DEF RankFits, AllTables
    <3>2. newest <= Len(tables)
      BY <1>0, <1>4 DEF AllTables
    <3>3. /\ tables[newest].capacity \in Nat \ {0}
          /\ tables[Len(tables)].capacity \in Nat \ {0}
          /\ tables[newest].capacity <= tables[Len(tables)].capacity
      BY <1>0, <1>4, <3>2, TableFacts DEF RoomInv, TablesGrow
    <3>4. /\ Limit(tables[newest]) \in Nat /\ Limit(tables[Len(tables)]) \in Nat
          /\ Limit(tables[newest]) <= Limit(tables[Len(tables)])
      BY <3>3, LimitBelowCapacity
    <3>5. n < Limit(tables[Len(tables)])
      BY <3>1, <3>4
    <3> QED
      BY <2>2, <2>5, <3>5 DEF RankFits, CountedPcs
  <2> QED
    BY <1>0, <1>1, <2>3, <2>4, <2>5, RoomGoesOn
<1> QED
  BY <1>3, <1>5, <1>6 DEF GetProducer, Sets, newest

\* The new table is larger, so that every number below three quarters of the
\* old one is below three quarters of it.
LEMMA ResizeTableKeepsRoom ==
  ASSUME ListInv, HashInv, RoomInv, NEW t \in Enqueuers, ResizeTable(t)
  PROVE  RoomInv'
<1>0. /\ thread[t] \in ThreadStates /\ thread \in [Enqueuers -> ThreadStates]
      /\ HashTypeOK /\ Len(tables) \in AllTables /\ Len(tables) \in Nat
      /\ \A i \in AllTables : tables[i].capacity \in Nat \ {0}
      /\ thread[t].newCount \in Int
  BY ListFacts, TableFacts DEF ListInv, ListTypeOK, HashInv, ThreadStates
<1>1. hashCount' = hashCount /\ thread[t].pc = "resize"
  BY DEF ResizeTable
<1>2. PICK new : new = [Goto(t, "unlock") EXCEPT !.main = Len(tables')]
  OBVIOUS
<1>3. /\ thread' = [thread EXCEPT ![t] = new]
      /\ \A u \in Enqueuers : thread'[u] = IF u = t THEN new ELSE thread[u]
  BY <1>0, <1>2 DEF ResizeTable, Sets
<1>4. new.pc = "unlock" /\ new.newCount = thread[t].newCount
  BY <1>0, <1>2 DEF Goto, ThreadStates
<1>5. \A all : IsLive(t, new, all) /\ IsLive(t, thread[t], all)
  BY <1>1, <1>4 DEF IsLive, CountedPcs
<1>6. \A all : \A n \in Nat \ {0} : RankFits(t, n, thread[t], all) => RankFits(t, n, new, all)
  BY <1>1, <1>4 DEF RankFits, CountedPcs, Decides, MakingPcs
<1>7. CASE tables' = tables
  BY <1>0, <1>1, <1>3, <1>5, <1>6, <1>7, RoomGoesOn
<1>8. CASE /\ HalfFull(t, tables[Len(tables)])
           /\ tables' = Append(tables,
                EmptyTable(NewCapacity(t, tables[Len(tables)].capacity)))
  <2>1. thread[t].newCount \in Nat
    BY <1>0, <1>8 DEF HalfFull
  <2>2. PICK c \in Nat \ {0} : /\ c = NewCapacity(t, tables[Len(tables)].capacity)
                               /\ c >= tables[Len(tables)].capacity
    BY <1>0, <2>1, CapacityDoubles
  <2>3. PICK all : all = tables' /\ all = Append(tables, EmptyTable(c))
    BY <1>8, <2>2
  <2>4. tables \in Seq(TableStates)
    BY <1>0 DEF HashTypeOK
  <2>5. /\ Len(all) = Len(tables) + 1
        /\ \A i \in 1..Len(tables) : all[i] = tables[i]
        /\ all[Len(all)] = EmptyTable(c)
        /\ \A u \in Enqueuers :
             (\A i \in 1..Len(all) : ~IsIn(u, all[i]))
               <=> (\A i \in 1..Len(tables) : ~IsIn(u, tables[i]))
    BY <2>3, <2>4, TableAdded
  <2>6. 1..Len(all) = AllTables \cup {Len(all)}
    BY <1>0, <2>5 DEF AllTables
  <2>7. /\ all[Len(all)].capacity = c
        /\ \A u \in Enqueuers : ~IsIn(u, all[Len(all)])
    BY <2>5, EmptyTableTyped
  <2>8. TablesGrow'
    <3>1. \A i \in AllTables : all[i] = tables[i]
      BY <2>5 DEF AllTables
    <3>2. \A i \in AllTables : tables[i].capacity <= c
      <4>1. \A i \in AllTables : i <= Len(tables)
        BY <1>0 DEF AllTables
      <4>2. \A i \in AllTables : tables[i].capacity <= tables[Len(tables)].capacity
        BY <1>0, <4>1 DEF RoomInv, TablesGrow
      <4> QED
        BY <1>0, <2>2, <4>2
    <3>3. \A i, j \in 1..Len(all) : i <= j => all[i].capacity <= all[j].capacity
      <4> SUFFICES ASSUME NEW i \in 1..Len(all), NEW j \in 1..Len(all), i <= j
                   PROVE  all[i].capacity <= all[j].capacity
        OBVIOUS
      <4>1. CASE j = Len(all)
        BY <2>6, <2>7, <3>1, <3>2, <4>1
      <4>2. CASE j # Len(all)
        <5>1. i \in AllTables /\ j \in AllTables
          BY <1>0, <2>5, <2>6, <4>2 DEF AllTables
        <5> QED
          BY <3>1, <5>1 DEF RoomInv, TablesGrow
      <4> QED
        BY <4>1, <4>2
    <3> QED
      BY <2>3, <3>3 DEF TablesGrow, AllTables
  <2>9. \A u \in Enqueuers : IsLive(u, thread'[u], tables') <=> IsLive(u, thread[u], tables)
    BY <1>3, <1>5, <2>3, <2>5 DEF IsLive
  <2>10. ASSUME NEW u \in Live, NEW n \in Nat \ {0}, RankFits(u, n, thread[u], tables)
         PROVE  RankFits(u, n, thread'[u], tables')
    <3>1. u \in Enqueuers /\ RankFits(u, n, thread'[u], tables)
      BY <1>3, <1>6, <2>10 DEF Live
    <3>2. Decides(thread'[u]) => thread'[u].main \in AllTables
      <4>1. u # t => KnowsTables(u, thread[u], tables)
        BY <3>1 DEF HashInv
      <4>2. ~Decides(new)
        BY <1>4 DEF Decides, MakingPcs
      <4>3. Decides(thread[u]) /\ u # t => thread[u].main \in AllTables
        BY <4>1 DEF KnowsTables, Decides, Registers, AllTables
      <4> QED
        BY <1>3, <3>1, <4>2, <4>3
    <3> QED
      BY <2>3, <2>5, <2>6, <2>7, <3>1, <3>2 DEF RankFits, AllTables
  <2> QED
    BY <1>1, <2>8, <2>9, <2>10, RoomKept
<1> QED
  BY <1>7, <1>8 DEF ResizeTable

\* A thread that decided for a table is counted before and after.
LEMMA InsertSlotKeepsRoom ==
  ASSUME ListInv, HashInv, RoomInv, NEW t \in Enqueuers, InsertSlot(t)
  PROVE  RoomInv'
<1>0. /\ thread[t] \in ThreadStates /\ thread \in [Enqueuers -> ThreadStates]
      /\ KnowsTables(t, thread[t], tables) /\ HashTypeOK /\ DOMAIN tables = AllTables
  BY ListFacts, TableFacts DEF ListInv, ListTypeOK, HashInv
<1>1. hashCount' = hashCount /\ thread[t].pc = "insert"
  BY DEF InsertSlot
<1>2. PICK m \in AllTables : m = thread[t].main
  BY <1>0, <1>1 DEF KnowsTables, AllTables
<1>3. PICK old \in TableStates : old = tables[m] /\ old = Main(t)
  BY <1>0, <1>2, TableFacts DEF Main
<1>4. PICK s \in Slots(old) : s = Probe(t, Main(t).capacity, thread[t].index)
  <2>1. thread[t].index \in Nat /\ old.capacity \in Nat \ {0}
    BY <1>0, <1>2, <1>3, TableFacts DEF ThreadStates
  <2> QED
    BY <1>3, <2>1, ProbeInTable DEF Slots
<1>5. PICK v \in Nat : v = thread[t].producer
  BY <1>0 DEF ThreadStates, OrNone
<1>6. CASE /\ old.key[s] = NoThread
           /\ tables' = [tables EXCEPT ![m] = Taking(t, old, s, v)]
           /\ thread' = [thread EXCEPT ![t] = [Returns(t) EXCEPT !.mine = v]]
  <2>1. PICK new : new = [Returns(t) EXCEPT !.mine = v]
    OBVIOUS
  <2>2. new.pc = "idle"
    BY <2>1 DEF Returns, AtEase
  <2>3. PICK table : table = Taking(t, old, s, v)
    OBVIOUS
  <2>4. /\ table.capacity = old.capacity /\ table \in TableStates
        /\ \A k \in Slots(old) : table.key[k] = IF k = s THEN t ELSE old.key[k]
        /\ \A u \in Enqueuers \ {t} : IsIn(u, table) <=> IsIn(u, old)
    BY <1>6, <2>3, SlotTaken
  <2>5. PICK all : all = tables' /\ all = [tables EXCEPT ![m] = table]
    BY <1>6, <2>3
  <2>6. /\ Len(all) = Len(tables)
        /\ \A i \in AllTables : /\ all[i] = IF i = m THEN table ELSE tables[i]
                                /\ all[i].capacity = tables[i].capacity
                                /\ Limit(all[i]) = Limit(tables[i])
    <3>1. /\ all \in Seq(TableStates) /\ Len(all) = Len(tables)
          /\ \A i \in AllTables : all[i] = IF i = m THEN table ELSE tables[i]
      BY <1>0, <2>4, <2>5 DEF HashTypeOK
    <3> QED
      BY <1>3, <2>4, <3>1 DEF Limit
  <2>7. \A u \in Enqueuers : thread'[u] = IF u = t THEN new ELSE thread[u]
    BY <1>0, <1>6, <2>1
  <2>8. IsIn(t, table)
    BY <2>4 DEF IsIn, Slots
  <2>9. \A u \in Enqueuers, i \in AllTables :
          IsIn(u, all[i]) => IsIn(u, tables[i]) \/ (u = t /\ i = m)
    BY <1>3, <2>4, <2>6
  <2>10. \A u \in Enqueuers \ {t}, i \in AllTables : IsIn(u, all[i]) <=> IsIn(u, tables[i])
    BY <1>3, <2>4, <2>6
  <2>11. \A u \in Enqueuers : IsLive(u, thread'[u], tables') <=> IsLive(u, thread[u], tables)
    <3>1. IsLive(t, thread[t], tables)
      BY <1>1 DEF IsLive, Decides
    <3>2. IsLive(t, new, all)
      BY <2>6, <2>8 DEF IsLive, AllTables
    <3>3. \A u \in Enqueuers \ {t} : IsLive(u, thread[u], all) <=> IsLive(u, thread[u], tables)
      BY <2>6, <2>10 DEF IsLive, AllTables
    <3> QED
      BY <2>5, <2>7, <3>1, <3>2, <3>3
  <2>12. ASSUME NEW u \in Live, NEW n \in Nat \ {0}, RankFits(u, n, thread[u], tables)
         PROVE  RankFits(u, n, thread'[u], tables')
    <3>1. CASE u = t
      <4>1. n < Limit(tables[m])
        BY <1>1, <1>2, <2>12, <3>1 DEF RankFits, Decides
      <4>2. \A i \in AllTables : IsIn(t, all[i]) => n < Limit(all[i])
        BY <2>6, <2>9, <2>12, <3>1, <4>1 DEF RankFits, AllTables
      <4>3. RankFits(t, n, new, all)
        BY <2>2, <2>6, <4>2 DEF RankFits, Decides, CountedPcs, MakingPcs, AllTables
      <4> QED
        BY <2>5, <2>7, <3>1, <4>3
    <3>2. CASE u # t
      <4>1. u \in Enqueuers \ {t} /\ thread'[u] = thread[u]
        BY <2>7, <3>2 DEF Live
      <4>2. Decides(thread[u]) => thread[u].main \in AllTables
        <5>1. KnowsTables(u, thread[u], tables)
          BY <4>1 DEF HashInv
        <5> QED
          BY <5>1 DEF KnowsTables, Decides, Registers, AllTables
      <4>3. RankFits(u, n, thread[u], all)
        BY <2>6, <2>10, <2>12, <4>1, <4>2 DEF RankFits, AllTables
      <4> QED
        BY <2>5, <4>1, <4>3
    <3> QED
      BY <3>1, <3>2
  <2>13. TablesGrow'
    BY <2>5, <2>6 DEF RoomInv, TablesGrow, AllTables
  <2> QED
    BY <1>1, <2>11, <2>12, <2>13, RoomKept
<1>7. CASE /\ tables' = tables
           /\ thread' = [thread EXCEPT ![t] =
                [thread[t] EXCEPT !.index = (@ + 1) % Main(t).capacity]]
  <2>1. PICK new : new = [thread[t] EXCEPT !.index = (@ + 1) % Main(t).capacity]
    OBVIOUS
  <2>2. new.pc = "insert" /\ new.main = thread[t].main
    BY <1>0, <1>1, <2>1 DEF ThreadStates
  <2>3. thread' = [thread EXCEPT ![t] = new]
    BY <1>7, <2>1
  <2>4. IsLive(t, new, tables) <=> IsLive(t, thread[t], tables)
    BY <1>1, <2>2 DEF IsLive, Decides
  <2>5. \A n \in Nat \ {0} : RankFits(t, n, thread[t], tables) => RankFits(t, n, new, tables)
    BY <1>1, <2>2 DEF RankFits, Decides, CountedPcs
  <2> QED
    BY <1>0, <1>1, <1>7, <2>3, <2>4, <2>5, RoomGoesOn
<1> QED
  BY <1>2, <1>3, <1>4, <1>5, <1>6, <1>7 DEF InsertSlot, Sets, Taking

-----------------------------------------------------------------------------
(* Readers: their invariant, and what the list does meanwhile. *)

ReaderPcs ==
  {"idle", "done", "score0", "score", "walk0", "walk", "token", "rotate",
   "prodcount", "offset", "current", "others", "round"}

ReaderStates ==
  [pc: ReaderPcs, ptr: OrNone, tail: OrNone, best: OrNone, nonEmpty: Nat,
   count: Nat, max: Nat, desired: OrNone, current: OrNone, known: Int,
   consumed: Nat, tried: SUBSET AllProducers, due: SUBSET AllProducers,
   empty: BOOLEAN]

\* What a call has still to look at before it may report an empty queue.
LeftToTry(me) == me.due \ me.tried

\* What a round that got nothing has to look at yet: what follows the producer
\* it began with and then what precedes it, or, after the wrap, only that.
RoundRight(me) ==
  /\ me.tail # 0
  /\ me.current \in From(me.tail) \cap me.tried
  /\ \/ /\ me.ptr \in From(next_prod(me.current))
        /\ LeftToTry(me) \subseteq From(me.ptr) \cup (From(me.tail) \ From(me.current))
     \/ /\ me.current \in From(me.ptr)
        /\ LeftToTry(me) \subseteq From(me.ptr) \ From(me.current)

\* Where a call that has got nothing yet stands in the list.
TriedRight(me) ==
  /\ me.pc = "score" /\ me.nonEmpty = 0 => LeftToTry(me) \subseteq From(me.ptr)
  /\ me.pc = "walk" /\ me.count = 0 => LeftToTry(me) \subseteq From(me.ptr)
  /\ me.pc = "others" /\ me.count = 0 => me.current \in me.tried
  /\ me.pc = "round" /\ me.count = 0 => RoundRight(me)
  /\ me.pc = "done" /\ me.empty => LeftToTry(me) = {}

ReaderRight(me) ==
  /\ {me.ptr, me.tail, me.best, me.desired, me.current} \subseteq Listed \cup {0}
  /\ me.due \subseteq Listed
  /\ me.pc \in {"prodcount", "offset"} => me.tail # 0
  /\ me.pc = "offset" => me.count > 0
  /\ me.pc \in {"current", "others", "round"} => me.current # 0
  /\ me.desired # 0 => me.current # 0
  /\ me.pc = "score" /\ me.nonEmpty > 0 => me.best # 0
  /\ me.pc \in {"idle", "score0"} => me.nonEmpty = 0
  /\ me.pc \notin {"walk", "offset", "others", "round"} => me.count = 0
  /\ TriedRight(me)

ReaderInv ==
  /\ reader \in [Readers -> ReaderStates]
  /\ globalOffset \in Nat
  /\ \A c \in Readers : ReaderRight(reader[c])

\* The list only grows, and what follows a producer stays.
ListGrows ==
  /\ AllProducers \subseteq AllProducers'
  /\ Listed \subseteq Listed'
  /\ \A q \in Listed \cup {0} : From(q)' = From(q)
  /\ \A q \in Listed : next_prod(q)' = next_prod(q)

\* The list only grows when no producer of it is linked anew.
LEMMA GrowsIf ==
  ASSUME ListInv, ListInv', DOMAIN producers \subseteq DOMAIN producers',
         \A q \in Listed : producers'[q].next = producers[q].next,
         \/ producerListTail' = producerListTail
         \/ /\ producerListTail' \in DOMAIN producers'
            /\ producers'[producerListTail'].next = producerListTail
  PROVE  ListGrows
<1>0. /\ DOMAIN producers = AllProducers /\ Linked(producers) /\ Listed \subseteq AllProducers
      /\ OrNone = AllProducers \cup {0} /\ producerListTail \in OrNone
  BY ListFacts DEF ListInv, ListTypeOK
<1>1. AllProducers \subseteq AllProducers'
  BY ProducersGrow
<1>2. Linked(producers')
  <2>1. /\ DOMAIN producers' = 1..Len(producers') /\ Len(producers') \in Nat
        /\ \A x \in 1..Len(producers') : producers'[x].next \in 0..Len(producers')
    BY DEF ListInv, ListTypeOK, AllProducers, ProducerStates, OrNone
  <2> QED
    BY <2>1 DEF Linked
<1>3. ASSUME NEW q \in Listed \cup {0}
      PROVE  ChainFrom(producers', q) = ChainFrom(producers, q)
  <2>1. ChainFrom(producers, q) \subseteq Listed
    <3>1. CASE q = 0
      BY <3>1, ChainOfNone
    <3>2. CASE q \in Listed
      BY <3>2, <1>0, ChainOn DEF Listed
    <3> QED
      BY <3>1, <3>2
  <2>2. \A x \in ChainFrom(producers, q) : producers'[x].next = producers[x].next
    BY <2>1
  <2>3. q \in DOMAIN producers \cup {0}
    BY <1>0
  <2> QED
    BY <1>0, <1>2, <2>2, <2>3, ChainStays
<1>4. producerListTail \in Listed \cup {0}
  BY <1>0, ChainHolds DEF Listed, Holding
<1>5. ChainFrom(producers', producerListTail) = Listed
  BY <1>3, <1>4 DEF Listed
<1>6. Listed \subseteq Listed'
  <2>1. CASE producerListTail' = producerListTail
    BY <1>5, <2>1 DEF Listed
  <2>2. CASE /\ producerListTail' \in DOMAIN producers'
             /\ producers'[producerListTail'].next = producerListTail
    <3>1. PICK new : new = producers'
      OBVIOUS
    <3>2. PICK p \in DOMAIN new : p = producerListTail' /\ new[p].next = producerListTail
      BY <2>2, <3>1
    <3>3. ChainFrom(new, p) = {p} \cup ChainFrom(new, producerListTail)
      BY <1>2, <3>1, <3>2, ChainFirst
    <3> QED
      BY <1>5, <3>1, <3>2, <3>3 DEF Listed
  <2> QED
    BY <2>1, <2>2
<1>7. \A q \in Listed : next_prod(q)' = next_prod(q)
  BY DEF next_prod
<1> QED
  BY <1>1, <1>3, <1>6, <1>7 DEF ListGrows, From

LEMMA GrabGrows ==
  ASSUME ListInv, ListInv', NEW t \in Enqueuers, Grab(t)
  PROVE  ListGrows
<1>1. /\ DOMAIN producers' = DOMAIN producers /\ producerListTail' = producerListTail
      /\ \A q \in Listed : producers'[q].next = producers[q].next
  <2>1. Listed \subseteq DOMAIN producers
    BY ListFacts DEF ListInv
  <2>2. \A q \in Listed : producers[q] \in ProducerStates
    BY ListFacts DEF ListInv
  <2> QED
    BY <2>1, <2>2 DEF Grab, ProducerStates
<1> QED
  BY <1>1, GrowsIf

LEMMA OwnProducerGrows ==
  ASSUME ListInv, ListInv', NEW t \in Enqueuers, OwnProducer(t)
  PROVE  ListGrows
<1>1. /\ DOMAIN producers' = DOMAIN producers /\ producerListTail' = producerListTail
      /\ \A q \in Listed : producers'[q].next = producers[q].next
  <2>1. Listed \subseteq DOMAIN producers
    BY ListFacts DEF ListInv
  <2>2. \A q \in Listed : producers[q] \in ProducerStates
    BY ListFacts DEF ListInv
  <2> QED
    BY <2>1, <2>2 DEF OwnProducer, ProducerStates
<1> QED
  BY <1>1, GrowsIf

LEMMA UnownGrows ==
  ASSUME ListInv, ListInv', NEW t \in Enqueuers, Unown(t)
  PROVE  ListGrows
<1>1. /\ DOMAIN producers' = DOMAIN producers /\ producerListTail' = producerListTail
      /\ \A q \in Listed : producers'[q].next = producers[q].next
  <2>1. Listed \subseteq DOMAIN producers
    BY ListFacts DEF ListInv
  <2>2. \A q \in Listed : producers[q] \in ProducerStates
    BY ListFacts DEF ListInv
  <2> QED
    BY <2>1, <2>2 DEF Unown, ProducerStates
<1> QED
  BY <1>1, GrowsIf

LEMMA RetireProducerGrows ==
  ASSUME ListInv, ListInv', NEW t \in Enqueuers, RetireProducer(t)
  PROVE  ListGrows
<1>1. /\ DOMAIN producers' = DOMAIN producers /\ producerListTail' = producerListTail
      /\ \A q \in Listed : producers'[q].next = producers[q].next
  <2>1. Listed \subseteq DOMAIN producers
    BY ListFacts DEF ListInv
  <2>2. \A q \in Listed : producers[q] \in ProducerStates
    BY ListFacts DEF ListInv
  <2> QED
    BY <2>1, <2>2 DEF RetireProducer, ProducerStates
<1> QED
  BY <1>1, GrowsIf

LEMMA CreateGrows ==
  ASSUME ListInv, ListInv', NEW t \in Enqueuers, Create(t)
  PROVE  ListGrows
<1>1. PICK p : producers' = Append(producers, p)
  BY DEF Create
<1>2. /\ DOMAIN producers \subseteq DOMAIN producers'
      /\ \A q \in DOMAIN producers : producers'[q] = producers[q]
  BY <1>1 DEF ListInv, ListTypeOK
<1>3. Listed \subseteq DOMAIN producers /\ producerListTail' = producerListTail
  BY ListFacts DEF ListInv, Create
<1> QED
  BY <1>2, <1>3, GrowsIf

LEMMA LinkNextGrows ==
  ASSUME ListInv, ListInv', NEW t \in Enqueuers, LinkNext(t)
  PROVE  ListGrows
<1>1. /\ Listed \subseteq AllProducers /\ DOMAIN producers = AllProducers
      /\ producerListTail' = producerListTail
  BY ListFacts DEF ListInv, LinkNext
<1>2. thread[t].producer \notin Listed
  BY <1>1 DEF ListInv, ListRight, PushesIn, LinkNext
<1>3. DOMAIN producers' = DOMAIN producers
  BY DEF LinkNext
<1>4. \A q \in Listed : producers'[q].next = producers[q].next
  BY <1>1, <1>2 DEF LinkNext
<1> QED
  BY <1>1, <1>3, <1>4, GrowsIf

LEMMA PushProducerGrows ==
  ASSUME ListInv, ListInv', NEW t \in Enqueuers, PushProducer(t)
  PROVE  ListGrows
<1>1. producers' = producers /\ thread[t].pc = "push"
  BY DEF PushProducer
<1>2. /\ Knows(t, thread[t], producers, producerListTail) /\ thread[t] \in ThreadStates
      /\ DOMAIN producers = AllProducers /\ OrNone = AllProducers \cup {0}
  BY ListFacts DEF ListInv
<1>3. /\ thread[t].producer \in AllProducers
      /\ producers[thread[t].producer].next = thread[t].ptr
  BY <1>1, <1>2 DEF Knows, HandPcs, ThreadStates
<1> QED
  BY <1>1, <1>2, <1>3, GrowsIf DEF PushProducer

\* Readers find their places in a list that grows.
LEMMA ReadersKept ==
  ASSUME ListInv, ReaderInv, ListGrows, UNCHANGED readerVars
  PROVE  ReaderInv'
<1>0. /\ DOMAIN producers = AllProducers /\ Linked(producers) /\ Listed \subseteq AllProducers
      /\ OrNone = AllProducers \cup {0} /\ producerListTail \in OrNone
  BY ListFacts DEF ListInv, ListTypeOK
<1>1. reader' = reader /\ globalOffset' = globalOffset
  BY DEF readerVars
<1>2. OrNone \subseteq OrNone'
  <2>1. AllProducers \subseteq AllProducers' /\ Len(producers) \in Nat
    BY DEF ListGrows, ListInv, ListTypeOK
  <2>2. 0 \in OrNone'
    <3>1. CASE AllProducers = {}
      BY <2>1, <3>1 DEF OrNone, AllProducers
    <3>2. CASE AllProducers # {}
      BY <2>1, <3>2 DEF OrNone, AllProducers
    <3> QED
      BY <3>1, <3>2
  <2> QED
    BY <1>0, <2>1, <2>2 DEF OrNone, AllProducers
<1>3. ASSUME NEW me, me \in ReaderStates, ReaderRight(me)
      PROVE  (me \in ReaderStates)' /\ ReaderRight(me)'
  <2>1. (me \in ReaderStates)'
    BY <1>2, <1>3 DEF ReaderStates, ListGrows
  <2>2. \A q \in {me.ptr, me.tail, me.best, me.desired, me.current} : From(q)' = From(q)
    BY <1>3 DEF ReaderRight, ListGrows
  <2>3. me.current # 0 => /\ next_prod(me.current)' = next_prod(me.current)
                          /\ From(next_prod(me.current))' = From(next_prod(me.current))
    <3> SUFFICES ASSUME me.current # 0
                 PROVE  /\ next_prod(me.current)' = next_prod(me.current)
                        /\ From(next_prod(me.current))' = From(next_prod(me.current))
      OBVIOUS
    <3>1. PICK p \in Listed : p = me.current
      BY <1>3 DEF ReaderRight
    <3>2. PICK n \in Listed \cup {0} : n = next_prod(p)
      BY <1>0, ChainOn DEF Listed, next_prod
    <3>3. next_prod(p)' = n /\ From(n)' = From(n)
      BY <3>2 DEF ListGrows
    <3> QED
      BY <3>1, <3>2, <3>3
  <2>4. TriedRight(me)'
    <3>1. me.pc = "round" /\ me.count = 0 => RoundRight(me)'
      <4> SUFFICES ASSUME me.pc = "round", me.count = 0
                   PROVE  RoundRight(me)'
        OBVIOUS
      <4>1. RoundRight(me) /\ me.current # 0
        BY <1>3 DEF ReaderRight, TriedRight
      <4> QED
        BY <2>2, <2>3, <4>1 DEF RoundRight, LeftToTry
    <3> QED
      BY <1>3, <2>2, <3>1 DEF ReaderRight, TriedRight, LeftToTry
  <2> QED
    BY <1>3, <2>1, <2>4 DEF ReaderRight, ListGrows
<1>4. \A c \in Readers : (reader[c] \in ReaderStates)' /\ ReaderRight(reader[c])'
  <2> SUFFICES ASSUME NEW c \in Readers
               PROVE  (reader[c] \in ReaderStates)' /\ ReaderRight(reader[c])'
    OBVIOUS
  <2>1. PICK me : me = reader[c]
    OBVIOUS
  <2>2. (me \in ReaderStates)' /\ ReaderRight(me)'
    BY <1>3, <2>1 DEF ReaderInv
  <2> QED
    BY <1>1, <2>1, <2>2
<1> QED
  BY <1>1, <1>4 DEF ReaderInv

-----------------------------------------------------------------------------
(* Readers: their own steps without a token. *)

\* Chains of the list, as the readers need them.
LEMMA FromFacts ==
  ASSUME ListInv
  PROVE  /\ Listed \subseteq AllProducers /\ producerListTail \in Listed \cup {0}
         /\ OrNone = AllProducers \cup {0} /\ 0 \notin AllProducers
         /\ From(0) = {} /\ From(producerListTail) = Listed
         /\ \A q \in Listed : /\ From(q) = {q} \cup From(next_prod(q))
                              /\ next_prod(q) \in Listed \cup {0}
                              /\ From(q) \subseteq Listed
                              /\ q \notin From(next_prod(q))
                              /\ \A x \in From(q) : next_prod(x) \in From(q) \cup {0}
<1>0. /\ DOMAIN producers = AllProducers /\ Linked(producers) /\ Listed \subseteq AllProducers
      /\ OrNone = AllProducers \cup {0} /\ producerListTail \in OrNone /\ 0 \notin AllProducers
  BY ListFacts DEF ListInv, ListTypeOK
<1>1. producerListTail \in Listed \cup {0}
  BY <1>0, ChainHolds DEF Listed, Holding
<1>2. From(0) = {} /\ From(producerListTail) = Listed
  BY ChainOfNone DEF From, Listed
<1>3. ASSUME NEW q \in Listed
      PROVE  /\ From(q) = {q} \cup From(next_prod(q))
             /\ next_prod(q) \in Listed \cup {0}
             /\ From(q) \subseteq Listed
             /\ q \notin From(next_prod(q))
             /\ \A x \in From(q) : next_prod(x) \in From(q) \cup {0}
  <2>1. From(q) = {q} \cup From(next_prod(q))
    BY <1>0, ChainFirst DEF From, next_prod
  <2>2. next_prod(q) \in Listed \cup {0} /\ From(q) \subseteq Listed
    BY <1>0, ChainOn DEF From, next_prod, Listed
  <2>3. q \notin From(next_prod(q))
    BY DEF ListInv, ListRight
  <2>4. \A x \in From(q) : next_prod(x) \in From(q) \cup {0}
    BY <1>0, ChainOn DEF From, next_prod
  <2> QED
    BY <2>1, <2>2, <2>3, <2>4
<1> QED
  BY <1>0, <1>1, <1>2, <1>3

\* A step of one reader.
LEMMA ReaderMoves ==
  ASSUME ReaderInv, NEW c \in Readers, NEW new \in ReaderStates,
         reader' = [reader EXCEPT ![c] = new], UNCHANGED listVars,
         globalOffset' \in Nat, ReaderRight(new)
  PROVE  ReaderInv'
<1>1. /\ producers' = producers /\ producerListTail' = producerListTail
      /\ AllProducers' = AllProducers /\ OrNone' = OrNone /\ ReaderStates' = ReaderStates
  BY DEF listVars, AllProducers, OrNone, ReaderStates
<1>2. \A me : ReaderRight(me)' <=> ReaderRight(me)
  BY <1>1 DEF ReaderRight, TriedRight, RoundRight, LeftToTry, From, Listed, next_prod
<1>3. /\ reader' \in [Readers -> ReaderStates]
      /\ \A d \in Readers : reader'[d] = IF d = c THEN new ELSE reader[d]
  BY DEF ReaderInv
<1>4. ASSUME NEW d \in Readers
      PROVE  ReaderRight(reader[d])'
  <2>1. PICK me : me = reader'[d]
    OBVIOUS
  <2>2. ReaderRight(me)
    BY <1>3, <2>1 DEF ReaderInv
  <2>3. ReaderRight(me)'
    BY <1>2, <2>2
  <2> QED
    BY <2>1, <2>3
<1> QED
  BY <1>1, <1>3, <1>4 DEF ReaderInv

\* A call ends.
LEMMA DoneRight ==
  ASSUME ListInv, ReaderInv, NEW c \in Readers, NEW e \in BOOLEAN,
         e => LeftToTry(reader[c]) = {}
  PROVE  Done(c, e) \in ReaderStates /\ ReaderRight(Done(c, e))
<1>0. reader[c] \in ReaderStates /\ ReaderRight(reader[c])
  BY DEF ReaderInv
<1>1. PICK new : new = Done(c, e)
  OBVIOUS
<1>2. 0 \in OrNone
  BY FromFacts
<1>3. new \in ReaderStates
  BY <1>0, <1>1, <1>2 DEF Done, ReaderStates, ReaderPcs
<1>4. /\ new.pc = "done" /\ new.empty = e /\ new.due = reader[c].due
      /\ new.tried = reader[c].tried /\ new.desired = reader[c].desired
      /\ new.current = reader[c].current /\ new.count = 0
      /\ new.ptr = 0 /\ new.tail = 0 /\ new.best = 0
  BY <1>0, <1>1 DEF Done, ReaderStates
<1>5. ReaderRight(new)
  BY <1>0, <1>4 DEF ReaderRight, TriedRight, LeftToTry
<1> QED
  BY <1>1, <1>3, <1>5

\* The producer a call looks at.
LEMMA AtProducer ==
  ASSUME ListInv, ReaderInv, NEW c \in Readers, reader[c].ptr # 0
  PROVE  /\ reader[c].ptr \in Listed /\ next_prod(reader[c].ptr) \in OrNone
         /\ reader[c].tried \cup {reader[c].ptr} \in SUBSET AllProducers
BY FromFacts DEF ReaderInv, ReaderRight, ReaderStates

LEMMA ReadReturnsKeepsReaders ==
  ASSUME ListInv, ReaderInv, NEW c \in Readers, ReadReturns(c)
  PROVE  ReaderInv'
<1>0. /\ reader[c] \in ReaderStates /\ reader \in [Readers -> ReaderStates]
      /\ ReaderRight(reader[c]) /\ globalOffset \in Nat
  BY DEF ReaderInv
<1>1. UNCHANGED listVars /\ globalOffset' \in Nat
  BY <1>0 DEF ReadReturns
<1>2. CASE /\ reader' = [reader EXCEPT ![c] = [NotReading EXCEPT
                 !.desired = reader[c].desired, !.current = reader[c].current,
                 !.known = reader[c].known, !.consumed = reader[c].consumed]]
  <2>1. PICK new : new = [NotReading EXCEPT
                 !.desired = reader[c].desired, !.current = reader[c].current,
                 !.known = reader[c].known, !.consumed = reader[c].consumed]
    OBVIOUS
  <2>2. new \in ReaderStates
    BY <1>0, <1>2, <2>1, FromFacts DEF ReadReturns, NotReading, ReaderStates,
       ReaderPcs, ReaderRight
  <2>3. ReaderRight(new)
    BY <1>0, <1>2, <2>1, FromFacts
    DEF ReadReturns, NotReading, ReaderStates, ReaderRight, TriedRight, RoundRight, LeftToTry
  <2>4. reader' = [reader EXCEPT ![c] = new]
    BY <1>2, <2>1
  <2> QED
    BY <1>1, <2>2, <2>3, <2>4, ReaderMoves
<1> QED
  BY <1>2 DEF ReadReturns, Reads

LEMMA LoadScoreTailKeepsReaders ==
  ASSUME ListInv, ReaderInv, NEW c \in Readers, LoadScoreTail(c)
  PROVE  ReaderInv'
<1>0. /\ reader[c] \in ReaderStates /\ reader \in [Readers -> ReaderStates]
      /\ ReaderRight(reader[c]) /\ globalOffset \in Nat
  BY DEF ReaderInv
<1>1. UNCHANGED listVars /\ globalOffset' \in Nat
  BY <1>0 DEF LoadScoreTail
<1>2. CASE /\ reader' = [reader EXCEPT ![c] = [ReadGoto(c, "score") EXCEPT !.ptr =
                 producerListTail]]
  <2>1. PICK new : new = [ReadGoto(c, "score") EXCEPT !.ptr = producerListTail]
    OBVIOUS
  <2>2. new \in ReaderStates
    BY <1>0, <1>2, <2>1, FromFacts DEF LoadScoreTail, ReadGoto, ReaderStates,
       ReaderPcs, ReaderRight
  <2>3. ReaderRight(new)
    BY <1>0, <1>2, <2>1, FromFacts
    DEF LoadScoreTail, ReadGoto, ReaderStates, ReaderRight, TriedRight, RoundRight, LeftToTry
  <2>4. reader' = [reader EXCEPT ![c] = new]
    BY <1>2, <2>1
  <2> QED
    BY <1>1, <2>2, <2>3, <2>4, ReaderMoves
<1> QED
  BY <1>2 DEF LoadScoreTail, Reads

\* A producer that looks empty is tried; what is left is after it.
LEMMA ScoreKeepsReaders ==
  ASSUME ListInv, ReaderInv, NEW c \in Readers, Score(c)
  PROVE  ReaderInv'
<1>0. /\ reader[c] \in ReaderStates /\ reader \in [Readers -> ReaderStates]
      /\ ReaderRight(reader[c]) /\ globalOffset \in Nat
  BY DEF ReaderInv
<1>1. UNCHANGED listVars /\ globalOffset' \in Nat
  BY <1>0 DEF Score
<1>2. CASE /\ reader' = [reader EXCEPT ![c] = [[reader[c] EXCEPT !.ptr =
                 next_prod(reader[c].ptr)] EXCEPT !.tried = @ \cup {reader[c].ptr}]]
           /\ reader[c].ptr # 0
  <2>1. PICK at \in ReaderStates : at = [reader[c] EXCEPT !.ptr = next_prod(reader[c].ptr)]
    BY <1>0, <1>2, AtProducer DEF ReaderStates
  <2>2. PICK new : new = [at EXCEPT !.tried = @ \cup {reader[c].ptr}]
    OBVIOUS
  <2>3. new \in ReaderStates
    BY <1>0, <1>2, <2>2, AtProducer, FromFacts DEF ReaderStates
  <2>4. ReaderRight(new)
    BY <1>0, <1>2, <2>1, <2>2, AtProducer, FromFacts
    DEF Score, ReaderStates, ReaderRight, TriedRight, LeftToTry
  <2>5. reader' = [reader EXCEPT ![c] = new]
    BY <1>2, <2>1, <2>2
  <2> QED
    BY <1>1, <2>3, <2>4, <2>5, ReaderMoves
<1>3. CASE /\ reader' = [reader EXCEPT ![c] = [[reader[c] EXCEPT !.ptr =
                 next_prod(reader[c].ptr)] EXCEPT !.nonEmpty = @ + 1, !.best = IF @
                 = 0 THEN reader[c].ptr ELSE @]]
           /\ reader[c].ptr # 0
  <2>1. PICK at \in ReaderStates : at = [reader[c] EXCEPT !.ptr = next_prod(reader[c].ptr)]
    BY <1>0, <1>3, AtProducer DEF ReaderStates
  <2>2. /\ at.pc = reader[c].pc /\ at.best = reader[c].best /\ at.nonEmpty = reader[c].nonEmpty
        /\ at.count = reader[c].count /\ at.due = reader[c].due /\ at.tried = reader[c].tried
        /\ at.desired = reader[c].desired /\ at.current = reader[c].current
        /\ at.tail = reader[c].tail /\ at.ptr = next_prod(reader[c].ptr)
    BY <1>0, <2>1 DEF ReaderStates
  <2>3. PICK b \in Listed : b = IF at.best = 0 THEN reader[c].ptr ELSE at.best
    BY <1>0, <1>3, <2>2, AtProducer DEF ReaderRight
  <2>4. PICK k \in Nat : k = at.nonEmpty + 1 /\ k > 0
    <3>1. at.nonEmpty \in Nat
      BY DEF ReaderStates
    <3> QED
      BY <3>1
  <2>5. PICK new : new = [at EXCEPT !.nonEmpty = k, !.best = b]
    OBVIOUS
  <2>6. new \in ReaderStates /\ b # 0
    BY <2>3, <2>4, <2>5, FromFacts DEF ReaderStates
  <2>7. /\ new.pc = "score" /\ new.best = b /\ new.nonEmpty = k
        /\ new.count = reader[c].count /\ new.due = reader[c].due
        /\ new.desired = reader[c].desired /\ new.current = reader[c].current
        /\ new.tail = reader[c].tail /\ new.ptr = next_prod(reader[c].ptr)
    BY <2>2, <2>5 DEF Score, ReaderStates
  <2>8. ReaderRight(new)
    BY <1>0, <1>3, <2>3, <2>4, <2>6, <2>7, AtProducer, FromFacts
    DEF Score, ReaderRight, TriedRight
  <2>9. reader' = [reader EXCEPT ![c] = new]
    BY <1>3, <2>1, <2>2, <2>3, <2>4, <2>5
  <2> QED
    BY <1>1, <2>6, <2>8, <2>9, ReaderMoves
<1>4. CASE /\ reader' = [reader EXCEPT ![c] = [[reader[c] EXCEPT !.ptr =
                 next_prod(reader[c].ptr)] EXCEPT !.nonEmpty = @ + 1, !.best =
                 reader[c].ptr]]
           /\ reader[c].ptr # 0
  <2>1. PICK at \in ReaderStates : at = [reader[c] EXCEPT !.ptr = next_prod(reader[c].ptr)]
    BY <1>0, <1>4, AtProducer DEF ReaderStates
  <2>2. /\ at.pc = reader[c].pc /\ at.best = reader[c].best /\ at.nonEmpty = reader[c].nonEmpty
        /\ at.count = reader[c].count /\ at.due = reader[c].due /\ at.tried = reader[c].tried
        /\ at.desired = reader[c].desired /\ at.current = reader[c].current
        /\ at.tail = reader[c].tail /\ at.ptr = next_prod(reader[c].ptr)
    BY <1>0, <2>1 DEF ReaderStates
  <2>3. PICK b \in Listed : b = reader[c].ptr
    BY <1>0, <1>4, <2>2, AtProducer DEF ReaderRight
  <2>4. PICK k \in Nat : k = at.nonEmpty + 1 /\ k > 0
    <3>1. at.nonEmpty \in Nat
      BY DEF ReaderStates
    <3> QED
      BY <3>1
  <2>5. PICK new : new = [at EXCEPT !.nonEmpty = k, !.best = b]
    OBVIOUS
  <2>6. new \in ReaderStates /\ b # 0
    BY <2>3, <2>4, <2>5, FromFacts DEF ReaderStates
  <2>7. /\ new.pc = "score" /\ new.best = b /\ new.nonEmpty = k
        /\ new.count = reader[c].count /\ new.due = reader[c].due
        /\ new.desired = reader[c].desired /\ new.current = reader[c].current
        /\ new.tail = reader[c].tail /\ new.ptr = next_prod(reader[c].ptr)
    BY <2>2, <2>5 DEF Score, ReaderStates
  <2>8. ReaderRight(new)
    BY <1>0, <1>4, <2>3, <2>4, <2>6, <2>7, AtProducer, FromFacts
    DEF Score, ReaderRight, TriedRight
  <2>9. reader' = [reader EXCEPT ![c] = new]
    BY <1>4, <2>1, <2>2, <2>3, <2>4, <2>5
  <2> QED
    BY <1>1, <2>6, <2>8, <2>9, ReaderMoves
<1> QED
  BY <1>2, <1>3, <1>4 DEF Score, Reads

LEMMA ScoredKeepsReaders ==
  ASSUME ListInv, ReaderInv, NEW c \in Readers, Scored(c)
  PROVE  ReaderInv'
<1>0. /\ reader[c] \in ReaderStates /\ reader \in [Readers -> ReaderStates]
      /\ ReaderRight(reader[c]) /\ globalOffset \in Nat
  BY DEF ReaderInv
<1>1. UNCHANGED listVars /\ globalOffset' \in Nat
  BY <1>0 DEF Scored
<1>2. CASE /\ reader' = [reader EXCEPT ![c] = Done(c, TRUE)]
           /\ reader[c].nonEmpty = 0
  <2>1. PICK e \in BOOLEAN : e = (TRUE)
    OBVIOUS
  <2>2. e => LeftToTry(reader[c]) = {}
    BY <1>0, <1>2, <2>1, FromFacts DEF Scored, ReaderRight, TriedRight, LeftToTry
  <2>3. PICK new : new = Done(c, e)
    OBVIOUS
  <2>4. new \in ReaderStates /\ ReaderRight(new)
    BY <2>2, <2>3, DoneRight
  <2>5. reader' = [reader EXCEPT ![c] = new]
    BY <1>2, <2>1, <2>3
  <2> QED
    BY <1>1, <2>4, <2>5, ReaderMoves
<1>3. CASE /\ reader' = [reader EXCEPT ![c] = Done(c, FALSE)]
  <2>1. PICK e \in BOOLEAN : e = (FALSE)
    OBVIOUS
  <2>2. e => LeftToTry(reader[c]) = {}
    BY <2>1
  <2>3. PICK new : new = Done(c, e)
    OBVIOUS
  <2>4. new \in ReaderStates /\ ReaderRight(new)
    BY <2>2, <2>3, DoneRight
  <2>5. reader' = [reader EXCEPT ![c] = new]
    BY <1>3, <2>1, <2>3
  <2> QED
    BY <1>1, <2>4, <2>5, ReaderMoves
<1>4. CASE /\ reader' = [reader EXCEPT ![c] = [ReadGoto(c, "walk0") EXCEPT !.tried =
                 {reader[c].best}]]
           /\ reader[c].nonEmpty > 0
  <2>1. PICK new : new = [ReadGoto(c, "walk0") EXCEPT !.tried = {reader[c].best}]
    OBVIOUS
  <2>2. new \in ReaderStates
    BY <1>0, <1>4, <2>1, FromFacts DEF Scored, ReadGoto, ReaderStates, ReaderPcs, ReaderRight
  <2>3. ReaderRight(new)
    BY <1>0, <1>4, <2>1, FromFacts
    DEF Scored, ReadGoto, ReaderStates, ReaderRight, TriedRight, RoundRight, LeftToTry
  <2>4. reader' = [reader EXCEPT ![c] = new]
    BY <1>4, <2>1
  <2> QED
    BY <1>1, <2>2, <2>3, <2>4, ReaderMoves
<1> QED
  BY <1>2, <1>3, <1>4 DEF Scored, Reads

LEMMA LoadWalkTailKeepsReaders ==
  ASSUME ListInv, ReaderInv, NEW c \in Readers, LoadWalkTail(c)
  PROVE  ReaderInv'
<1>0. /\ reader[c] \in ReaderStates /\ reader \in [Readers -> ReaderStates]
      /\ ReaderRight(reader[c]) /\ globalOffset \in Nat
  BY DEF ReaderInv
<1>1. UNCHANGED listVars /\ globalOffset' \in Nat
  BY <1>0 DEF LoadWalkTail
<1>2. CASE /\ reader' = [reader EXCEPT ![c] = [ReadGoto(c, "walk") EXCEPT !.ptr =
                 producerListTail]]
  <2>1. PICK new : new = [ReadGoto(c, "walk") EXCEPT !.ptr = producerListTail]
    OBVIOUS
  <2>2. new \in ReaderStates
    BY <1>0, <1>2, <2>1, FromFacts DEF LoadWalkTail, ReadGoto, ReaderStates,
       ReaderPcs, ReaderRight
  <2>3. ReaderRight(new)
    BY <1>0, <1>2, <2>1, FromFacts
    DEF LoadWalkTail, ReadGoto, ReaderStates, ReaderRight, TriedRight, RoundRight, LeftToTry
  <2>4. reader' = [reader EXCEPT ![c] = new]
    BY <1>2, <2>1
  <2> QED
    BY <1>1, <2>2, <2>3, <2>4, ReaderMoves
<1> QED
  BY <1>2 DEF LoadWalkTail, Reads

\* A producer that gives nothing is tried; what is left is after it.
LEMMA WalkKeepsReaders ==
  ASSUME ListInv, ReaderInv, NEW c \in Readers, Walk(c)
  PROVE  ReaderInv'
<1>0. /\ reader[c] \in ReaderStates /\ reader \in [Readers -> ReaderStates]
      /\ ReaderRight(reader[c]) /\ globalOffset \in Nat
  BY DEF ReaderInv
<1>1. UNCHANGED listVars /\ globalOffset' \in Nat
  BY <1>0 DEF Walk
<1>2. CASE /\ reader' = [reader EXCEPT ![c] = Done(c, FALSE)]
  <2>1. PICK e \in BOOLEAN : e = (FALSE)
    OBVIOUS
  <2>2. e => LeftToTry(reader[c]) = {}
    BY <2>1
  <2>3. PICK new : new = Done(c, e)
    OBVIOUS
  <2>4. new \in ReaderStates /\ ReaderRight(new)
    BY <2>2, <2>3, DoneRight
  <2>5. reader' = [reader EXCEPT ![c] = new]
    BY <1>2, <2>1, <2>3
  <2> QED
    BY <1>1, <2>4, <2>5, ReaderMoves
<1>3. CASE /\ reader' = [reader EXCEPT ![c] = [[reader[c] EXCEPT !.ptr =
                 next_prod(reader[c].ptr)] EXCEPT !.count = @ + 1]]
           /\ reader[c].ptr # 0
  <2>1. PICK at \in ReaderStates : at = [reader[c] EXCEPT !.ptr = next_prod(reader[c].ptr)]
    BY <1>0, <1>3, AtProducer DEF ReaderStates
  <2>2. PICK new : new = [at EXCEPT !.count = @ + 1]
    OBVIOUS
  <2>3. new \in ReaderStates
    BY <1>0, <1>3, <2>2, AtProducer, FromFacts DEF ReaderStates
  <2>4. ReaderRight(new)
    BY <1>0, <1>3, <2>1, <2>2, AtProducer, FromFacts
    DEF Walk, ReaderStates, ReaderRight, TriedRight, LeftToTry
  <2>5. reader' = [reader EXCEPT ![c] = new]
    BY <1>3, <2>1, <2>2
  <2> QED
    BY <1>1, <2>3, <2>4, <2>5, ReaderMoves
<1>4. CASE /\ reader' = [reader EXCEPT ![c] = [[reader[c] EXCEPT !.ptr =
                 next_prod(reader[c].ptr)] EXCEPT !.tried = @ \cup {reader[c].ptr}]]
           /\ reader[c].ptr # 0
  <2>1. PICK at \in ReaderStates : at = [reader[c] EXCEPT !.ptr = next_prod(reader[c].ptr)]
    BY <1>0, <1>4, AtProducer DEF ReaderStates
  <2>2. PICK new : new = [at EXCEPT !.tried = @ \cup {reader[c].ptr}]
    OBVIOUS
  <2>3. new \in ReaderStates
    BY <1>0, <1>4, <2>2, AtProducer, FromFacts DEF ReaderStates
  <2>4. ReaderRight(new)
    BY <1>0, <1>4, <2>1, <2>2, AtProducer, FromFacts
    DEF Walk, ReaderStates, ReaderRight, TriedRight, LeftToTry
  <2>5. reader' = [reader EXCEPT ![c] = new]
    BY <1>4, <2>1, <2>2
  <2> QED
    BY <1>1, <2>3, <2>4, <2>5, ReaderMoves
<1> QED
  BY <1>2, <1>3, <1>4 DEF Walk, Reads

LEMMA WalkedKeepsReaders ==
  ASSUME ListInv, ReaderInv, NEW c \in Readers, Walked(c)
  PROVE  ReaderInv'
<1>0. /\ reader[c] \in ReaderStates /\ reader \in [Readers -> ReaderStates]
      /\ ReaderRight(reader[c]) /\ globalOffset \in Nat
  BY DEF ReaderInv
<1>1. UNCHANGED listVars /\ globalOffset' \in Nat
  BY <1>0 DEF Walked
<1>2. CASE /\ reader' = [reader EXCEPT ![c] = Done(c, reader[c].count = 0)]
  <2>1. PICK e \in BOOLEAN : e = (reader[c].count = 0)
    OBVIOUS
  <2>2. e => LeftToTry(reader[c]) = {}
    BY <1>0, <1>2, <2>1, FromFacts DEF Walked, ReaderRight, TriedRight, LeftToTry
  <2>3. PICK new : new = Done(c, e)
    OBVIOUS
  <2>4. new \in ReaderStates /\ ReaderRight(new)
    BY <2>2, <2>3, DoneRight
  <2>5. reader' = [reader EXCEPT ![c] = new]
    BY <1>2, <2>1, <2>3
  <2> QED
    BY <1>1, <2>4, <2>5, ReaderMoves
<1> QED
  BY <1>2 DEF Walked, Reads

LEMMA TestRotationKeepsReaders ==
  ASSUME ListInv, ReaderInv, NEW c \in Readers, TestRotation(c)
  PROVE  ReaderInv'
<1>0. /\ reader[c] \in ReaderStates /\ reader \in [Readers -> ReaderStates]
      /\ ReaderRight(reader[c]) /\ globalOffset \in Nat
  BY DEF ReaderInv
<1>1. UNCHANGED listVars /\ globalOffset' \in Nat
  BY <1>0 DEF TestRotation
<1>2. CASE /\ reader' = [reader EXCEPT ![c] = ReadGoto(c, "rotate")]
  <2>1. PICK new : new = ReadGoto(c, "rotate")
    OBVIOUS
  <2>2. new \in ReaderStates
    BY <1>0, <1>2, <2>1, FromFacts DEF TestRotation, ReadGoto, ReaderStates,
       ReaderPcs, ReaderRight
  <2>3. ReaderRight(new)
    BY <1>0, <1>2, <2>1, FromFacts
    DEF TestRotation, ReadGoto, ReaderStates, ReaderRight, TriedRight, RoundRight, LeftToTry
  <2>4. reader' = [reader EXCEPT ![c] = new]
    BY <1>2, <2>1
  <2> QED
    BY <1>1, <2>2, <2>3, <2>4, ReaderMoves
<1>3. CASE /\ reader' = [reader EXCEPT ![c] = ReadGoto(c, "current")]
           /\ ~MustRotate(c)
  <2>1. PICK new : new = ReadGoto(c, "current")
    OBVIOUS
  <2>2. new \in ReaderStates
    BY <1>0, <1>3, <2>1, FromFacts DEF TestRotation, ReadGoto, MustRotate,
       ReaderStates, ReaderPcs, ReaderRight
  <2>3. ReaderRight(new)
    BY <1>0, <1>3, <2>1, FromFacts
    DEF TestRotation, ReadGoto, MustRotate, ReaderStates, ReaderRight, TriedRight,
       RoundRight, LeftToTry
  <2>4. reader' = [reader EXCEPT ![c] = new]
    BY <1>3, <2>1
  <2> QED
    BY <1>1, <2>2, <2>3, <2>4, ReaderMoves
<1> QED
  BY <1>2, <1>3 DEF TestRotation, Reads

LEMMA RotateTailKeepsReaders ==
  ASSUME ListInv, ReaderInv, NEW c \in Readers, RotateTail(c)
  PROVE  ReaderInv'
<1>0. /\ reader[c] \in ReaderStates /\ reader \in [Readers -> ReaderStates]
      /\ ReaderRight(reader[c]) /\ globalOffset \in Nat
  BY DEF ReaderInv
<1>1. UNCHANGED listVars /\ globalOffset' \in Nat
  BY <1>0 DEF RotateTail
<1>2. CASE /\ reader' = [reader EXCEPT ![c] = Done(c, TRUE)]
           /\ producerListTail = 0
  <2>1. PICK e \in BOOLEAN : e = (TRUE)
    OBVIOUS
  <2>2. e => LeftToTry(reader[c]) = {}
    BY <1>0, <1>2, <2>1, FromFacts DEF RotateTail, ReaderRight, TriedRight, LeftToTry
  <2>3. PICK new : new = Done(c, e)
    OBVIOUS
  <2>4. new \in ReaderStates /\ ReaderRight(new)
    BY <2>2, <2>3, DoneRight
  <2>5. reader' = [reader EXCEPT ![c] = new]
    BY <1>2, <2>1, <2>3
  <2> QED
    BY <1>1, <2>4, <2>5, ReaderMoves
<1>3. CASE /\ reader' = [reader EXCEPT ![c] = [ReadGoto(c, "prodcount") EXCEPT
                 !.tail = producerListTail]]
           /\ ~(reader[c].desired = 0 /\ producerListTail = 0)
  <2>1. PICK new : new = [ReadGoto(c, "prodcount") EXCEPT !.tail = producerListTail]
    OBVIOUS
  <2>2. new \in ReaderStates
    BY <1>0, <1>3, <2>1, FromFacts DEF RotateTail, ReadGoto, ReaderStates,
       ReaderPcs, ReaderRight
  <2>3. ReaderRight(new)
    BY <1>0, <1>3, <2>1, FromFacts
    DEF RotateTail, ReadGoto, ReaderStates, ReaderRight, TriedRight, RoundRight, LeftToTry
  <2>4. reader' = [reader EXCEPT ![c] = new]
    BY <1>3, <2>1
  <2> QED
    BY <1>1, <2>2, <2>3, <2>4, ReaderMoves
<1> QED
  BY <1>2, <1>3 DEF RotateTail, Reads

-----------------------------------------------------------------------------
(* Readers: with a token. *)

\* f goes n producers on from p, round the list from its tail.
Goes(f, p, n, tail) ==
  f = [k \in 0..n |->
         IF k = 0 THEN p
         ELSE IF next_prod(f[k - 1]) = 0 THEN tail ELSE next_prod(f[k - 1])]

\* The places of a rotation: the recursive function exists.
LEMMA Going ==
  ASSUME NEW p, NEW tail, NEW n \in Nat
  PROVE  \E f : Goes(f, p, n, tail)
<1> DEFINE Is(f, m) == Goes(f, p, m, tail)
           Without == {m \in Nat : ~\E f : Is(f, m)}
<1>1. SUFFICES ASSUME Without # {}
               PROVE  FALSE
  OBVIOUS
<1>2. PICK m \in Without : \A k \in Without : m <= k
  BY <1>1, Least
<1>3. m # 0
  <2>1. Is([k \in 0..0 |-> p], 0)
    BY DEF Goes
  <2> QED
    BY <2>1
<1>4. m - 1 \in Nat /\ m - 1 \notin Without
  <2>1. m \in Nat /\ m - 1 \in Nat /\ ~(m <= m - 1)
    BY <1>3
  <2> HIDE DEF Without
  <2> QED
    BY <1>2, <2>1
<1>5. PICK f : Is(f, m - 1)
  BY <1>4
<1> DEFINE after(q) == IF next_prod(q) = 0 THEN tail ELSE next_prod(q)
           g == [k \in 0..m |-> IF k = m THEN after(f[m - 1]) ELSE f[k]]
<1>6. \A k \in 0..(m - 1) : f[k] = IF k = 0 THEN p ELSE after(f[k - 1])
  BY <1>5 DEF Goes
<1> HIDE DEF after
<1>7. ASSUME NEW k \in 0..m
      PROVE  g[k] = IF k = 0 THEN p ELSE after(g[k - 1])
  <2>1. CASE k = m
    BY <2>1, <1>3
  <2>2. CASE k # m
    <3>1. k \in 0..(m - 1)
      BY <2>2
    <3>2. g[k] = f[k] /\ (k # 0 => g[k - 1] = f[k - 1])
      BY <3>1
    <3> QED
      BY <3>1, <3>2, <1>6
  <2> QED
    BY <2>1, <2>2
<1>8. Is(g, m)
  BY <1>7 DEF Goes, after
<1> QED
  BY <1>8

\* The rotation arrives at a producer of the list.
LEMMA OnwardListed ==
  ASSUME ListInv, NEW p \in Listed, NEW n \in Nat, NEW tail \in Listed
  PROVE  Onward(p, n, tail) \in Listed
<1> DEFINE at == CHOOSE f : f = [k \in 0..n |->
                   IF k = 0 THEN p
                   ELSE IF next_prod(f[k - 1]) = 0 THEN tail ELSE next_prod(f[k - 1])]
<1>1. Onward(p, n, tail) = at[n]
  BY DEF Onward
<1>2. at = [k \in 0..n |->
              IF k = 0 THEN p
              ELSE IF next_prod(at[k - 1]) = 0 THEN tail ELSE next_prod(at[k - 1])]
  <2>1. \E f : Goes(f, p, n, tail)
    BY Going
  <2>2. \E f : f = [k \in 0..n |->
                 IF k = 0 THEN p
                 ELSE IF next_prod(f[k - 1]) = 0 THEN tail ELSE next_prod(f[k - 1])]
    BY <2>1 DEF Goes
  <2> QED
    BY <2>2
<1> HIDE DEF at
<1>3. \A k \in 0..n : at[k] =
         IF k = 0 THEN p
         ELSE IF next_prod(at[k - 1]) = 0 THEN tail ELSE next_prod(at[k - 1])
  BY <1>2
<1> DEFINE Off == {k \in 0..n : at[k] \notin Listed}
<1>4. Off = {}
  <2>1. SUFFICES ASSUME Off # {}
                 PROVE  FALSE
    OBVIOUS
  <2>2. PICK k \in Off : \A j \in Off : k <= j
    <3>1. Off \in SUBSET Nat
      OBVIOUS
    <3> HIDE DEF Off
    <3> QED
      BY <2>1, <3>1, Least
  <2>3. k # 0
    BY <1>3
  <2>4. k - 1 \in 0..n /\ k - 1 \notin Off
    BY <2>2, <2>3
  <2>5. next_prod(at[k - 1]) \in Listed \cup {0}
    BY <2>4, FromFacts
  <2> QED
    BY <2>3, <2>5, <1>3
<1> QED
  BY <1>1, <1>4

\* A call starts: it has the whole list to look at.
LEMMA StartReadKeepsReaders ==
  ASSUME ListInv, ReaderInv, NEW c \in Readers, NEW maxes \in SUBSET Nat,
         NEW pc \in {"score0", "walk0", "token"}, StartRead(c, pc, maxes)
  PROVE  ReaderInv'
<1>0. /\ reader[c] \in ReaderStates /\ reader \in [Readers -> ReaderStates]
      /\ ReaderRight(reader[c]) /\ globalOffset \in Nat
  BY DEF ReaderInv
<1>1. UNCHANGED listVars /\ globalOffset' \in Nat
  BY <1>0 DEF StartRead
<1>2. PICK max \in maxes :
        reader' = [reader EXCEPT ![c] = [ReadGoto(c, pc) EXCEPT !.due = Listed, !.max = max]]
  BY DEF StartRead, Reads
<1>3. PICK new : new = [ReadGoto(c, pc) EXCEPT !.due = Listed, !.max = max]
  OBVIOUS
<1>4. new \in ReaderStates
  <2>1. Listed \in SUBSET AllProducers /\ max \in Nat
    BY FromFacts
  <2> QED
    BY <1>0, <1>3, <2>1 DEF ReadGoto, ReaderStates, ReaderPcs
<1>5. /\ new.pc = pc /\ new.due = Listed /\ new.ptr = reader[c].ptr
      /\ new.tail = reader[c].tail /\ new.best = reader[c].best
      /\ new.desired = reader[c].desired /\ new.current = reader[c].current
      /\ new.nonEmpty = reader[c].nonEmpty /\ new.count = reader[c].count
      /\ reader[c].pc = "idle"
  BY <1>0, <1>3 DEF ReadGoto, ReaderStates, StartRead
<1>6. ReaderRight(new)
  BY <1>0, <1>5 DEF ReaderRight, TriedRight
<1>7. reader' = [reader EXCEPT ![c] = new]
  BY <1>2, <1>3
<1> QED
  BY <1>1, <1>4, <1>6, <1>7, ReaderMoves

LEMMA StartKeepsReaders ==
  ASSUME ListInv, ReaderInv, NEW c \in Readers,
         try_dequeue(c) \/ try_dequeue_bulk(c) \/ token_dequeue(c)
  PROVE  ReaderInv'
<1>1. {1} \in SUBSET Nat /\ {1, Bulk} \in SUBSET Nat
  BY ListAssumption
<1>2. \/ StartRead(c, "score0", {1}) \/ StartRead(c, "walk0", {1, Bulk})
      \/ StartRead(c, "token", {1, Bulk})
  BY DEF try_dequeue, try_dequeue_bulk, token_dequeue
<1> QED
  BY <1>1, <1>2, StartReadKeepsReaders

\* The list has a producer, so the count is not zero.
LEMMA RotateCountKeepsReaders ==
  ASSUME ListInv, ReaderInv, NEW c \in Readers, RotateCount(c)
  PROVE  ReaderInv'
<1>0. /\ reader[c] \in ReaderStates /\ reader \in [Readers -> ReaderStates]
      /\ ReaderRight(reader[c]) /\ globalOffset \in Nat
  BY DEF ReaderInv
<1>1. UNCHANGED listVars /\ globalOffset' \in Nat
  BY <1>0 DEF RotateCount
<1>2. reader' = [reader EXCEPT ![c] = [ReadGoto(c, "offset") EXCEPT !.count = producerCount]]
  BY DEF RotateCount, Reads
<1>3. producerCount \in Nat /\ producerCount > 0
  <2>1. reader[c].tail \in AllProducers
    BY <1>0, FromFacts DEF RotateCount, ReaderRight
  <2> QED
    BY <2>1 DEF ListInv, ListTypeOK, AllProducers
<1>4. PICK new : new = [ReadGoto(c, "offset") EXCEPT !.count = producerCount]
  OBVIOUS
<1>5. new \in ReaderStates
  BY <1>0, <1>3, <1>4 DEF ReadGoto, ReaderStates, ReaderPcs
<1>6. /\ new.pc = "offset" /\ new.due = reader[c].due /\ new.ptr = reader[c].ptr
      /\ new.tail = reader[c].tail /\ new.best = reader[c].best
      /\ new.desired = reader[c].desired /\ new.current = reader[c].current
      /\ new.nonEmpty = reader[c].nonEmpty /\ new.count = producerCount
      /\ reader[c].pc = "prodcount"
  BY <1>0, <1>4 DEF ReadGoto, ReaderStates, RotateCount
<1>7. ReaderRight(new)
  BY <1>0, <1>3, <1>6 DEF ReaderRight, TriedRight
<1>8. reader' = [reader EXCEPT ![c] = new]
  BY <1>2, <1>4
<1> QED
  BY <1>1, <1>5, <1>7, <1>8, ReaderMoves

\* The token is set to a producer of the list.
LEMMA RotateOffsetKeepsReaders ==
  ASSUME ListInv, ReaderInv, NEW c \in Readers, RotateOffset(c)
  PROVE  ReaderInv'
<1>0. /\ reader[c] \in ReaderStates /\ reader \in [Readers -> ReaderStates]
      /\ ReaderRight(reader[c]) /\ globalOffset \in Nat
  BY DEF ReaderInv
<1>1. UNCHANGED listVars /\ globalOffset' \in Nat
  BY <1>0 DEF RotateOffset
<1> DEFINE me == reader[c]
           start == IF me.desired # 0 THEN me.desired
                    ELSE Onward(me.tail, me.count - 1 - (InitialOffsets[c] % me.count), me.tail)
           place == Onward(start, (globalOffset - me.known) % me.count, me.tail)
<1>2. /\ me.pc = "offset"
      /\ reader' = [reader EXCEPT ![c] = [ReadGoto(c, "current") EXCEPT
                    !.desired = place, !.current = place, !.consumed = 0,
                    !.known = globalOffset, !.tail = 0, !.count = 0]]
  BY DEF RotateOffset, Reads
<1>3. me.tail \in Listed /\ me.count \in Nat \ {0} /\ me.known \in Int /\ me.desired
      \in Listed \cup {0}
  BY <1>0, <1>2 DEF ReaderRight, ReaderStates
<1>4. me.count - 1 - (InitialOffsets[c] % me.count) \in Nat
  <2>1. InitialOffsets[c] \in Nat
    BY ListAssumption
  <2>2. InitialOffsets[c] % me.count \in 0..(me.count - 1)
    BY <1>3, <2>1
  <2> QED
    BY <1>3, <2>2
<1>5. (globalOffset - me.known) % me.count \in Nat
  <2>1. globalOffset - me.known \in Int
    BY <1>0, <1>3
  <2> QED
    BY <1>3, <2>1
<1>6. start \in Listed
  BY <1>3, <1>4, OnwardListed
<1>7. PICK p \in Listed : p = place
  <2> HIDE DEF start
  <2> QED
    BY <1>3, <1>5, <1>6, OnwardListed
<1> HIDE DEF place, start
<1>8. PICK new : new = [ReadGoto(c, "current") EXCEPT
                    !.desired = p, !.current = p, !.consumed = 0,
                    !.known = globalOffset, !.tail = 0, !.count = 0]
  OBVIOUS
<1>9. p # 0 /\ p \in OrNone /\ 0 \in OrNone /\ globalOffset \in Int
  BY <1>0, FromFacts
<1>10. new \in ReaderStates
  BY <1>0, <1>8, <1>9 DEF ReadGoto, ReaderStates, ReaderPcs
<1>11. /\ new.pc = "current" /\ new.due = me.due /\ new.ptr = me.ptr
       /\ new.tail = 0 /\ new.best = me.best /\ new.desired = p /\ new.current = p
       /\ new.nonEmpty = me.nonEmpty /\ new.count = 0
  BY <1>0, <1>8 DEF ReadGoto, ReaderStates
<1>12. ReaderRight(new)
  BY <1>0, <1>9, <1>11 DEF ReaderRight, TriedRight
<1>13. reader' = [reader EXCEPT ![c] = new]
  BY <1>2, <1>7, <1>8
<1> QED
  BY <1>1, <1>10, <1>12, <1>13, ReaderMoves

LEMMA CurrentGivesKeepsReaders ==
  ASSUME ListInv, ReaderInv, NEW c \in Readers, CurrentGives(c)
  PROVE  ReaderInv'
<1>0. /\ reader[c] \in ReaderStates /\ reader \in [Readers -> ReaderStates]
      /\ ReaderRight(reader[c]) /\ globalOffset \in Nat
  BY DEF ReaderInv
<1>1. UNCHANGED listVars /\ globalOffset' \in Nat
  <2>1. globalOffset + 0 \in Nat /\ globalOffset + 1 \in Nat
    BY <1>0
  <2> QED
    BY <2>1 DEF CurrentGives
<1>2. PICK k \in Nat : k = reader[c].consumed + reader[c].max
  <2>1. reader[c].consumed \in Nat /\ reader[c].max \in Nat
    BY <1>0 DEF ReaderStates
  <2> QED
    BY <2>1
<1>3. PICK e \in BOOLEAN : e = FALSE
  OBVIOUS
<1>4. PICK over : over = Done(c, e)
  OBVIOUS
<1>5. over \in ReaderStates /\ ReaderRight(over)
  BY <1>3, <1>4, DoneRight
<1>6. PICK new : new = [over EXCEPT !.consumed = k]
  OBVIOUS
<1>7. new \in ReaderStates
  BY <1>5, <1>6 DEF ReaderStates
<1>8. ReaderRight(new)
  BY <1>5, <1>6
  DEF ReaderStates, ReaderRight, TriedRight, RoundRight, LeftToTry
<1>9. reader' = [reader EXCEPT ![c] = new]
  BY <1>2, <1>3, <1>4, <1>6 DEF CurrentGives, Reads
<1> QED
  BY <1>1, <1>7, <1>8, <1>9, ReaderMoves

LEMMA CurrentFailsKeepsReaders ==
  ASSUME ListInv, ReaderInv, NEW c \in Readers, CurrentFails(c)
  PROVE  ReaderInv'
<1>0. /\ reader[c] \in ReaderStates /\ reader \in [Readers -> ReaderStates]
      /\ ReaderRight(reader[c]) /\ globalOffset \in Nat
  BY DEF ReaderInv
<1>1. UNCHANGED listVars /\ globalOffset' \in Nat
  BY <1>0 DEF CurrentFails
<1> DEFINE me == reader[c]
<1>2. PICK d \in 0..(me.max - 1) :
        reader' = [reader EXCEPT ![c] = [ReadGoto(c, "others") EXCEPT
                   !.consumed = @ + d, !.max = @ - d, !.count = d,
                   !.tried = IF d = 0 THEN @ \cup {me.current} ELSE @]]
  BY DEF CurrentFails, Reads
<1>3. me.consumed \in Nat /\ me.max \in Nat /\ me.tried \in SUBSET AllProducers
  BY <1>0 DEF ReaderStates
<1>4. me.current \in AllProducers /\ me.current # 0
  BY <1>0, FromFacts DEF ReaderRight, CurrentFails
<1>5. PICK i \in Nat : i = me.consumed + d
  BY <1>3
<1>6. PICK m \in Nat : m = me.max - d
  BY <1>3
<1>7. PICK tried \in SUBSET AllProducers :
        tried = IF d = 0 THEN me.tried \cup {me.current} ELSE me.tried
  BY <1>3, <1>4
<1>8. PICK new : new = [ReadGoto(c, "others") EXCEPT
                   !.consumed = i, !.max = m, !.count = d, !.tried = tried]
  OBVIOUS
<1>9. new \in ReaderStates
  <2>1. d \in Nat
    BY <1>3
  <2> QED
    BY <1>0, <1>8, <2>1 DEF ReadGoto, ReaderStates, ReaderPcs
<1>10. /\ new.pc = "others" /\ new.due = me.due /\ new.ptr = me.ptr
       /\ new.tail = me.tail /\ new.best = me.best /\ new.desired = me.desired
       /\ new.current = me.current /\ new.nonEmpty = me.nonEmpty
       /\ new.count = d /\ new.tried = tried
  BY <1>0, <1>8 DEF ReadGoto, ReaderStates
<1>11. ReaderRight(new)
  BY <1>0, <1>4, <1>7, <1>10 DEF ReaderRight, TriedRight
<1>12. reader' = [reader EXCEPT ![c] = new]
  BY <1>0, <1>2, <1>5, <1>6, <1>7, <1>8 DEF ReadGoto, ReaderStates
<1> QED
  BY <1>1, <1>9, <1>11, <1>12, ReaderMoves

\* The round begins after the current producer and, past the end, at the tail.
LEMMA LoadOthersTailKeepsReaders ==
  ASSUME ListInv, ReaderInv, NEW c \in Readers, LoadOthersTail(c)
  PROVE  ReaderInv'
<1>0. /\ reader[c] \in ReaderStates /\ reader \in [Readers -> ReaderStates]
      /\ ReaderRight(reader[c]) /\ globalOffset \in Nat
  BY DEF ReaderInv
<1>1. UNCHANGED listVars /\ globalOffset' \in Nat
  BY <1>0 DEF LoadOthersTail
<1> DEFINE me == reader[c]
<1>2. PICK next : next = next_prod(me.current)
  OBVIOUS
<1>3. PICK first : first = WrapTo(next, producerListTail)
  OBVIOUS
<1>4. PICK new : new = [ReadGoto(c, "round") EXCEPT !.tail = producerListTail, !.ptr = first]
  OBVIOUS
<1>5. me.pc = "others" /\ reader' = [reader EXCEPT ![c] = new]
  BY <1>2, <1>3, <1>4 DEF LoadOthersTail, Reads
<1>6. /\ me.current \in Listed /\ me.current # 0
      /\ From(me.current) = {me.current} \cup From(next) /\ next \in Listed \cup {0}
  BY <1>0, <1>2, <1>5, FromFacts DEF ReaderRight
<1>7. producerListTail \in Listed /\ producerListTail # 0 /\ From(producerListTail) = Listed
  BY <1>6, FromFacts
<1>8. first \in Listed
  BY <1>3, <1>6, <1>7 DEF WrapTo
<1>9. new \in ReaderStates
  BY <1>0, <1>4, <1>7, <1>8, FromFacts DEF ReadGoto, ReaderStates, ReaderPcs
<1>10. /\ new.pc = "round" /\ new.due = me.due /\ new.ptr = first
       /\ new.tail = producerListTail /\ new.best = me.best /\ new.desired = me.desired
       /\ new.current = me.current /\ new.nonEmpty = me.nonEmpty
       /\ new.count = me.count /\ new.tried = me.tried
  BY <1>0, <1>4 DEF ReadGoto, ReaderStates
<1>11. me.count = 0 => RoundRight(new)
  <2> SUFFICES ASSUME me.count = 0
               PROVE  RoundRight(new)
    OBVIOUS
  <2>1. me.current \in me.tried /\ me.due \subseteq Listed
    BY <1>0, <1>5 DEF ReaderRight, TriedRight
  <2>2. LeftToTry(new) \subseteq Listed \ {me.current}
    BY <1>10, <2>1 DEF LeftToTry
  <2>3. CASE next # 0
    <3>1. first = next /\ first \in From(next_prod(new.current))
      BY <1>2, <1>3, <1>8, <1>10, <2>3, FromFacts DEF WrapTo
    <3>2. LeftToTry(new) \subseteq From(first) \cup (From(new.tail) \ From(new.current))
      BY <1>6, <1>7, <1>10, <2>2, <3>1
    <3> QED
      BY <1>6, <1>7, <1>10, <2>1, <3>1, <3>2 DEF RoundRight
  <2>4. CASE next = 0
    <3>1. first = producerListTail /\ From(me.current) = {me.current}
      BY <1>3, <1>6, <2>4, FromFacts DEF WrapTo
    <3>2. LeftToTry(new) \subseteq From(first) \ From(new.current)
      BY <1>7, <1>10, <2>2, <3>1
    <3> QED
      BY <1>6, <1>7, <1>10, <2>1, <3>1, <3>2 DEF RoundRight
  <2> QED
    BY <2>3, <2>4
<1>12. ReaderRight(new)
  BY <1>0, <1>6, <1>7, <1>8, <1>10, <1>11 DEF ReaderRight, TriedRight
<1> QED
  BY <1>1, <1>5, <1>9, <1>12, ReaderMoves

\* A producer that gives nothing is tried; the round goes on after it or wraps.
LEMMA RoundKeepsReaders ==
  ASSUME ListInv, ReaderInv, NEW c \in Readers, Round(c)
  PROVE  ReaderInv'
<1>0. /\ reader[c] \in ReaderStates /\ reader \in [Readers -> ReaderStates]
      /\ ReaderRight(reader[c]) /\ globalOffset \in Nat
  BY DEF ReaderInv
<1>1. UNCHANGED listVars /\ globalOffset' \in Nat
  BY <1>0 DEF Round
<1> DEFINE me == reader[c]
<1>2. /\ me.pc = "round" /\ me.ptr \in Listed /\ me.ptr # 0 /\ me.ptr # me.current
      /\ me.ptr \in OrNone /\ me.ptr \in AllProducers
      /\ me.max \in Nat /\ me.count \in Nat /\ me.tried \in SUBSET AllProducers
      /\ me.tail \in Listed \cup {0} /\ me.current \in Listed /\ me.current # 0
  BY <1>0, FromFacts DEF Round, ReaderRight, ReaderStates
<1>3. PICK next \in Listed \cup {0} : next = next_prod(me.ptr)
  BY <1>2, FromFacts
<1>4. PICK on \in Listed \cup {0} : on = WrapTo(next, me.tail)
  BY <1>2, <1>3 DEF WrapTo
<1>5. PICK d \in 0..me.max :
        LET gave == IF d = 0 THEN [me EXCEPT !.tried = @ \cup {me.ptr}]
                    ELSE [me EXCEPT !.current = me.ptr, !.consumed = d,
                                    !.count = @ + d, !.max = @ - d]
        IN reader' = [reader EXCEPT ![c] =
             IF d = me.max
             THEN [Done(c, FALSE) EXCEPT !.current = me.ptr, !.consumed = d]
             ELSE [gave EXCEPT !.ptr = on]]
  BY <1>3, <1>4 DEF Round, Reads
<1>6. d \in Nat /\ d <= me.max
  BY <1>2
<1>7. CASE d = me.max
  <2>1. PICK e \in BOOLEAN : e = FALSE
    OBVIOUS
  <2>2. PICK over : over = Done(c, e)
    OBVIOUS
  <2>3. over \in ReaderStates /\ ReaderRight(over)
    BY <2>1, <2>2, DoneRight
  <2>4. over.pc = "done" /\ over.empty = FALSE
    BY <1>0, <2>1, <2>2 DEF Done, ReaderStates
  <2>5. PICK new : new = [over EXCEPT !.current = me.ptr, !.consumed = d]
    OBVIOUS
  <2>6. new \in ReaderStates
    BY <1>2, <1>6, <2>3, <2>5 DEF ReaderStates
  <2>7. /\ new.pc = "done" /\ new.empty = FALSE /\ new.due = over.due /\ new.ptr = over.ptr
        /\ new.tail = over.tail /\ new.best = over.best /\ new.desired = over.desired
        /\ new.current = me.ptr /\ new.nonEmpty = over.nonEmpty /\ new.count = over.count
    BY <2>3, <2>4, <2>5 DEF ReaderStates
  <2>8. ReaderRight(new)
    BY <1>2, <2>3, <2>4, <2>7 DEF ReaderRight, TriedRight
  <2>9. reader' = [reader EXCEPT ![c] = new]
    BY <1>5, <1>7, <2>1, <2>2, <2>5
  <2> QED
    BY <1>1, <2>6, <2>8, <2>9, ReaderMoves
<1>8. CASE d # me.max /\ d # 0
  <2>1. PICK k \in Nat : k = me.count + d /\ k # 0
    BY <1>2, <1>6, <1>8
  <2>2. PICK m \in Nat : m = me.max - d
    BY <1>2, <1>6
  <2>3. PICK new : new = [me EXCEPT !.current = me.ptr, !.consumed = d,
                                    !.count = k, !.max = m, !.ptr = on]
    OBVIOUS
  <2>4. new \in ReaderStates
    BY <1>0, <1>2, <1>4, <1>6, <2>3, FromFacts DEF ReaderStates
  <2>5. /\ new.pc = "round" /\ new.due = me.due /\ new.ptr = on
        /\ new.tail = me.tail /\ new.best = me.best /\ new.desired = me.desired
        /\ new.current = me.ptr /\ new.nonEmpty = me.nonEmpty /\ new.count = k
    BY <1>0, <1>2, <2>3 DEF ReaderStates
  <2>6. ReaderRight(new)
    BY <1>0, <1>2, <1>4, <2>1, <2>5 DEF ReaderRight, TriedRight
  <2>7. reader' = [reader EXCEPT ![c] = new]
    <3>1. [[me EXCEPT !.current = me.ptr, !.consumed = d,
                      !.count = @ + d, !.max = @ - d] EXCEPT !.ptr = on] = new
      BY <1>0, <2>1, <2>2, <2>3 DEF ReaderStates
    <3> QED
      BY <1>5, <1>8, <3>1
  <2> QED
    BY <1>1, <2>4, <2>6, <2>7, ReaderMoves
<1>9. CASE d # me.max /\ d = 0
  <2>1. PICK tried \in SUBSET AllProducers : tried = me.tried \cup {me.ptr}
    BY <1>2
  <2>2. PICK new : new = [me EXCEPT !.tried = tried, !.ptr = on]
    OBVIOUS
  <2>3. new \in ReaderStates
    BY <1>0, <1>4, <2>2, FromFacts DEF ReaderStates
  <2>4. /\ new.pc = "round" /\ new.due = me.due /\ new.ptr = on /\ new.tried = tried
        /\ new.tail = me.tail /\ new.best = me.best /\ new.desired = me.desired
        /\ new.current = me.current /\ new.nonEmpty = me.nonEmpty /\ new.count = me.count
    BY <1>0, <1>2, <2>2 DEF ReaderStates
  <2>5. me.count = 0 => RoundRight(new)
    <3> SUFFICES ASSUME me.count = 0
                 PROVE  RoundRight(new)
      OBVIOUS
    <3>1. RoundRight(me)
      BY <1>0, <1>2 DEF ReaderRight, TriedRight
    <3>2. LeftToTry(new) = LeftToTry(me) \ {me.ptr}
      BY <2>1, <2>4 DEF LeftToTry
    <3>3. From(me.ptr) = {me.ptr} \cup From(next)
      BY <1>2, <1>3, FromFacts
    <3>4. new.tail # 0 /\ new.current \in From(new.tail) \cap new.tried
      BY <2>1, <2>4, <3>1 DEF RoundRight
    <3>5. PICK after \in Listed \cup {0} : after = next_prod(me.current)
      BY <1>2, FromFacts
    <3>6. CASE /\ me.ptr \in From(after)
               /\ LeftToTry(me) \subseteq From(me.ptr) \cup (From(me.tail) \ From(me.current))
      <4>1. CASE next # 0
        <5>1. after \in Listed
          BY <3>5, <3>6, FromFacts
        <5>2. next \in From(after) /\ on = next
          BY <1>3, <1>4, <3>6, <4>1, <5>1, FromFacts DEF WrapTo
        <5>3. LeftToTry(new) \subseteq From(on) \cup (From(new.tail) \ From(new.current))
          BY <2>4, <3>2, <3>3, <3>6, <5>2
        <5> QED
          BY <2>4, <3>4, <3>5, <5>2, <5>3 DEF RoundRight
      <4>2. CASE next = 0
        <5>1. on = me.tail /\ From(me.ptr) = {me.ptr}
          BY <1>4, <3>3, <4>2, FromFacts DEF WrapTo
        <5>2. LeftToTry(new) \subseteq From(on) \ From(new.current)
          BY <2>4, <3>2, <3>6, <5>1
        <5>3. new.current \in From(on)
          BY <2>4, <3>4, <5>1
        <5> QED
          BY <2>4, <3>4, <5>2, <5>3 DEF RoundRight
      <4> QED
        BY <4>1, <4>2
    <3>7. CASE /\ me.current \in From(me.ptr)
               /\ LeftToTry(me) \subseteq From(me.ptr) \ From(me.current)
      <4>1. me.current \in From(next) /\ next # 0
        BY <1>2, <3>3, <3>7, FromFacts
      <4>2. on = next
        BY <1>4, <4>1 DEF WrapTo
      <4>3. LeftToTry(new) \subseteq From(on) \ From(new.current)
        BY <2>4, <3>2, <3>3, <3>7, <4>2
      <4> QED
        BY <2>4, <3>4, <4>1, <4>2, <4>3 DEF RoundRight
    <3> QED
      BY <3>1, <3>5, <3>6, <3>7 DEF RoundRight
  <2>6. ReaderRight(new)
    BY <1>0, <1>2, <1>4, <2>4, <2>5 DEF ReaderRight, TriedRight
  <2>7. reader' = [reader EXCEPT ![c] = new]
    <3>1. [[me EXCEPT !.tried = @ \cup {me.ptr}] EXCEPT !.ptr = on] = new
      BY <1>0, <2>1, <2>2 DEF ReaderStates
    <3> QED
      BY <1>5, <1>9, <3>1
  <2> QED
    BY <1>1, <2>3, <2>6, <2>7, ReaderMoves
<1> QED
  BY <1>7, <1>8, <1>9

\* A round ends where it began only after it wrapped: nothing is left to try.
LEMMA RoundOverKeepsReaders ==
  ASSUME ListInv, ReaderInv, NEW c \in Readers, RoundOver(c)
  PROVE  ReaderInv'
<1>0. /\ reader[c] \in ReaderStates /\ reader \in [Readers -> ReaderStates]
      /\ ReaderRight(reader[c]) /\ globalOffset \in Nat
  BY DEF ReaderInv
<1>1. UNCHANGED listVars /\ globalOffset' \in Nat
  BY <1>0 DEF RoundOver
<1> DEFINE me == reader[c]
<1>2. /\ me.pc = "round" /\ me.ptr \in {0, me.current}
      /\ me.current \in Listed
  BY <1>0 DEF RoundOver, ReaderRight
<1>3. PICK e \in BOOLEAN : e = (me.count = 0)
  OBVIOUS
<1>4. e => LeftToTry(reader[c]) = {}
  <2> SUFFICES ASSUME me.count = 0
               PROVE  LeftToTry(me) = {}
    BY <1>3
  <2>1. RoundRight(me)
    BY <1>0, <1>2 DEF ReaderRight, TriedRight
  <2>2. ~(me.ptr \in From(next_prod(me.current)))
    <3>1. From(next_prod(me.current)) \subseteq Listed /\ me.current \notin
          From(next_prod(me.current))
      BY <1>2, FromFacts
    <3> QED
      BY <1>2, <3>1, FromFacts
  <2>3. me.current \in From(me.ptr) /\ LeftToTry(me) \subseteq From(me.ptr) \ From(me.current)
    BY <2>1, <2>2 DEF RoundRight
  <2>4. me.ptr = me.current
    BY <1>2, <2>3, FromFacts
  <2> QED
    BY <2>3, <2>4
<1>5. PICK new : new = Done(c, e)
  OBVIOUS
<1>6. new \in ReaderStates /\ ReaderRight(new)
  BY <1>4, <1>5, DoneRight
<1>7. reader' = [reader EXCEPT ![c] = new]
  BY <1>3, <1>5 DEF RoundOver, Reads
<1> QED
  BY <1>1, <1>6, <1>7, ReaderMoves

-----------------------------------------------------------------------------
(* The four invariants together, and the theorems. *)

\* The inductive invariant.
ProducerListInv == ListInv /\ HashInv /\ RoomInv /\ ReaderInv

\* The initial state.
LEMMA ListStarts ==
  ASSUME ProducerListInit
  PROVE  ListInv
<1>1. /\ producers = <<>> /\ producerListTail = 0 /\ producerCount = 0
      /\ thread = [t \in Enqueuers |-> AtEase]
  BY DEF ProducerListInit
<1>2. Len(producers) = 0 /\ AllProducers = {} /\ OrNone = {0}
  BY <1>1 DEF AllProducers, OrNone
<1>3. AtEase \in ThreadStates
  BY <1>2 DEF AtEase, ThreadStates, ThreadPcs
<1>4. ListTypeOK
  BY <1>1, <1>2, <1>3 DEF ListTypeOK
<1>5. Listed = {}
  BY <1>1, ChainOfNone DEF Listed
<1>6. AtEase = [AtEase EXCEPT !.token = AtEase.token, !.mine = AtEase.mine]
  BY DEF AtEase
<1>7. \A t \in Enqueuers : Knows(t, AtEase, producers, producerListTail)
  <2>1. AtEase.pc = "idle" /\ AtEase.isExplicit = FALSE /\ AtEase.token = 0
    BY DEF AtEase
  <2> QED
    BY <1>6, <2>1 DEF Knows, HandPcs, MakingPcs
<1>8. \A t \in Enqueuers : Knows(t, thread[t], producers, producerListTail)
  BY <1>1, <1>7
<1>9. OneOwnerEach /\ ListRight
  BY <1>2, <1>5 DEF OneOwnerEach, ListRight
<1> QED
  BY <1>4, <1>8, <1>9 DEF ListInv

LEMMA HashStarts ==
  ASSUME ProducerListInit
  PROVE  HashInv /\ RoomInv
<1>1. HashSize \in Nat \ {0}
  BY ListAssumption
<1>2. PICK table : table = EmptyTable(HashSize)
  OBVIOUS
<1>3. /\ table \in TableStates /\ \A u \in Enqueuers : ~IsIn(u, table)
      /\ \A k \in Slots(table) : table.value[k] = 0
  BY <1>1, <1>2, EmptyTableTyped
<1>4. /\ tables = <<table>> /\ hashCount = 0 /\ thread = [t \in Enqueuers |-> AtEase]
      /\ producers = <<>>
  BY <1>2 DEF ProducerListInit
<1>5. Len(tables) = 1 /\ AllTables = {1} /\ tables[1] = table /\ 0 \in OrNone
  BY <1>4 DEF AllTables, OrNone
<1>6. HashTypeOK
  BY <1>3, <1>4, <1>5 DEF HashTypeOK
<1>7. \A t \in Enqueuers, i \in 1..Len(tables) : ~IsIn(t, tables[i])
  BY <1>3, <1>5
<1>8. AtEase.pc = "idle" /\ AtEase.index = 0 /\ AtEase.mine = 0 /\ AtEase.isExplicit = FALSE
  BY DEF AtEase
<1>9. ASSUME NEW t \in Enqueuers
      PROVE  KeepThread(t, tables) /\ KnowsTables(t, AtEase, tables)
  <2>1. KnowsTables(t, AtEase, tables)
    BY <1>8 DEF KnowsTables, Registers, MakingPcs
  <2>2. HasValue(t, 1, tables)
    BY <1>7 DEF HasValue, IsIn
  <2>3. 1 \in Nat \ {0}
    OBVIOUS
  <2> QED
    BY <1>7, <2>1, <2>2, <2>3 DEF KeepThread, IsIn
<1>10. HashInv
  BY <1>4, <1>6, <1>9 DEF HashInv
<1>11. Live = {}
  BY <1>4, <1>7, <1>8 DEF Live, IsLive, CountedPcs, Decides, MakingPcs
<1>12. Cardinality(Live) = 0
  BY <1>11, FS_EmptySet
<1>13. Ranks([t \in Enqueuers |-> 1])
  BY <1>11 DEF Ranks
<1>14. [t \in Enqueuers |-> 1] \in [Enqueuers -> Nat \ {0}]
  OBVIOUS
<1>15. TablesGrow
  BY <1>3, <1>5, TableFacts, <1>6 DEF TablesGrow
<1> QED
  BY <1>4, <1>10, <1>12, <1>13, <1>14, <1>15 DEF RoomInv

LEMMA ReadersStart ==
  ASSUME ProducerListInit
  PROVE  ReaderInv
<1>1. /\ reader = [c \in Readers |-> NotReading] /\ globalOffset = 0 /\ producers = <<>>
  BY DEF ProducerListInit
<1>2. 0 \in OrNone /\ {} \in SUBSET AllProducers /\ -1 \in Int
  BY <1>1 DEF OrNone
<1>3. NotReading \in ReaderStates
  BY <1>2 DEF NotReading, ReaderStates, ReaderPcs
<1>4. ReaderRight(NotReading)
  <2>1. /\ NotReading.ptr = 0 /\ NotReading.tail = 0 /\ NotReading.best = 0
        /\ NotReading.desired = 0 /\ NotReading.current = 0
        /\ NotReading.due = {} /\ NotReading.pc = "idle"
        /\ NotReading.nonEmpty = 0 /\ NotReading.count = 0
    BY DEF NotReading
  <2> QED
    BY <2>1 DEF ReaderRight, TriedRight
<1> QED
  BY <1>1, <1>3, <1>4 DEF ReaderInv

\* A step that leaves the list and its threads alone.
LEMMA ListSame ==
  ASSUME ListInv, UNCHANGED <<producerListTail, producerCount, producers, thread>>
  PROVE  ListInv'
<1>1. /\ Listed' = Listed /\ AllProducers' = AllProducers /\ OrNone' = OrNone
      /\ ThreadStates' = ThreadStates /\ ProducerStates' = ProducerStates
  BY DEF Listed, AllProducers, OrNone, ThreadStates, ProducerStates
<1>2. ListTypeOK'
  BY <1>1 DEF ListInv, ListTypeOK
<1>3. \A u \in Enqueuers : Knows(u, thread'[u], producers', producerListTail')
  BY DEF ListInv
<1>4. OneOwnerEach'
  BY <1>1 DEF ListInv, OneOwnerEach
<1>5. ListRight'
  BY <1>1 DEF ListInv, ListRight, From, next_prod
<1> QED
  BY <1>2, <1>3, <1>4, <1>5 DEF ListInv

LEMMA HashSame ==
  ASSUME HashInv, RoomInv, UNCHANGED <<producers, thread, tables, hashCount>>
  PROVE  HashInv' /\ RoomInv'
<1>1. OrNone' = OrNone /\ AllTables' = AllTables /\ Live' = Live
  BY DEF OrNone, AllTables, Live
<1>2. HashTypeOK'
  BY <1>1 DEF HashInv, HashTypeOK
<1>3. HashInv'
  BY <1>2 DEF HashInv
<1>4. TablesGrow'
  BY <1>1 DEF RoomInv, TablesGrow
<1>5. \A r : Ranks(r)' <=> Ranks(r)
  BY <1>1 DEF Ranks
<1> QED
  BY <1>1, <1>3, <1>4, <1>5 DEF RoomInv

\* Tokens and the list.
LEMMA TokenStepKeeps ==
  ASSUME ProducerListInv, TokenNext
  PROVE  ProducerListInv'
<1>0. ListInv /\ HashInv /\ RoomInv /\ ReaderInv /\ HashTypeOK
  BY DEF ProducerListInv, HashInv
<1>1. PICK t \in Enqueuers :
        \/ Look(t) \/ Grab(t) \/ Create(t) \/ LoadListTail(t) \/ LinkNext(t)
        \/ PushProducer(t) \/ MakeToken(t) \/ OwnProducer(t) \/ TokenFails(t)
        \/ DestroyToken(t) \/ Unown(t) \/ RetireProducer(t)
  BY DEF TokenNext
<1>2. ASSUME ListInv', ListGrows, UNCHANGED readerVars
      PROVE  ReaderInv'
  BY <1>0, <1>2, ReadersKept
<1>3. ASSUME ListInv', UNCHANGED <<producerListTail, producers, readerVars>>
      PROVE  ReaderInv'
  BY <1>0, <1>2, <1>3, GrowsIf
<1>4. CASE Look(t)
  <2>1. ListInv'
    BY <1>0, <1>4, LookKeepsList
  <2>2. HashInv'
    BY <1>0, <1>4, <2>1, LookKeepsHash
  <2>3. RoomInv'
    BY <1>0, <1>4, LookKeepsRoom
  <2>4. ReaderInv'
    <3>1. UNCHANGED <<producerListTail, producers, readerVars>>
      BY <1>4 DEF Look
    <3> QED
      BY <1>3, <2>1, <3>1
  <2> QED
    BY <2>1, <2>2, <2>3, <2>4 DEF ProducerListInv
<1>5. CASE Grab(t)
  <2>1. ListInv'
    BY <1>0, <1>5, GrabKeepsList
  <2>2. HashInv'
    BY <1>0, <1>5, <2>1, GrabKeepsHash
  <2>3. RoomInv'
    BY <1>0, <1>5, GrabKeepsRoom
  <2>4. ReaderInv'
    <3>1. ListGrows
      BY <1>0, <1>5, <2>1, GrabGrows
    <3>2. UNCHANGED readerVars
      BY <1>5 DEF Grab
    <3> QED
      BY <1>2, <2>1, <3>1, <3>2
  <2> QED
    BY <2>1, <2>2, <2>3, <2>4 DEF ProducerListInv
<1>6. CASE Create(t)
  <2>1. ListInv'
    BY <1>0, <1>6, CreateKeepsList
  <2>2. HashInv'
    BY <1>0, <1>6, <2>1, CreateKeepsHash
  <2>3. RoomInv'
    BY <1>0, <1>6, CreateKeepsRoom
  <2>4. ReaderInv'
    <3>1. ListGrows
      BY <1>0, <1>6, <2>1, CreateGrows
    <3>2. UNCHANGED readerVars
      BY <1>6 DEF Create
    <3> QED
      BY <1>2, <2>1, <3>1, <3>2
  <2> QED
    BY <2>1, <2>2, <2>3, <2>4 DEF ProducerListInv
<1>7. CASE LoadListTail(t)
  <2>1. ListInv'
    BY <1>0, <1>7, LoadListTailKeepsList
  <2>2. HashInv'
    BY <1>0, <1>7, <2>1, LoadListTailKeepsHash
  <2>3. RoomInv'
    BY <1>0, <1>7, LoadListTailKeepsRoom
  <2>4. ReaderInv'
    <3>1. UNCHANGED <<producerListTail, producers, readerVars>>
      BY <1>7 DEF LoadListTail
    <3> QED
      BY <1>3, <2>1, <3>1
  <2> QED
    BY <2>1, <2>2, <2>3, <2>4 DEF ProducerListInv
<1>8. CASE LinkNext(t)
  <2>1. ListInv'
    BY <1>0, <1>8, LinkNextKeepsList
  <2>2. HashInv'
    BY <1>0, <1>8, <2>1, LinkNextKeepsHash
  <2>3. RoomInv'
    BY <1>0, <1>8, LinkNextKeepsRoom
  <2>4. ReaderInv'
    <3>1. ListGrows
      BY <1>0, <1>8, <2>1, LinkNextGrows
    <3>2. UNCHANGED readerVars
      BY <1>8 DEF LinkNext
    <3> QED
      BY <1>2, <2>1, <3>1, <3>2
  <2> QED
    BY <2>1, <2>2, <2>3, <2>4 DEF ProducerListInv
<1>9. CASE PushProducer(t)
  <2>1. ListInv'
    BY <1>0, <1>9, PushProducerKeepsList
  <2>2. HashInv'
    BY <1>0, <1>9, <2>1, PushProducerKeepsHash
  <2>3. RoomInv'
    BY <1>0, <1>9, PushProducerKeepsRoom
  <2>4. ReaderInv'
    <3>1. ListGrows
      BY <1>0, <1>9, <2>1, PushProducerGrows
    <3>2. UNCHANGED readerVars
      BY <1>9 DEF PushProducer
    <3> QED
      BY <1>2, <2>1, <3>1, <3>2
  <2> QED
    BY <2>1, <2>2, <2>3, <2>4 DEF ProducerListInv
<1>10. CASE MakeToken(t)
  <2>1. ListInv'
    BY <1>0, <1>10, MakeTokenKeepsList
  <2>2. HashInv'
    BY <1>0, <1>10, <2>1, MakeTokenKeepsHash
  <2>3. RoomInv'
    BY <1>0, <1>10, MakeTokenKeepsRoom
  <2>4. ReaderInv'
    <3>1. UNCHANGED <<producerListTail, producers, readerVars>>
      BY <1>10 DEF MakeToken
    <3> QED
      BY <1>3, <2>1, <3>1
  <2> QED
    BY <2>1, <2>2, <2>3, <2>4 DEF ProducerListInv
<1>11. CASE OwnProducer(t)
  <2>1. ListInv'
    BY <1>0, <1>11, OwnProducerKeepsList
  <2>2. HashInv'
    BY <1>0, <1>11, <2>1, OwnProducerKeepsHash
  <2>3. RoomInv'
    BY <1>0, <1>11, OwnProducerKeepsRoom
  <2>4. ReaderInv'
    <3>1. ListGrows
      BY <1>0, <1>11, <2>1, OwnProducerGrows
    <3>2. UNCHANGED readerVars
      BY <1>11 DEF OwnProducer
    <3> QED
      BY <1>2, <2>1, <3>1, <3>2
  <2> QED
    BY <2>1, <2>2, <2>3, <2>4 DEF ProducerListInv
<1>12. CASE TokenFails(t)
  <2>1. ListInv'
    BY <1>0, <1>12, TokenFailsKeepsList
  <2>2. HashInv'
    BY <1>0, <1>12, <2>1, TokenFailsKeepsHash
  <2>3. RoomInv'
    BY <1>0, <1>12, TokenFailsKeepsRoom
  <2>4. ReaderInv'
    <3>1. UNCHANGED <<producerListTail, producers, readerVars>>
      BY <1>12 DEF TokenFails
    <3> QED
      BY <1>3, <2>1, <3>1
  <2> QED
    BY <2>1, <2>2, <2>3, <2>4 DEF ProducerListInv
<1>13. CASE DestroyToken(t)
  <2>1. ListInv'
    BY <1>0, <1>13, DestroyTokenKeepsList
  <2>2. HashInv'
    BY <1>0, <1>13, <2>1, DestroyTokenKeepsHash
  <2>3. RoomInv'
    BY <1>0, <1>13, DestroyTokenKeepsRoom
  <2>4. ReaderInv'
    <3>1. UNCHANGED <<producerListTail, producers, readerVars>>
      BY <1>13 DEF DestroyToken
    <3> QED
      BY <1>3, <2>1, <3>1
  <2> QED
    BY <2>1, <2>2, <2>3, <2>4 DEF ProducerListInv
<1>14. CASE Unown(t)
  <2>1. ListInv'
    BY <1>0, <1>14, UnownKeepsList
  <2>2. HashInv'
    BY <1>0, <1>14, <2>1, UnownKeepsHash
  <2>3. RoomInv'
    BY <1>0, <1>14, UnownKeepsRoom
  <2>4. ReaderInv'
    <3>1. ListGrows
      BY <1>0, <1>14, <2>1, UnownGrows
    <3>2. UNCHANGED readerVars
      BY <1>14 DEF Unown
    <3> QED
      BY <1>2, <2>1, <3>1, <3>2
  <2> QED
    BY <2>1, <2>2, <2>3, <2>4 DEF ProducerListInv
<1>15. CASE RetireProducer(t)
  <2>1. ListInv'
    BY <1>0, <1>15, RetireProducerKeepsList
  <2>2. HashInv'
    BY <1>0, <1>15, <2>1, RetireProducerKeepsHash
  <2>3. RoomInv'
    BY <1>0, <1>15, RetireProducerKeepsRoom
  <2>4. ReaderInv'
    <3>1. ListGrows
      BY <1>0, <1>15, <2>1, RetireProducerGrows
    <3>2. UNCHANGED readerVars
      BY <1>15 DEF RetireProducer
    <3> QED
      BY <1>2, <2>1, <3>1, <3>2
  <2> QED
    BY <2>1, <2>2, <2>3, <2>4 DEF ProducerListInv
<1> QED
  BY <1>1, <1>4, <1>5, <1>6, <1>7, <1>8, <1>9, <1>10, <1>11, <1>12, <1>13, <1>14, <1>15

\* Implicit producers.
LEMMA HashStepKeeps ==
  ASSUME ProducerListInv, HashNext
  PROVE  ProducerListInv'
<1>0. ListInv /\ HashInv /\ RoomInv /\ ReaderInv /\ HashTypeOK
  BY DEF ProducerListInv, HashInv
<1>1. PICK t \in Enqueuers :
        \/ GetProducer(t) \/ GetNothing(t) \/ CountThread(t) \/ LoopTop(t)
        \/ Reload(t) \/ ResizeTable(t) \/ ResizeUnlock(t) \/ ResizeFails(t)
        \/ ResizeGiveUp(t) \/ ProducerFails(t) \/ GotProducer(t) \/ InsertSlot(t)
  BY DEF HashNext
<1>2. ASSUME ListInv', ListGrows, UNCHANGED readerVars
      PROVE  ReaderInv'
  BY <1>0, <1>2, ReadersKept
<1>3. ASSUME ListInv', UNCHANGED <<producerListTail, producers, readerVars>>
      PROVE  ReaderInv'
  BY <1>0, <1>2, <1>3, GrowsIf
<1>4. CASE GetProducer(t)
  <2>1. ListInv'
    BY <1>0, <1>4, GetProducerKeepsList
  <2>2. HashInv'
    BY <1>0, <1>4, <2>1, GetProducerKeepsHash
  <2>3. RoomInv'
    BY <1>0, <1>4, GetProducerKeepsRoom
  <2>4. ReaderInv'
    <3>1. UNCHANGED <<producerListTail, producers, readerVars>>
      BY <1>4 DEF GetProducer
    <3> QED
      BY <1>3, <2>1, <3>1
  <2> QED
    BY <2>1, <2>2, <2>3, <2>4 DEF ProducerListInv
<1>5. CASE GetNothing(t)
  <2>1. ListInv'
    BY <1>0, <1>5, GetNothingKeepsList
  <2>2. HashInv'
    BY <1>0, <1>5, <2>1, GetNothingKeepsHash
  <2>3. RoomInv'
    BY <1>0, <1>5, GetNothingKeepsRoom
  <2>4. ReaderInv'
    <3>1. UNCHANGED <<producerListTail, producers, readerVars>>
      BY <1>5 DEF GetNothing
    <3> QED
      BY <1>3, <2>1, <3>1
  <2> QED
    BY <2>1, <2>2, <2>3, <2>4 DEF ProducerListInv
<1>6. CASE CountThread(t)
  <2>1. ListInv'
    BY <1>0, <1>6, CountThreadKeepsList
  <2>2. HashInv'
    BY <1>0, <1>6, <2>1, CountThreadKeepsHash
  <2>3. RoomInv'
    BY <1>0, <1>6, CountThreadKeepsRoom
  <2>4. ReaderInv'
    <3>1. UNCHANGED <<producerListTail, producers, readerVars>>
      BY <1>6 DEF CountThread
    <3> QED
      BY <1>3, <2>1, <3>1
  <2> QED
    BY <2>1, <2>2, <2>3, <2>4 DEF ProducerListInv
<1>7. CASE LoopTop(t)
  <2>1. ListInv'
    BY <1>0, <1>7, LoopTopKeepsList
  <2>2. HashInv'
    BY <1>0, <1>7, <2>1, LoopTopKeepsHash
  <2>3. RoomInv'
    BY <1>0, <1>7, LoopTopKeepsRoom
  <2>4. ReaderInv'
    <3>1. UNCHANGED <<producerListTail, producers, readerVars>>
      BY <1>7 DEF LoopTop
    <3> QED
      BY <1>3, <2>1, <3>1
  <2> QED
    BY <2>1, <2>2, <2>3, <2>4 DEF ProducerListInv
<1>8. CASE Reload(t)
  <2>1. ListInv'
    BY <1>0, <1>8, ReloadKeepsList
  <2>2. HashInv'
    BY <1>0, <1>8, <2>1, ReloadKeepsHash
  <2>3. RoomInv'
    BY <1>0, <1>8, ReloadKeepsRoom
  <2>4. ReaderInv'
    <3>1. UNCHANGED <<producerListTail, producers, readerVars>>
      BY <1>8 DEF Reload
    <3> QED
      BY <1>3, <2>1, <3>1
  <2> QED
    BY <2>1, <2>2, <2>3, <2>4 DEF ProducerListInv
<1>9. CASE ResizeTable(t)
  <2>1. ListInv'
    BY <1>0, <1>9, ResizeTableKeepsList
  <2>2. HashInv'
    BY <1>0, <1>9, <2>1, ResizeTableKeepsHash
  <2>3. RoomInv'
    BY <1>0, <1>9, ResizeTableKeepsRoom
  <2>4. ReaderInv'
    <3>1. UNCHANGED <<producerListTail, producers, readerVars>>
      BY <1>9 DEF ResizeTable
    <3> QED
      BY <1>3, <2>1, <3>1
  <2> QED
    BY <2>1, <2>2, <2>3, <2>4 DEF ProducerListInv
<1>10. CASE ResizeUnlock(t)
  <2>1. ListInv'
    BY <1>0, <1>10, ResizeUnlockKeepsList
  <2>2. HashInv'
    BY <1>0, <1>10, <2>1, ResizeUnlockKeepsHash
  <2>3. RoomInv'
    BY <1>0, <1>10, ResizeUnlockKeepsRoom
  <2>4. ReaderInv'
    <3>1. UNCHANGED <<producerListTail, producers, readerVars>>
      BY <1>10 DEF ResizeUnlock
    <3> QED
      BY <1>3, <2>1, <3>1
  <2> QED
    BY <2>1, <2>2, <2>3, <2>4 DEF ProducerListInv
<1>11. CASE ResizeFails(t)
  <2>1. ListInv'
    BY <1>0, <1>11, ResizeFailsKeepsList
  <2>2. HashInv'
    BY <1>0, <1>11, <2>1, ResizeFailsKeepsHash
  <2>3. RoomInv'
    BY <1>0, <1>11, ResizeFailsKeepsRoom
  <2>4. ReaderInv'
    <3>1. UNCHANGED <<producerListTail, producers, readerVars>>
      BY <1>11 DEF ResizeFails
    <3> QED
      BY <1>3, <2>1, <3>1
  <2> QED
    BY <2>1, <2>2, <2>3, <2>4 DEF ProducerListInv
<1>12. CASE ResizeGiveUp(t)
  <2>1. ListInv'
    BY <1>0, <1>12, ResizeGiveUpKeepsList
  <2>2. HashInv'
    BY <1>0, <1>12, <2>1, ResizeGiveUpKeepsHash
  <2>3. RoomInv'
    BY <1>0, <1>12, ResizeGiveUpKeepsRoom
  <2>4. ReaderInv'
    <3>1. UNCHANGED <<producerListTail, producers, readerVars>>
      BY <1>12 DEF ResizeGiveUp
    <3> QED
      BY <1>3, <2>1, <3>1
  <2> QED
    BY <2>1, <2>2, <2>3, <2>4 DEF ProducerListInv
<1>13. CASE ProducerFails(t)
  <2>1. ListInv'
    BY <1>0, <1>13, ProducerFailsKeepsList
  <2>2. HashInv'
    BY <1>0, <1>13, <2>1, ProducerFailsKeepsHash
  <2>3. RoomInv'
    BY <1>0, <1>13, ProducerFailsKeepsRoom
  <2>4. ReaderInv'
    <3>1. UNCHANGED <<producerListTail, producers, readerVars>>
      BY <1>13 DEF ProducerFails
    <3> QED
      BY <1>3, <2>1, <3>1
  <2> QED
    BY <2>1, <2>2, <2>3, <2>4 DEF ProducerListInv
<1>14. CASE GotProducer(t)
  <2>1. ListInv'
    BY <1>0, <1>14, GotProducerKeepsList
  <2>2. HashInv'
    BY <1>0, <1>14, <2>1, GotProducerKeepsHash
  <2>3. RoomInv'
    BY <1>0, <1>14, GotProducerKeepsRoom
  <2>4. ReaderInv'
    <3>1. UNCHANGED <<producerListTail, producers, readerVars>>
      BY <1>14 DEF GotProducer
    <3> QED
      BY <1>3, <2>1, <3>1
  <2> QED
    BY <2>1, <2>2, <2>3, <2>4 DEF ProducerListInv
<1>15. CASE InsertSlot(t)
  <2>1. ListInv'
    BY <1>0, <1>15, InsertSlotKeepsList DEF HashInv
  <2>2. HashInv'
    BY <1>0, <1>15, <2>1, InsertSlotKeepsHash
  <2>3. RoomInv'
    BY <1>0, <1>15, InsertSlotKeepsRoom
  <2>4. ReaderInv'
    <3>1. UNCHANGED <<producerListTail, producers, readerVars>>
      BY <1>15 DEF InsertSlot
    <3> QED
      BY <1>3, <2>1, <3>1
  <2> QED
    BY <2>1, <2>2, <2>3, <2>4 DEF ProducerListInv
<1> QED
  BY <1>1, <1>4, <1>5, <1>6, <1>7, <1>8, <1>9, <1>10, <1>11, <1>12, <1>13, <1>14, <1>15

\* Dequeuing.
LEMMA ReadStepKeeps ==
  ASSUME ProducerListInv, ReadNext
  PROVE  ProducerListInv'
<1>0. ListInv /\ HashInv /\ RoomInv /\ ReaderInv
  BY DEF ProducerListInv
<1>1. PICK c \in Readers :
        \/ try_dequeue(c) \/ try_dequeue_bulk(c) \/ token_dequeue(c)
        \/ LoadScoreTail(c) \/ Score(c) \/ Scored(c) \/ LoadWalkTail(c) \/ Walk(c)
        \/ Walked(c) \/ TestRotation(c) \/ RotateTail(c) \/ RotateCount(c)
        \/ RotateOffset(c) \/ CurrentGives(c) \/ CurrentFails(c)
        \/ LoadOthersTail(c) \/ Round(c) \/ RoundOver(c) \/ ReadReturns(c)
  BY DEF ReadNext
<1>2. ASSUME UNCHANGED listVars
      PROVE  ListInv' /\ HashInv' /\ RoomInv'
  BY <1>0, <1>2, ListSame, HashSame DEF listVars, tableVars
<1>3. CASE try_dequeue(c) \/ try_dequeue_bulk(c) \/ token_dequeue(c)
  <2>1. UNCHANGED listVars
    BY <1>3 DEF try_dequeue, try_dequeue_bulk, token_dequeue, StartRead
  <2> QED
    BY <1>0, <1>2, <1>3, <2>1, StartKeepsReaders DEF ProducerListInv
<1>4. CASE LoadScoreTail(c)
  <2>1. UNCHANGED listVars
    BY <1>4 DEF LoadScoreTail
  <2>2. ReaderInv'
    BY <1>0, <1>4, LoadScoreTailKeepsReaders
  <2> QED
    BY <1>2, <2>1, <2>2 DEF ProducerListInv
<1>5. CASE Score(c)
  <2>1. UNCHANGED listVars
    BY <1>5 DEF Score
  <2>2. ReaderInv'
    BY <1>0, <1>5, ScoreKeepsReaders
  <2> QED
    BY <1>2, <2>1, <2>2 DEF ProducerListInv
<1>6. CASE Scored(c)
  <2>1. UNCHANGED listVars
    BY <1>6 DEF Scored
  <2>2. ReaderInv'
    BY <1>0, <1>6, ScoredKeepsReaders
  <2> QED
    BY <1>2, <2>1, <2>2 DEF ProducerListInv
<1>7. CASE LoadWalkTail(c)
  <2>1. UNCHANGED listVars
    BY <1>7 DEF LoadWalkTail
  <2>2. ReaderInv'
    BY <1>0, <1>7, LoadWalkTailKeepsReaders
  <2> QED
    BY <1>2, <2>1, <2>2 DEF ProducerListInv
<1>8. CASE Walk(c)
  <2>1. UNCHANGED listVars
    BY <1>8 DEF Walk
  <2>2. ReaderInv'
    BY <1>0, <1>8, WalkKeepsReaders
  <2> QED
    BY <1>2, <2>1, <2>2 DEF ProducerListInv
<1>9. CASE Walked(c)
  <2>1. UNCHANGED listVars
    BY <1>9 DEF Walked
  <2>2. ReaderInv'
    BY <1>0, <1>9, WalkedKeepsReaders
  <2> QED
    BY <1>2, <2>1, <2>2 DEF ProducerListInv
<1>10. CASE TestRotation(c)
  <2>1. UNCHANGED listVars
    BY <1>10 DEF TestRotation
  <2>2. ReaderInv'
    BY <1>0, <1>10, TestRotationKeepsReaders
  <2> QED
    BY <1>2, <2>1, <2>2 DEF ProducerListInv
<1>11. CASE RotateTail(c)
  <2>1. UNCHANGED listVars
    BY <1>11 DEF RotateTail
  <2>2. ReaderInv'
    BY <1>0, <1>11, RotateTailKeepsReaders
  <2> QED
    BY <1>2, <2>1, <2>2 DEF ProducerListInv
<1>12. CASE RotateCount(c)
  <2>1. UNCHANGED listVars
    BY <1>12 DEF RotateCount
  <2>2. ReaderInv'
    BY <1>0, <1>12, RotateCountKeepsReaders
  <2> QED
    BY <1>2, <2>1, <2>2 DEF ProducerListInv
<1>13. CASE RotateOffset(c)
  <2>1. UNCHANGED listVars
    BY <1>13 DEF RotateOffset
  <2>2. ReaderInv'
    BY <1>0, <1>13, RotateOffsetKeepsReaders
  <2> QED
    BY <1>2, <2>1, <2>2 DEF ProducerListInv
<1>14. CASE CurrentGives(c)
  <2>1. UNCHANGED listVars
    BY <1>14 DEF CurrentGives
  <2>2. ReaderInv'
    BY <1>0, <1>14, CurrentGivesKeepsReaders
  <2> QED
    BY <1>2, <2>1, <2>2 DEF ProducerListInv
<1>15. CASE CurrentFails(c)
  <2>1. UNCHANGED listVars
    BY <1>15 DEF CurrentFails
  <2>2. ReaderInv'
    BY <1>0, <1>15, CurrentFailsKeepsReaders
  <2> QED
    BY <1>2, <2>1, <2>2 DEF ProducerListInv
<1>16. CASE LoadOthersTail(c)
  <2>1. UNCHANGED listVars
    BY <1>16 DEF LoadOthersTail
  <2>2. ReaderInv'
    BY <1>0, <1>16, LoadOthersTailKeepsReaders
  <2> QED
    BY <1>2, <2>1, <2>2 DEF ProducerListInv
<1>17. CASE Round(c)
  <2>1. UNCHANGED listVars
    BY <1>17 DEF Round
  <2>2. ReaderInv'
    BY <1>0, <1>17, RoundKeepsReaders
  <2> QED
    BY <1>2, <2>1, <2>2 DEF ProducerListInv
<1>18. CASE RoundOver(c)
  <2>1. UNCHANGED listVars
    BY <1>18 DEF RoundOver
  <2>2. ReaderInv'
    BY <1>0, <1>18, RoundOverKeepsReaders
  <2> QED
    BY <1>2, <2>1, <2>2 DEF ProducerListInv
<1>19. CASE ReadReturns(c)
  <2>1. UNCHANGED listVars
    BY <1>19 DEF ReadReturns
  <2>2. ReaderInv'
    BY <1>0, <1>19, ReadReturnsKeepsReaders
  <2> QED
    BY <1>2, <2>1, <2>2 DEF ProducerListInv
<1> QED
  BY <1>1, <1>3, <1>4, <1>5, <1>6, <1>7, <1>8, <1>9, <1>10, <1>11, <1>12, <1>13,
     <1>14, <1>15, <1>16, <1>17, <1>18, <1>19

\* Every step of the enqueuing threads (recycle_or_create_producer, ProducerToken,
\* get_or_add_implicit_producer) and of the dequeuing ones keeps the four parts.
THEOREM ProducerListKept == ProducerListSpec => []ProducerListInv
<1>1. ProducerListInit => ProducerListInv
  BY ListStarts, HashStarts, ReadersStart DEF ProducerListInv
<1>2. ProducerListInv /\ [ProducerListNext]_producerListVars => ProducerListInv'
  <2> SUFFICES ASSUME ProducerListInv, [ProducerListNext]_producerListVars
               PROVE  ProducerListInv'
    OBVIOUS
  <2>1. CASE ProducerListNext
    BY <2>1, TokenStepKeeps, HashStepKeeps, ReadStepKeeps DEF ProducerListNext
  <2>2. CASE UNCHANGED producerListVars
    <3>1. UNCHANGED <<producerListTail, producerCount, producers, thread, tables,
                      hashCount, readerVars>>
      BY <2>2 DEF producerListVars, tableVars
    <3>2. ListInv' /\ HashInv' /\ RoomInv'
      BY <3>1, ListSame, HashSame DEF ProducerListInv
    <3>3. ReaderInv'
      BY <3>1, <3>2, GrowsIf, ReadersKept DEF ProducerListInv
    <3> QED
      BY <3>2, <3>3 DEF ProducerListInv
  <2> QED
    BY <2>1, <2>2
<1> QED
  BY <1>1, <1>2, PTL DEF ProducerListSpec

\* The list has exactly the producers whose push succeeded, all counted; the
\* producer of a live token is active, its own and nobody else's; and
\* update_current_producer_after_rotation never divides by a count of zero and
\* leads to a producer of the list (add_producer, recycle_or_create_producer).
THEOREM ProducersAreIntact == ProducerListSpec => []ProducersIntact
<1>1. ProducerListInv => ProducersIntact
  <2> SUFFICES ASSUME ProducerListInv
               PROVE  ProducersIntact
    OBVIOUS
  <2>0. /\ ListInv /\ ReaderInv /\ ListTypeOK /\ OneOwnerEach /\ ListRight
        /\ \A t \in Enqueuers : /\ Knows(t, thread[t], producers, producerListTail)
                                /\ thread[t] \in ThreadStates
        /\ OrNone = AllProducers \cup {0} /\ Listed \subseteq AllProducers
    BY ListFacts DEF ProducerListInv, ListInv
  <2>1. ProducersListed
    <3>1. \A t \in Enqueuers : Pushing(t) => PushesIn(thread[t], thread[t].producer)
      BY DEF Pushing, PushesIn
    <3>2. \A t \in Enqueuers, p \in AllProducers :
            PushesIn(thread[t], p) => Pushing(t) /\ thread[t].producer = p
      BY DEF Pushing, PushesIn
    <3>3. producerCount = Len(producers)
      BY <2>0 DEF ListTypeOK
    <3> DEFINE pushed == {thread[t].producer : t \in {u \in Enqueuers : Pushing(u)}}
    <3>4. \A p \in AllProducers : p \in pushed <=> \E t \in Enqueuers : PushesIn(thread[t], p)
      BY <3>1, <3>2
    <3>5. Listed = AllProducers \ pushed
      BY <2>0, <3>4 DEF ListRight
    <3> QED
      BY <3>3, <3>5 DEF ProducersListed
  <2>2. TokensExclusive
    <3> SUFFICES ASSUME NEW t \in Enqueuers, thread[t].token # 0
                 PROVE  LET p == thread[t].token
                        IN /\ ~producers[p].inactive
                           /\ producers[p].token = t
                           /\ \A u \in Enqueuers \ {t} : thread[u].token # p
      BY DEF TokensExclusive
    <3>1. thread[t].token \in AllProducers
      BY <2>0 DEF ThreadStates
    <3>2. \A u \in Enqueuers : thread[u].token = thread[t].token => HasIn(thread[u],
          thread[t].token)
      BY DEF HasIn
    <3> QED
      BY <2>0, <3>1, <3>2 DEF OneOwnerEach, Knows
  <2>3. RotationDefined
    <3>1. \A c \in Readers : ReaderRight(reader[c])
      BY <2>0 DEF ReaderInv
    <3> QED
      BY <3>1 DEF RotationDefined, ReaderRight
  <2> QED
    BY <2>1, <2>2, <2>3 DEF ProducersIntact
<1> QED
  BY <1>1, ProducerListKept, PTL

\* A thread has one implicit producer in all tables, and every table has a free
\* slot, which the insertion loop of get_or_add_implicit_producer relies on:
\* "Not an infinite loop because at least one slot is free in the hash table".
THEOREM HashIsIntact == ProducerListSpec => []HashIntact
<1>1. ProducerListInv => HashIntact
  <2> SUFFICES ASSUME ProducerListInv
               PROVE  HashIntact
    OBVIOUS
  <2>0. ListTypeOK /\ HashInv /\ HashTypeOK /\ RoomInv
    BY DEF ProducerListInv, ListInv, HashInv
  <2>1. ASSUME NEW t \in Enqueuers
        PROVE  Cardinality({ValueIn(t, tables[i]) : i \in
                              {j \in 1..Len(tables) : FoundIn(t, tables[j])}}
                           \cup ({thread[t].mine} \ {0})) <= 1
    <3> DEFINE own == {ValueIn(t, tables[i]) : i \in
                         {j \in 1..Len(tables) : FoundIn(t, tables[j])}}
                      \cup ({thread[t].mine} \ {0})
    <3>1. PICK v : /\ HasValue(t, v, tables)
                   /\ thread[t].mine \in {0, v}
      <4>1. PICK v \in Nat \ {0} : HasValue(t, v, tables)
        BY <2>0 DEF HashInv, KeepThread
      <4>2. KnowsTables(t, thread[t], tables)
        BY <2>0 DEF HashInv
      <4>3. CASE thread[t].mine = 0
        BY <4>1, <4>3
      <4>4. CASE thread[t].mine # 0
        BY <4>2, <4>4 DEF KnowsTables
      <4> QED
        BY <4>3, <4>4
    <3>2. \A i \in 1..Len(tables) : FoundIn(t, tables[i]) => ValueIn(t, tables[i]) = v
      BY <2>0, <3>1, FoundHasValue DEF AllTables
    <3>3. own \subseteq {v}
      BY <3>1, <3>2
    <3>4. IsFiniteSet({v}) /\ Cardinality({v}) = 1
      BY FS_Singleton
    <3> HIDE DEF own
    <3>5. Cardinality(own) <= Cardinality({v})
      BY <3>3, <3>4, FS_Subset
    <3> QED
      BY <3>4, <3>5 DEF own
  <2>2. TableHasRoom
    <3>1. \A i \in 1..Len(tables) : DOMAIN tables[i].key = Slots(tables[i])
      BY <2>0, TableFacts DEF AllTables
    <3>2. \A i \in 1..Len(tables) : \E k \in Slots(tables[i]) : tables[i].key[k] = NoThread
      BY <2>0, FreeSlot DEF AllTables
    <3> QED
      BY <3>1, <3>2 DEF TableHasRoom
  <2> QED
    BY <2>1, <2>2 DEF HashIntact, OneProducerPerThread
<1> QED
  BY <1>1, ProducerListKept, PTL

\* try_dequeue and try_dequeue_bulk, with a token or without, report an empty
\* queue only when every producer that was in the list when the call began was
\* tried, or seen empty, during the call.
THEOREM EmptyAfterAllTried == ProducerListSpec => []EmptyMeansAllTried
<1>1. ProducerListInv => EmptyMeansAllTried
  BY DEF ProducerListInv, ReaderInv, ReaderRight, TriedRight, LeftToTry, EmptyMeansAllTried
<1> QED
  BY <1>1, ProducerListKept, PTL
=============================================================================
