----------------------------- MODULE ProducerList -----------------------------
(***************************************************************************)
(* How threads of the lock-free queue find their sub-queues                *)
(* (os_lockless_queue.h, ConcurrentQueue).  All sub-queues, "producers",   *)
(* are in one list that only grows at its head, producerListTail.          *)
(*                                                                         *)
(*  - A ProducerToken owns an explicit producer; one whose token was       *)
(*    destroyed is inactive and is given to a later token.                 *)
(*  - A thread without a token gets its implicit producer from a hash      *)
(*    table of thread ids.  Tables grow by chaining a larger one in front; *)
(*    a thread found in an older table is added to the newest one.         *)
(*  - A consumer walks the list, with a ConsumerToken from the place the   *)
(*    last rotation gave it.  What a sub-queue's own dequeue does is in    *)
(*    QueueProducer; here it succeeds or fails, and a sub-queue looks      *)
(*    empty or not, as it pleases.                                         *)
(*                                                                         *)
(* Steps that touch one shared word are separate.  Thread exit is not      *)
(* observed: the build has no thread_local support for it, so implicit     *)
(* producers are never recycled.                                           *)
(***************************************************************************)
EXTENDS Integers, FiniteSets, Sequences

CONSTANTS
  Enqueuers,       \* threads that enqueue
  TokenUsers,    \* those among them that use a producer token
  HashIds,       \* thread -> hash_thread_id
  HashSize,      \* INITIAL_IMPLICIT_PRODUCER_HASH_SIZE
  Readers,       \* threads that dequeue
  TokenReaders,  \* those among them that use a consumer token
  InitialOffsets,\* reader -> the initialOffset of its token
  RotationQuota,         \* EXPLICIT_CONSUMER_CONSUMPTION_QUOTA_BEFORE_ROTATE
  Bulk,          \* max of a bulk dequeue
  Bounds,        \* bounds: allocations that fail, dequeue calls of each
                 \* reader, tokens made, implicit producers asked for
  NoThread

ASSUME ListAssumption ==
  /\ IsFiniteSet(Enqueuers) /\ NoThread \notin Enqueuers
  /\ TokenUsers \subseteq Enqueuers /\ TokenReaders \subseteq Readers
  /\ HashIds \in [Enqueuers -> Nat] /\ InitialOffsets \in [Readers -> Nat]
  /\ {HashSize, RotationQuota, Bulk} \subseteq Nat \ {0}

VARIABLES
  producerListTail,   \* the youngest producer, 0 when there is none
  producerCount,
  producers,          \* the producers created, in order of creation
  tables,             \* hash tables, the current one last
  hashCount,          \* implicitProducerHashCount
  resizing,           \* implicitProducerHashResizeInProgress
  thread,             \* enqueuing threads: position and locals
  reader,             \* dequeuing threads: position, locals and token
  globalOffset,       \* globalExplicitConsumerOffset
  left                \* what the bound of this behaviour still allows

tableVars == <<tables, hashCount, resizing>>
readerVars == <<reader, globalOffset>>
producerListVars ==
  <<producerListTail, producerCount, producers, tableVars, thread, readerVars,
    left>>

(* token: the producer its token owns; mine: the implicit producer its     *)
(* last call returned.                                                     *)
AtEase == [pc |-> "idle", isExplicit |-> FALSE, main |-> 0, newCount |-> 0,
         ptr |-> 0, index |-> 0, producer |-> 0, token |-> 0, mine |-> 0]

(* What a thread keeps between calls. *)
Returns(t) ==
  [AtEase EXCEPT !.token = thread[t].token, !.mine = thread[t].mine]

Goto(t, pc) == [thread[t] EXCEPT !.pc = pc]

Sets(t, state) == thread' = [thread EXCEPT ![t] = state]

next_prod(p) == producers[p].next

Spends(bound) == left[bound] > 0 /\ left' = [left EXCEPT ![bound] = @ - 1]

(***************************************************************************)
(* recycle_or_create_producer                                              *)
(***************************************************************************)
recycle_or_create_producer(t, isExplicit) ==
  [thread[t] EXCEPT !.pc = "look", !.ptr = producerListTail,
                    !.isExplicit = isExplicit]

(* Past the last producer: create one. *)
LookOn(t) ==
  LET next == next_prod(thread[t].ptr)
  IN [thread[t] EXCEPT !.ptr = next, !.pc = "look"]

Look(t) ==
  LET me == thread[t] IN
  /\ me.pc = "look"
  /\ me.ptr # 0
  /\ Sets(t, IF /\ producers[me.ptr].inactive
                /\ producers[me.ptr].isExplicit = me.isExplicit
             THEN Goto(t, "grab") ELSE LookOn(t))
  /\ UNCHANGED <<producerListTail, producerCount, producers, tableVars,
                 readerVars, left>>

AcquiredProducer(t, p) == [Goto(t, "acquired") EXCEPT !.producer = p, !.ptr = 0]

\* Mutant: the flag is cleared by a store.
StillInactive_Assumed(p) == TRUE

StillInactive(p) == producers[p].inactive

(* compare_exchange_strong on inactive *)
Grab(t) ==
  LET p == thread[t].ptr IN
  /\ thread[t].pc = "grab"
  /\ \/ /\ StillInactive(p)
        /\ producers' = [producers EXCEPT ![p].inactive = FALSE]
        /\ Sets(t, AcquiredProducer(t, p))
     \/ /\ ~StillInactive(p)
        /\ Sets(t, LookOn(t))
        /\ UNCHANGED producers
  /\ UNCHANGED <<producerListTail, producerCount, tableVars, readerVars, left>>

(* The producer is counted before anyone can see it. *)
Counted(t) == producerCount + 1

(* create and the first half of add_producer *)
Create(t) ==
  /\ thread[t].pc = "look"
  /\ thread[t].ptr = 0
  /\ producers' = Append(producers,
       [isExplicit |-> thread[t].isExplicit, inactive |-> FALSE, next |-> 0,
        token |-> NoThread])
  /\ producerCount' = Counted(t)
  /\ Sets(t, [Goto(t, "head") EXCEPT !.producer = Len(producers) + 1])
  /\ UNCHANGED <<producerListTail, tableVars, readerVars, left>>

LoadListTail(t) ==
  /\ thread[t].pc = "head"
  /\ Sets(t, [Goto(t, "link") EXCEPT !.ptr = producerListTail])
  /\ UNCHANGED <<producerListTail, producerCount, producers, tableVars,
                 readerVars, left>>

LinkNext(t) ==
  LET me == thread[t] IN
  /\ me.pc = "link"
  /\ producers' = [producers EXCEPT ![me.producer].next = me.ptr]
  /\ Sets(t, Goto(t, "push"))
  /\ UNCHANGED <<producerListTail, producerCount, tableVars, readerVars, left>>

(* The exchange loads the head it found, and the loop links it. *)
AfterFailedPush(t) == [Goto(t, "link") EXCEPT !.ptr = producerListTail]

PushProducer(t) ==
  LET me == thread[t] IN
  /\ me.pc = "push"
  /\ \/ /\ producerListTail = me.ptr
        /\ producerListTail' = me.producer
        /\ Sets(t, AcquiredProducer(t, me.producer))
     \/ /\ producerListTail # me.ptr
        /\ Sets(t, AfterFailedPush(t))
        /\ UNCHANGED producerListTail
  /\ UNCHANGED <<producerCount, producers, tableVars, readerVars, left>>

(***************************************************************************)
(* ProducerToken                                                           *)
(***************************************************************************)
MakeToken(t) ==
  /\ t \in TokenUsers
  /\ thread[t].pc = "idle"
  /\ thread[t].token = 0
  /\ Spends("tokens")
  /\ Sets(t, recycle_or_create_producer(t, TRUE))
  /\ UNCHANGED <<producerListTail, producerCount, producers, tableVars,
                 readerVars>>

(* producer->token = this *)
OwnProducer(t) ==
  LET me == thread[t] IN
  /\ me.pc = "acquired"
  /\ me.isExplicit
  /\ producers' = [producers EXCEPT ![me.producer].token = t]
  /\ Sets(t, [Returns(t) EXCEPT !.token = me.producer])
  /\ UNCHANGED <<producerListTail, producerCount, tableVars, readerVars, left>>

(* create returned null: the token is not valid. *)
TokenFails(t) ==
  /\ thread[t].pc = "look"
  /\ thread[t].ptr = 0
  /\ thread[t].isExplicit
  /\ Spends("failures")
  /\ Sets(t, Returns(t))
  /\ UNCHANGED <<producerListTail, producerCount, producers, tableVars,
                 readerVars>>

(* ~ProducerToken: the back pointer is cleared, then the producer given up.*)
DestroyToken(t) ==
  LET p == thread[t].token IN
  /\ thread[t].pc = "idle"
  /\ p # 0
  /\ Sets(t, [Goto(t, "unown") EXCEPT !.producer = p, !.token = 0])
  /\ UNCHANGED <<producerListTail, producerCount, producers, tableVars,
                 readerVars, left>>

Unown(t) ==
  /\ thread[t].pc = "unown"
  /\ producers' = [producers EXCEPT ![thread[t].producer].token = NoThread]
  /\ Sets(t, Goto(t, "retire"))
  /\ UNCHANGED <<producerListTail, producerCount, tableVars, readerVars, left>>

RetireProducer(t) ==
  /\ thread[t].pc = "retire"
  /\ producers' = [producers EXCEPT ![thread[t].producer].inactive = TRUE]
  /\ Sets(t, Returns(t))
  /\ UNCHANGED <<producerListTail, producerCount, tableVars, readerVars, left>>

TokenNext ==
  \E t \in Enqueuers :
    \/ Look(t) \/ Grab(t) \/ Create(t) \/ LoadListTail(t) \/ LinkNext(t)
    \/ PushProducer(t) \/ MakeToken(t) \/ OwnProducer(t) \/ TokenFails(t)
    \/ DestroyToken(t) \/ Unown(t) \/ RetireProducer(t)

(***************************************************************************)
(* get_or_add_implicit_producer                                            *)
(***************************************************************************)
Main(t) == tables[thread[t].main]

(* The slots a thread probes in a table, in order. *)
Probe(t, capacity, k) == (HashIds[t] + k) % capacity

(* Probing from the hashed id finds the thread before a free slot. *)
FoundIn(t, table) ==
  \E k \in 0..(table.capacity - 1) :
    /\ table.key[Probe(t, table.capacity, k)] = t
    /\ \A j \in 0..(k - 1) : table.key[Probe(t, table.capacity, j)] # NoThread

ValueIn(t, table) ==
  table.value[CHOOSE i \in DOMAIN table.key : table.key[i] = t]

\* Mutant: only the current table is searched.
TablesWith_Current(t) ==
  {i \in {Len(tables)} : FoundIn(t, tables[i])}

(* The tables that hold the thread. *)
TablesWith(t) == {i \in 1..Len(tables) : FoundIn(t, tables[i])}

(* A thread's own entries are changed by itself only, so the search is one *)
(* step.  It searches from the current table to the first; when an older   *)
(* table has it, it is added to the current one as well.                   *)
GetProducer(t) ==
  LET found == TablesWith(t)
      newest == CHOOSE i \in found : \A j \in found : j <= i
      value == ValueIn(t, tables[newest])
  IN /\ thread[t].pc = "idle"
     /\ found # {}
     /\ Sets(t, IF newest = Len(tables)
                THEN [Returns(t) EXCEPT !.mine = value]
                ELSE [Goto(t, "insert") EXCEPT !.main = Len(tables),
                                               !.producer = value])
     /\ UNCHANGED <<producerListTail, producerCount, producers, tableVars,
                    readerVars, left>>

GetNothing(t) ==
  /\ thread[t].pc = "idle"
  /\ TablesWith(t) = {}
  /\ Spends("adds")
  /\ Sets(t, [Goto(t, "count") EXCEPT !.main = Len(tables)])
  /\ UNCHANGED <<producerListTail, producerCount, producers, tableVars,
                 readerVars>>

CountThread(t) ==
  /\ thread[t].pc = "count"
  /\ hashCount' = hashCount + 1
  /\ Sets(t, [Goto(t, "room") EXCEPT !.newCount = hashCount + 1])
  /\ UNCHANGED <<producerListTail, producerCount, producers, tables, resizing,
                 readerVars, left>>

HalfFull(t, table) == thread[t].newCount >= table.capacity \div 2

(* Less than three quarters full *)
RoomIn(t, table) ==
  thread[t].newCount < table.capacity \div 2 + table.capacity \div 4

(* "If it's < three-quarters full, add to the old one anyway", else the    *)
(* table is loaded again.                                                  *)
Decided(t, main) ==
  IF RoomIn(t, tables[main])
  THEN [recycle_or_create_producer(t, FALSE) EXCEPT !.main = main]
  ELSE [Goto(t, "reload") EXCEPT !.main = main]

(* The top of the loop: take the resize lock when the table is half full.  *)
LoopTop(t) ==
  LET locks == HalfFull(t, Main(t)) /\ ~resizing
  IN /\ thread[t].pc = "room"
     /\ resizing' = (resizing \/ locks)
     /\ Sets(t, IF locks THEN Goto(t, "resize") ELSE Decided(t, thread[t].main))
     /\ UNCHANGED <<producerListTail, producerCount, producers, tables,
                    hashCount, readerVars, left>>

Reload(t) ==
  /\ thread[t].pc = "reload"
  /\ Sets(t, [Goto(t, "room") EXCEPT !.main = Len(tables)])
  /\ UNCHANGED <<producerListTail, producerCount, producers, tableVars,
                 readerVars, left>>

(* Doubled until the new count is below half. *)
NewCapacity(t, capacity) ==
  LET doubled[k \in 0..(thread[t].newCount + 1)] ==
        IF k = 0 THEN capacity ELSE 2 * doubled[k - 1]
      enough(k) == thread[t].newCount < doubled[k] \div 2
  IN doubled[CHOOSE k \in 1..(thread[t].newCount + 1) :
               enough(k) /\ \A j \in 1..(k - 1) : ~enough(j)]

EmptyTable(capacity) ==
  [capacity |-> capacity, key |-> [i \in 0..(capacity - 1) |-> NoThread],
   value |-> [i \in 0..(capacity - 1) |-> 0]]

(* Under the lock: the current table is looked at again and, if still half *)
(* full, a larger one published.                                           *)
ResizeTable(t) ==
  LET now == tables[Len(tables)]
  IN /\ thread[t].pc = "resize"
     /\ tables' = IF HalfFull(t, now)
                  THEN Append(tables, EmptyTable(NewCapacity(t, now.capacity)))
                  ELSE tables
     /\ Sets(t, [Goto(t, "unlock") EXCEPT !.main = Len(tables')])
     /\ UNCHANGED <<producerListTail, producerCount, producers, hashCount,
                    resizing, readerVars, left>>

ResizeUnlock(t) ==
  /\ thread[t].pc = "unlock"
  /\ resizing' = FALSE
  /\ Sets(t, Decided(t, thread[t].main))
  /\ UNCHANGED <<producerListTail, producerCount, producers, tables,
                 hashCount, readerVars, left>>

(* malloc fails: the count is taken back and the lock released.            *)
ResizeFails(t) ==
  /\ thread[t].pc = "resize"
  /\ HalfFull(t, tables[Len(tables)])
  /\ Spends("failures")
  /\ hashCount' = hashCount - 1
  /\ Sets(t, Goto(t, "giveup"))
  /\ UNCHANGED <<producerListTail, producerCount, producers, tables, resizing,
                 readerVars>>

ResizeGiveUp(t) ==
  /\ thread[t].pc = "giveup"
  /\ resizing' = FALSE
  /\ Sets(t, Returns(t))
  /\ UNCHANGED <<producerListTail, producerCount, producers, tables,
                 hashCount, readerVars, left>>

(* create returned null: the count is taken back. *)
ProducerFails(t) ==
  /\ thread[t].pc = "look"
  /\ thread[t].ptr = 0
  /\ ~thread[t].isExplicit
  /\ Spends("failures")
  /\ hashCount' = hashCount - 1
  /\ Sets(t, Returns(t))
  /\ UNCHANGED <<producerListTail, producerCount, producers, tables, resizing,
                 readerVars>>

(* The new producer is added to the table the thread decided for. *)
GotProducer(t) ==
  /\ thread[t].pc = "acquired"
  /\ ~thread[t].isExplicit
  /\ Sets(t, Goto(t, "insert"))
  /\ UNCHANGED <<producerListTail, producerCount, producers, tableVars,
                 readerVars, left>>

(* One slot after the other until an exchange finds it free; the value is  *)
(* only ever read by this thread.                                          *)
InsertSlot(t) ==
  LET me == thread[t]
      i == Probe(t, Main(t).capacity, me.index)
  IN /\ me.pc = "insert"
     /\ \/ /\ Main(t).key[i] = NoThread
           /\ tables' = [tables EXCEPT ![me.main] =
                           [@ EXCEPT !.key[i] = t, !.value[i] = me.producer]]
           /\ Sets(t, [Returns(t) EXCEPT !.mine = me.producer])
        \/ /\ Main(t).key[i] # NoThread
           /\ Sets(t, [me EXCEPT !.index = (@ + 1) % Main(t).capacity])
           /\ UNCHANGED tables
     /\ UNCHANGED <<producerListTail, producerCount, producers, hashCount,
                    resizing, readerVars, left>>

HashNext ==
  \E t \in Enqueuers :
    \/ GetProducer(t) \/ GetNothing(t) \/ CountThread(t) \/ LoopTop(t)
    \/ Reload(t) \/ ResizeTable(t) \/ ResizeUnlock(t) \/ ResizeFails(t)
    \/ ResizeGiveUp(t) \/ ProducerFails(t) \/ GotProducer(t) \/ InsertSlot(t)

(***************************************************************************)
(* Dequeuing                                                               *)
(***************************************************************************)
(* desired, current, known, consumed: the consumer token.  tried: the      *)
(* producers a call has tried or seen empty; due: those it must have when  *)
(* it reports an empty queue (not state of the program).                   *)
NotReading ==
  [pc |-> "idle", ptr |-> 0, tail |-> 0, best |-> 0, nonEmpty |-> 0,
   count |-> 0, max |-> 0, desired |-> 0, current |-> 0, known |-> -1,
   consumed |-> 0, tried |-> {}, due |-> {}, empty |-> FALSE]

AllProducers == 1..Len(producers)

(* The producers of a list from p on, p included: those that are in every  *)
(* set with p that has the next one of each of its members.                *)
ChainFrom(list, p) ==
  LET Holds(S) == p \in S \cup {0} /\ \A x \in S : list[x].next \in S \cup {0}
      held == {S \in SUBSET DOMAIN list : Holds(S)}
  IN {q \in DOMAIN list : \A S \in held : q \in S}

Listed == ChainFrom(producers, producerListTail)

listVars == <<producerListTail, producerCount, producers, tableVars, thread>>

Reads(c, state) == reader' = [reader EXCEPT ![c] = state]

ReadGoto(c, pc) == [reader[c] EXCEPT !.pc = pc]

(* A call ends; empty: it got nothing. *)
Done(c, empty) ==
  [reader[c] EXCEPT !.pc = "done", !.empty = empty, !.ptr = 0, !.tail = 0,
                    !.best = 0, !.nonEmpty = 0, !.count = 0, !.max = 0]

StartRead(c, pc, maxes) ==
  /\ reader[c].pc = "idle"
  /\ left.tries[c] > 0
  /\ left' = [left EXCEPT !.tries[c] = @ - 1]
  /\ \E max \in maxes :
       Reads(c, [ReadGoto(c, pc) EXCEPT !.due = Listed, !.max = max])
  /\ UNCHANGED <<listVars, globalOffset>>

(* The caller goes on. *)
ReadReturns(c) ==
  /\ reader[c].pc = "done"
  /\ Reads(c, [NotReading EXCEPT
       !.desired = reader[c].desired, !.current = reader[c].current,
       !.known = reader[c].known, !.consumed = reader[c].consumed])
  /\ UNCHANGED <<listVars, globalOffset, left>>

(* try_dequeue without a token scores up to three non-empty producers. *)
try_dequeue(c) == c \in Readers \ TokenReaders /\ StartRead(c, "score0", {1})

LoadScoreTail(c) ==
  /\ reader[c].pc = "score0"
  /\ Reads(c, [ReadGoto(c, "score") EXCEPT !.ptr = producerListTail])
  /\ UNCHANGED <<listVars, globalOffset, left>>

Score(c) ==
  LET me == reader[c]
      on == [me EXCEPT !.ptr = next_prod(me.ptr)]
  IN /\ me.pc = "score"
     /\ me.ptr # 0
     /\ me.nonEmpty < 3
     /\ \/ Reads(c, [on EXCEPT !.tried = @ \cup {me.ptr}])
        \/ Reads(c, [on EXCEPT !.nonEmpty = @ + 1,
                               !.best = IF @ = 0 THEN me.ptr ELSE @])
        \/ Reads(c, [on EXCEPT !.nonEmpty = @ + 1, !.best = me.ptr])
     /\ UNCHANGED <<listVars, globalOffset, left>>

Scored(c) ==
  LET me == reader[c] IN
  /\ me.pc = "score"
  /\ me.ptr = 0 \/ me.nonEmpty = 3
  /\ \/ me.nonEmpty = 0 /\ Reads(c, Done(c, TRUE))
     \/ me.nonEmpty > 0 /\ Reads(c, Done(c, FALSE))     \* best->dequeue
     \/ /\ me.nonEmpty > 0
        /\ Reads(c, [ReadGoto(c, "walk0") EXCEPT !.tried = {me.best}])
  /\ UNCHANGED <<listVars, globalOffset, left>>

(* try_dequeue_non_interleaved, and try_dequeue_bulk without a token: the  *)
(* list from its tail.                                                     *)
try_dequeue_bulk(c) ==
  c \in Readers \ TokenReaders /\ StartRead(c, "walk0", {1, Bulk})

LoadWalkTail(c) ==
  /\ reader[c].pc = "walk0"
  /\ Reads(c, [ReadGoto(c, "walk") EXCEPT !.ptr = producerListTail])
  /\ UNCHANGED <<listVars, globalOffset, left>>

Walk(c) ==
  LET me == reader[c]
      on == [me EXCEPT !.ptr = next_prod(me.ptr)]
  IN /\ me.pc = "walk"
     /\ me.ptr # 0
     /\ \/ me.ptr # me.best /\ Reads(c, Done(c, FALSE))
        \/ /\ me.ptr # me.best /\ me.max > 1 /\ me.count + 1 < me.max
           /\ Reads(c, [on EXCEPT !.count = @ + 1])
        \/ Reads(c, [on EXCEPT !.tried = @ \cup {me.ptr}])
     /\ UNCHANGED <<listVars, globalOffset, left>>

Walked(c) ==
  /\ reader[c].pc = "walk"
  /\ reader[c].ptr = 0
  /\ Reads(c, Done(c, reader[c].count = 0))
  /\ UNCHANGED <<listVars, globalOffset, left>>

(***************************************************************************)
(* Dequeuing with a token                                                  *)
(***************************************************************************)
token_dequeue(c) == c \in TokenReaders /\ StartRead(c, "token", {1, Bulk})

(* The first call, or the global offset moved: find the token's place. *)
MustRotate(c) == reader[c].desired = 0 \/ reader[c].known # globalOffset

TestRotation(c) ==
  /\ reader[c].pc = "token"
  /\ Reads(c, ReadGoto(c, IF MustRotate(c) THEN "rotate" ELSE "current"))
  /\ UNCHANGED <<listVars, globalOffset, left>>

(* update_current_producer_after_rotation *)
RotateTail(c) ==
  /\ reader[c].pc = "rotate"
  /\ Reads(c, IF reader[c].desired = 0 /\ producerListTail = 0
              THEN Done(c, TRUE)
              ELSE [ReadGoto(c, "prodcount") EXCEPT !.tail = producerListTail])
  /\ UNCHANGED <<listVars, globalOffset, left>>

RotateCount(c) ==
  /\ reader[c].pc = "prodcount"
  /\ Reads(c, [ReadGoto(c, "offset") EXCEPT !.count = producerCount])
  /\ UNCHANGED <<listVars, globalOffset, left>>

(* n producers on from p, round the list from its tail. *)
Onward(p, n, tail) ==
  LET at[k \in 0..n] ==
        IF k = 0 THEN p
        ELSE IF next_prod(at[k - 1]) = 0 THEN tail ELSE next_prod(at[k - 1])
  IN at[n]

(* The token starts initialOffset from the end of the list; known is -1    *)
(* then, and unsigned subtraction makes the first delta globalOffset + 1.  *)
RotateOffset(c) ==
  LET me == reader[c]
      start == IF me.desired # 0 THEN me.desired
               ELSE Onward(me.tail,
                           me.count - 1 - (InitialOffsets[c] % me.count),
                           me.tail)
      place == Onward(start, (globalOffset - me.known) % me.count, me.tail)
  IN /\ me.pc = "offset"
     /\ Reads(c, [ReadGoto(c, "current") EXCEPT
                    !.desired = place, !.current = place, !.consumed = 0,
                    !.known = globalOffset, !.tail = 0, !.count = 0])
     /\ UNCHANGED <<listVars, globalOffset, left>>

(* The producer the token points at gives all that was asked for: after    *)
(* Quota elements everyone moves on.                                       *)
CurrentGives(c) ==
  LET me == reader[c]
      consumed == me.consumed + me.max
      rotates == IF me.max = 1 THEN consumed = RotationQuota ELSE consumed >= RotationQuota
  IN /\ me.pc = "current"
     /\ globalOffset' = globalOffset + (IF rotates THEN 1 ELSE 0)
     /\ Reads(c, [Done(c, FALSE) EXCEPT !.consumed = consumed])
     /\ UNCHANGED <<listVars, left>>

(* It gives less, perhaps nothing: try the others. *)
CurrentFails(c) ==
  LET me == reader[c] IN
  /\ me.pc = "current"
  /\ \E d \in 0..(me.max - 1) :
       Reads(c, [ReadGoto(c, "others") EXCEPT
                   !.consumed = @ + d, !.max = @ - d, !.count = d,
                   !.tried = IF d = 0 THEN @ \cup {me.current} ELSE @])
  /\ UNCHANGED <<listVars, globalOffset, left>>

\* Mutant: the walk ends at the end of the list.
WrapTo_End(next, tail) == next

WrapTo(next, tail) == IF next = 0 THEN tail ELSE next

LoadOthersTail(c) ==
  LET me == reader[c] IN
  /\ me.pc = "others"
  /\ Reads(c, [ReadGoto(c, "round") EXCEPT
                 !.tail = producerListTail,
                 !.ptr = WrapTo(next_prod(me.current), producerListTail)])
  /\ UNCHANGED <<listVars, globalOffset, left>>

(* Another producer gives some, all or nothing of what is left; one that   *)
(* gives becomes the current one, and the round starts over from it.       *)
Round(c) ==
  LET me == reader[c] IN
  /\ me.pc = "round"
  /\ me.ptr # 0
  /\ me.ptr # me.current
  /\ \E d \in 0..me.max :
       LET gave == IF d = 0 THEN [me EXCEPT !.tried = @ \cup {me.ptr}]
                   ELSE [me EXCEPT !.current = me.ptr, !.consumed = d,
                                   !.count = @ + d, !.max = @ - d]
       IN Reads(c, IF d = me.max
                   THEN [Done(c, FALSE) EXCEPT !.current = me.ptr,
                                               !.consumed = d]
                   ELSE [gave EXCEPT !.ptr =
                           WrapTo(next_prod(me.ptr), me.tail)])
  /\ UNCHANGED <<listVars, globalOffset, left>>

RoundOver(c) ==
  /\ reader[c].pc = "round"
  /\ reader[c].ptr \in {0, reader[c].current}
  /\ Reads(c, Done(c, reader[c].count = 0))
  /\ UNCHANGED <<listVars, globalOffset, left>>

ReadNext ==
  \E c \in Readers :
    \/ try_dequeue(c) \/ LoadScoreTail(c) \/ Score(c) \/ Scored(c)
    \/ try_dequeue_bulk(c) \/ LoadWalkTail(c) \/ Walk(c) \/ Walked(c)
    \/ token_dequeue(c) \/ TestRotation(c) \/ RotateTail(c) \/ RotateCount(c)
    \/ RotateOffset(c) \/ CurrentGives(c) \/ CurrentFails(c)
    \/ LoadOthersTail(c) \/ Round(c) \/ RoundOver(c) \/ ReadReturns(c)

ProducerListInit ==
  /\ producerListTail = 0
  /\ producerCount = 0
  /\ producers = <<>>
  /\ tables = <<EmptyTable(HashSize)>>
  /\ hashCount = 0
  /\ resizing = FALSE
  /\ thread = [t \in Enqueuers |-> AtEase]
  /\ reader = [c \in Readers |-> NotReading]
  /\ globalOffset = 0
  /\ left \in Bounds

ProducerListNext == TokenNext \/ HashNext \/ ReadNext

ProducerListSpec == ProducerListInit /\ [][ProducerListNext]_producerListVars

Inside(t) ==
  \/ Look(t) \/ Grab(t) \/ Create(t) \/ LoadListTail(t) \/ LinkNext(t)
  \/ PushProducer(t) \/ OwnProducer(t) \/ Unown(t) \/ RetireProducer(t)
  \/ CountThread(t) \/ LoopTop(t) \/ Reload(t) \/ ResizeTable(t)
  \/ ResizeUnlock(t) \/ ResizeGiveUp(t) \/ GotProducer(t) \/ InsertSlot(t)

(* Every thread inside a call runs. *)
ProducerListFairness == \A t \in Enqueuers : WF_producerListVars(Inside(t))

(***************************************************************************)
(* Properties                                                              *)
(***************************************************************************)
Pushing(t) == thread[t].pc \in {"head", "link", "push"}

(* Every producer that was created is in the list once its push succeeded, *)
(* and is counted: no concurrent push loses another thread's producer with *)
(* all its elements.                                                       *)
ProducersListed ==
  /\ Listed = AllProducers \ {thread[t].producer :
                 t \in {u \in Enqueuers : Pushing(u)}}
  /\ producerCount = Len(producers)

(* A live token's producer belongs to no other token, is active, and       *)
(* points back at it, so that destroying the queue invalidates the token.  *)
TokensExclusive ==
  \A t \in Enqueuers :
    LET p == thread[t].token IN
    p # 0 => /\ ~producers[p].inactive
             /\ producers[p].token = t
             /\ \A u \in Enqueuers \ {t} : thread[u].token # p

(* A thread has one implicit producer all its life, whatever table it is   *)
(* found in: its elements stay in one order.                               *)
OneProducerPerThread ==
  \A t \in Enqueuers :
    Cardinality({ValueIn(t, tables[i]) : i \in
                   {j \in 1..Len(tables) : FoundIn(t, tables[j])}}
                \cup ({thread[t].mine} \ {0})) <= 1

(* "Not an infinite loop because at least one slot is free in the hash     *)
(* table": also while threads with stale counts add to an old table and    *)
(* found ones to a new table.                                              *)
TableHasRoom ==
  \A i \in 1..Len(tables) : \E k \in DOMAIN tables[i].key :
    tables[i].key[k] = NoThread

(* The rotation never divides by a producer count of zero and leads to a   *)
(* producer of the list.                                                   *)
RotationDefined ==
  \A c \in Readers :
    /\ reader[c].pc = "offset" => reader[c].count > 0 /\ reader[c].tail # 0
    /\ reader[c].current # 0 => reader[c].current \in Listed

(* The list and its tokens are what the walks over them rely on. *)
ProducersIntact == ProducersListed /\ TokensExclusive /\ RotationDefined

(* The hash of threads finds a thread's own producer, and finds it in a    *)
(* bounded number of steps, while tables are being replaced.               *)
HashIntact == OneProducerPerThread /\ TableHasRoom

(* A call reports an empty queue only after it tried, or saw empty, every  *)
(* producer that was in the list when it began.                            *)
EmptyMeansAllTried ==
  \A c \in Readers :
    reader[c].pc = "done" /\ reader[c].empty =>
      reader[c].due \subseteq reader[c].tried

(* get_or_add_implicit_producer and the token operations return, also when *)
(* the thread that resizes the hash table fails.  The calls of a behaviour *)
(* are bounded, so every call returns exactly if all threads come to rest. *)
CallsReturn ==
  (\E t \in Enqueuers : thread[t].pc # "idle")
    ~> (\A t \in Enqueuers : thread[t].pc = "idle")
=============================================================================
