----------------------------- MODULE SystemProofs -----------------------------
(***************************************************************************)
(* The caches of SystemInfo, the monitor of MonitorProcess and the calls   *)
(* of PopenWrapper, for any number of callers, domains, monitor threads    *)
(* and pids, any sizes of pipe and buffer and any input and output.        *)
(*                                                                         *)
(* SystemInfo: but for GetCpuUsage's samples an invalidated reading is not *)
(* served again and readings move forward, and with one owner the refresh  *)
(* thread is never assigned over.                                          *)
(* The argument is the domain's mutex: between a fetch and its store the   *)
(* thread holds it, so neither the entry nor its count of invalidations    *)
(* changes, and what is stored is as new as the entry may ask for.         *)
(*                                                                         *)
(* MonitorProcess, used by any number of threads: the monitor thread that  *)
(* lives is alone and nobody is in Start, so the children, the published   *)
(* pid and the counters are its own, and where it is says what has become  *)
(* of its child.  WaitForStop's store of kIdle can end this, and with one  *)
(* caller it never does.                                                   *)
(*                                                                         *)
(* PopenWrapper: a byte the child wrote is in the pipe, in the result or   *)
(* handed to a callback, and a stream is closed only when the child is     *)
(* dead and its pipe empty, or the call is aborted.                        *)
(***************************************************************************)
EXTENDS SystemInfo, MonitorProcess, PopenWrapper, TLAPS

\* Every fetch under way holds its domain's mutex, and nobody else does.
FetchersHoldMutex ==
  \A d \in Domains :
    /\ \A u \in Users :
         holder[d] = u <=> user[u].pc = "fetched" /\ user[u].domain = d
    /\ holder[d] = Refresher <=> loop.pc = "fetched" /\ loop.domain = d

\* A refresh thread that runs has a handle, so that none is started beside it.
LoopHasHandle == joinable \/ loop.pc = "none"

\* What the entries hold: nothing from the future, and, where they are valid
\* and not revived, nothing from before the last invalidation.
CachesFresh ==
  \A d \in Domains :
    /\ cache[d].value.read <= now
    /\ (cache[d].valid /\ ~(d = "cpu" /\ revived)) =>
         cache[d].value.epoch = invalidations[d]

\* The reading r was made under the mutex of d, which is still held.
FetchedFor(r, d) ==
  /\ ~r.sampled
  /\ r.epoch = invalidations[d]
  /\ cache[d].value.read <= r.read /\ r.read <= now

\* What threads carry to the store.
FetchesFresh ==
  /\ \A u \in Users :
       /\ user[u].pc = "fetched" => FetchedFor(user[u].reading, user[u].domain)
       /\ user[u].pc = "sampled" =>
            /\ user[u].reading.sampled /\ user[u].reading.read <= now
            /\ user[u].reading.epoch <= invalidations["cpu"]
  /\ loop.pc = "fetched" => FetchedFor(loop.reading, loop.domain)

CacheInv ==
  /\ InfoTypeOK
  /\ FetchersHoldMutex
  /\ LoopHasHandle
  /\ CachesFresh
  /\ FetchesFresh
  /\ baseline <= now
  /\ InvalidateForcesRefetch

-----------------------------------------------------------------------------
(* Lemmas. *)

LEMMA FirstTodoIsTodo ==
  ASSUME loop.todo # {}, loop.todo \subseteq Refreshed
  PROVE  FirstTodo \in loop.todo /\ FirstTodo \in Domains
<1> DEFINE P(i) == i \in DOMAIN RefreshOrder /\ RefreshOrder[i] \in loop.todo
           First(i) == P(i) /\ \A j \in 1..i - 1 : RefreshOrder[j] \notin loop.todo
<1>1. DOMAIN RefreshOrder = 1..4
  BY DEF RefreshOrder
<1>2. P(1) \/ P(2) \/ P(3) \/ P(4)
  <2>1. PICK x \in loop.todo : x \in Refreshed
    OBVIOUS
  <2>2. PICK i \in DOMAIN RefreshOrder : x = RefreshOrder[i]
    BY <2>1 DEF Refreshed
  <2> QED
    BY <1>1, <2>1, <2>2
<1>3. \E i \in DOMAIN RefreshOrder : First(i)
  <2> HIDE DEF P
  <2>1. CASE P(1)
    BY <1>1, <2>1 DEF P
  <2>2. CASE ~P(1) /\ P(2)
    BY <1>1, <2>2 DEF P
  <2>3. CASE ~P(1) /\ ~P(2) /\ P(3)
    BY <1>1, <2>3 DEF P
  <2>4. CASE ~P(1) /\ ~P(2) /\ ~P(3) /\ P(4)
    BY <1>1, <2>4 DEF P
  <2> QED
    BY <1>2, <2>1, <2>2, <2>3, <2>4
<1> QED
  BY <1>3 DEF FirstTodo, Refreshed

\* A thread that has fetched holds the mutex of its domain.
LEMMA FetcherHolds ==
  ASSUME InfoTypeOK, FetchersHoldMutex
  PROVE  /\ \A u \in Users : user[u].pc = "fetched" => holder[user[u].domain] = u
         /\ loop.pc = "fetched" => holder[loop.domain] = Refresher
BY SystemInfoAssumption DEF InfoTypeOK, FetchersHoldMutex

\* A thread that has fetched stores its reading and releases the mutex.
LEMMA SetKeepsFresh ==
  ASSUME CacheInv, NEW d \in Domains, NEW v \in Readings, Set(d, v), v.read <= now,
         \/ v.epoch = invalidations[d]
         \/ d = "cpu" /\ v.sampled /\ v.epoch <= invalidations[d],
         UNCHANGED <<now, invalidations>>
  PROVE  CachesFresh'
<1>t. /\ cache \in [Domains -> [valid: BOOLEAN, at: Times, value: Readings]]
      /\ now \in Int /\ \A e \in Domains : invalidations[e] \in Int
      /\ v.epoch \in Int /\ CachesFresh
  BY SystemInfoAssumption DEF CacheInv, InfoTypeOK, Times, Readings
<1>1. /\ cache'[d].value = v
      /\ \A e \in Domains : e # d => cache'[e] = cache[e]
      /\ d = "cpu" => (revived' <=> v.sampled /\ v.epoch < invalidations[d])
      /\ d # "cpu" => revived' = revived
  BY <1>t DEF Set
<1>2. d = "cpu" /\ ~revived' => v.epoch = invalidations[d]
  BY <1>t, <1>1
<1>3. d # "cpu" => v.epoch = invalidations[d]
  OBVIOUS
<1> SUFFICES ASSUME NEW e \in Domains
             PROVE  /\ cache'[e].value.read <= now
                    /\ (cache'[e].valid /\ ~(e = "cpu" /\ revived')) =>
                         cache'[e].value.epoch = invalidations[e]
  BY DEF CachesFresh
<1>4. CASE e = d
  BY <1>1, <1>2, <1>3, <1>4
<1>5. CASE e # d
  BY <1>t, <1>1, <1>5 DEF CachesFresh
<1> QED
  BY <1>4, <1>5

\* Records that change a field keep their type.
UserPcs == {"out", "fetched", "between", "sampled", "starting", "joining"}
UserStates == [pc: UserPcs, domain: Domains, reading: Readings]
LoopPcs == {"none", "sleep", "next", "fetched", "done"}
LoopStates == [pc: LoopPcs, todo: SUBSET Refreshed, domain: Domains, reading: Readings]
Entries == [valid: BOOLEAN, at: Times, value: Readings]

LEMMA FieldTypes ==
  /\ \A r \in UserStates, p \in UserPcs : [r EXCEPT !.pc = p] \in UserStates
  /\ \A r \in UserStates, p \in UserPcs, d \in Domains :
       [r EXCEPT !.pc = p, !.domain = d] \in UserStates
  /\ \A r \in UserStates, p \in UserPcs, x \in Readings :
       [r EXCEPT !.pc = p, !.reading = x] \in UserStates
  /\ \A r \in LoopStates, p \in LoopPcs : [r EXCEPT !.pc = p] \in LoopStates
  /\ \A r \in LoopStates, p \in LoopPcs, S \in SUBSET Refreshed :
       [r EXCEPT !.pc = p, !.todo = S] \in LoopStates
  /\ \A e \in Entries : [e EXCEPT !.valid = FALSE] \in Entries
BY DEF UserStates, LoopStates, Entries

\* AssignThread starts a thread only where there is none.
LEMMA AssignedLoop ==
  ASSUME CacheInv, NEW u \in Users, AssignThread(u)
  PROVE  \/ loop' = loop /\ joinable' = joinable
         \/ joinable' /\ loop.pc = "none" /\ loop'.pc = "next"
<1>1. loop \in LoopStates /\ LoopHasHandle
  BY DEF CacheInv, InfoTypeOK, LoopStates, LoopPcs
<1>2. [loop EXCEPT !.pc = "next", !.todo = {}].pc = "next"
  BY <1>1 DEF LoopStates
<1> QED
  BY <1>1, <1>2 DEF AssignThread, LoopHasHandle

-----------------------------------------------------------------------------
(* Every step keeps CacheInv. *)

\* Each action with its types first.
LEMMA TypesStay ==
  ASSUME CacheInv, InfoNext
  PROVE  InfoTypeOK'
<1> USE SystemInfoAssumption DEF refreshVars, cacheVars, Times, Readings
<1>i. InfoTypeOK
  BY DEF CacheInv
<1>u. /\ user \in [Users -> UserStates] /\ loop \in LoopStates
      /\ cache \in [Domains -> Entries]
  BY <1>i DEF InfoTypeOK, UserStates, UserPcs, LoopStates, LoopPcs, Entries
<1>v. ASSUME user' \in [Users -> UserStates] PROVE user' \in [Users ->
        [pc: {"out", "fetched", "between", "sampled", "starting", "joining"},
         domain: Domains, reading: Readings]]
  BY <1>v DEF UserStates, UserPcs
<1>r. /\ \A d \in Domains, b \in BOOLEAN : Reading(d, b) \in Readings
      /\ NoReading \in Readings
  BY <1>i DEF Reading, NoReading, InfoTypeOK
<1>1. CASE Tick
  BY <1>1, <1>i DEF Tick, InfoTypeOK
<1>2. CASE LoopTests
  BY <1>2, <1>i DEF LoopTests, InfoTypeOK
<1>3. CASE LoopFetches
  <2>1. FirstTodo \in Domains
    BY <1>3, <1>i, FirstTodoIsTodo DEF LoopFetches, InfoTypeOK
  <2> QED
    BY <1>3, <1>i, <1>r, <2>1 DEF LoopFetches, FetchCpuInfo, InfoTypeOK
<1>4. CASE LoopStores
  BY <1>4, <1>i, <1>r DEF LoopStores, Set, IdleLoop, InfoTypeOK
<1>5. CASE LoopThrows
  BY <1>5, <1>i, <1>r DEF LoopThrows, IdleLoop, InfoTypeOK
<1>6. ASSUME NEW u \in Users, UserStep(u) PROVE InfoTypeOK'
  <2>1. CASE StoreFetched(u)
    BY <1>i, <1>r, <2>1
    DEF StoreFetched, Set, Serve, IdleUser, InfoTypeOK
  <2>2. CASE SampleAfter(u)
    <3>1. user' \in [Users -> UserStates]
      BY <1>i, <1>r, <1>u, <2>2, FieldTypes DEF SampleAfter, UserPcs, InfoTypeOK
    <3> QED
      BY <1>i, <1>v, <2>2, <3>1 DEF SampleAfter, InfoTypeOK
  <2>3. CASE StoreSampled(u)
    BY <1>i, <1>r, <2>3
    DEF StoreSampled, SampledBaseline, Set, IdleUser, InfoTypeOK
  <2>4. CASE AssignThread(u)
    <3>1. user' \in [Users -> UserStates]
      BY <1>u, <2>4, FieldTypes DEF AssignThread, UserPcs
    <3>2. [loop EXCEPT !.pc = "next", !.todo = {}] \in LoopStates
      BY <1>u, FieldTypes, "next" \in LoopPcs DEF LoopPcs
    <3>3. loop' \in LoopStates
      BY <1>u, <2>4, <3>2 DEF AssignThread
    <3> QED
      BY <1>i, <1>v, <2>4, <3>1, <3>3 DEF AssignThread, InfoTypeOK, LoopStates, LoopPcs
  <2>5. CASE JoinRefresh(u)
    <3>1. user' \in [Users -> UserStates] /\ loop' \in LoopStates
      BY <1>u, <2>5, FieldTypes DEF JoinRefresh, UserPcs, LoopPcs
    <3> QED
      BY <1>i, <1>v, <2>5, <3>1 DEF JoinRefresh, InfoTypeOK, LoopStates, LoopPcs
  <2> QED
    BY <1>6, <2>1, <2>2, <2>3, <2>4, <2>5 DEF UserStep
<1>7. ASSUME NEW u \in Users, UserCall(u) PROVE InfoTypeOK'
  <2>1. CASE SampleBefore(u)
    <3>1. user' \in [Users -> UserStates]
      BY <1>i, <1>r, <1>u, <2>1, FieldTypes DEF SampleBefore, UserPcs, InfoTypeOK
    <3> QED
      BY <1>i, <1>v, <2>1, <3>1 DEF SampleBefore, InfoTypeOK
  <2>2. CASE StartRefresh(u)
    <3>1. user' \in [Users -> UserStates]
      BY <1>i, <1>r, <1>u, <2>2, FieldTypes DEF StartRefresh, UserPcs, InfoTypeOK
    <3> QED
      BY <1>i, <1>v, <2>2, <3>1 DEF StartRefresh, InfoTypeOK
  <2>3. CASE StopRefresh(u)
    <3>1. user' \in [Users -> UserStates]
      BY <1>i, <1>r, <1>u, <2>3, FieldTypes DEF StopRefresh, UserPcs, InfoTypeOK
    <3> QED
      BY <1>i, <1>v, <2>3, <3>1 DEF StopRefresh, InfoTypeOK
  <2>4. ASSUME NEW d \in Domains, Hit(u, d) PROVE InfoTypeOK'
    BY <1>i, <2>4 DEF Hit, ServeCached, Serve, InfoTypeOK
  <2>5. ASSUME NEW d \in Domains, Fetch(u, d) PROVE InfoTypeOK'
    BY <1>i, <1>r, <2>5 DEF Fetch, FetchCpuInfo, InfoTypeOK
  <2>6. ASSUME NEW d \in Domains, InvalidateCache(u, d) PROVE InfoTypeOK'
    <3>1. cache' \in [Domains -> Entries]
      BY <1>u, <2>6, FieldTypes DEF InvalidateCache
    <3> QED
      BY <1>i, <2>6, <3>1 DEF InvalidateCache, InfoTypeOK, Entries
  <2> QED
    BY <1>7, <2>1, <2>2, <2>3, <2>4, <2>5, <2>6 DEF UserCall
<1> QED
  BY <1>1, <1>2, <1>3, <1>4, <1>5, <1>6, <1>7 DEF InfoNext, LoopStep

\* The mutex is taken with the fetch and released with the store.
LEMMA MutexStays ==
  ASSUME CacheInv, InfoNext
  PROVE  FetchersHoldMutex'
<1> USE DEF refreshVars, cacheVars
<1>t. /\ holder \in [Domains -> Users \cup {Refresher, Nobody}]
      /\ \A u \in Users : user[u].domain \in Domains
      /\ DOMAIN user = Users /\ loop.domain \in Domains
      /\ loop.todo \subseteq Refreshed
      /\ FetchersHoldMutex /\ LoopHasHandle
      /\ Nobody \notin Users /\ Refresher \notin Users /\ Nobody # Refresher
  BY SystemInfoAssumption DEF CacheInv, InfoTypeOK, Nobody, Refresher
<1>s. ASSUME UNCHANGED holder,
             \A u \in Users : (user[u].pc = "fetched" \/ user'[u].pc = "fetched") =>
                               user'[u] = user[u],
             (loop.pc = "fetched" \/ loop'.pc = "fetched") => loop' = loop
      PROVE  FetchersHoldMutex'
  BY <1>s, <1>t DEF FetchersHoldMutex
<1>1. CASE Tick
  BY <1>1, <1>t, <1>s DEF Tick
<1>2. CASE LoopTests
  BY <1>2, <1>t, <1>s DEF LoopTests
<1>3. CASE LoopFetches
  <2>1. FirstTodo \in Domains
    BY <1>3, <1>t, FirstTodoIsTodo DEF LoopFetches
  <2> QED
    BY <1>3, <1>t, <2>1 DEF LoopFetches, FetchersHoldMutex
<1>4. CASE LoopStores
  BY <1>4, <1>t DEF LoopStores, IdleLoop, FetchersHoldMutex
<1>5. CASE LoopThrows
  BY <1>5, <1>t DEF LoopThrows, IdleLoop, FetchersHoldMutex
<1>6. ASSUME NEW u \in Users, UserStep(u) PROVE FetchersHoldMutex'
  <2>1. CASE StoreFetched(u)
    BY <2>1, <1>t DEF StoreFetched, IdleUser, FetchersHoldMutex
  <2>2. CASE SampleAfter(u)
    BY <2>2, <1>t, <1>s DEF SampleAfter
  <2>3. CASE StoreSampled(u)
    BY <2>3, <1>t, <1>s DEF StoreSampled, IdleUser
  <2>4. CASE AssignThread(u)
    <3>1. UNCHANGED holder /\ user' = [user EXCEPT ![u].pc = "out"]
      BY <2>4 DEF AssignThread
    <3>2. (loop.pc = "fetched" \/ loop'.pc = "fetched") => loop' = loop
      BY <2>4, AssignedLoop
    <3>3. user'[u].pc = "out" /\ user[u].pc = "starting"
      BY <2>4, <1>t DEF AssignThread
    <3>4. \A w \in Users : w # u => user'[w] = user[w]
      BY <3>1, <1>t
    <3> QED
      BY <1>s, <3>1, <3>2, <3>3, <3>4
  <2>5. CASE JoinRefresh(u)
    BY <2>5, <1>t, <1>s DEF JoinRefresh
  <2> QED
    BY <1>6, <2>1, <2>2, <2>3, <2>4, <2>5 DEF UserStep
<1>7. ASSUME NEW u \in Users, UserCall(u) PROVE FetchersHoldMutex'
  <2>1. CASE SampleBefore(u)
    BY <2>1, <1>t, <1>s DEF SampleBefore
  <2>2. CASE StartRefresh(u)
    BY <2>2, <1>t, <1>s DEF StartRefresh
  <2>3. CASE StopRefresh(u)
    BY <2>3, <1>t, <1>s DEF StopRefresh
  <2>4. ASSUME NEW d \in Domains, Hit(u, d) PROVE FetchersHoldMutex'
    BY <2>4, <1>t, <1>s DEF Hit
  <2>5. ASSUME NEW d \in Domains, Fetch(u, d) PROVE FetchersHoldMutex'
    BY <2>5, <1>t DEF Fetch, FetchersHoldMutex
  <2>6. ASSUME NEW d \in Domains, InvalidateCache(u, d) PROVE FetchersHoldMutex'
    BY <2>6, <1>t, <1>s DEF InvalidateCache
  <2> QED
    BY <1>7, <2>1, <2>2, <2>3, <2>4, <2>5, <2>6 DEF UserCall
<1> QED
  BY <1>1, <1>2, <1>3, <1>4, <1>5, <1>6, <1>7 DEF InfoNext, LoopStep

\* The handle is assigned with the thread and cleared after it is joined.
LEMMA HandleStays ==
  ASSUME CacheInv, InfoNext
  PROVE  LoopHasHandle'
<1>i. LoopHasHandle
  BY DEF CacheInv
<1>1. CASE \E u \in Users : AssignThread(u)
  BY <1>1, AssignedLoop, <1>i DEF LoopHasHandle
<1>2. CASE \E u \in Users : JoinRefresh(u)
  <2>1. loop \in LoopStates
    BY DEF CacheInv, InfoTypeOK, LoopStates, LoopPcs
  <2> QED
    BY <1>2, <2>1 DEF JoinRefresh, LoopHasHandle, LoopStates
<1>3. CASE UNCHANGED <<joinable, loop>>
  BY <1>3, <1>i DEF LoopHasHandle
<1>4. CASE LoopStep
  BY <1>4, <1>i DEF LoopStep, LoopTests, LoopFetches, LoopStores, LoopThrows, LoopHasHandle
<1> QED
  BY <1>1, <1>2, <1>3, <1>4 DEF InfoNext, UserStep, UserCall, refreshVars,
     Tick, StoreFetched, SampleAfter, StoreSampled, SampleBefore, StartRefresh, StopRefresh,
     Hit, Fetch, InvalidateCache

\* The entries and the readings on their way to them, one action at a time.
LEMMA FreshStays ==
  ASSUME CacheInv, InfoNext
  PROVE  CachesFresh' /\ FetchesFresh'
<1> USE DEF refreshVars, cacheVars
<1>t. /\ now \in Int
      /\ \A d \in Domains : /\ cache[d].value.read \in Int
                            /\ invalidations[d] \in Int
      /\ \A u \in Users : /\ user[u].domain \in Domains /\ user[u].reading.read \in Int
                          /\ user[u].reading \in Readings /\ user[u].reading.epoch \in Int
      /\ loop.domain \in Domains /\ loop.reading.read \in Int /\ loop.reading \in Readings
      /\ DOMAIN user = Users /\ DOMAIN cache = Domains /\ DOMAIN invalidations = Domains
      /\ "cpu" \in Domains /\ loop.todo \subseteq Refreshed
      /\ Nobody \notin Users /\ Refresher \notin Users /\ Nobody # Refresher
  BY SystemInfoAssumption DEF CacheInv, InfoTypeOK, Readings, Times, Nobody, Refresher
<1>i. CachesFresh /\ FetchesFresh /\ LoopHasHandle
  BY DEF CacheInv
<1>h. /\ \A u \in Users : user[u].pc = "fetched" => holder[user[u].domain] = u
      /\ loop.pc = "fetched" => holder[loop.domain] = Refresher
  BY FetcherHolds DEF CacheInv
\* A step that leaves the cache alone and adds no reading.
<1>s. ASSUME UNCHANGED <<now, cache, invalidations, revived>>,
             \A u \in Users : user'[u].pc \in {"fetched", "sampled"} => user'[u] = user[u],
             loop'.pc = "fetched" => loop' = loop
      PROVE  CachesFresh' /\ FetchesFresh'
  BY <1>s, <1>i DEF CachesFresh, FetchesFresh, FetchedFor
\* A step that changes one entry, whose mutex no other fetch holds.
<1>d. ASSUME NEW d \in Domains, UNCHANGED now,
             \A e \in Domains : e # d =>
               cache'[e] = cache[e] /\ invalidations'[e] = invalidations[e],
             invalidations'[d] \in {invalidations[d], invalidations[d] + 1},
             \A u \in Users : user'[u].pc \in {"fetched", "sampled"} => user'[u] = user[u],
             \A u \in Users : user'[u].pc = "fetched" => user[u].domain # d,
             loop'.pc = "fetched" => loop' = loop /\ loop.domain # d
      PROVE  FetchesFresh'
  BY <1>d, <1>i, <1>t DEF FetchesFresh, FetchedFor
<1>1. CASE Tick
  BY <1>1, <1>t, <1>i DEF Tick, CachesFresh, FetchesFresh, FetchedFor
<1>2. CASE LoopTests
  BY <1>2, <1>s DEF LoopTests
<1>3. CASE LoopFetches
  <2>1. FirstTodo \in Domains
    BY <1>3, <1>t, FirstTodoIsTodo DEF LoopFetches
  <2>2. loop'.domain = FirstTodo /\ loop'.reading = Reading(FirstTodo, FALSE)
    <3>1. loop \in LoopStates
      BY DEF CacheInv, InfoTypeOK, LoopStates, LoopPcs
    <3> QED
      BY <1>3, <3>1 DEF LoopFetches, LoopStates
  <2>3. CachesFresh' /\ UNCHANGED <<now, cache, invalidations, user>>
    BY <1>3, <1>i DEF LoopFetches, CachesFresh
  <2>4. FetchedFor(loop'.reading, loop'.domain)
    BY <2>1, <2>2, <1>t, <1>i DEF Reading, FetchedFor, CachesFresh
  <2> QED
    BY <2>3, <2>4, <1>i DEF FetchesFresh, FetchedFor
<1>4. CASE LoopStores
  <2>1. FetchedFor(loop.reading, loop.domain)
    BY <1>4, <1>i DEF LoopStores, FetchesFresh
  <2>2. CachesFresh'
    BY <1>4, <1>t, <2>1, SetKeepsFresh DEF LoopStores, FetchedFor
  <2>3. FetchesFresh'
    BY <1>4, <1>t, <1>h, <1>d DEF LoopStores, Set, IdleLoop
  <2> QED
    BY <2>2, <2>3
<1>5. CASE LoopThrows
  BY <1>5, <1>s DEF LoopThrows, IdleLoop
<1>6. ASSUME NEW u \in Users, UserStep(u)
      PROVE  CachesFresh' /\ FetchesFresh'
  <2>1. CASE StoreFetched(u)
    <3>1. FetchedFor(user[u].reading, user[u].domain)
      BY <2>1, <1>i DEF StoreFetched, FetchesFresh
    <3>2. CachesFresh'
      BY <2>1, <1>t, <3>1, SetKeepsFresh DEF StoreFetched, FetchedFor
    <3>3. FetchesFresh'
      BY <2>1, <1>t, <1>h, <1>d DEF StoreFetched, Set, IdleUser
    <3> QED
      BY <3>2, <3>3
  <2>2. CASE SampleAfter(u)
    <3>1. user'[u].pc = "sampled" /\ user'[u].reading = Reading("cpu", TRUE)
      <4>1. user[u] \in UserStates
        BY DEF CacheInv, InfoTypeOK, UserStates, UserPcs
      <4> QED
        BY <2>2, <1>t, <4>1 DEF SampleAfter, UserStates
    <3>2. /\ user'[u].reading.sampled /\ user'[u].reading.read <= now
          /\ user'[u].reading.epoch <= invalidations["cpu"]
      BY <3>1, <1>t DEF Reading
    <3>3. \A w \in Users : w # u => user'[w] = user[w]
      BY <2>2, <1>t DEF SampleAfter
    <3>4. CachesFresh' /\ UNCHANGED <<now, cache, invalidations, loop>>
      BY <2>2, <1>i DEF SampleAfter, CachesFresh
    <3> QED
      BY <3>1, <3>2, <3>3, <3>4, <1>i DEF FetchesFresh, FetchedFor
  <2>3. CASE StoreSampled(u)
    <3>1. /\ user[u].reading.sampled /\ user[u].reading.read <= now
          /\ user[u].reading.epoch <= invalidations["cpu"]
      BY <2>3, <1>i DEF StoreSampled, FetchesFresh
    <3>2. CachesFresh'
      BY <2>3, <1>t, <3>1, SetKeepsFresh DEF StoreSampled
    <3>3. FetchesFresh'
      BY <2>3, <1>t, <1>h, <1>d DEF StoreSampled, Set, IdleUser
    <3> QED
      BY <3>2, <3>3
  <2>4. CASE AssignThread(u)
    <3>1. /\ UNCHANGED <<now, cache, invalidations, revived>>
          /\ user' = [user EXCEPT ![u].pc = "out"]
      BY <2>4 DEF AssignThread
    <3>2. loop'.pc = "fetched" => loop' = loop
      BY <2>4, AssignedLoop
    <3>3. user'[u].pc = "out"
      BY <2>4, <1>t DEF AssignThread
    <3>4. \A w \in Users : w # u => user'[w] = user[w]
      BY <3>1, <1>t
    <3> QED
      BY <1>s, <3>1, <3>2, <3>3, <3>4
  <2>5. CASE JoinRefresh(u)
    BY <2>5, <1>t, <1>s DEF JoinRefresh
  <2> QED
    BY <1>6, <2>1, <2>2, <2>3, <2>4, <2>5 DEF UserStep
<1>7. ASSUME NEW u \in Users, UserCall(u)
      PROVE  CachesFresh' /\ FetchesFresh'
  <2>1. CASE SampleBefore(u)
    BY <2>1, <1>t, <1>s DEF SampleBefore
  <2>2. CASE StartRefresh(u)
    BY <2>2, <1>t, <1>s DEF StartRefresh
  <2>3. CASE StopRefresh(u)
    BY <2>3, <1>t, <1>s DEF StopRefresh
  <2>4. ASSUME NEW d \in Domains, Hit(u, d) PROVE CachesFresh' /\ FetchesFresh'
    BY <2>4, <1>t, <1>s DEF Hit
  <2>5. ASSUME NEW d \in Domains, Fetch(u, d) PROVE CachesFresh' /\ FetchesFresh'
    <3>1. CachesFresh' /\ UNCHANGED <<now, cache, invalidations, loop>>
      BY <2>5, <1>i DEF Fetch, CachesFresh
    <3>2. /\ user'[u].pc = "fetched" /\ user'[u].domain = d
          /\ user'[u].reading = Reading(d, FALSE)
          /\ \A w \in Users : w # u => user'[w] = user[w]
      BY <2>5, <1>t DEF Fetch
    <3>3. FetchedFor(user'[u].reading, user'[u].domain)
      BY <3>2, <1>t, <1>i DEF Reading, FetchedFor, CachesFresh
    <3> QED
      BY <3>1, <3>2, <3>3, <1>i DEF FetchesFresh, FetchedFor
  <2>6. ASSUME NEW d \in Domains, InvalidateCache(u, d) PROVE CachesFresh' /\ FetchesFresh'
    <3>1. /\ \A e \in Domains : e # d =>
               cache'[e] = cache[e] /\ invalidations'[e] = invalidations[e]
          /\ invalidations'[d] = invalidations[d] + 1
          /\ UNCHANGED <<now, user, loop, revived>> /\ holder[d] = Nobody
      BY <2>6, <1>t DEF InvalidateCache, MayInvalidate
    <3>2. cache'[d].value = cache[d].value /\ ~cache'[d].valid
      <4>1. cache[d] \in Entries
        BY DEF CacheInv, InfoTypeOK, Entries
      <4> QED
        BY <2>6, <1>t, <4>1 DEF InvalidateCache, Entries
    <3>3. CachesFresh'
      BY <3>1, <3>2, <1>i DEF CachesFresh
    <3>4. FetchesFresh'
      BY <3>1, <1>h, <1>t, <1>d
    <3> QED
      BY <3>3, <3>4
  <2> QED
    BY <1>7, <2>1, <2>2, <2>3, <2>4, <2>5, <2>6 DEF UserCall
<1> QED
  BY <1>1, <1>2, <1>3, <1>4, <1>5, <1>6, <1>7 DEF InfoNext, LoopStep

\* What is served under the mutex was read since the last invalidation.
LEMMA GhostStays ==
  ASSUME CacheInv, InfoNext
  PROVE  InvalidateForcesRefetch'
<1> USE DEF refreshVars, cacheVars
<1>t. "cpu" \in Domains /\ \A u \in Users : user[u].domain \in Domains
  BY SystemInfoAssumption DEF CacheInv, InfoTypeOK
<1>n. \A d \in Domains : invalidations[d] \in Int
  BY DEF CacheInv, InfoTypeOK
<1>i. CachesFresh /\ FetchesFresh /\ InvalidateForcesRefetch
  BY DEF CacheInv
<1>s. ASSUME NEW d, NEW v, Serve(d, v), InvalidateForcesRefetch,
             ~(v.epoch < invalidations[d])
      PROVE  InvalidateForcesRefetch'
  BY <1>s, Zenon DEF Serve, InvalidateForcesRefetch
<1>1. ASSUME NEW u \in Users, NEW d \in Domains, Hit(u, d)
      PROVE  InvalidateForcesRefetch'
  <2>1. cache[d].valid /\ ServeCached(d)
    BY <1>1 DEF Hit, IsStale
  <2>2. CASE d = "cpu" /\ revived
    <3>1. UNCHANGED staleServed
      BY <2>1, <2>2 DEF ServeCached
    <3> QED
      BY <1>i, <3>1 DEF InvalidateForcesRefetch
  <2>3. CASE ~(d = "cpu" /\ revived)
    <3>1. cache[d].value.epoch = invalidations[d]
      BY <1>i, <2>1, <2>3 DEF CachesFresh
    <3>2. ~(cache[d].value.epoch < invalidations[d])
      BY <1>n, <3>1
    <3>3. Serve(d, cache[d].value)
      BY <2>1, <2>3 DEF ServeCached
    <3> QED
      BY <1>i, <1>s, <3>2, <3>3
  <2> QED
    BY <2>2, <2>3
<1>2. ASSUME NEW u \in Users, StoreFetched(u)
      PROVE  InvalidateForcesRefetch'
  <2>1. FetchedFor(user[u].reading, user[u].domain)
    BY <1>2, <1>i DEF StoreFetched, FetchesFresh
  <2>2. Serve(user[u].domain, user[u].reading)
    BY <1>2 DEF StoreFetched
  <2>3. ~(user[u].reading.epoch < invalidations[user[u].domain])
    BY <1>t, <1>n, <2>1 DEF FetchedFor
  <2> QED
    BY <1>i, <1>s, <2>2, <2>3
<1>3. CASE UNCHANGED staleServed
  BY <1>3, <1>i DEF InvalidateForcesRefetch
<1> QED
  BY <1>1, <1>2, <1>3 DEF InfoNext, LoopStep, UserStep, UserCall,
     Tick, LoopTests, LoopFetches, LoopStores, LoopThrows, SampleAfter, StoreSampled,
     AssignThread, JoinRefresh, SampleBefore, StartRefresh, StopRefresh, Fetch, InvalidateCache

\* The baseline is only replaced by the time of a later read.
LEMMA BaselineForward ==
  ASSUME CacheInv, InfoNext
  PROVE  baseline' >= baseline /\ (baseline <= now)'
<1> USE DEF refreshVars, cacheVars
<1>t. now \in Int /\ baseline \in Int /\ baseline <= now
  BY DEF CacheInv, InfoTypeOK, Times
<1>1. CASE Tick
  BY <1>1, <1>t DEF Tick
<1>2. CASE LoopFetches
  BY <1>2, <1>t DEF LoopFetches, FetchCpuInfo
<1>3. ASSUME NEW u \in Users, NEW d \in Domains, Fetch(u, d)
      PROVE  baseline' >= baseline /\ (baseline <= now)'
  BY <1>3, <1>t DEF Fetch, FetchCpuInfo
<1>4. ASSUME NEW u \in Users, StoreSampled(u)
      PROVE  baseline' >= baseline /\ (baseline <= now)'
  BY <1>4, <1>t DEF StoreSampled, SampledBaseline
<1>5. CASE UNCHANGED <<now, baseline>>
  BY <1>5, <1>t
<1> QED
  BY <1>1, <1>2, <1>3, <1>4, <1>5 DEF InfoNext, LoopStep, UserStep, UserCall,
     LoopTests, LoopStores, LoopThrows, StoreFetched, SampleAfter, AssignThread,
     JoinRefresh, SampleBefore, StartRefresh, StopRefresh, Hit, InvalidateCache

\* The second part of ReadingsMoveForward.
Forward ==
  \A d \in Domains :
    ~cache'[d].value.sampled =>
      cache'[d].value.read >= cache[d].value.read

\* An entry is only replaced by a reading made under its mutex, or a sample.
LEMMA EntriesForward ==
  ASSUME CacheInv, InfoNext
  PROVE  Forward
<1> USE DEF refreshVars, cacheVars
<1>t. /\ "cpu" \in Domains /\ \A u \in Users : user[u].domain \in Domains
      /\ loop.domain \in Domains /\ DOMAIN cache = Domains
      /\ \A d \in Domains : cache[d] \in Entries /\ cache[d].value.read \in Int
      /\ loop.reading \in Readings /\ \A u \in Users : user[u].reading \in Readings
  BY SystemInfoAssumption DEF CacheInv, InfoTypeOK, Entries, Readings, Times
<1>i. FetchesFresh
  BY DEF CacheInv
<1>1. ASSUME NEW d \in Domains, NEW r \in Readings, Set(d, r),
             r.sampled \/ cache[d].value.read <= r.read
      PROVE  Forward
  BY <1>1, <1>t DEF Set, Readings, Times, Forward
<1>2. CASE LoopStores
  BY <1>2, <1>1, <1>i, <1>t DEF LoopStores, FetchesFresh, FetchedFor
<1>3. ASSUME NEW u \in Users, StoreFetched(u) PROVE Forward
  BY <1>3, <1>1, <1>i, <1>t DEF StoreFetched, FetchesFresh, FetchedFor
<1>4. ASSUME NEW u \in Users, StoreSampled(u) PROVE Forward
  <2>1. user[u].reading.sampled /\ Set("cpu", user[u].reading)
    BY <1>4, <1>i DEF StoreSampled, FetchesFresh
  <2> QED
    BY <1>1, <1>t, <2>1
<1>5. ASSUME NEW u \in Users, NEW d \in Domains, InvalidateCache(u, d) PROVE Forward
  <2>1. \A e \in Domains : cache'[e].value = cache[e].value
    BY <1>5, <1>t DEF InvalidateCache, Entries
  <2> QED
    BY <2>1, <1>t DEF Forward
<1>6. CASE UNCHANGED cache
  BY <1>6, <1>t DEF Forward
<1>7. \/ LoopStores
      \/ \E u \in Users : StoreFetched(u) \/ StoreSampled(u)
      \/ \E u \in Users, d \in Domains : InvalidateCache(u, d)
      \/ UNCHANGED cache
  BY DEF InfoNext, LoopStep, UserStep, UserCall, Tick,
     LoopTests, LoopFetches, LoopThrows, SampleAfter, AssignThread, JoinRefresh,
     SampleBefore, StartRefresh, StopRefresh, Hit, Fetch
<1> QED
  BY <1>2, <1>3, <1>4, <1>5, <1>6, <1>7

-----------------------------------------------------------------------------
(* One owner of the refresh thread. *)

\* The refresh thread is started and stopped from one thread only.
OneOwner == \A u, v \in Owners : u = v

\* Between the exchange and the assignment of the handle there is no thread;
\* where there is one, it goes on or its owner is joining it.
OwnerInv ==
  /\ \A u \in Users : user[u].pc \in {"starting", "joining"} => u \in Owners
  /\ \A u \in Users : user[u].pc = "starting" => running /\ ~joinable
  /\ \A u \in Users : user[u].pc = "joining" => ~running /\ joinable
  /\ joinable => running \/ \E u \in Owners : user[u].pc = "joining"
  /\ NeverTerminates

LEMMA OwnerStays ==
  ASSUME OneOwner, InfoTypeOK, OwnerInv, InfoNext
  PROVE  OwnerInv'
<1> USE DEF refreshVars, cacheVars
<1>t. /\ DOMAIN user = Users /\ Owners \subseteq Users
      /\ running \in BOOLEAN /\ joinable \in BOOLEAN /\ terminated \in BOOLEAN
      /\ \A u \in Users : user[u] \in UserStates
  BY SystemInfoAssumption DEF InfoTypeOK, UserStates, UserPcs
\* A step in which nobody begins or ends a start or a stop.
<1>s. ASSUME UNCHANGED <<running, joinable, terminated>>,
             \A w \in Users :
               (user[w].pc \in {"starting", "joining"} \/ user'[w].pc \in {"starting", "joining"})
                 => user'[w].pc = user[w].pc
      PROVE  OwnerInv'
  BY <1>s, <1>t DEF OwnerInv, NeverTerminates
<1>1. CASE Tick
  BY <1>1, <1>s DEF Tick
<1>2. CASE LoopStep
  BY <1>2, <1>s DEF LoopStep, LoopTests, LoopFetches, LoopStores, LoopThrows
<1>3. ASSUME NEW u \in Users,
             \/ StoreFetched(u) \/ SampleAfter(u) \/ StoreSampled(u) \/ SampleBefore(u)
             \/ \E d \in Domains : Hit(u, d) \/ Fetch(u, d) \/ InvalidateCache(u, d)
      PROVE  OwnerInv'
  <2>1. UNCHANGED <<running, joinable, terminated>>
    BY <1>3 DEF StoreFetched, SampleAfter, StoreSampled, SampleBefore, Hit, Fetch,
       InvalidateCache
  <2>2. /\ \A w \in Users : w # u => user'[w] = user[w]
        /\ user'[u] = user[u] \/ (user[u].pc \notin {"starting", "joining"}
                                  /\ user'[u].pc \notin {"starting", "joining"})
    <3>1. CASE SampleBefore(u) \/ SampleAfter(u)
      BY <3>1, <1>t DEF SampleBefore, SampleAfter, UserStates
    <3>2. CASE StoreFetched(u) \/ StoreSampled(u)
      BY <3>2, <1>t DEF StoreFetched, StoreSampled, IdleUser
    <3>3. ASSUME NEW d \in Domains, Fetch(u, d)
          PROVE  /\ \A w \in Users : w # u => user'[w] = user[w]
                 /\ user[u].pc = "out" /\ user'[u].pc = "fetched"
      BY <3>3, <1>t DEF Fetch
    <3>4. ASSUME NEW d \in Domains, Hit(u, d) \/ InvalidateCache(u, d)
          PROVE  user' = user
      BY <3>4 DEF Hit, InvalidateCache
    <3> QED
      BY <1>3, <3>1, <3>2, <3>3, <3>4
  <2> QED
    BY <2>1, <2>2, <1>s
<1>4. ASSUME NEW u \in Users, AssignThread(u) PROVE OwnerInv'
  BY <1>4, <1>t DEF AssignThread, OwnerInv, OneOwner, NeverTerminates
<1>5. ASSUME NEW u \in Users, JoinRefresh(u) PROVE OwnerInv'
  BY <1>5, <1>t DEF JoinRefresh, OwnerInv, OneOwner, NeverTerminates
<1>6. ASSUME NEW u \in Users, StartRefresh(u) PROVE OwnerInv'
  BY <1>6, <1>t DEF StartRefresh, OwnerInv, OneOwner, NeverTerminates
<1>7. ASSUME NEW u \in Users, StopRefresh(u) PROVE OwnerInv'
  BY <1>7, <1>t DEF StopRefresh, OwnerInv, OneOwner, NeverTerminates
<1> QED
  BY <1>1, <1>2, <1>3, <1>4, <1>5, <1>6, <1>7 DEF InfoNext, UserStep, UserCall

-----------------------------------------------------------------------------
(* Theorems. *)

\* The entries, the mutexes, the readings under way and the handle always fit
\* each other, in the public methods as in RefreshLoop.
THEOREM CachesAreFresh == InfoSpec => []CacheInv
<1>1. InfoInit => CacheInv
  <2> SUFFICES ASSUME InfoInit PROVE CacheInv
    OBVIOUS
  <2>1. InfoTypeOK
    <3>1. NoReading \in Readings /\ 0 \in Times /\ 0 \in 0..MaxInvalidations
      BY SystemInfoAssumption DEF NoReading, Readings, Times
    <3> QED
      BY <3>1, SystemInfoAssumption DEF InfoInit, InfoTypeOK, IdleUser, IdleLoop
  <2>2. FetchersHoldMutex /\ LoopHasHandle
    <3>1. /\ \A d \in Domains : holder[d] = Nobody
          /\ \A u \in Users : user[u].pc = "out"
          /\ loop.pc = "none" /\ Nobody # Refresher
      BY DEF InfoInit, IdleUser, IdleLoop, Nobody, Refresher
    <3> QED
      BY <3>1, SystemInfoAssumption DEF FetchersHoldMutex, LoopHasHandle
  <2>3. CachesFresh /\ FetchesFresh
    BY DEF InfoInit, CachesFresh, FetchesFresh, IdleUser, IdleLoop, NoReading
  <2> QED
    BY <2>1, <2>2, <2>3 DEF InfoInit, CacheInv, InvalidateForcesRefetch
<1>2. CacheInv /\ [InfoNext]_infoVars => CacheInv'
  <2>1. ASSUME CacheInv, InfoNext PROVE CacheInv'
    BY <2>1, TypesStay, MutexStays, HandleStays, FreshStays, GhostStays, BaselineForward
    DEF CacheInv
  <2>2. ASSUME CacheInv, UNCHANGED infoVars PROVE CacheInv'
    BY <2>2 DEF infoVars, refreshVars, cacheVars, CacheInv, InfoTypeOK, FetchersHoldMutex,
       LoopHasHandle, CachesFresh, FetchesFresh, FetchedFor, InvalidateForcesRefetch
  <2> QED
    BY <2>1, <2>2
<1> QED
  BY <1>1, <1>2, PTL DEF InfoSpec

\* InvalidateCache is final for the readings made before it: what a query
\* fetches or finds in the cache afterwards is newer, even if a fetch was
\* under way.  Excepted are the answers GetCpuUsage spoils: the sample it
\* returns itself, and the CPU entry that its store made valid again with a
\* sample from before the invalidation (system_info.cc:501-519, 493-494).
THEOREM InvalidationIsFinal == InfoSpec => []InvalidateForcesRefetch
<1>1. CacheInv => InvalidateForcesRefetch
  BY DEF CacheInv
<1> QED
  BY <1>1, CachesAreFresh, PTL

\* No fetch, by a caller or by the refresh thread, replaces a reading by an
\* older one, and nothing moves the CPU baseline back.  The store of
\* GetCpuUsage (system_info.cc:517) is excepted: it may put an older sample
\* in the place of a newer reading.
THEOREM ReadingsOnlyMoveForward == InfoSpec => ReadingsMoveForward
<1>1. CacheInv /\ [InfoNext]_infoVars => [baseline' >= baseline /\ Forward]_infoVars
  BY BaselineForward, EntriesForward
<1>2. CacheInv /\ [InfoNext]_infoVars =>
        [/\ baseline' >= baseline
         /\ \A d \in Domains :
              ~cache'[d].value.sampled =>
                cache'[d].value.read >= cache[d].value.read]_infoVars
  BY <1>1 DEF Forward
<1> QED
  BY <1>2, CachesAreFresh, PTL DEF InfoSpec, ReadingsMoveForward

\* With one owner StartBackgroundRefresh never assigns to a joinable handle.
THEOREM OneOwnerNeverTerminates == OneOwner => (InfoSpec => []NeverTerminates)
<1> SUFFICES ASSUME OneOwner PROVE InfoSpec => []NeverTerminates
  OBVIOUS
<1>1. InfoInit => OwnerInv
  BY DEF InfoInit, OwnerInv, IdleUser, NeverTerminates
<1>2. InfoTypeOK /\ OwnerInv /\ [InfoNext]_infoVars => OwnerInv'
  <2>1. ASSUME InfoTypeOK, OwnerInv, UNCHANGED infoVars PROVE OwnerInv'
    BY <2>1 DEF infoVars, refreshVars, OwnerInv, NeverTerminates
  <2> QED
    BY <2>1, OwnerStays
<1>3. CacheInv => InfoTypeOK
  BY DEF CacheInv
<1>4. OwnerInv => NeverTerminates
  BY DEF OwnerInv
<1> QED
  BY <1>1, <1>2, <1>3, <1>4, CachesAreFresh, PTL DEF InfoSpec

-----------------------------------------------------------------------------
(* The monitor. *)

\* One caller at a time is in Start; it found no monitor thread alive and has
\* not made one, and the counters are those of a new monitor.
StartersAlone ==
  \A c \in Callers : Starting(c) =>
    /\ \A d \in Callers : Starting(d) => d = c
    /\ \A m \in Monitors : ~Alive(m)
    /\ restarts = 0 /\ consecutive = 0 /\ inRow = 0
    /\ At(c, "create") => mstate \in {"kRunning", "kStopping"}

\* A monitor thread that lives is the one Start made last, and the state says
\* that one runs.
AliveIsCurrent ==
  \A m \in Monitors : Alive(m) =>
    mthread.id = m /\ mstate \in {"kRunning", "kStopping"}

\* Where a monitor thread is tells whether it has a child, whether the child
\* is published and whether it was reaped.
PidRight(m) ==
  LET pid == monitor[m].pid IN
  /\ monitor[m].pc \in {"publish", "watch", "grace", "poll", "reap"} =>
       pid \in Pids /\ process[pid] # "free"
  /\ monitor[m].pc \in {"watch", "grace", "poll", "reap", "exited"} =>
       childPid = pid
  /\ monitor[m].pc = "exited" => pid \in Pids /\ process[pid] = "free"
  /\ monitor[m].pc \notin {"publish", "watch", "grace", "poll", "reap", "exited"} =>
       pid = 0

PidsRight == \A m \in Monitors : PidRight(m)

ChildrenKept ==
  \A p \in Pids : process[p] # "free" =>
    \E m \in Monitors : Alive(m) /\ monitor[m].pid = p

\* The consecutive count runs ahead of the restarts in a row.
CountRight(m) ==
  /\ monitor[m].pc \in {"publish", "watch", "grace", "poll", "reap", "exited", "decide"} =>
       inRow <= consecutive /\ consecutive <= config.max
  /\ monitor[m].pc \in {"top", "nap", "backoff"} =>
       /\ consecutive <= config.max
       /\ (restarts = 0 /\ inRow = 0) \/ Capped(inRow + 1) <= consecutive

RestartsLimited == config.max > 0 /\ config.policy = "kStopMonitoring"

CountsRight ==
  RestartsLimited => inRow <= config.max /\ \A m \in Monitors : CountRight(m)

MonitorOwns ==
  /\ MonitorTypeOK
  /\ StartersAlone
  /\ AliveIsCurrent
  /\ PidsRight
  /\ ChildrenKept
  /\ PublishedPidFresh
  /\ CountsRight

\* Once WaitForStop stored kIdle over a running monitor, only the types hold.
MonitorInv == MonitorTypeOK /\ (idledLive \/ MonitorOwns)

MonitorStates == [pc: MonitorPcs, pid: Pids \cup {0}, remaining: Nat]
CallerStates == [pc: CallerPcs, pid: Pids \cup {0}, tid: Monitors]

LEMMA CappedType ==
  ASSUME NEW n \in Nat
  PROVE  Capped(n) \in 0..MaxCount /\ Capped(n) <= n
BY MonitorAssumption DEF Capped

\* A record in a function, with some fields changed.
LEMMA MonitorFields ==
  ASSUME MonitorTypeOK, NEW m \in Monitors
  PROVE  /\ monitor[m] \in MonitorStates
         /\ monitor \in [Monitors -> MonitorStates]
         /\ NoMonitor \in MonitorStates
         /\ \A pc \in MonitorPcs : [monitor[m] EXCEPT !.pc = pc] \in MonitorStates
         /\ \A pc \in MonitorPcs, p \in Pids \cup {0} :
              [monitor[m] EXCEPT !.pc = pc, !.pid = p] \in MonitorStates
         /\ \A pc \in MonitorPcs, n \in Nat :
              [monitor[m] EXCEPT !.pc = pc, !.remaining = n] \in MonitorStates
<1>1. monitor[m] \in MonitorStates /\ monitor \in [Monitors -> MonitorStates]
  BY DEF MonitorTypeOK, MonitorStates
<1>2. NoMonitor \in MonitorStates
  BY DEF MonitorStates, NoMonitor, MonitorPcs
<1>3. \A pc \in MonitorPcs : [monitor[m] EXCEPT !.pc = pc] \in MonitorStates
  BY <1>1 DEF MonitorStates
<1>4. \A pc \in MonitorPcs, p \in Pids \cup {0} :
        [monitor[m] EXCEPT !.pc = pc, !.pid = p] \in MonitorStates
  BY <1>1 DEF MonitorStates
<1>5. \A pc \in MonitorPcs, n \in Nat :
        [monitor[m] EXCEPT !.pc = pc, !.remaining = n] \in MonitorStates
  BY <1>1 DEF MonitorStates
<1> QED
  BY <1>1, <1>2, <1>3, <1>4, <1>5

LEMMA CallerFields ==
  ASSUME MonitorTypeOK, NEW c \in Callers
  PROVE  /\ caller[c] \in CallerStates
         /\ caller \in [Callers -> CallerStates]
         /\ \A pc \in CallerPcs : [caller[c] EXCEPT !.pc = pc] \in CallerStates
         /\ \A pc \in CallerPcs, p \in Pids \cup {0} :
              [caller[c] EXCEPT !.pc = pc, !.pid = p] \in CallerStates
         /\ NoCall \in CallerStates
         /\ \A pc \in CallerPcs : [NoCall EXCEPT !.pc = pc] \in CallerStates
         /\ \A pc \in CallerPcs, m \in Monitors :
              [NoCall EXCEPT !.pc = pc, !.tid = m] \in CallerStates
<1>1. caller[c] \in CallerStates /\ caller \in [Callers -> CallerStates]
  BY DEF MonitorTypeOK, CallerStates
<1>2. \A pc \in CallerPcs : [caller[c] EXCEPT !.pc = pc] \in CallerStates
  BY <1>1 DEF CallerStates
<1>3. \A pc \in CallerPcs, p \in Pids \cup {0} :
        [caller[c] EXCEPT !.pc = pc, !.pid = p] \in CallerStates
  BY <1>1 DEF CallerStates
<1>4. NoCall \in CallerStates
  BY MonitorAssumption DEF CallerStates, CallerPcs, NoCall
<1>5. \A pc \in CallerPcs : [NoCall EXCEPT !.pc = pc] \in CallerStates
  BY <1>4 DEF CallerStates
<1>6. \A pc \in CallerPcs, m \in Monitors :
        [NoCall EXCEPT !.pc = pc, !.tid = m] \in CallerStates
  BY <1>4 DEF CallerStates
<1> QED
  BY <1>1, <1>2, <1>3, <1>4, <1>5, <1>6

LEMMA CallerArrives ==
  ASSUME MonitorTypeOK, NEW c \in Callers, NEW pc, CallerGoes(c, pc)
  PROVE  caller'[c].pc = pc
<1>1. caller \in [Callers -> CallerStates]
  BY DEF MonitorTypeOK, CallerStates
<1> QED
  BY <1>1 DEF CallerGoes, CallerStates

LEMMA KillType ==
  ASSUME MonitorTypeOK, NEW p, Signal(p) \/ SigKill(p)
  PROVE  /\ process' \in [Pids -> {"free", "running", "doomed", "zombie"}]
         /\ \A q \in Pids : process'[q] = "free" <=> process[q] = "free"
BY DEF MonitorTypeOK, Signal, SigKill, Kill

-----------------------------------------------------------------------------
(* Types. *)

LEMMA CallerTypes ==
  ASSUME MonitorTypeOK, NEW c \in Callers, CallMonitor(c) \/ CallerStep(c)
  PROVE  MonitorTypeOK'
<1> USE MonitorAssumption
<1>1. ASSUME caller' \in [Callers -> CallerStates], config' \in Configs,
             restarts' \in 0..MaxCount, consecutive' \in 0..MaxCount, inRow' \in 0..MaxCount,
             childPid' \in Pids \cup {0}, idledLive' \in BOOLEAN,
             mstate' \in States, stopRequested' \in BOOLEAN,
             mthread' \in [valid: BOOLEAN, id: Monitors],
             monitor' \in [Monitors -> MonitorStates],
             process' \in [Pids -> {"free", "running", "doomed", "zombie"}]
      PROVE  MonitorTypeOK'
  BY <1>1 DEF MonitorTypeOK, CallerStates, MonitorStates
<1>2. /\ mstate \in States /\ stopRequested \in BOOLEAN /\ mthread.id \in Monitors
      /\ mthread \in [valid: BOOLEAN, id: Monitors] /\ idledLive \in BOOLEAN
      /\ config \in Configs
      /\ monitor \in [Monitors -> MonitorStates] /\ childPid \in Pids \cup {0}
      /\ process \in [Pids -> {"free", "running", "doomed", "zombie"}]
      /\ restarts \in 0..MaxCount /\ consecutive \in 0..MaxCount /\ inRow \in 0..MaxCount
  BY DEF MonitorTypeOK, MonitorStates
<1>3. \A pc \in CallerPcs : [caller EXCEPT ![c].pc = pc] \in [Callers -> CallerStates]
  BY CallerFields
<1>4. ASSUME NEW pc \in CallerPcs, NEW p \in Pids \cup {0}
      PROVE  [caller EXCEPT ![c].pc = pc, ![c].pid = p] \in [Callers -> CallerStates]
  <2>1. [caller EXCEPT ![c].pc = pc, ![c].pid = p] =
        [caller EXCEPT ![c] = [caller[c] EXCEPT !.pc = pc, !.pid = p]]
    BY CallerFields
  <2> QED
    BY <2>1, CallerFields
<1>5. ASSUME NEW s \in CallerStates
      PROVE  [caller EXCEPT ![c] = s] \in [Callers -> CallerStates]
  BY CallerFields
<1> USE DEF CallerGoes, CallerPcs, lifecycleVars, counterVars
<1>6. CASE Start(c)
  <2>1. caller' \in [Callers -> CallerStates]
    BY <1>3, <1>6 DEF Start
  <2>2. config' \in Configs /\ stopRequested' \in BOOLEAN
    BY <1>6 DEF Start
  <2>3. /\ restarts' \in 0..MaxCount /\ consecutive' \in 0..MaxCount
        /\ inRow' \in 0..MaxCount /\ childPid' \in Pids \cup {0}
    BY <1>6 DEF Start
  <2>4. UNCHANGED <<mstate, mthread, idledLive, monitor, process>>
    BY <1>6 DEF Start
  <2> QED
    BY <1>1, <1>2, <2>1, <2>2, <2>3, <2>4
<1>7. CASE SetRunning(c)
  BY <1>1, <1>2, <1>3, <1>7 DEF SetRunning, States
<1>8. CASE CreateThread(c)
  <2>1. caller' \in [Callers -> CallerStates]
    BY <1>3, <1>8 DEF CreateThread
  <2>2. ASSUME NEW m \in Monitors, monitor' = [monitor EXCEPT ![m].pc = "top"],
               mthread' = [valid |-> TRUE, id |-> m], mstate' = mstate
        PROVE  MonitorTypeOK'
    <3>1. monitor' = [monitor EXCEPT ![m] = [monitor[m] EXCEPT !.pc = "top"]]
      BY <2>2
    <3>2. monitor' \in [Monitors -> MonitorStates]
      BY <3>1, MonitorFields DEF MonitorPcs
    <3>3. mthread' \in [valid: BOOLEAN, id: Monitors]
      BY <2>2
    <3> QED
      BY <1>1, <1>2, <1>8, <2>1, <2>2, <3>2, <3>3 DEF CreateThread
  <2>3. CASE mstate' = "kIdle" /\ UNCHANGED <<mthread, monitor>>
    BY <1>1, <1>2, <1>8, <2>1, <2>3 DEF CreateThread, States
  <2> QED
    BY <1>8, <2>2, <2>3 DEF CreateThread
<1>9. CASE RequestStop(c)
  BY <1>1, <1>2, <1>3, <1>9 DEF RequestStop
<1>10. CASE SetStopFlag(c)
  BY <1>1, <1>2, <1>3, <1>10 DEF SetStopFlag
<1>11. CASE SetStopping(c)
  BY <1>1, <1>2, <1>3, <1>11 DEF SetStopping, States
<1>12. CASE LoadPid(c)
  <2>1. (IF childPid > 0 THEN "kill" ELSE "out") \in CallerPcs
    OBVIOUS
  <2> QED
    BY <1>1, <1>2, <1>4, <1>12, <2>1 DEF LoadPid
<1>13. CASE SendSignalToChild(c)
  BY <1>1, <1>2, <1>4, <1>13 DEF SendSignalToChild
<1>14. CASE SignalLoaded(c)
  <2>1. caller' \in [Callers -> CallerStates]
    BY <1>5, <1>14, CallerFields DEF SignalLoaded
  <2> QED
    BY <1>1, <1>2, <1>14, <2>1, KillType DEF SignalLoaded
<1>15. CASE WaitForStop(c)
  <2>1. /\ [NoCall EXCEPT !.pc = "join", !.tid = mthread.id] \in CallerStates
        /\ [NoCall EXCEPT !.pc = "idle"] \in CallerStates
    BY <1>2, CallerFields
  <2>2. caller' \in [Callers -> CallerStates]
    BY <1>5, <1>15, <2>1 DEF WaitForStop
  <2> QED
    BY <1>1, <1>2, <1>15, <2>2 DEF WaitForStop
<1>16. CASE Join(c)
  <2>1. caller[c].tid \in Monitors
    BY DEF MonitorTypeOK
  <2>4. [NoCall EXCEPT !.pc = "invalidate"] \in CallerStates
    BY CallerFields
  <2>2. monitor' \in [Monitors -> MonitorStates]
    BY <1>16, <2>1, MonitorFields DEF Join
  <2>3. caller' \in [Callers -> CallerStates]
    BY <1>5, <1>16, <2>4 DEF Join
  <2> QED
    BY <1>1, <1>2, <1>16, <2>2, <2>3 DEF Join
<1>17. CASE Invalidate(c)
  <2>1. mthread' \in [valid: BOOLEAN, id: Monitors]
    BY <1>2, <1>17 DEF Invalidate
  <2> QED
    BY <1>1, <1>2, <1>3, <1>17, <2>1 DEF Invalidate
<1>18. CASE BackToIdle(c)
  <2>1. idledLive' \in BOOLEAN
    BY <1>2, <1>18 DEF BackToIdle
  <2> QED
    BY <1>1, <1>2, <1>3, <1>18, <2>1 DEF BackToIdle, States
<1> QED
  BY <1>6, <1>7, <1>8, <1>9, <1>10, <1>11, <1>12, <1>13, <1>14, <1>15, <1>16, <1>17, <1>18
     DEF CallMonitor, CallerStep

LEMMA MonitorTypes ==
  ASSUME MonitorTypeOK, NEW m \in Monitors, MonitorStep(m)
  PROVE  MonitorTypeOK'
<1> USE MonitorAssumption
<1>1. ASSUME monitor' \in [Monitors -> MonitorStates],
             UNCHANGED <<config, stopRequested, mthread, idledLive, caller>>,
             mstate' \in States, childPid' \in Pids \cup {0},
             restarts' \in 0..MaxCount, consecutive' \in 0..MaxCount, inRow' \in 0..MaxCount,
             process' \in [Pids -> {"free", "running", "doomed", "zombie"}]
      PROVE  MonitorTypeOK'
  BY <1>1 DEF MonitorTypeOK, MonitorStates
<1>2. /\ mstate \in States /\ childPid \in Pids \cup {0} /\ monitor[m].pid \in Pids \cup {0}
      /\ restarts \in 0..MaxCount /\ consecutive \in 0..MaxCount /\ inRow \in 0..MaxCount
      /\ process \in [Pids -> {"free", "running", "doomed", "zombie"}]
      /\ monitor[m].remaining \in Nat
  BY DEF MonitorTypeOK, MonitorStates
<1>3. \A pc \in MonitorPcs : [monitor EXCEPT ![m].pc = pc] \in [Monitors -> MonitorStates]
  BY MonitorFields
<1>4. ASSUME NEW pc \in MonitorPcs, NEW p \in Pids \cup {0}
      PROVE  [monitor EXCEPT ![m].pc = pc, ![m].pid = p] \in [Monitors -> MonitorStates]
  <2>1. [monitor EXCEPT ![m].pc = pc, ![m].pid = p] =
        [monitor EXCEPT ![m] = [monitor[m] EXCEPT !.pc = pc, !.pid = p]]
    BY MonitorFields
  <2> QED
    BY <2>1, MonitorFields
<1>5. ASSUME NEW pc \in MonitorPcs, NEW n \in Nat
      PROVE  [monitor EXCEPT ![m].pc = pc, ![m].remaining = n] \in [Monitors -> MonitorStates]
  <2>1. [monitor EXCEPT ![m].pc = pc, ![m].remaining = n] =
        [monitor EXCEPT ![m] = [monitor[m] EXCEPT !.pc = pc, !.remaining = n]]
    BY MonitorFields
  <2> QED
    BY <2>1, MonitorFields
<1>6. \A p \in Pids : [process EXCEPT ![p] = "free"] \in [Pids -> {"free", "running", "doomed", "zombie"}]
                   /\ [process EXCEPT ![p] = "running"] \in [Pids -> {"free", "running", "doomed", "zombie"}]
  BY <1>2
<1> USE DEF QuietStep, lifecycleVars, MoveMonitor
<1>7. CASE SpawnFails(m)
  <2>1. ComputeBackoff(consecutive) \in Nat
    BY <1>2
  <2> QED
    BY <1>1, <1>2, <1>5, <1>7, <2>1 DEF SpawnFails, counterVars, MonitorPcs
<1>8. CASE Nap(m)
  BY <1>1, <1>2, <1>5, <1>8 DEF Nap, counterVars, MonitorPcs
<1>9. CASE SpawnChild(m)
  <2>1. inRow' \in 0..MaxCount
    BY <1>2, <1>9, CappedType DEF SpawnChild
  <2>2. PICK p \in Pids : /\ process' = [process EXCEPT ![p] = "running"]
                         /\ monitor' = [monitor EXCEPT ![m].pc = "publish", ![m].pid = p]
    BY <1>9 DEF SpawnChild
  <2>3. monitor' \in [Monitors -> MonitorStates]
    BY <1>4, <2>2 DEF MonitorPcs
  <2>4. process' \in [Pids -> {"free", "running", "doomed", "zombie"}]
    BY <1>6, <2>2
  <2> QED
    BY <1>1, <1>2, <1>9, <2>1, <2>3, <2>4 DEF SpawnChild
<1>10. CASE LeaveLoop(m)
  BY <1>1, <1>2, <1>3, <1>10 DEF LeaveLoop, counterVars, MonitorPcs
<1>11. CASE PublishPid(m)
  BY <1>1, <1>2, <1>3, <1>11 DEF PublishPid, counterVars, MonitorPcs
<1>12. CASE Watch(m)
  BY <1>1, <1>2, <1>3, <1>12, KillType DEF Watch, counterVars, MonitorPcs
<1>13. CASE WaitForChildWithTimeout(m)
  <2>1. process' \in [Pids -> {"free", "running", "doomed", "zombie"}]
    BY <1>2, <1>6, <1>13 DEF WaitForChildWithTimeout
  <2> QED
    BY <1>1, <1>2, <1>3, <1>13, <2>1 DEF WaitForChildWithTimeout, counterVars, MonitorPcs
<1>14. CASE GraceExpires(m)
  BY <1>1, <1>2, <1>3, <1>14, KillType DEF GraceExpires, counterVars, MonitorPcs
<1>15. CASE PollExpires(m)
  BY <1>1, <1>2, <1>3, <1>15, KillType DEF PollExpires, counterVars, MonitorPcs
<1>16. CASE ReapKilled(m)
  BY <1>1, <1>2, <1>3, <1>16 DEF ReapKilled, counterVars, MonitorPcs
<1>17. CASE ForgetPid(m)
  BY <1>1, <1>2, <1>4, <1>17 DEF ForgetPid, counterVars, MonitorPcs
<1>18. CASE Decide(m)
  <2>1. PICK stable \in BOOLEAN :
       LET n == (IF stable THEN 0 ELSE consecutive) + 1
           kept == IF OverLimit(n) THEN 0 ELSE Capped(n)
           givesUp == OverLimit(n) /\ config.policy = "kStopMonitoring"
       IN  /\ restarts' = Capped(restarts + 1)
           /\ inRow' = IF stable THEN 0 ELSE inRow
           /\ IF givesUp
              THEN consecutive' = Capped(n) /\ MoveMonitor(m, "finish")
              ELSE /\ consecutive' = kept
                   /\ monitor' = [monitor EXCEPT ![m].pc = "backoff",
                                    ![m].remaining = ComputeBackoff(kept)]
    BY <1>18 DEF Decide
  <2> DEFINE n == (IF stable THEN 0 ELSE consecutive) + 1
             kept == IF OverLimit(n) THEN 0 ELSE Capped(n)
  <2>2. n \in Nat /\ restarts + 1 \in Nat
    BY <1>2
  <2>3. Capped(n) \in 0..MaxCount /\ kept \in 0..MaxCount /\ Capped(restarts + 1) \in 0..MaxCount
    BY <2>2, CappedType
  <2>4. ComputeBackoff(kept) \in Nat
    BY <2>3
  <2>5. restarts' \in 0..MaxCount /\ inRow' \in 0..MaxCount /\ consecutive' \in 0..MaxCount
    BY <1>2, <2>1, <2>3
  <2>6. monitor' \in [Monitors -> MonitorStates]
    <3> DEFINE time == ComputeBackoff(kept)
    <3>1. monitor' = [monitor EXCEPT ![m].pc = "finish"] \/
          monitor' = [monitor EXCEPT ![m].pc = "backoff", ![m].remaining = time]
      BY <2>1
    <3>2. time \in Nat /\ "finish" \in MonitorPcs /\ "backoff" \in MonitorPcs
      BY <2>4 DEF MonitorPcs
    <3> HIDE DEF time
    <3>3. [monitor EXCEPT ![m].pc = "backoff", ![m].remaining = time]
            \in [Monitors -> MonitorStates]
      BY <1>5, <3>2
    <3> QED
      BY <1>3, <3>1, <3>2, <3>3
  <2> QED
    BY <1>1, <1>2, <1>18, <2>5, <2>6 DEF Decide
<1>19. CASE DecideToStop(m)
  BY <1>1, <1>2, <1>3, <1>19 DEF DecideToStop, counterVars, MonitorPcs
<1>20. CASE Backoff(m)
  <2>1. monitor' \in [Monitors -> MonitorStates]
    <3>1. CASE monitor[m].remaining > 0 /\ ~stopRequested
      <4> DEFINE left == IF monitor[m].remaining < SleepSlice THEN 0
                         ELSE monitor[m].remaining - SleepSlice
      <4>1. left \in Nat
        BY <1>2
      <4>2. monitor' = [monitor EXCEPT ![m].remaining = left]
        BY <1>20, <3>1 DEF Backoff
      <4>3. [monitor[m] EXCEPT !.remaining = left] \in MonitorStates
        BY <4>1, MonitorFields DEF MonitorStates
      <4> HIDE DEF left
      <4> QED
        BY <4>2, <4>3, MonitorFields
    <3>2. CASE ~(monitor[m].remaining > 0 /\ ~stopRequested)
      BY <1>5, <1>20, <3>2 DEF Backoff, MonitorPcs
    <3> QED
      BY <3>1, <3>2
  <2> QED
    BY <1>1, <1>2, <1>20, <2>1 DEF Backoff, counterVars
<1>21. CASE LeaveMonitor(m)
  BY <1>1, <1>2, <1>3, <1>21 DEF LeaveMonitor, counterVars, MonitorPcs
<1>22. CASE StoreStopped(m)
  <2>1. [NoMonitor EXCEPT !.pc = "returned"] \in MonitorStates
    BY DEF NoMonitor, MonitorStates, MonitorPcs
  <2>2. monitor' \in [Monitors -> MonitorStates]
    BY <1>22, <2>1, MonitorFields DEF StoreStopped
  <2> QED
    BY <1>1, <1>2, <1>22, <2>2 DEF StoreStopped, counterVars, States
<1> QED
  BY <1>7, <1>8, <1>9, <1>10, <1>11, <1>12, <1>13, <1>14, <1>15, <1>16, <1>17, <1>18,
     <1>19, <1>20, <1>21, <1>22 DEF MonitorStep

-----------------------------------------------------------------------------
(* Every step keeps the rest. *)

\* A monitor thread that is still at work, with its next place.
LEMMA PlaceOf ==
  ASSUME MonitorTypeOK, NEW m \in Monitors, NEW k \in Monitors
  PROVE  /\ \A s \in MonitorStates : monitor' = [monitor EXCEPT ![m] = s] =>
              monitor'[k] = IF k = m THEN s ELSE monitor[k]
BY DEF MonitorTypeOK, MonitorStates

\* A caller's step leaves the monitor threads as they are, but for the end
\* of Start and for Join, which removes a thread that returned.
LEMMA CallerKeepsInv ==
  ASSUME MonitorOwns, NEW c \in Callers, CallMonitor(c) \/ CallerStep(c)
  PROVE  idledLive' \/ MonitorOwns'
<1> USE DEF MonitorOwns
<1>1. MonitorTypeOK'
  BY CallerTypes
<1>2. \A d \in Callers \ {c} : caller'[d] = caller[d]
  BY CallerFields DEF CallMonitor, CallerStep, Start, SetRunning, CreateThread, RequestStop,
     SetStopFlag, SetStopping, LoadPid, SendSignalToChild, SignalLoaded, WaitForStop, Join,
     Invalidate, BackToIdle, CallerGoes
<1>3. \A pc \in CallerPcs : CallerGoes(c, pc) => caller'[c].pc = pc
  BY CallerArrives
\* Who is in Start still is, or c left it.
<1>4. ASSUME NEW pc \in CallerPcs \ {"reset", "create"}, caller'[c].pc = pc
      PROVE  \A d \in Callers : Starting(d)' => Starting(d) /\ d # c
                                             /\ (At(d, "create")' => At(d, "create"))
  BY <1>2, <1>4 DEF Starting, At
<1>5. CASE Start(c)
  <2>1. \A m \in Monitors : ~Alive(m)
    BY <1>5 DEF Start, Startable, AliveIsCurrent
  <2>2. \A p \in Pids : process[p] = "free"
    BY <2>1 DEF ChildrenKept
  <2>3. childPid' = 0 /\ process' = process /\ monitor' = monitor
        /\ inRow' = 0 /\ restarts' = 0 /\ consecutive' = 0 /\ config' \in Configs
    BY <1>5 DEF Start
  <2>4. caller'[c].pc = "reset" /\ \A d \in Callers \ {c} : ~Starting(d)'
    BY <1>2, <1>3, <1>5 DEF Start, MutexFree, Starting, At, CallerPcs
  <2>5. \A m \in Monitors : ~Alive(m)'
    BY <2>1, <2>3 DEF Alive
  <2>6. StartersAlone'
    BY <2>3, <2>4, <2>5 DEF StartersAlone, At
  <2>7. AliveIsCurrent' /\ ChildrenKept' /\ PublishedPidFresh'
    BY <2>2, <2>3, <2>5 DEF AliveIsCurrent, ChildrenKept, PublishedPidFresh
  <2>8. PidsRight'
    BY <2>1, <2>3 DEF PidsRight, PidRight, Alive
  <2>9. CountsRight'
    BY <2>3, <2>5, MonitorAssumption DEF CountsRight, CountRight, RestartsLimited, Alive
  <2> QED
    BY <1>1, <2>6, <2>7, <2>8, <2>9
\* The threads and what they own are as they were.
<1>6. ASSUME UNCHANGED <<monitor, childPid, config, counterVars>>,
             \A p \in Pids : process'[p] = "free" <=> process[p] = "free"
      PROVE  PidsRight' /\ ChildrenKept' /\ PublishedPidFresh' /\ CountsRight'
             /\ \A m \in Monitors : Alive(m)' <=> Alive(m)
  <2>1. PidsRight'
    BY <1>6 DEF PidsRight, PidRight
  <2>2. ChildrenKept' /\ PublishedPidFresh'
    BY <1>6 DEF ChildrenKept, PublishedPidFresh, Alive
  <2>3. CountsRight'
    BY <1>6 DEF CountsRight, CountRight, RestartsLimited, Capped, counterVars
  <2> QED
    BY <1>6, <2>1, <2>2, <2>3 DEF Alive
<1>7. ASSUME UNCHANGED <<monitor, childPid, config, counterVars>>,
             \A p \in Pids : process'[p] = "free" <=> process[p] = "free",
             mstate' # mstate => mstate' = "kStopping",
             mthread'.id = mthread.id,
             NEW pc \in CallerPcs \ {"reset", "create"}, caller'[c].pc = pc
      PROVE  MonitorOwns'
  <2>1. AliveIsCurrent'
    BY <1>6, <1>7 DEF AliveIsCurrent
  <2>2. StartersAlone'
    BY <1>4, <1>6, <1>7 DEF StartersAlone, counterVars
  <2> QED
    BY <1>1, <1>6, <1>7, <2>1, <2>2
<1>8. CASE SetRunning(c)
  <2>1. caller'[c].pc = "create" /\ Starting(c)
    BY <1>3, <1>8 DEF SetRunning, Starting, At, CallerPcs
  <2>2. \A m \in Monitors : ~Alive(m)
    BY <2>1 DEF StartersAlone
  <2>3. \A d \in Callers \ {c} : ~Starting(d)'
    BY <1>2, <2>1 DEF StartersAlone, Starting, At
  <2>4. UNCHANGED <<monitor, childPid, config, counterVars, process>> /\ mstate' = "kRunning"
    BY <1>8 DEF SetRunning
  <2>5. StartersAlone'
    BY <1>6, <2>1, <2>2, <2>3, <2>4 DEF StartersAlone, counterVars
  <2>6. AliveIsCurrent'
    BY <1>6, <2>2, <2>4 DEF AliveIsCurrent
  <2> QED
    BY <1>1, <1>6, <2>4, <2>5, <2>6
<1>9. CASE CreateThread(c)
  <2>1. /\ caller'[c].pc = "out" /\ Starting(c) /\ At(c, "create")
        /\ UNCHANGED <<childPid, config, counterVars, process>>
    BY <1>3, <1>9 DEF CreateThread, Starting, At, CallerPcs
  <2>2. /\ \A m \in Monitors : ~Alive(m)
        /\ restarts' = 0 /\ consecutive' = 0 /\ inRow' = 0
        /\ mstate \in {"kRunning", "kStopping"}
    BY <2>1 DEF StartersAlone, counterVars
  <2>3. /\ \A p \in Pids : process'[p] = "free"
        /\ childPid' = 0
    BY <2>1, <2>2 DEF ChildrenKept, PublishedPidFresh
  <2>4. StartersAlone'
    <3>1. \A d \in Callers : ~Starting(d)'
      BY <1>2, <2>1 DEF StartersAlone, Starting, At
    <3> QED
      BY <3>1 DEF StartersAlone
  <2>5. ChildrenKept' /\ PublishedPidFresh'
    BY <2>3 DEF ChildrenKept, PublishedPidFresh
  <2>6. CASE UNCHANGED <<mthread, monitor>>
    <3>1. AliveIsCurrent'
      BY <2>2, <2>6 DEF AliveIsCurrent, Alive
    <3>2. PidsRight'
      BY <2>2, <2>3, <2>6 DEF PidsRight, PidRight, Alive
    <3>3. CountsRight'
      BY <1>6, <2>1, <2>6
    <3> QED
      BY <1>1, <2>4, <2>5, <3>1, <3>2, <3>3
  <2>7. ASSUME NEW m \in Monitors, monitor[m].pc = "none",
               monitor' = [monitor EXCEPT ![m].pc = "top"],
               mthread' = [valid |-> TRUE, id |-> m], mstate' = mstate
        PROVE  MonitorOwns'
    <3>1. /\ monitor'[m].pc = "top" /\ monitor'[m].pid = monitor[m].pid
          /\ \A k \in Monitors \ {m} : monitor'[k] = monitor[k]
      BY <2>7, MonitorFields DEF MonitorStates
    <3>2. AliveIsCurrent'
      BY <2>2, <2>7, <3>1 DEF AliveIsCurrent, Alive
    <3>3. PidsRight'
      BY <2>2, <2>3, <2>7, <3>1 DEF PidsRight, PidRight, Alive
    <3>4. config' \in Configs
      BY <1>1 DEF MonitorTypeOK
    <3>5. CountsRight'
      BY <2>2, <3>1, <3>4, MonitorAssumption DEF CountsRight, CountRight, RestartsLimited, Alive
    <3> QED
      BY <1>1, <2>4, <2>5, <3>2, <3>3, <3>5
  <2> QED
    BY <1>9, <2>6, <2>7 DEF CreateThread
<1>10. CASE RequestStop(c)
  BY <1>3, <1>7, <1>10 DEF RequestStop, lifecycleVars, CallerPcs
<1>11. CASE SetStopFlag(c)
  BY <1>3, <1>7, <1>11 DEF SetStopFlag, CallerPcs
<1>12. CASE SetStopping(c)
  BY <1>3, <1>7, <1>12 DEF SetStopping, CallerPcs
<1>13. CASE LoadPid(c)
  <2>1. caller'[c].pc \in {"kill", "out"}
    BY <1>13, CallerFields DEF LoadPid, CallerStates
  <2> QED
    BY <1>7, <1>13, <2>1 DEF LoadPid, lifecycleVars, CallerPcs
<1>14. CASE SendSignalToChild(c)
  <2>1. caller'[c].pc = "kill"
    BY <1>14, CallerFields DEF SendSignalToChild, CallerStates
  <2> QED
    BY <1>7, <1>14, <2>1 DEF SendSignalToChild, lifecycleVars, CallerPcs
<1>15. CASE SignalLoaded(c)
  <2>1. caller'[c].pc = "out"
    BY <1>15, CallerFields DEF SignalLoaded, NoCall
  <2> QED
    BY <1>7, <1>15, <2>1, KillType DEF SignalLoaded, lifecycleVars, CallerPcs
<1>16. CASE WaitForStop(c)
  <2>1. caller'[c].pc \in {"join", "idle"}
    BY <1>16, CallerFields DEF WaitForStop, NoCall
  <2> QED
    BY <1>7, <1>16, <2>1 DEF WaitForStop, lifecycleVars, CallerPcs
<1>17. CASE Join(c)
  <2> DEFINE m == caller[c].tid
  <2>1. m \in Monitors /\ monitor[m].pc = "returned"
    BY <1>17, CallerFields DEF Join, CallerStates
  <2>2. /\ monitor'[m] = NoMonitor
        /\ \A k \in Monitors \ {m} : monitor'[k] = monitor[k]
        /\ UNCHANGED <<lifecycleVars, counterVars, childPid, process>>
    BY <1>17, <2>1, MonitorFields DEF Join
  <2>3. \A k \in Monitors : Alive(k)' <=> Alive(k)
    BY <2>1, <2>2 DEF Alive, NoMonitor
  <2>4. \A k \in Monitors : Alive(k) => monitor'[k] = monitor[k]
    BY <2>1, <2>2 DEF Alive
  <2>5. caller'[c].pc = "invalidate"
    BY <1>17, CallerFields DEF Join, NoCall
  <2>6. StartersAlone'
    BY <1>4, <2>2, <2>3, <2>5 DEF StartersAlone, counterVars, lifecycleVars, CallerPcs
  <2>7. AliveIsCurrent'
    BY <2>2, <2>3 DEF AliveIsCurrent, lifecycleVars
  <2>8. PidsRight'
    BY <2>2 DEF PidsRight, PidRight, NoMonitor
  <2>9. ChildrenKept'
    BY <2>2, <2>3, <2>4 DEF ChildrenKept
  <2>10. PublishedPidFresh'
    BY <2>2, <2>3, <2>4 DEF PublishedPidFresh
  <2>11. CountsRight'
    BY <2>2 DEF CountsRight, CountRight, RestartsLimited, NoMonitor, lifecycleVars,
       counterVars, Capped
  <2> QED
    BY <1>1, <2>6, <2>7, <2>8, <2>9, <2>10, <2>11
<1>18. CASE Invalidate(c)
  <2>1. mthread'.id = mthread.id
    BY <1>18 DEF Invalidate, MonitorTypeOK
  <2> QED
    BY <1>3, <1>7, <1>18, <2>1 DEF Invalidate, CallerPcs
<1>19. CASE BackToIdle(c)
  <2> SUFFICES ASSUME ~idledLive' PROVE MonitorOwns'
    OBVIOUS
  <2>1. /\ \A m \in Monitors : ~Alive(m)
        /\ \A d \in Callers : ~At(d, "create")
        /\ caller'[c].pc = "out"
        /\ UNCHANGED <<monitor, childPid, config, counterVars, process>>
    BY <1>3, <1>19 DEF BackToIdle, MonitorRuns, CallerPcs
  <2>2. AliveIsCurrent'
    BY <1>6, <2>1 DEF AliveIsCurrent
  <2>3. StartersAlone'
    BY <1>4, <1>6, <2>1 DEF StartersAlone, counterVars, CallerPcs
  <2> QED
    BY <1>1, <1>6, <2>1, <2>2, <2>3
<1> QED
  BY <1>5, <1>8, <1>9, <1>10, <1>11, <1>12, <1>13, <1>14, <1>15, <1>16, <1>17, <1>18, <1>19
     DEF CallMonitor, CallerStep

\* The living monitor thread is alone: it has every child, the published pid
\* is its child's, and nobody is in Start.
LEMMA MonitorAlone ==
  ASSUME MonitorOwns, NEW m \in Monitors, Alive(m)
  PROVE  /\ \A k \in Monitors \ {m} : ~Alive(k)
         /\ \A p \in Pids : process[p] # "free" => p = monitor[m].pid
         /\ childPid # 0 => childPid = monitor[m].pid
         /\ \A c \in Callers : ~Starting(c)
<1>1. \A k \in Monitors \ {m} : ~Alive(k)
  BY DEF MonitorOwns, AliveIsCurrent
<1> QED
  BY <1>1 DEF MonitorOwns, ChildrenKept, PublishedPidFresh, StartersAlone

\* A step within the loop.
LEMMA LoopKeepsInv ==
  ASSUME MonitorOwns, MonitorTypeOK', NEW m \in Monitors, Alive(m), Alive(m)',
         \A k \in Monitors \ {m} : monitor'[k] = monitor[k],
         UNCHANGED <<lifecycleVars, caller>>,
         PidRight(m)',
         RestartsLimited => inRow' <= config.max /\ CountRight(m)',
         \A p \in Pids : process'[p] # "free" => p = monitor'[m].pid,
         childPid' # 0 => childPid' = monitor'[m].pid
  PROVE  MonitorOwns'
<1> USE DEF lifecycleVars
<1>1. \A k \in Monitors \ {m} : ~Alive(k) /\ ~Alive(k)'
  BY MonitorAlone DEF Alive
<1>2. AliveIsCurrent'
  BY <1>1 DEF MonitorOwns, AliveIsCurrent
<1>3. StartersAlone'
  BY MonitorAlone DEF StartersAlone, Starting, At
<1>4. PidsRight'
  BY <1>1 DEF MonitorOwns, PidsRight, PidRight, Alive
<1>5. ChildrenKept' /\ PublishedPidFresh'
  BY DEF ChildrenKept, PublishedPidFresh
<1>6. CountsRight'
  BY <1>1 DEF CountsRight, CountRight, RestartsLimited, Alive
<1> QED
  BY <1>2, <1>3, <1>4, <1>5, <1>6 DEF MonitorOwns

LEMMA MonitorKeepsInv ==
  ASSUME MonitorOwns, NEW m \in Monitors, MonitorStep(m)
  PROVE  MonitorOwns'
<1> USE MonitorAssumption
<1>1. MonitorTypeOK' /\ MonitorTypeOK
  BY MonitorTypes DEF MonitorOwns
<1>2. Alive(m)
  BY DEF MonitorStep, SpawnFails, Nap, SpawnChild, LeaveLoop, PublishPid, Watch,
     WaitForChildWithTimeout, GraceExpires, PollExpires, ReapKilled, ForgetPid, Decide,
     DecideToStop, Backoff, LeaveMonitor, StoreStopped, On, Alive
<1>3. /\ \A p \in Pids : process[p] # "free" => p = monitor[m].pid
      /\ childPid # 0 => childPid = monitor[m].pid
      /\ PidRight(m)
      /\ RestartsLimited => inRow <= config.max /\ CountRight(m)
  BY <1>2, MonitorAlone DEF MonitorOwns, PidsRight, CountsRight
<1>4. /\ restarts \in 0..MaxCount /\ consecutive \in 0..MaxCount /\ inRow \in 0..MaxCount
      /\ config.max \in Nat /\ monitor[m].pid \in Pids \cup {0} /\ childPid \in Pids \cup {0}
      /\ process \in [Pids -> {"free", "running", "doomed", "zombie"}]
  BY <1>1 DEF MonitorTypeOK
\* Where the thread goes.
<1>5. ASSUME NEW pc \in MonitorPcs, MoveMonitor(m, pc)
      PROVE  /\ monitor'[m].pc = pc /\ monitor'[m].pid = monitor[m].pid
             /\ \A k \in Monitors \ {m} : monitor'[k] = monitor[k]
  BY <1>1, <1>5, MonitorFields DEF MoveMonitor, MonitorStates
<1>6. ASSUME NEW pc \in MonitorPcs, NEW n \in Nat,
             monitor' = [monitor EXCEPT ![m].pc = pc, ![m].remaining = n]
      PROVE  /\ monitor'[m].pc = pc /\ monitor'[m].pid = monitor[m].pid
             /\ \A k \in Monitors \ {m} : monitor'[k] = monitor[k]
  BY <1>1, <1>6, MonitorFields DEF MonitorStates
<1>7. ASSUME NEW pc \in MonitorPcs, NEW p \in Pids \cup {0},
             monitor' = [monitor EXCEPT ![m].pc = pc, ![m].pid = p]
      PROVE  /\ monitor'[m].pc = pc /\ monitor'[m].pid = p
             /\ \A k \in Monitors \ {m} : monitor'[k] = monitor[k]
  BY <1>1, <1>7, MonitorFields DEF MonitorStates
<1> USE DEF QuietStep
<1>8. CASE SpawnFails(m)
  <2>1. ComputeBackoff(consecutive) \in Nat /\ "nap" \in MonitorPcs
    BY <1>4 DEF MonitorPcs
  <2>2. /\ monitor'[m].pc = "nap" /\ monitor'[m].pid = monitor[m].pid
        /\ \A k \in Monitors \ {m} : monitor'[k] = monitor[k]
    BY <1>6, <1>8, <2>1 DEF SpawnFails
  <2>3. PidRight(m)' /\ (RestartsLimited => inRow' <= config.max /\ CountRight(m)')
    BY <1>3, <1>8, <2>2 DEF SpawnFails, PidRight, CountRight, On, counterVars, lifecycleVars, Capped
  <2> QED
    BY <1>1, <1>2, <1>3, <1>8, <2>2, <2>3, LoopKeepsInv DEF SpawnFails, Alive
<1>9. CASE Nap(m)
  <2>1. /\ monitor'[m].pc = "top" /\ monitor'[m].pid = monitor[m].pid
        /\ \A k \in Monitors \ {m} : monitor'[k] = monitor[k]
    BY <1>6, <1>9 DEF Nap, MonitorPcs
  <2>2. PidRight(m)' /\ (RestartsLimited => inRow' <= config.max /\ CountRight(m)')
    BY <1>3, <1>9, <2>1 DEF Nap, PidRight, CountRight, On, counterVars, lifecycleVars, Capped
  <2> QED
    BY <1>1, <1>2, <1>3, <1>9, <2>1, <2>2, LoopKeepsInv DEF Nap, Alive
<1>10. CASE SpawnChild(m)
  <2>1. PICK p \in Pids :
          /\ process[p] = "free"
          /\ process' = [process EXCEPT ![p] = "running"]
          /\ monitor' = [monitor EXCEPT ![m].pc = "publish", ![m].pid = p]
    BY <1>10 DEF SpawnChild
  <2>2. /\ monitor'[m].pc = "publish" /\ monitor'[m].pid = p
        /\ \A k \in Monitors \ {m} : monitor'[k] = monitor[k]
    BY <1>7, <2>1 DEF MonitorPcs
  <2>3. monitor[m].pid = 0 /\ childPid = 0
    BY <1>3, <1>10 DEF SpawnChild, On, PidRight
  <2>4. process'[p] = "running" /\ \A q \in Pids \ {p} : process'[q] = process[q]
    BY <1>4, <2>1
  <2>5. PidRight(m)'
    BY <2>2, <2>4 DEF PidRight
  <2>6. ASSUME RestartsLimited PROVE inRow' <= config.max /\ CountRight(m)'
    <3>1. /\ consecutive <= config.max
          /\ (restarts = 0 /\ inRow = 0) \/ Capped(inRow + 1) <= consecutive
      BY <1>3, <1>10, <2>6 DEF SpawnChild, On, CountRight
    <3>2. inRow' <= consecutive
      BY <1>4, <1>10, <3>1 DEF SpawnChild, Capped
    <3>3. inRow' \in Nat
      BY <1>4, <1>10 DEF SpawnChild, Capped
    <3> QED
      BY <1>4, <1>10, <2>2, <3>1, <3>2, <3>3 DEF SpawnChild, CountRight, lifecycleVars
  <2>7. \A q \in Pids : process'[q] # "free" => q = monitor'[m].pid
    BY <1>3, <2>2, <2>3, <2>4
  <2> QED
    BY <1>1, <1>2, <1>10, <2>2, <2>3, <2>5, <2>6, <2>7, LoopKeepsInv DEF SpawnChild, Alive
<1>11. CASE LeaveLoop(m)
  <2>1. /\ monitor'[m].pc = "finish" /\ monitor'[m].pid = monitor[m].pid
        /\ \A k \in Monitors \ {m} : monitor'[k] = monitor[k]
    BY <1>5, <1>11 DEF LeaveLoop, MonitorPcs
  <2>2. PidRight(m)' /\ (RestartsLimited => inRow' <= config.max /\ CountRight(m)')
    BY <1>3, <1>11, <2>1 DEF LeaveLoop, PidRight, CountRight, On, counterVars, lifecycleVars
  <2> QED
    BY <1>1, <1>2, <1>3, <1>11, <2>1, <2>2, LoopKeepsInv DEF LeaveLoop, Alive
<1>12. CASE PublishPid(m)
  <2>1. /\ monitor'[m].pc = "watch" /\ monitor'[m].pid = monitor[m].pid
        /\ \A k \in Monitors \ {m} : monitor'[k] = monitor[k]
    BY <1>5, <1>12 DEF PublishPid, MonitorPcs
  <2>2. PidRight(m)' /\ (RestartsLimited => inRow' <= config.max /\ CountRight(m)')
    BY <1>3, <1>12, <2>1 DEF PublishPid, PidRight, CountRight, On, counterVars, lifecycleVars
  <2> QED
    BY <1>1, <1>2, <1>3, <1>12, <2>1, <2>2, LoopKeepsInv DEF PublishPid, Alive
<1>13. CASE Watch(m)
  <2>1. PICK pc \in {"grace", "poll"} : MoveMonitor(m, pc)
    BY <1>13 DEF Watch
  <2>2. /\ monitor'[m].pc = pc /\ monitor'[m].pid = monitor[m].pid
        /\ \A k \in Monitors \ {m} : monitor'[k] = monitor[k]
    BY <1>5, <2>1 DEF MonitorPcs
  <2>3. \A q \in Pids : process'[q] = "free" <=> process[q] = "free"
    BY <1>1, <1>13, KillType DEF Watch
  <2>4. PidRight(m)' /\ (RestartsLimited => inRow' <= config.max /\ CountRight(m)')
    BY <1>3, <1>13, <2>2, <2>3 DEF Watch, PidRight, CountRight, On, counterVars, lifecycleVars
  <2> QED
    BY <1>1, <1>2, <1>3, <1>13, <2>2, <2>3, <2>4, LoopKeepsInv DEF Watch, Alive
<1>14. CASE WaitForChildWithTimeout(m)
  <2> DEFINE pid == monitor[m].pid
  <2>1. pid \in Pids /\ process[pid] # "free" /\ childPid = pid
    BY <1>3, <1>14 DEF WaitForChildWithTimeout, PidRight, On
  <2>2. process' = [process EXCEPT ![pid] = "free"]
    BY <1>14, <2>1 DEF WaitForChildWithTimeout
  <2>3. process'[pid] = "free" /\ \A q \in Pids \ {pid} : process'[q] = process[q]
    BY <1>4, <2>1, <2>2
  <2>4. /\ monitor'[m].pc = "exited" /\ monitor'[m].pid = pid
        /\ \A k \in Monitors \ {m} : monitor'[k] = monitor[k]
    BY <1>5, <1>14 DEF WaitForChildWithTimeout, MonitorPcs
  <2>5. PidRight(m)' /\ (RestartsLimited => inRow' <= config.max /\ CountRight(m)')
    BY <1>3, <1>14, <2>1, <2>3, <2>4
       DEF WaitForChildWithTimeout, PidRight, CountRight, On, counterVars, lifecycleVars
  <2> QED
    BY <1>1, <1>2, <1>3, <1>14, <2>1, <2>3, <2>4, <2>5, LoopKeepsInv
       DEF WaitForChildWithTimeout, Alive
<1>15. CASE GraceExpires(m)
  <2>1. /\ monitor'[m].pc = "reap" /\ monitor'[m].pid = monitor[m].pid
        /\ \A k \in Monitors \ {m} : monitor'[k] = monitor[k]
    BY <1>5, <1>15 DEF GraceExpires, MonitorPcs
  <2>2. \A q \in Pids : process'[q] = "free" <=> process[q] = "free"
    BY <1>1, <1>15, KillType DEF GraceExpires
  <2>3. PidRight(m)' /\ (RestartsLimited => inRow' <= config.max /\ CountRight(m)')
    BY <1>3, <1>15, <2>1, <2>2
       DEF GraceExpires, PidRight, CountRight, On, counterVars, lifecycleVars
  <2> QED
    BY <1>1, <1>2, <1>3, <1>15, <2>1, <2>2, <2>3, LoopKeepsInv DEF GraceExpires, Alive
<1>16. CASE PollExpires(m)
  <2>1. PICK pc \in {"watch", "reap"} : MoveMonitor(m, pc)
    BY <1>16 DEF PollExpires
  <2>2. /\ monitor'[m].pc = pc /\ monitor'[m].pid = monitor[m].pid
        /\ \A k \in Monitors \ {m} : monitor'[k] = monitor[k]
    BY <1>5, <2>1 DEF MonitorPcs
  <2>3. \A q \in Pids : process'[q] = "free" <=> process[q] = "free"
    BY <1>1, <1>16, KillType DEF PollExpires
  <2>4. PidRight(m)' /\ (RestartsLimited => inRow' <= config.max /\ CountRight(m)')
    BY <1>3, <1>16, <2>2, <2>3
       DEF PollExpires, PidRight, CountRight, On, counterVars, lifecycleVars
  <2> QED
    BY <1>1, <1>2, <1>3, <1>16, <2>2, <2>3, <2>4, LoopKeepsInv DEF PollExpires, Alive
<1>17. CASE ReapKilled(m)
  <2> DEFINE pid == monitor[m].pid
  <2>1. pid \in Pids /\ childPid = pid
    BY <1>3, <1>17 DEF ReapKilled, PidRight, On
  <2>2. process'[pid] = "free" /\ \A q \in Pids \ {pid} : process'[q] = process[q]
    BY <1>4, <1>17, <2>1 DEF ReapKilled
  <2>3. /\ monitor'[m].pc = "exited" /\ monitor'[m].pid = pid
        /\ \A k \in Monitors \ {m} : monitor'[k] = monitor[k]
    BY <1>5, <1>17 DEF ReapKilled, MonitorPcs
  <2>4. PidRight(m)' /\ (RestartsLimited => inRow' <= config.max /\ CountRight(m)')
    BY <1>3, <1>17, <2>1, <2>2, <2>3
       DEF ReapKilled, PidRight, CountRight, On, counterVars, lifecycleVars
  <2> QED
    BY <1>1, <1>2, <1>3, <1>17, <2>1, <2>2, <2>3, <2>4, LoopKeepsInv DEF ReapKilled, Alive
<1>18. CASE ForgetPid(m)
  <2>1. /\ monitor'[m].pc = "decide" /\ monitor'[m].pid = 0
        /\ \A k \in Monitors \ {m} : monitor'[k] = monitor[k]
    BY <1>7, <1>18 DEF ForgetPid, MonitorPcs
  <2>2. \A p \in Pids : process'[p] = "free"
    BY <1>3, <1>18 DEF ForgetPid, PidRight, On
  <2>3. PidRight(m)' /\ (RestartsLimited => inRow' <= config.max /\ CountRight(m)')
    BY <1>3, <1>18, <2>1 DEF ForgetPid, PidRight, CountRight, On, counterVars, lifecycleVars
  <2> QED
    BY <1>1, <1>2, <1>18, <2>1, <2>2, <2>3, LoopKeepsInv DEF ForgetPid, Alive
<1>19. CASE Decide(m)
  <2>1. PICK stable \in BOOLEAN :
       LET n == (IF stable THEN 0 ELSE consecutive) + 1
           kept == IF OverLimit(n) THEN 0 ELSE Capped(n)
           givesUp == OverLimit(n) /\ config.policy = "kStopMonitoring"
       IN  /\ restarts' = Capped(restarts + 1)
           /\ inRow' = IF stable THEN 0 ELSE inRow
           /\ IF givesUp
              THEN consecutive' = Capped(n) /\ MoveMonitor(m, "finish")
              ELSE /\ consecutive' = kept
                   /\ monitor' = [monitor EXCEPT ![m].pc = "backoff",
                                    ![m].remaining = ComputeBackoff(kept)]
    BY <1>19 DEF Decide
  <2> DEFINE n == (IF stable THEN 0 ELSE consecutive) + 1
             kept == IF OverLimit(n) THEN 0 ELSE Capped(n)
             givesUp == OverLimit(n) /\ config.policy = "kStopMonitoring"
             time == ComputeBackoff(kept)
  <2>2. n \in Nat /\ kept \in 0..MaxCount
    BY <1>4, CappedType
  <2>3. time \in Nat
    BY <2>2
  <2>4. UNCHANGED <<childPid, process, lifecycleVars, caller>> /\ monitor[m].pc = "decide"
    BY <1>19 DEF Decide, On
  <2>5. inRow' = (IF stable THEN 0 ELSE inRow) /\ inRow' \in Nat /\ inRow' <= inRow
    BY <1>4, <2>1
  <2>6. CASE givesUp
    <3>1. MoveMonitor(m, "finish")
      BY <2>1, <2>6
    <3>2. /\ monitor'[m].pc = "finish" /\ monitor'[m].pid = monitor[m].pid
          /\ \A k \in Monitors \ {m} : monitor'[k] = monitor[k]
      BY <1>5, <3>1 DEF MonitorPcs
    <3>3. PidRight(m)' /\ (RestartsLimited => inRow' <= config.max /\ CountRight(m)')
      BY <1>3, <1>4, <2>4, <2>5, <3>2 DEF PidRight, CountRight
    <3> QED
      BY <1>1, <1>2, <1>3, <2>4, <3>2, <3>3, LoopKeepsInv DEF Alive
  <2>7. CASE ~givesUp
    <3>1. consecutive' = kept
          /\ monitor' = [monitor EXCEPT ![m].pc = "backoff", ![m].remaining = time]
      BY <2>1, <2>7
    <3>2. RestartsLimited => kept = Capped(n) /\ n <= config.max
      BY <1>4, <2>2, <2>7 DEF RestartsLimited, OverLimit
    <3>3. RestartsLimited => inRow' + 1 <= n
      BY <1>3, <1>4, <2>4, <2>5 DEF CountRight
    <3> HIDE DEF time
    <3>4. /\ monitor'[m].pc = "backoff" /\ monitor'[m].pid = monitor[m].pid
          /\ \A k \in Monitors \ {m} : monitor'[k] = monitor[k]
      BY <1>6, <2>3, <3>1 DEF MonitorPcs
    <3>5. PidRight(m)'
      BY <1>3, <2>4, <3>4 DEF PidRight
    <3> HIDE DEF kept, n
    <3>6. ASSUME RestartsLimited PROVE inRow' <= config.max /\ CountRight(m)'
      <4>1. kept <= config.max
        BY <1>4, <2>2, <3>2, <3>6, CappedType
      <4>2. Capped(inRow' + 1) <= kept
        BY <1>4, <2>2, <2>5, <3>2, <3>3, <3>6 DEF Capped
      <4> QED
        BY <1>3, <1>4, <2>4, <2>5, <3>1, <3>4, <3>6, <4>1, <4>2 DEF CountRight, lifecycleVars, Capped
    <3> QED
      BY <1>1, <1>2, <1>3, <2>4, <3>4, <3>5, <3>6, LoopKeepsInv DEF Alive
  <2> QED
    BY <2>6, <2>7
<1>20. CASE DecideToStop(m)
  <2>1. /\ monitor'[m].pc = "finish" /\ monitor'[m].pid = monitor[m].pid
        /\ \A k \in Monitors \ {m} : monitor'[k] = monitor[k]
    BY <1>5, <1>20 DEF DecideToStop, MonitorPcs
  <2>2. PidRight(m)' /\ (RestartsLimited => inRow' <= config.max /\ CountRight(m)')
    BY <1>3, <1>20, <2>1 DEF DecideToStop, PidRight, CountRight, On, counterVars, lifecycleVars
  <2> QED
    BY <1>1, <1>2, <1>3, <1>20, <2>1, <2>2, LoopKeepsInv DEF DecideToStop, Alive
<1>21. CASE Backoff(m)
  <2>1. /\ monitor'[m].pc \in {"backoff", "top"} /\ monitor'[m].pid = monitor[m].pid
        /\ \A k \in Monitors \ {m} : monitor'[k] = monitor[k]
    BY <1>1, <1>21, MonitorFields DEF Backoff, MonitorStates, On
  <2>2. PidRight(m)' /\ (RestartsLimited => inRow' <= config.max /\ CountRight(m)')
    BY <1>3, <1>21, <2>1 DEF Backoff, PidRight, CountRight, On, counterVars, lifecycleVars, Capped
  <2> QED
    BY <1>1, <1>2, <1>3, <1>21, <2>1, <2>2, LoopKeepsInv DEF Backoff, Alive
<1>22. CASE LeaveMonitor(m)
  <2>1. /\ monitor'[m].pc = "store" /\ monitor'[m].pid = monitor[m].pid
        /\ \A k \in Monitors \ {m} : monitor'[k] = monitor[k]
    BY <1>5, <1>22 DEF LeaveMonitor, MonitorPcs
  <2>2. PidRight(m)' /\ (RestartsLimited => inRow' <= config.max /\ CountRight(m)')
    BY <1>3, <1>22, <2>1 DEF LeaveMonitor, PidRight, CountRight, On, counterVars, lifecycleVars
  <2> QED
    BY <1>1, <1>2, <1>3, <1>22, <2>1, <2>2, LoopKeepsInv DEF LeaveMonitor, Alive
<1>23. CASE StoreStopped(m)
  <2>1. monitor[m].pid = 0 /\ childPid = 0 /\ \A p \in Pids : process[p] = "free"
    BY <1>3, <1>23 DEF StoreStopped, PidRight, On
  <2>2. /\ monitor'[m].pc = "returned" /\ monitor'[m].pid = 0
        /\ \A k \in Monitors \ {m} : monitor'[k] = monitor[k]
    BY <1>1, <1>23, MonitorFields DEF StoreStopped, NoMonitor, MonitorStates
  <2>3. \A k \in Monitors : ~Alive(k)'
    BY <1>2, <2>2, MonitorAlone DEF Alive
  <2>4. AliveIsCurrent' /\ StartersAlone'
    BY <1>2, <1>23, <2>3, MonitorAlone DEF StoreStopped, AliveIsCurrent, StartersAlone,
       Starting, At
  <2>5. PidsRight'
    BY <1>23, <2>2 DEF StoreStopped, MonitorOwns, PidsRight, PidRight
  <2>6. ChildrenKept' /\ PublishedPidFresh'
    BY <1>23, <2>1 DEF StoreStopped, ChildrenKept, PublishedPidFresh
  <2>7. CountsRight'
    BY <1>23, <2>2
       DEF StoreStopped, MonitorOwns, CountsRight, CountRight, RestartsLimited, counterVars, Capped
  <2> QED
    BY <1>1, <2>4, <2>5, <2>6, <2>7 DEF MonitorOwns
<1> QED
  BY <1>8, <1>9, <1>10, <1>11, <1>12, <1>13, <1>14, <1>15, <1>16, <1>17, <1>18, <1>19,
     <1>20, <1>21, <1>22, <1>23 DEF MonitorStep

-----------------------------------------------------------------------------
(* The theorems. *)

\* What is lost stays lost.
LEMMA IdledStays ==
  ASSUME idledLive, [MonitorNext]_monitorVars
  PROVE  idledLive'
BY DEF MonitorNext, CallMonitor, CallerStep, Start, SetRunning, CreateThread, RequestStop,
   SetStopFlag, SetStopping, LoadPid, SendSignalToChild, SignalLoaded, WaitForStop, Join,
   Invalidate, BackToIdle, MonitorStep, SpawnFails, Nap, SpawnChild, LeaveLoop, PublishPid, Watch,
   WaitForChildWithTimeout, GraceExpires, PollExpires, ReapKilled, ForgetPid, Decide,
   DecideToStop, Backoff, LeaveMonitor, StoreStopped, QuietStep, ProcessDies, monitorVars,
   lifecycleVars

LEMMA DeathTypes ==
  ASSUME MonitorTypeOK, NEW p \in Pids, ProcessDies(p)
  PROVE  MonitorTypeOK' /\ \A q \in Pids : process'[q] = "free" <=> process[q] = "free"
<1>1. \A q \in Pids : process'[q] = "free" <=> process[q] = "free"
  BY DEF ProcessDies, MonitorTypeOK
<1>2. MonitorTypeOK'
  BY DEF ProcessDies, MonitorTypeOK, lifecycleVars, counterVars
<1> QED
  BY <1>1, <1>2

\* However many callers start, stop, signal and wait at the same time: the
\* monitor thread that lives is the last one made, it has its child from fork
\* to reaping, and the counters of restarts are right, together with who is
\* in Start; and only WaitForStop's store of kIdle over a running monitor
\* (monitor_process.cc:116) ends this.
THEOREM MonitorInvariant == MonitorSpec => []MonitorInv
<1>1. MonitorInit => MonitorInv
  <2> SUFFICES ASSUME MonitorInit PROVE MonitorInv
    OBVIOUS
  <2>1. mthread \in [valid: BOOLEAN, id: Monitors]
    BY MonitorAssumption DEF MonitorInit
  <2>2. monitor \in [Monitors -> MonitorStates]
    BY DEF MonitorInit, NoMonitor, MonitorStates, MonitorPcs
  <2>3. caller \in [Callers -> CallerStates]
    BY MonitorAssumption DEF MonitorInit, CallerStates, CallerPcs, NoCall
  <2>4. MonitorTypeOK
    <3>1. process \in [Pids -> {"free", "running", "doomed", "zombie"}]
      BY DEF MonitorInit
    <3>2. config \in Configs /\ mstate \in States /\ stopRequested \in BOOLEAN /\ childPid = 0
          /\ idledLive \in BOOLEAN
      BY DEF MonitorInit, States
    <3>3. restarts \in 0..MaxCount /\ consecutive \in 0..MaxCount /\ inRow \in 0..MaxCount
      BY MonitorAssumption DEF MonitorInit
    <3> QED
      BY <2>1, <2>2, <2>3, <3>1, <3>2, <3>3 DEF MonitorTypeOK, MonitorStates, CallerStates
  <2>5. \A m \in Monitors : monitor[m].pc = "none" /\ monitor[m].pid = 0
    BY DEF MonitorInit, NoMonitor
  <2>6. AliveIsCurrent /\ StartersAlone
    BY <2>5 DEF MonitorInit, AliveIsCurrent, StartersAlone, Starting, Alive, At, NoCall
  <2>7. PidsRight /\ ChildrenKept /\ PublishedPidFresh
    BY <2>5 DEF MonitorInit, PidsRight, PidRight, ChildrenKept, PublishedPidFresh
  <2>8. CountsRight
    BY <2>4, <2>5, MonitorAssumption
       DEF MonitorInit, CountsRight, CountRight, RestartsLimited, MonitorTypeOK
  <2> QED
    BY <2>4, <2>6, <2>7, <2>8 DEF MonitorInv, MonitorOwns
<1>2. MonitorInv /\ [MonitorNext]_monitorVars => MonitorInv'
  <2> SUFFICES ASSUME MonitorInv, [MonitorNext]_monitorVars PROVE MonitorInv'
    OBVIOUS
  <2>1. MonitorTypeOK'
    <3>1. CASE UNCHANGED monitorVars
      BY <3>1 DEF MonitorInv, MonitorTypeOK, monitorVars, lifecycleVars, counterVars
    <3> QED
      BY <3>1, CallerTypes, MonitorTypes, DeathTypes DEF MonitorNext, MonitorInv
  <2>2. CASE idledLive
    BY <2>1, <2>2, IdledStays DEF MonitorInv
  <2>3. ASSUME MonitorOwns PROVE idledLive' \/ MonitorOwns'
    <3>1. CASE UNCHANGED monitorVars
      BY <2>1, <2>3, <3>1 DEF MonitorOwns, AliveIsCurrent, StartersAlone, PidsRight,
         PidRight, ChildrenKept, PublishedPidFresh, CountsRight, CountRight, RestartsLimited,
         Capped, Starting, Alive, At, monitorVars, lifecycleVars, counterVars
    <3>2. ASSUME NEW c \in Callers, CallMonitor(c) \/ CallerStep(c)
          PROVE  idledLive' \/ MonitorOwns'
      BY <2>3, <3>2, CallerKeepsInv
    <3>3. ASSUME NEW m \in Monitors, MonitorStep(m) PROVE MonitorOwns'
      BY <2>3, <3>3, MonitorKeepsInv
    <3>4. ASSUME NEW p \in Pids, ProcessDies(p) PROVE MonitorOwns'
      <4>1. \A q \in Pids : process'[q] = "free" <=> process[q] = "free"
        BY <2>3, <3>4, DeathTypes DEF MonitorOwns
      <4>2. PidsRight'
        BY <2>3, <3>4, <4>1 DEF ProcessDies, MonitorOwns, PidsRight, PidRight
      <4> QED
        BY <2>1, <2>3, <3>4, <4>1, <4>2 DEF ProcessDies, MonitorOwns, AliveIsCurrent,
           StartersAlone, ChildrenKept, PublishedPidFresh, CountsRight, CountRight,
           RestartsLimited, Capped, Starting, Alive, At, lifecycleVars, counterVars
    <3> QED
      BY <3>1, <3>2, <3>3, <3>4 DEF MonitorNext
  <2> QED
    BY <2>1, <2>2, <2>3 DEF MonitorInv
<1> QED
  BY <1>1, <1>2, PTL DEF MonitorSpec

\* Any number of callers: until WaitForStop stores kIdle over a running
\* monitor, one monitor thread lives at a time, it owns every child until it
\* has reaped it, the published pid is its child's, and under the stopping
\* policy it restarts no more often than allowed.
THEOREM MonitorStaysIntact == MonitorSpec => []MonitorIntact
<1>1. MonitorInv => MonitorIntact
  <2> SUFFICES ASSUME MonitorInv PROVE MonitorIntact
    OBVIOUS
  <2>1. CASE idledLive
    BY <2>1 DEF MonitorInv, MonitorIntact
  <2>2. ASSUME MonitorOwns PROVE MonitorIntact
    <3>1. OneMonitorAlive
      BY <2>2 DEF MonitorOwns, AliveIsCurrent, OneMonitorAlive
    <3>2. ChildrenOwned
      BY <2>2 DEF MonitorOwns, PidsRight, PidRight, ChildrenKept, ChildrenOwned
    <3>3. RestartsBounded
      BY <2>2 DEF MonitorOwns, CountsRight, RestartsLimited, RestartsBounded
    <3> QED
      BY <2>2, <3>1, <3>2, <3>3 DEF MonitorOwns, MonitorIntact
  <2> QED
    BY <2>1, <2>2 DEF MonitorInv
<1> QED
  BY <1>1, MonitorInvariant, PTL

\* One thread makes all the calls.
OneCaller == \A c, d \in Callers : c = d

\* With one caller the exception never applies: what it joins is the last
\* monitor thread, and after the join none lives until it calls Start again.
CallerJoinsCurrent ==
  /\ \A m \in Monitors : Alive(m) => mthread.valid
  /\ \A c \in Callers :
       /\ At(c, "join") => mthread.id = caller[c].tid
       /\ caller[c].pc \in {"invalidate", "idle"} => \A m \in Monitors : ~Alive(m)

LEMMA OneCallerStep ==
  ASSUME OneCaller, MonitorOwns, ~idledLive, CallerJoinsCurrent,
         NEW c \in Callers, CallMonitor(c) \/ CallerStep(c)
  PROVE  ~idledLive' /\ CallerJoinsCurrent'
<1>1. \A d \in Callers : d = c
  BY DEF OneCaller
<1>2. MonitorTypeOK
  BY DEF MonitorOwns
<1>3. \A pc \in CallerPcs : CallerGoes(c, pc) => caller'[c].pc = pc
  BY <1>2, CallerArrives
\* The caller goes where it promises nothing.
<1>4. ASSUME UNCHANGED <<monitor, mthread, idledLive>>,
             NEW pc \in CallerPcs \ {"join", "invalidate", "idle"}, caller'[c].pc = pc
      PROVE  ~idledLive' /\ CallerJoinsCurrent'
  BY <1>1, <1>4 DEF CallerJoinsCurrent, At, Alive
\* Nothing lives any more.
<1>5. ASSUME \A m \in Monitors : ~Alive(m)', ~idledLive',
             caller'[c].pc # "join"
      PROVE  ~idledLive' /\ CallerJoinsCurrent'
  BY <1>1, <1>5 DEF CallerJoinsCurrent, At
<1>6. CASE Start(c)
  BY <1>3, <1>4, <1>6 DEF Start, CallerPcs
<1>7. CASE SetRunning(c)
  BY <1>3, <1>4, <1>7 DEF SetRunning, CallerPcs
<1>8. CASE CreateThread(c)
  <2>1. caller'[c].pc = "out" /\ idledLive' = idledLive
    BY <1>3, <1>8 DEF CreateThread, CallerPcs
  <2>2. \A m \in Monitors : ~Alive(m)
    BY <1>8 DEF CreateThread, Starting, MonitorOwns, StartersAlone
  <2>3. CASE UNCHANGED <<mthread, monitor>>
    BY <1>4, <2>1, <2>3 DEF CallerPcs
  <2>4. ASSUME mthread'.valid PROVE CallerJoinsCurrent'
    BY <1>1, <2>1, <2>4 DEF CallerJoinsCurrent, At
  <2> QED
    BY <1>8, <2>1, <2>3, <2>4 DEF CreateThread
<1>9. CASE RequestStop(c)
  BY <1>3, <1>4, <1>9 DEF RequestStop, lifecycleVars, CallerPcs
<1>10. CASE SetStopFlag(c)
  BY <1>3, <1>4, <1>10 DEF SetStopFlag, CallerPcs
<1>11. CASE SetStopping(c)
  BY <1>3, <1>4, <1>11 DEF SetStopping, CallerPcs
<1>12. CASE LoadPid(c)
  <2>1. caller'[c].pc \in {"kill", "out"}
    BY <1>2, <1>12, CallerFields DEF LoadPid, CallerStates
  <2> QED
    BY <1>4, <1>12, <2>1 DEF LoadPid, lifecycleVars, CallerPcs
<1>13. CASE SendSignalToChild(c)
  <2>1. caller'[c].pc = "kill"
    BY <1>2, <1>13, CallerFields DEF SendSignalToChild, CallerStates
  <2> QED
    BY <1>4, <1>13, <2>1 DEF SendSignalToChild, lifecycleVars, CallerPcs
<1>14. CASE SignalLoaded(c)
  <2>1. caller'[c].pc = "out"
    BY <1>2, <1>14, CallerFields DEF SignalLoaded, NoCall
  <2> QED
    BY <1>4, <1>14, <2>1 DEF SignalLoaded, lifecycleVars, CallerPcs
<1>15. CASE WaitForStop(c)
  <2>1. UNCHANGED <<monitor, mthread, idledLive>>
    BY <1>15 DEF WaitForStop, lifecycleVars
  <2>2. CASE mthread.valid
    <3>1. caller'[c].pc = "join" /\ caller'[c].tid = mthread.id
      BY <1>2, <1>15, <2>2, CallerFields DEF WaitForStop, NoCall
    <3> QED
      BY <1>1, <2>1, <2>2, <3>1 DEF CallerJoinsCurrent, At
  <2>3. CASE ~mthread.valid
    <3>1. caller'[c].pc = "idle"
      BY <1>2, <1>15, <2>3, CallerFields DEF WaitForStop, NoCall
    <3> QED
      BY <1>5, <2>1, <2>3, <3>1 DEF CallerJoinsCurrent, Alive
  <2> QED
    BY <2>2, <2>3
<1>16. CASE Join(c)
  <2> DEFINE m == caller[c].tid
  <2>1. m \in Monitors /\ monitor[m].pc = "returned" /\ mthread.id = m
    BY <1>2, <1>16, CallerFields DEF Join, CallerStates, CallerJoinsCurrent
  <2>2. \A k \in Monitors : ~Alive(k)
    BY <2>1 DEF MonitorOwns, AliveIsCurrent, Alive
  <2>3. /\ monitor'[m] = NoMonitor
        /\ \A k \in Monitors \ {m} : monitor'[k] = monitor[k]
    BY <1>2, <1>16, <2>1, MonitorFields DEF Join
  <2>4. \A k \in Monitors : ~Alive(k)'
    BY <2>2, <2>3 DEF Alive, NoMonitor
  <2>5. caller'[c].pc = "invalidate" /\ idledLive' = idledLive
    BY <1>2, <1>16, CallerFields DEF Join, NoCall, lifecycleVars
  <2> QED
    BY <1>5, <2>4, <2>5
<1>17. CASE Invalidate(c)
  <2>1. caller'[c].pc = "idle" /\ UNCHANGED <<monitor, idledLive>>
    BY <1>3, <1>17 DEF Invalidate, CallerPcs
  <2> QED
    BY <1>5, <1>17, <2>1 DEF Invalidate, At, Alive, CallerJoinsCurrent
<1>18. CASE BackToIdle(c)
  <2>1. /\ \A m \in Monitors : ~Alive(m)
        /\ \A d \in Callers : ~At(d, "create")
    BY <1>1, <1>18 DEF BackToIdle, At, CallerJoinsCurrent
  <2>2. caller'[c].pc = "out" /\ UNCHANGED <<monitor, mthread, idledLive>>
    BY <1>3, <1>18, <2>1 DEF BackToIdle, MonitorRuns, MonitorOwns, MonitorTypeOK, CallerPcs
  <2> QED
    BY <1>4, <2>2 DEF CallerPcs
<1> QED
  BY <1>6, <1>7, <1>8, <1>9, <1>10, <1>11, <1>12, <1>13, <1>14, <1>15, <1>16, <1>17, <1>18
     DEF CallMonitor, CallerStep

\* With one caller the monitor's ownership has no exception: WaitForStop's
\* store of kIdle always comes after the end of the last monitor thread
\* (monitor_process.cc:103-116).
THEOREM OneCallerNeverIdlesLive ==
  OneCaller => (MonitorSpec => [](~idledLive))
<1> SUFFICES ASSUME OneCaller PROVE MonitorSpec => [](~idledLive)
  OBVIOUS
<1>1. MonitorInit => ~idledLive /\ CallerJoinsCurrent
  BY DEF MonitorInit, CallerJoinsCurrent, At, Alive, NoCall, NoMonitor
<1>2. MonitorInv /\ ~idledLive /\ CallerJoinsCurrent /\ [MonitorNext]_monitorVars
        => ~idledLive' /\ CallerJoinsCurrent'
  <2> SUFFICES ASSUME MonitorOwns, ~idledLive, CallerJoinsCurrent, [MonitorNext]_monitorVars
               PROVE  ~idledLive' /\ CallerJoinsCurrent'
    BY DEF MonitorInv
  <2>1. CASE UNCHANGED monitorVars
    BY <2>1 DEF CallerJoinsCurrent, At, Alive, monitorVars, lifecycleVars
  <2>2. ASSUME NEW c \in Callers, CallMonitor(c) \/ CallerStep(c)
        PROVE  ~idledLive' /\ CallerJoinsCurrent'
    BY <2>2, OneCallerStep
  <2>3. ASSUME NEW m \in Monitors, MonitorStep(m)
        PROVE  ~idledLive' /\ CallerJoinsCurrent'
    <3>1. Alive(m)
      BY <2>3 DEF MonitorStep, SpawnFails, Nap, SpawnChild, LeaveLoop, PublishPid, Watch,
         WaitForChildWithTimeout, GraceExpires, PollExpires, ReapKilled, ForgetPid, Decide,
         DecideToStop, Backoff, LeaveMonitor, StoreStopped, On, Alive
    <3>2. UNCHANGED <<mthread, idledLive, caller>>
      BY <2>3 DEF MonitorStep, SpawnFails, Nap, SpawnChild, LeaveLoop, PublishPid, Watch,
         WaitForChildWithTimeout, GraceExpires, PollExpires, ReapKilled, ForgetPid, Decide,
         DecideToStop, Backoff, LeaveMonitor, StoreStopped, QuietStep, lifecycleVars
    <3> QED
      BY <3>1, <3>2 DEF CallerJoinsCurrent, At
  <2>4. ASSUME NEW p \in Pids, ProcessDies(p)
        PROVE  ~idledLive' /\ CallerJoinsCurrent'
    BY <2>4 DEF ProcessDies, CallerJoinsCurrent, At, Alive, lifecycleVars
  <2> QED
    BY <2>1, <2>2, <2>3, <2>4 DEF MonitorNext
<1> QED
  BY <1>1, <1>2, MonitorInvariant, PTL DEF MonitorSpec

-----------------------------------------------------------------------------
\* The types of the pipes, of the child and of a result.
Pipes == [Streams \cup {"stdin"} -> 0..PipeSize]
Children ==
  [state: {"none", "running", "doomed", "exited", "signalled", "reaped"},
   stdout: 0..MaxWritten, stderr: 0..MaxWritten, read: Nat]
Results ==
  [stdout: Nat, stderr: Nat, handed: [Streams -> Nat], truncated: BOOLEAN,
   timedOut: BOOLEAN, ended: {"no", "exited", "signalled"}]

\* The course of a call: when which of child, timer and descriptors is there.
Phases ==
  /\ step = "new" => fds = {} /\ child.state = "none" /\ timer = "none" /\ timerPipe = 0
  /\ step = "over" => fds = {} /\ timer = "none" /\ child.state \in {"none", "reaped"}
  /\ step \in {"report", "cancel", "join"} => child.state = "reaped"
  /\ step \in {"started", "dead"} => ~opts.run
  /\ child.state = "none" => step \in {"new", "over"}
  /\ Streams \cap fds \subseteq Captured
  /\ result.ended # "no" =>
       child.state = "reaped" /\ step \in {"report", "cancel", "join", "over"}

\* One byte may come from the timer thread and one from who cancels it.
TellsOnce ==
  /\ timerPipe <= (IF timer \in {"done", "none"} THEN 1 ELSE 0)
                    + (IF step \in {"join", "over"} THEN 1 ELSE 0)
  /\ timer = "none" /\ step \notin {"join", "over"} => timerPipe = 0

\* No byte appears from nowhere, and without a limit or a refusal none is lost.
BytesKept ==
  \A s \in Captured :
    /\ result[s] + result.handed[s] + pipe[s] <= child[s]
    /\ ~refused /\ ~result.truncated =>
         result[s] + result.handed[s] + pipe[s] = child[s]

LimitKept ==
  /\ opts.max > 0 /\ ~opts.callback => \A s \in Captured : result[s] <= opts.max
  /\ result.truncated =>
       /\ opts.max > 0 /\ ~opts.callback
       /\ \E s \in Captured : result[s] = opts.max /\ child[s] > opts.max

\* POLLHUP is reported, and a stream is closed, only after the child's end;
\* a stream that is closed is empty.
HupRight == \A s \in Streams : revents[s] = "hup" => ChildDead

ClosedDry ==
  ~aborting /\ child.state # "none" /\ (step # "over" \/ result.ended # "no") =>
    \A s \in Captured \ fds : pipe[s] = 0 /\ ChildDead

\* The loop ends with the streams closed, and stdin fed, unless it is aborted.
LoopDone ==
  /\ step = "drain" /\ ~aborting =>
       /\ Streams \cap fds = {}
       /\ "stdin" \in fds => offset = opts.input
  /\ step \in {"waitpid", "report", "cancel"} => Streams \cap fds = {}
  /\ result.ended # "no" => Streams \cap fds = {}

\* The inductive invariant of PopenWrapper.
PopenInv ==
  /\ PopenTypeOK
  /\ Phases
  /\ TellsOnce
  /\ BytesKept
  /\ LimitKept
  /\ HupRight
  /\ ClosedDry
  /\ LoopDone
  /\ EofAfterAllInput

\* The types of a call's state, by name.
LEMMA CallTypes ==
  ASSUME PopenTypeOK
  PROVE  /\ opts \in PopenOptions /\ opts \in OptionSet /\ pipe \in Pipes
         /\ offset \in 0..opts.input /\ child \in Children /\ result \in Results
         /\ PipeSize \in Nat /\ ReadBuffer \in Nat \ {0} /\ MaxWritten \in Nat
         /\ opts.input \in Nat
BY PopenAssumption DEF PopenTypeOK, OptionSet, Pipes, Children, Results

LEMMA ChildWritesKeeps ==
  ASSUME PopenInv, NEW s \in Streams, ChildWrites(s)
  PROVE  PopenInv'
<1>0. /\ PopenTypeOK /\ Phases /\ TellsOnce /\ BytesKept /\ LimitKept
      /\ HupRight /\ ClosedDry /\ LoopDone /\ EofAfterAllInput
  BY DEF PopenInv
<1>1. PopenTypeOK'
  <2>1. /\ opts \in PopenOptions /\ opts \in OptionSet /\ pipe \in Pipes
        /\ offset \in 0..opts.input /\ child \in Children /\ result \in Results
    BY <1>0, CallTypes
  <2>2. PipeSize \in Nat /\ ReadBuffer \in Nat \ {0} /\ MaxWritten \in Nat /\ opts.input \in Nat
    BY <1>0, CallTypes

  <2>3. pipe[s] + 1 \in 0..PipeSize
    BY <2>1, <2>2 DEF ChildWrites, Pipes
  <2>4. child[s] + 1 \in 0..MaxWritten
    <3>1. child[s] \in 0..MaxWritten
      BY <2>1 DEF Streams, Children
    <3> QED
      BY <2>2, <3>1 DEF ChildWrites
  <2>5. pipe' \in Pipes
    BY <2>1, <2>3 DEF ChildWrites, Pipes
  <2>6. child' \in Children
    BY <2>1, <2>4 DEF ChildWrites, Streams, Children
  <2> QED
    BY <1>0, <2>5, <2>6
    DEF PopenTypeOK, ChildWrites, ChildUntouched, timerVars, Pipes, Children, Results
<1>2. Phases'
  BY <1>0 DEF ChildWrites, ChildUntouched, ioVars, timerVars, Phases, PopenTypeOK,
     Captured, Streams
<1>3. BytesKept'
  BY <1>0 DEF ChildWrites, ChildUntouched, ioVars, timerVars, BytesKept, PopenTypeOK,
     Captured, Streams
<1>4. LimitKept'
  BY <1>0 DEF ChildWrites, ChildUntouched, ioVars, timerVars, LimitKept, PopenTypeOK,
     BytesKept, Captured, Streams
<1>5. HupRight'
  BY <1>0 DEF ChildWrites, ChildUntouched, ioVars, timerVars, HupRight, PopenTypeOK,
     ChildDead, Streams, Phases
<1>6. ClosedDry'
  BY <1>0 DEF ChildWrites, ChildUntouched, ioVars, timerVars, ClosedDry, PopenTypeOK,
     Phases, HupRight, LoopDone, ChildDead, Captured, Streams
<1>7. EofAfterAllInput'
  BY <1>0 DEF ChildWrites, ChildUntouched, ioVars, timerVars, EofAfterAllInput,
     PopenTypeOK, Phases, LoopDone, ChildAlive, ChildDead, needStdin
<1>8. TellsOnce' /\ LoopDone'
  BY <1>0 DEF ChildWrites, ChildUntouched, ioVars, timerVars, TellsOnce, LoopDone,
     Captured, ChildAlive, ChildDead
<1> QED
  BY <1>1, <1>2, <1>3, <1>4, <1>5, <1>6, <1>7, <1>8 DEF PopenInv

LEMMA ChildReadsKeeps ==
  ASSUME PopenInv, ChildReads
  PROVE  PopenInv'
<1>0. /\ PopenTypeOK /\ Phases /\ TellsOnce /\ BytesKept /\ LimitKept
      /\ HupRight /\ ClosedDry /\ LoopDone /\ EofAfterAllInput
  BY DEF PopenInv
<1>1. PopenTypeOK'
  <2>1. /\ opts \in PopenOptions /\ opts \in OptionSet /\ pipe \in Pipes
        /\ offset \in 0..opts.input /\ child \in Children /\ result \in Results
    BY <1>0, CallTypes
  <2>2. PipeSize \in Nat /\ ReadBuffer \in Nat \ {0} /\ MaxWritten \in Nat /\ opts.input \in Nat
    BY <1>0, CallTypes
  <2>3. pipe["stdin"] - 1 \in 0..PipeSize
    BY <2>1, <2>2 DEF ChildReads, Pipes, Children
  <2>4. pipe' \in Pipes
    BY <2>1, <2>3 DEF ChildReads, Pipes
  <2>5. child' \in Children
    BY <2>1 DEF ChildReads, Children
  <2> QED
    BY <1>0, <2>4, <2>5
    DEF PopenTypeOK, ChildReads, ChildUntouched, timerVars, Pipes, Children, Results
<1>2. Phases'
  BY <1>0 DEF ChildReads, ChildUntouched, timerVars, Phases, PopenTypeOK, Captured,
     Streams
<1>3. BytesKept'
  BY <1>0 DEF ChildReads, ChildUntouched, timerVars, BytesKept, PopenTypeOK, Captured,
     Streams
<1>4. LimitKept'
  BY <1>0 DEF ChildReads, ChildUntouched, timerVars, LimitKept, PopenTypeOK, BytesKept,
     Captured, Streams
<1>5. HupRight'
  BY <1>0 DEF ChildReads, ChildUntouched, timerVars, HupRight, PopenTypeOK, ChildDead,
     Streams, Phases
<1>6. ClosedDry'
  BY <1>0 DEF ChildReads, ChildUntouched, timerVars, ClosedDry, PopenTypeOK, Phases,
     HupRight, LoopDone, ChildDead, Captured, Streams
<1>7. EofAfterAllInput'
  BY <1>0 DEF ChildReads, ChildUntouched, timerVars, EofAfterAllInput, PopenTypeOK,
     Phases, LoopDone, ChildAlive, ChildDead, needStdin
<1>8. TellsOnce' /\ LoopDone'
  BY <1>0 DEF ChildReads, ChildUntouched, timerVars, TellsOnce, LoopDone, Captured,
     ChildAlive, ChildDead
<1> QED
  BY <1>1, <1>2, <1>3, <1>4, <1>5, <1>6, <1>7, <1>8 DEF PopenInv

LEMMA ChildEndsKeeps ==
  ASSUME PopenInv, ChildEnds
  PROVE  PopenInv'
<1>0. /\ PopenTypeOK /\ Phases /\ TellsOnce /\ BytesKept /\ LimitKept
      /\ HupRight /\ ClosedDry /\ LoopDone /\ EofAfterAllInput
  BY DEF PopenInv
<1>1. PopenTypeOK'
  BY <1>0 DEF ChildEnds, ChildUntouched, ChildAlive, timerVars, PopenTypeOK, TellsOnce,
     Streams
<1>2. Phases'
  BY <1>0 DEF ChildEnds, ChildUntouched, ChildAlive, timerVars, Phases, PopenTypeOK,
     Captured, Streams
<1>3. BytesKept'
  BY <1>0 DEF ChildEnds, ChildUntouched, ChildAlive, timerVars, BytesKept, PopenTypeOK,
     Captured, Streams
<1>4. LimitKept'
  BY <1>0 DEF ChildEnds, ChildUntouched, ChildAlive, timerVars, LimitKept, PopenTypeOK,
     BytesKept, Captured, Streams
<1>5. HupRight'
  BY <1>0 DEF ChildEnds, ChildUntouched, ChildAlive, timerVars, HupRight, PopenTypeOK,
     ChildDead, Streams, Phases
<1>6. ClosedDry'
  BY <1>0 DEF ChildEnds, ChildUntouched, ChildAlive, timerVars, ClosedDry, PopenTypeOK,
     Phases, HupRight, LoopDone, ChildDead, Captured, Streams
<1>7. EofAfterAllInput'
  BY <1>0 DEF ChildEnds, ChildUntouched, ChildAlive, timerVars, EofAfterAllInput,
     PopenTypeOK, Phases, LoopDone, ChildDead, needStdin
<1>8. TellsOnce' /\ LoopDone'
  BY <1>0 DEF ChildEnds, ChildUntouched, ChildAlive, timerVars, TellsOnce, LoopDone,
     Captured, ChildDead
<1> QED
  BY <1>1, <1>2, <1>3, <1>4, <1>5, <1>6, <1>7, <1>8 DEF PopenInv

LEMMA ForkExecKeeps ==
  ASSUME PopenInv, ForkExec
  PROVE  PopenInv'
<1>0. /\ PopenTypeOK /\ Phases /\ TellsOnce /\ BytesKept /\ LimitKept
      /\ HupRight /\ ClosedDry /\ LoopDone /\ EofAfterAllInput
  BY DEF PopenInv
<1>1. PopenTypeOK'
  <2>1. fds' \subseteq Streams \cup {"stdin", "timer0", "timer1"}
    BY DEF ForkExec, Captured, Streams, Children
  <2>2. child' \in Children
    BY <1>0 DEF PopenTypeOK, ForkExec, Children
  <2> QED
    BY <1>0, <2>1, <2>2 DEF PopenTypeOK, ForkExec, Children
<1>2. Phases'
  BY <1>0 DEF ForkExec, needStdin, Phases, PopenTypeOK, Captured, Streams
<1>3. TellsOnce'
  BY <1>0 DEF ForkExec, needStdin, TellsOnce, PopenTypeOK, Phases
<1>4. BytesKept'
  BY <1>0 DEF ForkExec, needStdin, BytesKept, PopenTypeOK, Captured, Streams
<1>5. LimitKept'
  BY <1>0 DEF ForkExec, needStdin, LimitKept, PopenTypeOK, BytesKept, Captured, Streams
<1>6. HupRight'
  BY <1>0 DEF ForkExec, needStdin, HupRight, PopenTypeOK, ChildDead, Streams, Phases
<1>7. ClosedDry'
  BY <1>0 DEF ForkExec, needStdin, ClosedDry, PopenTypeOK, Phases, HupRight, LoopDone,
     ChildDead, Captured, Streams
<1>8. LoopDone'
  BY <1>0 DEF ForkExec, needStdin, LoopDone, PopenTypeOK, Phases, Streams
<1>9. EofAfterAllInput'
  BY <1>0 DEF ForkExec, needStdin, EofAfterAllInput, PopenTypeOK, Phases, LoopDone,
     ChildAlive, ChildDead
<1> QED
  BY <1>1, <1>2, <1>3, <1>4, <1>5, <1>6, <1>7, <1>8, <1>9 DEF PopenInv

LEMMA ForkFailsKeeps ==
  ASSUME PopenInv, ForkFails
  PROVE  PopenInv'
<1>0. /\ PopenTypeOK /\ Phases /\ TellsOnce /\ BytesKept /\ LimitKept
      /\ HupRight /\ ClosedDry /\ LoopDone /\ EofAfterAllInput
  BY DEF PopenInv
<1>1. PopenTypeOK'
  BY <1>0 DEF ForkFails, ioVars, timerVars, PopenTypeOK, TellsOnce, Streams
<1>2. Phases'
  BY <1>0 DEF ForkFails, ioVars, timerVars, Phases, PopenTypeOK, Captured, Streams
<1>3. TellsOnce'
  BY <1>0 DEF ForkFails, ioVars, timerVars, TellsOnce, PopenTypeOK, Phases
<1>4. ClosedDry'
  BY <1>0 DEF ForkFails, ioVars, timerVars, ClosedDry, PopenTypeOK, Phases, HupRight,
     LoopDone, ChildDead, Captured, Streams
<1>5. LoopDone'
  BY <1>0 DEF ForkFails, ioVars, timerVars, LoopDone, PopenTypeOK, Phases, Streams
<1>6. EofAfterAllInput'
  BY <1>0 DEF ForkFails, ioVars, timerVars, EofAfterAllInput, PopenTypeOK, Phases,
     LoopDone, ChildAlive, ChildDead, needStdin
<1>7. BytesKept' /\ LimitKept' /\ HupRight'
  BY <1>0 DEF ForkFails, ioVars, timerVars, BytesKept, LimitKept, HupRight, Captured,
     ChildAlive, ChildDead
<1> QED
  BY <1>1, <1>2, <1>3, <1>4, <1>5, <1>6, <1>7 DEF PopenInv

LEMMA RunFeedsStdinKeeps ==
  ASSUME PopenInv, RunFeedsStdin
  PROVE  PopenInv'
<1>0. /\ PopenTypeOK /\ Phases /\ TellsOnce /\ BytesKept /\ LimitKept
      /\ HupRight /\ ClosedDry /\ LoopDone /\ EofAfterAllInput
  BY DEF PopenInv
<1>1. PopenTypeOK'
  <2>1. /\ opts \in PopenOptions /\ opts \in OptionSet /\ pipe \in Pipes
        /\ offset \in 0..opts.input /\ child \in Children /\ result \in Results
    BY <1>0, CallTypes
  <2>2. PipeSize \in Nat /\ ReadBuffer \in Nat \ {0} /\ MaxWritten \in Nat /\ opts.input \in Nat
    BY <1>0, CallTypes
  <2>3. ASSUME WriteByte
        PROVE  /\ pipe' \in Pipes
               /\ offset' \in 0..opts.input
    <3>1. pipe["stdin"] + 1 \in 0..PipeSize /\ offset + 1 \in 0..opts.input
      BY <2>1, <2>2, <2>3 DEF WriteByte, Pipes
    <3> QED
      BY <2>1, <2>3, <3>1 DEF WriteByte, Pipes
  <2>4. /\ pipe' \in Pipes
        /\ offset' \in 0..opts.input
    BY <2>1, <2>3 DEF RunFeedsStdin, WriteReturns, Pipes
  <2> QED
    BY <1>0, <2>4 DEF PopenTypeOK, RunFeedsStdin, timerVars, Pipes
<1>2. Phases'
  BY <1>0 DEF RunFeedsStdin, WriteByte, WriteReturns, timerVars, Phases, PopenTypeOK,
     Captured, Streams
<1>3. TellsOnce'
  BY <1>0 DEF RunFeedsStdin, WriteByte, WriteReturns, timerVars, TellsOnce, PopenTypeOK,
     Phases
<1>4. BytesKept'
  BY <1>0 DEF RunFeedsStdin, WriteByte, WriteReturns, timerVars, BytesKept, PopenTypeOK,
     Captured, Streams
<1>5. ClosedDry'
  BY <1>0 DEF RunFeedsStdin, WriteByte, WriteReturns, timerVars, ClosedDry, PopenTypeOK,
     Phases, HupRight, LoopDone, ChildDead, Captured, Streams
<1>6. LoopDone'
  BY <1>0 DEF RunFeedsStdin, WriteByte, WriteReturns, timerVars, LoopDone, PopenTypeOK,
     Phases, Streams
<1>7. EofAfterAllInput'
  BY <1>0 DEF RunFeedsStdin, WriteByte, WriteReturns, timerVars, EofAfterAllInput,
     PopenTypeOK, Phases, LoopDone, ChildAlive, ChildDead, needStdin
<1>8. LimitKept' /\ HupRight'
  BY <1>0 DEF RunFeedsStdin, WriteByte, WriteReturns, timerVars, LimitKept, HupRight,
     Captured, ChildAlive, ChildDead
<1> QED
  BY <1>1, <1>2, <1>3, <1>4, <1>5, <1>6, <1>7, <1>8 DEF PopenInv

LEMMA ReadChunkKeeps ==
  ASSUME PopenInv, NEW s \in Streams, ReadChunk(s)
  PROVE  PopenInv'
<1>0. /\ PopenTypeOK /\ Phases /\ TellsOnce /\ BytesKept /\ LimitKept
      /\ HupRight /\ ClosedDry /\ LoopDone /\ EofAfterAllInput
  BY DEF PopenInv
<1>1. PopenTypeOK'
  <2>1. /\ opts \in PopenOptions /\ opts \in OptionSet /\ pipe \in Pipes
        /\ offset \in 0..opts.input /\ child \in Children /\ result \in Results
    BY <1>0, CallTypes
  <2>2. PipeSize \in Nat /\ ReadBuffer \in Nat \ {0} /\ MaxWritten \in Nat /\ opts.input \in Nat
    BY <1>0, CallTypes
  <2>3. PICK n \in 0..pipe[s] :
          /\ pipe' = [pipe EXCEPT ![s] = @ - n]
          /\ result' = [result EXCEPT !.handed[s] = @ + n]
    <3> DEFINE n == IF pipe[s] < ReadBuffer THEN pipe[s] ELSE ReadBuffer
    <3>1. n \in 0..pipe[s]
      BY <2>1, <2>2 DEF Pipes
    <3> QED
      BY <3>1 DEF ReadChunk
  <2>4. pipe' \in Pipes
    BY <2>1, <2>2, <2>3 DEF Pipes
  <2>5. result' \in Results
    BY <2>1, <2>3 DEF Results
  <2> QED
    BY <1>0, <2>4, <2>5 DEF PopenTypeOK, ReadChunk, timerVars, Pipes, Children, Results
<1>2. Phases'
  BY <1>0 DEF ReadChunk, timerVars, Phases, PopenTypeOK, Captured, Streams
<1>3. BytesKept'
  <2>1. /\ opts \in PopenOptions /\ opts \in OptionSet /\ pipe \in Pipes
        /\ offset \in 0..opts.input /\ child \in Children /\ result \in Results
    BY <1>0, CallTypes
  <2>2. PipeSize \in Nat /\ ReadBuffer \in Nat \ {0} /\ MaxWritten \in Nat /\ opts.input \in Nat
    BY <1>0, CallTypes
  <2>3. PICK n \in 0..pipe[s] :
          /\ pipe' = [pipe EXCEPT ![s] = @ - n]
          /\ result' = [result EXCEPT !.handed[s] = @ + n]
    <3> DEFINE n == IF pipe[s] < ReadBuffer THEN pipe[s] ELSE ReadBuffer
    <3>1. n \in 0..pipe[s]
      BY <2>1, <2>2 DEF Pipes
    <3> QED
      BY <3>1 DEF ReadChunk
  <2>4. \A t \in Streams :
          /\ result'[t] = result[t]
          /\ result'.handed[t] + pipe'[t] = result.handed[t] + pipe[t]
    BY <2>1, <2>2, <2>3 DEF Streams, Pipes, Results
  <2>5. \A t \in Streams : /\ result[t] \in Nat /\ result.handed[t] \in Nat /\ pipe[t] \in Nat
                           /\ pipe'[t] \in Nat /\ result'.handed[t] \in Nat
    BY <1>1, <2>1 DEF PopenTypeOK, Streams, Pipes, Results
  <2>6. /\ Captured' = Captured /\ Captured \subseteq Streams /\ child' = child
        /\ refused' = refused /\ result'.truncated = result.truncated
    BY <2>1, <2>3 DEF ReadChunk, Captured, Streams, Results
  <2>7. \A t \in Streams :
          result'[t] + result'.handed[t] + pipe'[t] = result[t] + result.handed[t] + pipe[t]
    BY <2>4, <2>5
  <2> QED
    BY <1>0, <2>6, <2>7 DEF BytesKept
<1>4. LimitKept'
  BY <1>0 DEF ReadChunk, timerVars, LimitKept, PopenTypeOK, BytesKept, Captured, Streams
<1>5. ClosedDry'
  BY <1>0 DEF ReadChunk, timerVars, ClosedDry, PopenTypeOK, Phases, HupRight, LoopDone,
     ChildDead, Captured, Streams
<1>6. LoopDone'
  BY <1>0 DEF ReadChunk, timerVars, LoopDone, PopenTypeOK, Phases, Streams
<1>7. TellsOnce' /\ HupRight' /\ EofAfterAllInput'
  BY <1>0 DEF ReadChunk, timerVars, TellsOnce, HupRight, EofAfterAllInput, Captured,
     ChildAlive, ChildDead
<1> QED
  BY <1>1, <1>2, <1>3, <1>4, <1>5, <1>6, <1>7 DEF PopenInv

LEMMA CloseStdinKeeps ==
  ASSUME PopenInv, CloseStdin
  PROVE  PopenInv'
<1>0. /\ PopenTypeOK /\ Phases /\ TellsOnce /\ BytesKept /\ LimitKept
      /\ HupRight /\ ClosedDry /\ LoopDone /\ EofAfterAllInput
  BY DEF PopenInv
<1>1. PopenTypeOK'
  BY <1>0 DEF CloseStdin, timerVars, PopenTypeOK, TellsOnce, Streams
<1>2. Phases'
  BY <1>0 DEF CloseStdin, timerVars, Phases, PopenTypeOK, Captured, Streams
<1>3. ClosedDry'
  BY <1>0 DEF CloseStdin, timerVars, ClosedDry, PopenTypeOK, Phases, HupRight, LoopDone,
     ChildDead, Captured, Streams
<1>4. LoopDone'
  BY <1>0 DEF CloseStdin, timerVars, LoopDone, PopenTypeOK, Phases, Streams
<1>5. EofAfterAllInput'
  BY <1>0 DEF CloseStdin, timerVars, EofAfterAllInput, PopenTypeOK, Phases, LoopDone,
     ChildAlive, ChildDead, needStdin
<1>6. TellsOnce' /\ BytesKept' /\ LimitKept' /\ HupRight'
  BY <1>0 DEF CloseStdin, timerVars, TellsOnce, BytesKept, LimitKept, HupRight,
     Captured, ChildAlive, ChildDead
<1> QED
  BY <1>1, <1>2, <1>3, <1>4, <1>5, <1>6 DEF PopenInv

LEMMA SignalChildKeeps ==
  ASSUME PopenInv, SignalChild
  PROVE  PopenInv'
<1>0. /\ PopenTypeOK /\ Phases /\ TellsOnce /\ BytesKept /\ LimitKept
      /\ HupRight /\ ClosedDry /\ LoopDone /\ EofAfterAllInput
  BY DEF PopenInv
<1>1. PopenTypeOK'
  BY <1>0 DEF SignalChild, SigTerm, SigKillChild, Struck, ioVars, timerVars,
     PopenTypeOK, TellsOnce, Streams
<1>2. Phases'
  BY <1>0 DEF SignalChild, SigTerm, SigKillChild, Struck, ioVars, timerVars, Phases,
     PopenTypeOK, Captured, Streams
<1>3. BytesKept'
  BY <1>0 DEF SignalChild, SigTerm, SigKillChild, Struck, ioVars, timerVars, BytesKept,
     PopenTypeOK, Captured, Streams
<1>4. LimitKept'
  BY <1>0 DEF SignalChild, SigTerm, SigKillChild, Struck, ioVars, timerVars, LimitKept,
     PopenTypeOK, BytesKept, Captured, Streams
<1>5. HupRight'
  BY <1>0 DEF SignalChild, SigTerm, SigKillChild, Struck, ioVars, timerVars, HupRight,
     PopenTypeOK, ChildDead, Streams, Phases
<1>6. ClosedDry'
  BY <1>0 DEF SignalChild, SigTerm, SigKillChild, Struck, ioVars, timerVars, ClosedDry,
     PopenTypeOK, Phases, HupRight, LoopDone, ChildDead, Captured, Streams
<1>7. EofAfterAllInput'
  BY <1>0 DEF SignalChild, SigTerm, SigKillChild, Struck, ioVars, timerVars,
     EofAfterAllInput, PopenTypeOK, Phases, LoopDone, ChildAlive, ChildDead, needStdin
<1>8. TellsOnce' /\ LoopDone'
  BY <1>0 DEF SignalChild, SigTerm, SigKillChild, Struck, ioVars, timerVars, TellsOnce,
     LoopDone, Captured, ChildAlive, ChildDead
<1> QED
  BY <1>1, <1>2, <1>3, <1>4, <1>5, <1>6, <1>7, <1>8 DEF PopenInv

LEMMA WaitKeeps ==
  ASSUME PopenInv, Wait
  PROVE  PopenInv'
<1>0. /\ PopenTypeOK /\ Phases /\ TellsOnce /\ BytesKept /\ LimitKept
      /\ HupRight /\ ClosedDry /\ LoopDone /\ EofAfterAllInput
  BY DEF PopenInv
<1>1. PopenTypeOK'
  BY <1>0 DEF Wait, ioVars, timerVars, PopenTypeOK, TellsOnce, Streams
<1>2. Phases'
  BY <1>0 DEF Wait, ioVars, timerVars, Phases, PopenTypeOK, Captured, Streams
<1>3. TellsOnce'
  BY <1>0 DEF Wait, ioVars, timerVars, TellsOnce, PopenTypeOK, Phases
<1>4. ClosedDry'
  BY <1>0 DEF Wait, ioVars, timerVars, ClosedDry, PopenTypeOK, Phases, HupRight,
     LoopDone, ChildDead, Captured, Streams
<1>5. LoopDone'
  BY <1>0 DEF Wait, ioVars, timerVars, LoopDone, PopenTypeOK, Phases, Streams
<1>6. EofAfterAllInput'
  BY <1>0 DEF Wait, ioVars, timerVars, EofAfterAllInput, PopenTypeOK, Phases, LoopDone,
     ChildAlive, ChildDead, needStdin
<1>7. BytesKept' /\ LimitKept' /\ HupRight'
  BY <1>0 DEF Wait, ioVars, timerVars, BytesKept, LimitKept, HupRight, Captured,
     ChildAlive, ChildDead
<1> QED
  BY <1>1, <1>2, <1>3, <1>4, <1>5, <1>6, <1>7 DEF PopenInv

LEMMA DestroyStartedKeeps ==
  ASSUME PopenInv, DestroyStarted
  PROVE  PopenInv'
<1>0. /\ PopenTypeOK /\ Phases /\ TellsOnce /\ BytesKept /\ LimitKept
      /\ HupRight /\ ClosedDry /\ LoopDone /\ EofAfterAllInput
  BY DEF PopenInv
<1>1. PopenTypeOK'
  BY <1>0 DEF DestroyStarted, SigKillChild, Struck, ioVars, timerVars, PopenTypeOK,
     TellsOnce, Streams
<1>2. Phases'
  BY <1>0 DEF DestroyStarted, SigKillChild, Struck, ioVars, timerVars, Phases,
     PopenTypeOK, Captured, Streams
<1>3. TellsOnce'
  BY <1>0 DEF DestroyStarted, SigKillChild, Struck, ioVars, timerVars, TellsOnce,
     PopenTypeOK, Phases
<1>4. BytesKept'
  BY <1>0 DEF DestroyStarted, SigKillChild, Struck, ioVars, timerVars, BytesKept,
     PopenTypeOK, Captured, Streams
<1>5. LimitKept'
  BY <1>0 DEF DestroyStarted, SigKillChild, Struck, ioVars, timerVars, LimitKept,
     PopenTypeOK, BytesKept, Captured, Streams
<1>6. HupRight'
  BY <1>0 DEF DestroyStarted, SigKillChild, Struck, ioVars, timerVars, HupRight,
     PopenTypeOK, ChildDead, Streams, Phases
<1>7. ClosedDry'
  BY <1>0 DEF DestroyStarted, SigKillChild, Struck, ioVars, timerVars, ClosedDry,
     PopenTypeOK, Phases, HupRight, LoopDone, ChildDead, Captured, Streams
<1>8. LoopDone'
  BY <1>0 DEF DestroyStarted, SigKillChild, Struck, ioVars, timerVars, LoopDone,
     PopenTypeOK, Phases, Streams
<1>9. EofAfterAllInput'
  BY <1>0 DEF DestroyStarted, SigKillChild, Struck, ioVars, timerVars, EofAfterAllInput,
     PopenTypeOK, Phases, LoopDone, ChildAlive, ChildDead, needStdin
<1> QED
  BY <1>1, <1>2, <1>3, <1>4, <1>5, <1>6, <1>7, <1>8, <1>9 DEF PopenInv

LEMMA DestroyReapsKeeps ==
  ASSUME PopenInv, DestroyReaps
  PROVE  PopenInv'
<1>0. /\ PopenTypeOK /\ Phases /\ TellsOnce /\ BytesKept /\ LimitKept
      /\ HupRight /\ ClosedDry /\ LoopDone /\ EofAfterAllInput
  BY DEF PopenInv
<1>1. PopenTypeOK'
  BY <1>0 DEF DestroyReaps, ioVars, PopenTypeOK, TellsOnce, Streams
<1>2. Phases'
  BY <1>0 DEF DestroyReaps, ioVars, Phases, PopenTypeOK, Captured, Streams
<1>3. TellsOnce'
  BY <1>0 DEF DestroyReaps, ioVars, TellsOnce, PopenTypeOK, Phases
<1>4. BytesKept'
  BY <1>0 DEF DestroyReaps, ioVars, BytesKept, PopenTypeOK, Captured, Streams
<1>5. LimitKept'
  BY <1>0 DEF DestroyReaps, ioVars, LimitKept, PopenTypeOK, BytesKept, Captured, Streams
<1>6. HupRight'
  BY <1>0 DEF DestroyReaps, ioVars, HupRight, PopenTypeOK, ChildDead, Streams, Phases
<1>7. ClosedDry'
  BY <1>0 DEF DestroyReaps, ioVars, ClosedDry, PopenTypeOK, Phases, HupRight, LoopDone,
     ChildDead, Captured, Streams
<1>8. LoopDone'
  BY <1>0 DEF DestroyReaps, ioVars, LoopDone, PopenTypeOK, Phases, Streams
<1>9. EofAfterAllInput'
  BY <1>0 DEF DestroyReaps, ioVars, EofAfterAllInput, PopenTypeOK, Phases, LoopDone,
     ChildAlive, ChildDead, needStdin
<1> QED
  BY <1>1, <1>2, <1>3, <1>4, <1>5, <1>6, <1>7, <1>8, <1>9 DEF PopenInv

LEMMA PollKeeps ==
  ASSUME PopenInv, Poll
  PROVE  PopenInv'
<1>0. /\ PopenTypeOK /\ Phases /\ TellsOnce /\ BytesKept /\ LimitKept
      /\ HupRight /\ ClosedDry /\ LoopDone /\ EofAfterAllInput
  BY DEF PopenInv
<1>1. PopenTypeOK'
  BY <1>0 DEF Poll, Polled, Reported, timerVars, PopenTypeOK, TellsOnce, Streams
<1>2. Phases'
  BY <1>0 DEF Poll, Polled, Reported, timerVars, Phases, PopenTypeOK, Captured, Streams
<1>3. TellsOnce'
  BY <1>0 DEF Poll, Polled, Reported, timerVars, TellsOnce, PopenTypeOK, Phases
<1>4. HupRight'
  BY <1>0 DEF Poll, Polled, Reported, timerVars, HupRight, PopenTypeOK, ChildDead,
     Streams, Phases
<1>5. ClosedDry'
  BY <1>0 DEF Poll, Polled, Reported, timerVars, ClosedDry, PopenTypeOK, Phases,
     HupRight, LoopDone, ChildDead, Captured, Streams
<1>6. LoopDone'
  <2>1. CASE Polled = {}
    <3>1. Streams \cap fds = {} /\ ("stdin" \in fds => ~(offset < opts.input))
      BY <2>1 DEF Polled, Streams
    <3>2. "stdin" \in fds => offset = opts.input
      BY <1>0, <3>1, PopenAssumption DEF PopenTypeOK, OptionSet
    <3> QED
      BY <1>0, <2>1, <3>1, <3>2 DEF LoopDone, Poll, timerVars
  <2>2. CASE Polled # {}
    BY <1>0, <2>2 DEF LoopDone, Poll, timerVars
  <2> QED
    BY <2>1, <2>2
<1>7. EofAfterAllInput'
  BY <1>0 DEF Poll, Polled, Reported, timerVars, EofAfterAllInput, PopenTypeOK, Phases,
     LoopDone, ChildAlive, ChildDead, needStdin
<1>8. BytesKept' /\ LimitKept'
  BY <1>0 DEF Poll, Polled, Reported, timerVars, BytesKept, LimitKept, Captured,
     ChildAlive, ChildDead
<1> QED
  BY <1>1, <1>2, <1>3, <1>4, <1>5, <1>6, <1>7, <1>8 DEF PopenInv

LEMMA FeedStdinKeeps ==
  ASSUME PopenInv, FeedStdin
  PROVE  PopenInv'
<1>0. /\ PopenTypeOK /\ Phases /\ TellsOnce /\ BytesKept /\ LimitKept
      /\ HupRight /\ ClosedDry /\ LoopDone /\ EofAfterAllInput
  BY DEF PopenInv
<1>1. PopenTypeOK'
  BY <1>0 DEF FeedStdin, ioVars, timerVars, PopenTypeOK, TellsOnce, Streams
<1>2. Phases'
  BY <1>0 DEF FeedStdin, ioVars, timerVars, Phases, PopenTypeOK, Captured, Streams
<1>3. TellsOnce'
  BY <1>0 DEF FeedStdin, ioVars, timerVars, TellsOnce, PopenTypeOK, Phases
<1>4. ClosedDry'
  BY <1>0 DEF FeedStdin, ioVars, timerVars, ClosedDry, PopenTypeOK, Phases, HupRight,
     LoopDone, ChildDead, Captured, Streams
<1>5. LoopDone'
  BY <1>0 DEF FeedStdin, ioVars, timerVars, LoopDone, PopenTypeOK, Phases, Streams
<1>6. EofAfterAllInput'
  BY <1>0 DEF FeedStdin, ioVars, timerVars, EofAfterAllInput, PopenTypeOK, Phases,
     LoopDone, ChildAlive, ChildDead, needStdin
<1>7. BytesKept' /\ LimitKept' /\ HupRight'
  BY <1>0 DEF FeedStdin, ioVars, timerVars, BytesKept, LimitKept, HupRight, Captured,
     ChildAlive, ChildDead
<1> QED
  BY <1>1, <1>2, <1>3, <1>4, <1>5, <1>6, <1>7 DEF PopenInv

LEMMA WriteStdinKeeps ==
  ASSUME PopenInv, WriteStdin
  PROVE  PopenInv'
<1>0. /\ PopenTypeOK /\ Phases /\ TellsOnce /\ BytesKept /\ LimitKept
      /\ HupRight /\ ClosedDry /\ LoopDone /\ EofAfterAllInput
  BY DEF PopenInv
<1>1. PopenTypeOK'
  <2>1. /\ opts \in PopenOptions /\ opts \in OptionSet /\ pipe \in Pipes
        /\ offset \in 0..opts.input /\ child \in Children /\ result \in Results
    BY <1>0, CallTypes
  <2>2. PipeSize \in Nat /\ ReadBuffer \in Nat \ {0} /\ MaxWritten \in Nat /\ opts.input \in Nat
    BY <1>0, CallTypes
  <2>3. ASSUME WriteByte
        PROVE  /\ pipe' \in Pipes
               /\ offset' \in 0..opts.input
    <3>1. pipe["stdin"] + 1 \in 0..PipeSize /\ offset + 1 \in 0..opts.input
      BY <2>1, <2>2, <2>3 DEF WriteByte, Pipes
    <3> QED
      BY <2>1, <2>3, <3>1 DEF WriteByte, Pipes
  <2>4. /\ pipe' \in Pipes
        /\ offset' \in 0..opts.input
    BY <2>1, <2>3 DEF WriteStdin, WriteReturns, Pipes
  <2> QED
    BY <1>0, <2>4 DEF PopenTypeOK, WriteStdin, timerVars, Pipes
<1>2. Phases'
  BY <1>0 DEF WriteStdin, WriteByte, WriteReturns, StdinDone, timerVars, Phases,
     PopenTypeOK, Captured, Streams
<1>3. TellsOnce'
  BY <1>0 DEF WriteStdin, WriteByte, WriteReturns, StdinDone, timerVars, TellsOnce,
     PopenTypeOK, Phases
<1>4. BytesKept'
  BY <1>0 DEF WriteStdin, WriteByte, WriteReturns, StdinDone, timerVars, BytesKept,
     PopenTypeOK, Captured, Streams
<1>5. ClosedDry'
  BY <1>0 DEF WriteStdin, WriteByte, WriteReturns, StdinDone, timerVars, ClosedDry,
     PopenTypeOK, Phases, HupRight, LoopDone, ChildDead, Captured, Streams
<1>6. LoopDone'
  BY <1>0 DEF WriteStdin, WriteByte, WriteReturns, StdinDone, timerVars, LoopDone,
     PopenTypeOK, Phases, Streams
<1>7. EofAfterAllInput'
  BY <1>0 DEF WriteStdin, WriteByte, WriteReturns, StdinDone, timerVars,
     EofAfterAllInput, PopenTypeOK, Phases, LoopDone, ChildAlive, ChildDead, needStdin
<1>8. LimitKept' /\ HupRight'
  BY <1>0 DEF WriteStdin, WriteByte, WriteReturns, StdinDone, timerVars, LimitKept,
     HupRight, Captured, ChildAlive, ChildDead
<1> QED
  BY <1>1, <1>2, <1>3, <1>4, <1>5, <1>6, <1>7, <1>8 DEF PopenInv

LEMMA EndRoundKeeps ==
  ASSUME PopenInv, EndRound
  PROVE  PopenInv'
<1>0. /\ PopenTypeOK /\ Phases /\ TellsOnce /\ BytesKept /\ LimitKept
      /\ HupRight /\ ClosedDry /\ LoopDone /\ EofAfterAllInput
  BY DEF PopenInv
<1>1. PopenTypeOK'
  BY <1>0 DEF EndRound, SigTerm, Struck, timerVars, PopenTypeOK, TellsOnce, Streams
<1>2. Phases'
  BY <1>0 DEF EndRound, SigTerm, Struck, timerVars, Phases, PopenTypeOK, Captured,
     Streams
<1>3. TellsOnce'
  BY <1>0 DEF EndRound, SigTerm, Struck, timerVars, TellsOnce, PopenTypeOK, Phases
<1>4. BytesKept'
  BY <1>0 DEF EndRound, SigTerm, Struck, timerVars, BytesKept, PopenTypeOK, Captured,
     Streams
<1>5. LimitKept'
  BY <1>0 DEF EndRound, SigTerm, Struck, timerVars, LimitKept, PopenTypeOK, BytesKept,
     Captured, Streams
<1>6. HupRight'
  BY <1>0 DEF EndRound, SigTerm, Struck, timerVars, HupRight, PopenTypeOK, ChildDead,
     Streams, Phases
<1>7. ClosedDry'
  BY <1>0 DEF EndRound, SigTerm, Struck, timerVars, ClosedDry, PopenTypeOK, Phases,
     HupRight, LoopDone, ChildDead, Captured, Streams
<1>8. LoopDone'
  BY <1>0 DEF EndRound, SigTerm, Struck, timerVars, LoopDone, PopenTypeOK, Phases,
     Streams
<1>9. EofAfterAllInput'
  BY <1>0 DEF EndRound, SigTerm, Struck, timerVars, EofAfterAllInput, PopenTypeOK,
     Phases, LoopDone, ChildAlive, ChildDead, needStdin
<1> QED
  BY <1>1, <1>2, <1>3, <1>4, <1>5, <1>6, <1>7, <1>8, <1>9 DEF PopenInv

LEMMA WaitpidWithTimeoutKeeps ==
  ASSUME PopenInv, WaitpidWithTimeout
  PROVE  PopenInv'
<1>0. /\ PopenTypeOK /\ Phases /\ TellsOnce /\ BytesKept /\ LimitKept
      /\ HupRight /\ ClosedDry /\ LoopDone /\ EofAfterAllInput
  BY DEF PopenInv
<1>1. PopenTypeOK'
  BY <1>0 DEF WaitpidWithTimeout, ioVars, timerVars, PopenTypeOK, TellsOnce, Streams
<1>2. Phases'
  BY <1>0 DEF WaitpidWithTimeout, ioVars, timerVars, Phases, PopenTypeOK, Captured,
     Streams
<1>3. TellsOnce'
  BY <1>0 DEF WaitpidWithTimeout, ioVars, timerVars, TellsOnce, PopenTypeOK, Phases
<1>4. BytesKept'
  BY <1>0 DEF WaitpidWithTimeout, ioVars, timerVars, BytesKept, PopenTypeOK, Captured,
     Streams
<1>5. LimitKept'
  BY <1>0 DEF WaitpidWithTimeout, ioVars, timerVars, LimitKept, PopenTypeOK, BytesKept,
     Captured, Streams
<1>6. HupRight'
  BY <1>0 DEF WaitpidWithTimeout, ioVars, timerVars, HupRight, PopenTypeOK, ChildDead,
     Streams, Phases
<1>7. ClosedDry'
  BY <1>0 DEF WaitpidWithTimeout, ioVars, timerVars, ClosedDry, PopenTypeOK, Phases,
     HupRight, LoopDone, ChildDead, Captured, Streams
<1>8. LoopDone'
  BY <1>0 DEF WaitpidWithTimeout, ioVars, timerVars, LoopDone, PopenTypeOK, Phases,
     Streams
<1>9. EofAfterAllInput'
  BY <1>0 DEF WaitpidWithTimeout, ioVars, timerVars, EofAfterAllInput, PopenTypeOK,
     Phases, LoopDone, ChildAlive, ChildDead, needStdin
<1> QED
  BY <1>1, <1>2, <1>3, <1>4, <1>5, <1>6, <1>7, <1>8, <1>9 DEF PopenInv

LEMMA ReportTimeoutKeeps ==
  ASSUME PopenInv, ReportTimeout
  PROVE  PopenInv'
<1>0. /\ PopenTypeOK /\ Phases /\ TellsOnce /\ BytesKept /\ LimitKept
      /\ HupRight /\ ClosedDry /\ LoopDone /\ EofAfterAllInput
  BY DEF PopenInv
<1>1. PopenTypeOK'
  BY <1>0 DEF ReportTimeout, ioVars, timerVars, PopenTypeOK, TellsOnce, Streams
<1>2. Phases'
  BY <1>0 DEF ReportTimeout, ioVars, timerVars, Phases, PopenTypeOK, Captured, Streams
<1>3. TellsOnce'
  BY <1>0 DEF ReportTimeout, ioVars, timerVars, TellsOnce, PopenTypeOK, Phases
<1>4. BytesKept'
  BY <1>0 DEF ReportTimeout, ioVars, timerVars, BytesKept, PopenTypeOK, Captured,
     Streams
<1>5. LimitKept'
  BY <1>0 DEF ReportTimeout, ioVars, timerVars, LimitKept, PopenTypeOK, BytesKept,
     Captured, Streams
<1>6. ClosedDry'
  BY <1>0 DEF ReportTimeout, ioVars, timerVars, ClosedDry, PopenTypeOK, Phases,
     HupRight, LoopDone, ChildDead, Captured, Streams
<1>7. LoopDone'
  BY <1>0 DEF ReportTimeout, ioVars, timerVars, LoopDone, PopenTypeOK, Phases, Streams
<1>8. EofAfterAllInput'
  BY <1>0 DEF ReportTimeout, ioVars, timerVars, EofAfterAllInput, PopenTypeOK, Phases,
     LoopDone, ChildAlive, ChildDead, needStdin
<1>9. HupRight'
  BY <1>0 DEF ReportTimeout, ioVars, timerVars, HupRight, Captured, ChildAlive,
     ChildDead
<1> QED
  BY <1>1, <1>2, <1>3, <1>4, <1>5, <1>6, <1>7, <1>8, <1>9 DEF PopenInv

LEMMA CancelTimerKeeps ==
  ASSUME PopenInv, CancelTimer
  PROVE  PopenInv'
<1>0. /\ PopenTypeOK /\ Phases /\ TellsOnce /\ BytesKept /\ LimitKept
      /\ HupRight /\ ClosedDry /\ LoopDone /\ EofAfterAllInput
  BY DEF PopenInv
<1>1. PopenTypeOK'
  BY <1>0 DEF CancelTimer, PopenTypeOK, TellsOnce, Streams
<1>2. Phases'
  BY <1>0 DEF CancelTimer, Phases, PopenTypeOK, Captured, Streams
<1>3. TellsOnce'
  BY <1>0 DEF CancelTimer, TellsOnce, PopenTypeOK, Phases
<1>4. ClosedDry'
  BY <1>0 DEF CancelTimer, ClosedDry, PopenTypeOK, Phases, HupRight, LoopDone,
     ChildDead, Captured, Streams
<1>5. LoopDone'
  BY <1>0 DEF CancelTimer, LoopDone, PopenTypeOK, Phases, Streams
<1>6. EofAfterAllInput'
  BY <1>0 DEF CancelTimer, EofAfterAllInput, PopenTypeOK, Phases, LoopDone, ChildAlive,
     ChildDead, needStdin
<1>7. BytesKept' /\ LimitKept' /\ HupRight'
  BY <1>0 DEF CancelTimer, BytesKept, LimitKept, HupRight, Captured, ChildAlive,
     ChildDead
<1> QED
  BY <1>1, <1>2, <1>3, <1>4, <1>5, <1>6, <1>7 DEF PopenInv

LEMMA JoinTimerKeeps ==
  ASSUME PopenInv, JoinTimer
  PROVE  PopenInv'
<1>0. /\ PopenTypeOK /\ Phases /\ TellsOnce /\ BytesKept /\ LimitKept
      /\ HupRight /\ ClosedDry /\ LoopDone /\ EofAfterAllInput
  BY DEF PopenInv
<1>1. PopenTypeOK'
  BY <1>0 DEF JoinTimer, AfterJoin, PopenTypeOK, TellsOnce, Streams
<1>2. Phases'
  BY <1>0 DEF JoinTimer, AfterJoin, Phases, PopenTypeOK, Captured, Streams
<1>3. TellsOnce'
  BY <1>0 DEF JoinTimer, AfterJoin, TellsOnce, PopenTypeOK, Phases
<1>4. ClosedDry'
  BY <1>0 DEF JoinTimer, AfterJoin, ClosedDry, PopenTypeOK, Phases, HupRight, LoopDone,
     ChildDead, Captured, Streams
<1>5. LoopDone'
  BY <1>0 DEF JoinTimer, AfterJoin, LoopDone, PopenTypeOK, Phases, Streams
<1>6. EofAfterAllInput'
  BY <1>0 DEF JoinTimer, AfterJoin, EofAfterAllInput, PopenTypeOK, Phases, LoopDone,
     ChildAlive, ChildDead, needStdin
<1>7. BytesKept' /\ LimitKept' /\ HupRight'
  BY <1>0 DEF JoinTimer, AfterJoin, BytesKept, LimitKept, HupRight, Captured,
     ChildAlive, ChildDead
<1> QED
  BY <1>1, <1>2, <1>3, <1>4, <1>5, <1>6, <1>7 DEF PopenInv

LEMMA TimerPollKeeps ==
  ASSUME PopenInv, TimerPoll
  PROVE  PopenInv'
<1>0. /\ PopenTypeOK /\ Phases /\ TellsOnce /\ BytesKept /\ LimitKept
      /\ HupRight /\ ClosedDry /\ LoopDone /\ EofAfterAllInput
  BY DEF PopenInv
<1>1. PopenTypeOK'
  <2>1. timer' \in {"none", "timeout", "term", "grace", "kill", "tell", "done"}
        /\ timedOut' \in BOOLEAN
    BY <1>0 DEF PopenTypeOK, TimerPoll, Pipes
  <2> QED
    BY <1>0, <2>1 DEF PopenTypeOK, TimerPoll, TimerUntouched, ioVars, Pipes
<1>2. Phases'
  BY <1>0 DEF TimerPoll, TimerUntouched, ioVars, Phases, PopenTypeOK, Captured, Streams
<1>3. TellsOnce'
  BY <1>0 DEF TimerPoll, TimerUntouched, ioVars, TellsOnce, PopenTypeOK, Phases
<1>4. BytesKept' /\ LimitKept' /\ HupRight' /\ ClosedDry' /\ LoopDone' /\ EofAfterAllInput'
  BY <1>0 DEF TimerPoll, TimerUntouched, ioVars, BytesKept, LimitKept, HupRight,
     ClosedDry, LoopDone, EofAfterAllInput, Captured, ChildAlive, ChildDead
<1> QED
  BY <1>1, <1>2, <1>3, <1>4 DEF PopenInv

LEMMA TimerTermKeeps ==
  ASSUME PopenInv, TimerTerm
  PROVE  PopenInv'
<1>0. /\ PopenTypeOK /\ Phases /\ TellsOnce /\ BytesKept /\ LimitKept
      /\ HupRight /\ ClosedDry /\ LoopDone /\ EofAfterAllInput
  BY DEF PopenInv
<1>1. PopenTypeOK'
  BY <1>0 DEF TimerTerm, SigTerm, Struck, TimerUntouched, ioVars, PopenTypeOK,
     TellsOnce, Streams
<1>2. Phases'
  BY <1>0 DEF TimerTerm, SigTerm, Struck, TimerUntouched, ioVars, Phases, PopenTypeOK,
     Captured, Streams
<1>3. TellsOnce'
  BY <1>0 DEF TimerTerm, SigTerm, Struck, TimerUntouched, ioVars, TellsOnce,
     PopenTypeOK, Phases
<1>4. BytesKept'
  BY <1>0 DEF TimerTerm, SigTerm, Struck, TimerUntouched, ioVars, BytesKept,
     PopenTypeOK, Captured, Streams
<1>5. LimitKept'
  BY <1>0 DEF TimerTerm, SigTerm, Struck, TimerUntouched, ioVars, LimitKept,
     PopenTypeOK, BytesKept, Captured, Streams
<1>6. HupRight'
  BY <1>0 DEF TimerTerm, SigTerm, Struck, TimerUntouched, ioVars, HupRight, PopenTypeOK,
     ChildDead, Streams, Phases
<1>7. ClosedDry'
  BY <1>0 DEF TimerTerm, SigTerm, Struck, TimerUntouched, ioVars, ClosedDry,
     PopenTypeOK, Phases, HupRight, LoopDone, ChildDead, Captured, Streams
<1>8. EofAfterAllInput'
  BY <1>0 DEF TimerTerm, SigTerm, Struck, TimerUntouched, ioVars, EofAfterAllInput,
     PopenTypeOK, Phases, LoopDone, ChildAlive, ChildDead, needStdin
<1>9. LoopDone'
  BY <1>0 DEF TimerTerm, SigTerm, Struck, TimerUntouched, ioVars, LoopDone, Captured,
     ChildAlive, ChildDead
<1> QED
  BY <1>1, <1>2, <1>3, <1>4, <1>5, <1>6, <1>7, <1>8, <1>9 DEF PopenInv

LEMMA TimerGraceKeeps ==
  ASSUME PopenInv, TimerGrace
  PROVE  PopenInv'
<1>0. /\ PopenTypeOK /\ Phases /\ TellsOnce /\ BytesKept /\ LimitKept
      /\ HupRight /\ ClosedDry /\ LoopDone /\ EofAfterAllInput
  BY DEF PopenInv
<1>1. PopenTypeOK'
  BY <1>0 DEF TimerGrace, TimerUntouched, ioVars, PopenTypeOK, TellsOnce, Streams
<1>2. Phases'
  BY <1>0 DEF TimerGrace, TimerUntouched, ioVars, Phases, PopenTypeOK, Captured, Streams
<1>3. TellsOnce'
  BY <1>0 DEF TimerGrace, TimerUntouched, ioVars, TellsOnce, PopenTypeOK, Phases
<1>4. BytesKept' /\ LimitKept' /\ HupRight' /\ ClosedDry' /\ LoopDone' /\ EofAfterAllInput'
  BY <1>0 DEF TimerGrace, TimerUntouched, ioVars, BytesKept, LimitKept, HupRight,
     ClosedDry, LoopDone, EofAfterAllInput, Captured, ChildAlive, ChildDead
<1> QED
  BY <1>1, <1>2, <1>3, <1>4 DEF PopenInv

LEMMA TimerKillKeeps ==
  ASSUME PopenInv, TimerKill
  PROVE  PopenInv'
<1>0. /\ PopenTypeOK /\ Phases /\ TellsOnce /\ BytesKept /\ LimitKept
      /\ HupRight /\ ClosedDry /\ LoopDone /\ EofAfterAllInput
  BY DEF PopenInv
<1>1. PopenTypeOK'
  BY <1>0 DEF TimerKill, SigKillChild, Struck, TimerUntouched, ioVars, PopenTypeOK,
     TellsOnce, Streams
<1>2. Phases'
  BY <1>0 DEF TimerKill, SigKillChild, Struck, TimerUntouched, ioVars, Phases,
     PopenTypeOK, Captured, Streams
<1>3. TellsOnce'
  BY <1>0 DEF TimerKill, SigKillChild, Struck, TimerUntouched, ioVars, TellsOnce,
     PopenTypeOK, Phases
<1>4. BytesKept'
  BY <1>0 DEF TimerKill, SigKillChild, Struck, TimerUntouched, ioVars, BytesKept,
     PopenTypeOK, Captured, Streams
<1>5. LimitKept'
  BY <1>0 DEF TimerKill, SigKillChild, Struck, TimerUntouched, ioVars, LimitKept,
     PopenTypeOK, BytesKept, Captured, Streams
<1>6. HupRight'
  BY <1>0 DEF TimerKill, SigKillChild, Struck, TimerUntouched, ioVars, HupRight,
     PopenTypeOK, ChildDead, Streams, Phases
<1>7. ClosedDry'
  BY <1>0 DEF TimerKill, SigKillChild, Struck, TimerUntouched, ioVars, ClosedDry,
     PopenTypeOK, Phases, HupRight, LoopDone, ChildDead, Captured, Streams
<1>8. EofAfterAllInput'
  BY <1>0 DEF TimerKill, SigKillChild, Struck, TimerUntouched, ioVars, EofAfterAllInput,
     PopenTypeOK, Phases, LoopDone, ChildAlive, ChildDead, needStdin
<1>9. LoopDone'
  BY <1>0 DEF TimerKill, SigKillChild, Struck, TimerUntouched, ioVars, LoopDone,
     Captured, ChildAlive, ChildDead
<1> QED
  BY <1>1, <1>2, <1>3, <1>4, <1>5, <1>6, <1>7, <1>8, <1>9 DEF PopenInv

LEMMA TimerTellKeeps ==
  ASSUME PopenInv, TimerTell
  PROVE  PopenInv'
<1>0. /\ PopenTypeOK /\ Phases /\ TellsOnce /\ BytesKept /\ LimitKept
      /\ HupRight /\ ClosedDry /\ LoopDone /\ EofAfterAllInput
  BY DEF PopenInv
<1>1. PopenTypeOK'
  BY <1>0 DEF TimerTell, TimerUntouched, ioVars, PopenTypeOK, TellsOnce, Streams
<1>2. Phases'
  BY <1>0 DEF TimerTell, TimerUntouched, ioVars, Phases, PopenTypeOK, Captured, Streams
<1>3. TellsOnce'
  BY <1>0 DEF TimerTell, TimerUntouched, ioVars, TellsOnce, PopenTypeOK, Phases
<1>4. BytesKept' /\ LimitKept' /\ HupRight' /\ ClosedDry' /\ LoopDone' /\ EofAfterAllInput'
  BY <1>0 DEF TimerTell, TimerUntouched, ioVars, BytesKept, LimitKept, HupRight,
     ClosedDry, LoopDone, EofAfterAllInput, Captured, ChildAlive, ChildDead
<1> QED
  BY <1>1, <1>2, <1>3, <1>4 DEF PopenInv

\* What DrainFd keeps of what is in the pipe: all of it, unless a callback
\* refuses it or the limit cuts it, and then exactly up to the limit.
LEMMA DrainKeeps ==
  ASSUME PopenTypeOK, LimitKept, NEW s \in Captured, NEW ok \in BOOLEAN, DrainFd(s, ok)
  PROVE  \E n \in 0..pipe[s] :
           /\ result' \in Results
           /\ result'[s] = result[s] + n
           /\ \A t \in Streams \ {s} : result'[t] = result[t]
           /\ result'.handed = result.handed /\ result'.ended = result.ended
           /\ result.truncated => result'.truncated
           /\ result'.truncated /\ ~result.truncated =>
                /\ opts.max > 0 /\ ~opts.callback
                /\ pipe[s] > opts.max - result[s] /\ n = opts.max - result[s]
           /\ opts.max > 0 /\ ~opts.callback => n <= opts.max - result[s]
           /\ ~refused' /\ ~result'.truncated => n = pipe[s]
           /\ refused => refused'
           /\ refused' \in BOOLEAN
<1>1. /\ s \in Streams /\ result \in Results /\ pipe[s] \in Nat /\ result[s] \in Nat
      /\ opts.max \in Nat /\ opts.callback \in BOOLEAN /\ refused \in BOOLEAN
      /\ result.truncated \in BOOLEAN /\ ReadBuffer \in Nat
  <2>1. s \in Streams
    BY DEF Captured, Streams
  <2>2. result \in Results /\ refused \in BOOLEAN /\ opts \in OptionSet
        /\ pipe \in [Streams \cup {"stdin"} -> 0..PipeSize]
    BY DEF PopenTypeOK, Results
  <2>3. result[s] \in Nat /\ result.truncated \in BOOLEAN
    BY <2>1, <2>2 DEF Results, Streams
  <2>4. pipe[s] \in Nat /\ ReadBuffer \in Nat
    BY <2>1, <2>2, PopenAssumption
  <2> QED
    BY <2>1, <2>2, <2>3, <2>4 DEF OptionSet
<1>2. CASE opts.callback /\ ok = TRUE /\ result' = [result EXCEPT ![s] = @ + Avail(s)]
           /\ refused' = refused
  <2>1. /\ result' \in Results /\ result'[s] = result[s] + pipe[s]
        /\ \A t \in Streams \ {s} : result'[t] = result[t]
        /\ result'.handed = result.handed /\ result'.ended = result.ended
        /\ result'.truncated = result.truncated
    BY <1>1, <1>2 DEF Avail, Results, Streams
  <2>2. pipe[s] \in 0..pipe[s]
    BY <1>1
  <2> QED
    BY <1>1, <1>2, <2>1, <2>2
<1>3. CASE opts.callback /\ refused' = TRUE /\ result' = result
  <2>1. 0 \in 0..pipe[s] /\ result'[s] = result[s] + 0
    BY <1>1, <1>3
  <2> QED
    BY <1>1, <1>3, <2>1
<1>4. CASE /\ ~opts.callback /\ refused' = refused
           /\ result' = [result EXCEPT ![s] = @ + Kept(s), !.truncated = @ \/ Over(s)]
  <2>0. ~opts.callback
    BY <1>4
  <2>1. opts.max > 0 => opts.max - result[s] \in Nat
    BY <1>1, <2>0 DEF LimitKept
  <2> DEFINE read == IF result.truncated /\ Avail(s) > ReadBuffer
                     THEN ReadBuffer ELSE Avail(s)
  <2>2. read \in 0..pipe[s] /\ (~result.truncated => read = pipe[s])
    BY <1>1 DEF Avail
  <2>3. Kept(s) = IF opts.max > 0 /\ read > opts.max - result[s]
                  THEN opts.max - result[s] ELSE read
    BY DEF Kept, Space
  <2>4. Over(s) <=> opts.max > 0 /\ pipe[s] > opts.max - result[s]
    BY DEF Over, Avail, Space
  <2> HIDE DEF read
  <2>5. /\ Kept(s) \in 0..pipe[s]
        /\ opts.max > 0 => Kept(s) <= opts.max - result[s]
        /\ ~result.truncated /\ Over(s) => Kept(s) = opts.max - result[s]
        /\ ~result.truncated /\ ~Over(s) => Kept(s) = pipe[s]
    BY <1>1, <2>1, <2>2, <2>3, <2>4
  <2>6. PICK n \in 0..pipe[s], o \in BOOLEAN : n = Kept(s) /\ o = (result.truncated \/ Over(s))
    BY <2>5
  <2>7. result' = [result EXCEPT ![s] = @ + n, !.truncated = o]
    BY <1>4, <2>6
  <2>8. /\ result' \in Results /\ result'[s] = result[s] + n
        /\ \A t \in Streams \ {s} : result'[t] = result[t]
        /\ result'.handed = result.handed /\ result'.ended = result.ended
        /\ result'.truncated = o
    <3>1. PICK mid : mid = [result EXCEPT ![s] = @ + n]
      OBVIOUS
    <3>2. result' = [mid EXCEPT !.truncated = o]
      BY <1>1, <2>7, <3>1 DEF Results, Streams
    <3>3. /\ mid \in Results /\ mid[s] = result[s] + n
          /\ \A t \in Streams \ {s} : mid[t] = result[t]
          /\ mid.handed = result.handed /\ mid.ended = result.ended
      BY <1>1, <3>1 DEF Results, Streams
    <3> QED
      BY <1>1, <3>2, <3>3 DEF Results, Streams
  <2> QED
    BY <1>1, <1>4, <2>4, <2>5, <2>6, <2>8
<1> QED
  BY <1>2, <1>3, <1>4 DEF DrainFd

LEMMA DrainFacts ==
  ASSUME PopenTypeOK, BytesKept, LimitKept, NEW s \in Captured, NEW ok \in BOOLEAN,
         DrainFd(s, ok), opts' = opts, child' = child
  PROVE  /\ pipe' \in [Streams \cup {"stdin"} -> 0..PipeSize]
         /\ pipe'[s] = 0 /\ \A t \in Streams \ {s} : pipe'[t] = pipe[t]
         /\ result' \in Results /\ result'.ended = result.ended
         /\ refused' \in BOOLEAN
         /\ BytesKept' /\ LimitKept'
<1>1. PICK n \in 0..pipe[s] :
        /\ result' \in Results
        /\ result'[s] = result[s] + n
        /\ \A t \in Streams \ {s} : result'[t] = result[t]
        /\ result'.handed = result.handed /\ result'.ended = result.ended
        /\ result.truncated => result'.truncated
        /\ result'.truncated /\ ~result.truncated =>
             /\ opts.max > 0 /\ ~opts.callback
             /\ pipe[s] > opts.max - result[s] /\ n = opts.max - result[s]
        /\ opts.max > 0 /\ ~opts.callback => n <= opts.max - result[s]
        /\ ~refused' /\ ~result'.truncated => n = pipe[s]
        /\ refused => refused'
        /\ refused' \in BOOLEAN
  BY DrainKeeps
<1>2. /\ Captured \subseteq Streams /\ s \in Streams /\ Captured' = Captured
      /\ pipe \in [Streams \cup {"stdin"} -> 0..PipeSize] /\ PipeSize \in Nat
      /\ opts.max \in Nat
  BY PopenAssumption DEF PopenTypeOK, Captured, Streams, OptionSet
<1>3. \A t \in Streams : result[t] \in Nat /\ result.handed[t] \in Nat /\ pipe[t] \in Nat
                         /\ child[t] \in Nat
  BY <1>2 DEF PopenTypeOK, Streams
<1>4. pipe' = [pipe EXCEPT ![s] = pipe[s] - pipe[s]]
  BY DEF DrainFd, Avail
<1>5. /\ pipe' \in [Streams \cup {"stdin"} -> 0..PipeSize]
      /\ pipe'[s] = 0 /\ \A t \in Streams \ {s} : pipe'[t] = pipe[t]
  <2>1. pipe[s] - pipe[s] = 0 /\ 0 \in 0..PipeSize
    BY <1>2, <1>3
  <2> QED
    BY <1>2, <1>4, <2>1
<1>6. BytesKept'
  <2> SUFFICES ASSUME NEW t \in Captured
               PROVE  /\ result'[t] + result'.handed[t] + pipe'[t] <= child[t]
                      /\ ~refused' /\ ~result'.truncated =>
                           result'[t] + result'.handed[t] + pipe'[t] = child[t]
    BY <1>2 DEF BytesKept
  <2>1. /\ result[t] + result.handed[t] + pipe[t] <= child[t]
        /\ ~refused /\ ~result.truncated =>
             result[t] + result.handed[t] + pipe[t] = child[t]
    BY DEF BytesKept
  <2>2. ~refused' /\ ~result'.truncated => ~refused /\ ~result.truncated
    BY <1>1
  <2>3. CASE t = s
    BY <1>1, <1>2, <1>3, <1>5, <2>1, <2>2, <2>3
  <2>4. CASE t # s
    BY <1>1, <1>2, <1>3, <1>5, <2>1, <2>2, <2>4
  <2> QED
    BY <2>3, <2>4
<1>7. LimitKept'
  <2>1. ASSUME opts.max > 0, ~opts.callback, NEW t \in Captured PROVE result'[t] <= opts.max
    <3>1. result[t] <= opts.max
      BY <2>1 DEF LimitKept
    <3>2. CASE t = s
      BY <1>1, <1>2, <1>3, <2>1, <3>2
    <3>3. CASE t # s
      BY <1>1, <1>2, <3>1, <3>3
    <3> QED
      BY <3>2, <3>3
  <2>2. ASSUME result'.truncated
        PROVE  /\ opts.max > 0 /\ ~opts.callback
               /\ \E t \in Captured : result'[t] = opts.max /\ child[t] > opts.max
    <3>1. CASE result.truncated
      <4>1. PICK t \in Captured : result[t] = opts.max /\ child[t] > opts.max
        BY <3>1 DEF LimitKept
      <4>2. opts.max > 0 /\ ~opts.callback
        BY <3>1 DEF LimitKept
      <4>3. result'[t] = opts.max
        BY <1>1, <1>2, <1>3, <4>1, <4>2
      <4> QED
        BY <4>1, <4>2, <4>3
    <3>2. CASE ~result.truncated
      <4>1. /\ opts.max > 0 /\ ~opts.callback
            /\ pipe[s] > opts.max - result[s] /\ n = opts.max - result[s]
        BY <1>1, <2>2, <3>2
      <4>2. result'[s] = opts.max
        BY <1>1, <1>2, <1>3, <4>1
      <4>3. result[s] + result.handed[s] + pipe[s] <= child[s]
        BY DEF BytesKept
      <4>4. child[s] > opts.max
        BY <1>2, <1>3, <4>1, <4>3
      <4> QED
        BY <4>1, <4>2, <4>4
    <3> QED
      BY <3>1, <3>2
  <2> QED
    BY <1>2, <2>1, <2>2 DEF LimitKept
<1> QED
  BY <1>1, <1>5, <1>6, <1>7

LEMMA HandleStreamKeeps ==
  ASSUME PopenInv, NEW s \in Streams, HandleStream(s)
  PROVE  PopenInv'
<1>0. /\ PopenTypeOK /\ Phases /\ TellsOnce /\ BytesKept /\ LimitKept
      /\ HupRight /\ ClosedDry /\ LoopDone /\ EofAfterAllInput
  BY DEF PopenInv
<1>1. CASE ~(revents[s] # "no" /\ s \in fds)
  <2>1. /\ step = s /\ step' = AfterStream(s)
        /\ UNCHANGED <<opts, fds, pipe, offset, revents, aborting, result, childPid_, child,
                       timerVars, refused>>
    BY <1>1 DEF HandleStream
  <2>2. step \in Streams /\ step' \in {"stderr", "feed"}
    BY <2>1 DEF AfterStream
  <2>3. PopenTypeOK' /\ Phases' /\ TellsOnce'
    BY <1>0, <2>1, <2>2 DEF PopenTypeOK, Phases, TellsOnce, Captured, timerVars, Streams
  <2>4. BytesKept' /\ LimitKept' /\ HupRight'
    BY <1>0, <2>1 DEF BytesKept, LimitKept, HupRight, Captured, ChildDead
  <2>5. ClosedDry' /\ LoopDone' /\ EofAfterAllInput'
    BY <1>0, <2>1, <2>2 DEF ClosedDry, LoopDone, EofAfterAllInput, Captured, ChildDead,
                            ChildAlive, Streams
  <2> QED
    BY <2>3, <2>4, <2>5 DEF PopenInv
<1>2. ASSUME revents[s] # "no", s \in fds, NEW ok \in BOOLEAN, DrainFd(s, ok),
             fds' = IF ~ok \/ revents[s] = "hup" THEN fds \ {s} ELSE fds,
             aborting' = (aborting \/ ~ok)
      PROVE  PopenInv'
  <2>1. /\ step = s /\ step' = AfterStream(s)
        /\ UNCHANGED <<opts, offset, revents, childPid_, child, timer, timedOut, timerPipe>>
    BY DEF HandleStream, timerVars
  <2>2. step \in Streams /\ step' \in {"stderr", "feed"}
    BY <2>1 DEF AfterStream
  <2>3. s \in Captured
    BY <1>0, <1>2 DEF Phases
  <2>4. /\ pipe' \in [Streams \cup {"stdin"} -> 0..PipeSize]
        /\ pipe'[s] = 0 /\ \A t \in Streams \ {s} : pipe'[t] = pipe[t]
        /\ result' \in Results /\ result'.ended = result.ended
        /\ refused' \in BOOLEAN
        /\ BytesKept' /\ LimitKept'
    BY <1>0, <1>2, <2>1, <2>3, DrainFacts
  <2>5. fds' \subseteq fds /\ ("stdin" \in fds => "stdin" \in fds') /\ aborting \in BOOLEAN
        /\ fds \ fds' \subseteq {s}
    BY <1>0, <1>2 DEF Streams, PopenTypeOK
  <2>6. PopenTypeOK'
    BY <1>0, <1>2, <2>1, <2>2, <2>4, <2>5 DEF PopenTypeOK, Results
  <2>7. Phases'
    BY <1>0, <2>1, <2>2, <2>4, <2>5 DEF Phases, Captured, Streams
  <2>8. TellsOnce' /\ HupRight'
    BY <1>0, <2>1, <2>2 DEF TellsOnce, HupRight, ChildDead, Streams
  <2>9. ClosedDry'
    <3> SUFFICES ASSUME ~aborting', child.state # "none", NEW t \in Captured \ fds'
                 PROVE  pipe'[t] = 0 /\ ChildDead
      BY <2>1 DEF ClosedDry, Captured, ChildDead
    <3>1. ~aborting /\ ok
      BY <1>2
    <3>2. CASE t = s
      <4>1. revents[s] = "hup"
        BY <1>2, <3>1, <3>2
      <4> QED
        BY <1>0, <2>4, <3>2, <4>1 DEF HupRight
    <3>3. CASE t # s
      <4>1. t \in Captured \ fds /\ t \in Streams
        BY <2>5, <3>3 DEF Captured, Streams
      <4>2. pipe[t] = 0 /\ ChildDead
        BY <1>0, <2>2, <3>1, <4>1 DEF ClosedDry, Streams
      <4> QED
        BY <2>4, <3>3, <4>1, <4>2
    <3> QED
      BY <3>2, <3>3
  <2>10. LoopDone'
    BY <1>0, <2>1, <2>2, <2>4, <2>5 DEF LoopDone
  <2>11. EofAfterAllInput'
    BY <1>0, <1>2, <2>1, <2>2, <2>5 DEF EofAfterAllInput, ChildAlive, Streams
  <2> QED
    BY <2>4, <2>6, <2>7, <2>8, <2>9, <2>10, <2>11 DEF PopenInv
<1> QED
  BY <1>1, <1>2 DEF HandleStream

LEMMA FinalDrainKeeps ==
  ASSUME PopenInv, FinalDrain
  PROVE  PopenInv'
<1>0. /\ PopenTypeOK /\ Phases /\ TellsOnce /\ BytesKept /\ LimitKept
      /\ HupRight /\ ClosedDry /\ LoopDone /\ EofAfterAllInput
  BY DEF PopenInv
<1>1. /\ step = "drain"
      /\ UNCHANGED <<opts, offset, revents, aborting, childPid_, child, timer, timedOut,
                     timerPipe>>
  BY DEF FinalDrain, timerVars
\* A stream that is still open at this point was left open by an abort.
<1>2. ASSUME NEW s \in Streams \cap fds, NEW ok \in BOOLEAN, DrainFd(s, ok),
             fds' = fds \ {s}, step' = step
      PROVE  PopenInv'
  <2>1. s \in Captured /\ aborting
    BY <1>0, <1>1, <1>2 DEF Phases, LoopDone
  <2>2. /\ pipe' \in [Streams \cup {"stdin"} -> 0..PipeSize]
        /\ result' \in Results /\ result'.ended = result.ended
        /\ refused' \in BOOLEAN
        /\ BytesKept' /\ LimitKept'
    BY <1>0, <1>1, <1>2, <2>1, DrainFacts
  <2>3. PopenTypeOK'
    BY <1>0, <1>1, <1>2, <2>2 DEF PopenTypeOK, Results
  <2>4. Phases'
    BY <1>0, <1>1, <1>2, <2>2 DEF Phases, Captured
  <2>5. TellsOnce' /\ HupRight'
    BY <1>0, <1>1, <1>2 DEF TellsOnce, HupRight, ChildDead
  <2>6. ClosedDry' /\ LoopDone' /\ EofAfterAllInput'
    BY <1>0, <1>1, <1>2, <2>1, <2>2 DEF ClosedDry, LoopDone, EofAfterAllInput, Phases
  <2> QED
    BY <2>2, <2>3, <2>4, <2>5, <2>6 DEF PopenInv
<1>3. ASSUME Streams \cap fds = {}, fds' = fds \ {"stdin"}, step' = "waitpid",
             UNCHANGED <<pipe, result, refused>>
      PROVE  PopenInv'
  <2>1. PopenTypeOK'
    BY <1>0, <1>1, <1>3 DEF PopenTypeOK
  <2>2. Phases'
    BY <1>0, <1>1, <1>3 DEF Phases, Captured
  <2>3. TellsOnce' /\ HupRight' /\ BytesKept' /\ LimitKept'
    BY <1>0, <1>1, <1>3 DEF TellsOnce, HupRight, ChildDead, BytesKept, LimitKept, Captured
  <2>4. ClosedDry' /\ LoopDone'
    BY <1>0, <1>1, <1>3 DEF ClosedDry, LoopDone, Captured, ChildDead, Streams
  <2>5. EofAfterAllInput'
    BY <1>0, <1>1, <1>3 DEF EofAfterAllInput, LoopDone, ChildAlive
  <2> QED
    BY <2>1, <2>2, <2>3, <2>4, <2>5 DEF PopenInv
<1> QED
  BY <1>2, <1>3 DEF FinalDrain

LEMMA PopenInitially == PopenInit => PopenInv
<1> SUFFICES ASSUME PopenInit PROVE PopenInv
  OBVIOUS
<1> USE DEF PopenInit
<1>1. opts \in PopenOptions /\ opts \in OptionSet /\ opts.input \in Nat /\ opts.max \in Nat
  BY PopenAssumption DEF OptionSet
<1>2. PopenTypeOK
  <2>1. 0 \in 0..opts.input /\ 0 \in 0..PipeSize /\ 0 \in 0..MaxWritten
    BY <1>1, PopenAssumption
  <2>2. result \in [stdout: Nat, stderr: Nat, handed: [Streams -> Nat],
                    truncated: BOOLEAN, timedOut: BOOLEAN,
                    ended: {"no", "exited", "signalled"}]
    OBVIOUS
  <2>3. pipe \in [Streams \cup {"stdin"} -> 0..PipeSize]
        /\ revents \in [Streams \cup {"stdin", "timer"} -> {"no", "ready", "hup"}]
    BY <2>1
  <2>4. child \in [state: {"none", "running", "doomed", "exited", "signalled", "reaped"},
                   stdout: 0..MaxWritten, stderr: 0..MaxWritten, read: Nat]
    BY <2>1
  <2>5. step = "new" /\ fds = {} /\ timer = "none" /\ offset \in 0..opts.input
    BY <2>1
  <2>6. aborting \in BOOLEAN /\ childPid_ \in BOOLEAN /\ timedOut \in BOOLEAN
        /\ refused \in BOOLEAN
    OBVIOUS
  <2>7. timerPipe \in 0..3
    OBVIOUS
  <2> HIDE DEF PopenInit
  <2> QED
    BY <1>1, <2>2, <2>3, <2>4, <2>5, <2>6, <2>7 DEF PopenTypeOK
<1>3. Phases /\ TellsOnce /\ HupRight
  BY DEF Phases, TellsOnce, HupRight
<1>4. BytesKept /\ LimitKept
  <2>1. \A s \in Captured : /\ result[s] = 0 /\ result.handed[s] = 0
                            /\ pipe[s] = 0 /\ child[s] = 0
    BY DEF Captured, Streams
  <2>2. BytesKept
    <3> HIDE DEF PopenInit
    <3>1. 0 + 0 + 0 = 0 /\ 0 <= 0
      OBVIOUS
    <3> QED
      BY <2>1, <3>1 DEF BytesKept
  <2>3. ~result.truncated
    OBVIOUS
  <2> HIDE DEF PopenInit
  <2>4. LimitKept
    BY <1>1, <2>1, <2>3 DEF LimitKept
  <2> QED
    BY <2>2, <2>4
<1>5. ClosedDry /\ LoopDone /\ EofAfterAllInput
  BY DEF ClosedDry, LoopDone, EofAfterAllInput
<1> QED
  BY <1>2, <1>3, <1>4, <1>5 DEF PopenInv

LEMMA PopenStep == PopenInv /\ [PopenNext]_popenVars => PopenInv'
<1> SUFFICES ASSUME PopenInv, [PopenNext]_popenVars PROVE PopenInv'
  OBVIOUS
<1>1. CASE CallerRuns
  BY <1>1, RunFeedsStdinKeeps, PollKeeps, HandleStreamKeeps, FeedStdinKeeps,
     WriteStdinKeeps, EndRoundKeeps, FinalDrainKeeps, WaitpidWithTimeoutKeeps,
     ReportTimeoutKeeps, CancelTimerKeeps, JoinTimerKeeps, DestroyReapsKeeps
     DEF CallerRuns
<1>2. CASE CallerCalls
  BY <1>2, ForkExecKeeps, ForkFailsKeeps, ReadChunkKeeps, CloseStdinKeeps,
     SignalChildKeeps, WaitKeeps, DestroyStartedKeeps DEF CallerCalls
<1>3. CASE TimerRuns
  BY <1>3, TimerPollKeeps, TimerTermKeeps, TimerGraceKeeps, TimerKillKeeps,
     TimerTellKeeps DEF TimerRuns
<1>4. CASE ChildRuns
  BY <1>4, ChildWritesKeeps, ChildReadsKeeps, ChildEndsKeeps DEF ChildRuns
<1>5. CASE UNCHANGED popenVars
  <2>1. UNCHANGED <<opts, step, fds, pipe, offset, revents, aborting, result, childPid_,
                    child, timer, timedOut, timerPipe, refused>>
    BY <1>5 DEF popenVars, ioVars, timerVars
  <2>2. PopenTypeOK' /\ Phases' /\ TellsOnce' /\ BytesKept' /\ LimitKept'
    BY <2>1 DEF PopenInv, PopenTypeOK, Phases, TellsOnce, BytesKept, LimitKept, Captured
  <2>3. HupRight' /\ ClosedDry' /\ LoopDone' /\ EofAfterAllInput'
    BY <2>1 DEF PopenInv, HupRight, ClosedDry, LoopDone, EofAfterAllInput, Captured,
                ChildDead, ChildAlive
  <2> QED
    BY <2>2, <2>3 DEF PopenInv
<1> QED
  BY <1>1, <1>2, <1>3, <1>4, <1>5 DEF PopenNext

\* Types, the course of a call, the account of every byte and the state of the
\* descriptors are together inductive (popen_wrapper.cc:283-821).
THEOREM PopenInvariant == PopenSpec => []PopenInv
BY PopenInitially, PopenStep, PTL DEF PopenSpec

\* Nothing the child wrote is lost but by the limit, a refusal or an abort;
\* stdin is closed after all of the input; Wait and the destructor leave no
\* descriptor, no timer thread and no zombie (popen_wrapper.cc:136, 467-750).
THEOREM PopenStaysIntact == PopenSpec => []PopenIntact
<1>1. PopenInv => PopenIntact
  <2> SUFFICES ASSUME PopenInv PROVE PopenIntact
    OBVIOUS
  <2>1. /\ PopenTypeOK /\ Phases /\ BytesKept /\ LimitKept /\ ClosedDry /\ LoopDone
        /\ EofAfterAllInput
    BY DEF PopenInv
  <2>2. OutputComplete
    <3>1. ASSUME result.ended # "no", ~aborting, ~refused, ~result.truncated,
                 NEW s \in Captured
          PROVE  result[s] + result.handed[s] = child[s]
      <4>1. s \notin fds /\ s \in Streams
        BY <2>1, <3>1 DEF LoopDone, Captured, Streams
      <4>2. pipe[s] = 0
        BY <2>1, <3>1, <4>1 DEF ClosedDry, Phases
      <4>3. result[s] + result.handed[s] + pipe[s] = child[s]
        BY <2>1, <3>1 DEF BytesKept
      <4>4. result[s] \in Nat /\ result.handed[s] \in Nat
        BY <2>1, <4>1 DEF PopenTypeOK, Streams
      <4> QED
        BY <4>2, <4>3, <4>4
    <3> QED
      BY <2>1, <3>1 DEF OutputComplete, LimitKept
  <2>3. AllReleased
    BY <2>1 DEF AllReleased, Phases
  <2> QED
    BY <2>1, <2>2, <2>3 DEF PopenIntact
<1> QED
  BY <1>1, PopenInvariant, PTL
=============================================================================
