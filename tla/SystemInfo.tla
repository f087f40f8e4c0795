----------------------------- MODULE SystemInfo -----------------------------
(***************************************************************************)
(* yacul/system/system_info: per-domain caches behind per-domain mutexes,  *)
(* filled by queries and by an optional refresh thread.                    *)
(*                                                                         *)
(* A reading is represented by the time at which the source was read: the  *)
(* counters of /proc only grow, so a smaller reading is an older one.      *)
(* What the readings contain is the subject of SystemTables.               *)
(***************************************************************************)
EXTENDS Integers, FiniteSets

CONSTANTS
  Users,          \* threads that call the public methods
  Owners,         \* the users that start and stop the refresh thread
  Samplers,       \* the users that call GetCpuUsage
  Domains,        \* the domains in use; "cpu" among them
  TTL,            \* cache_ttl; zero disables caching
  MaxTime,        \* bound: ticks of the clock
  MaxInvalidations \* bound: calls of InvalidateCache

Nobody == "nobody"
Refresher == "refresher"

ASSUME SystemInfoAssumption ==
  /\ Nobody \notin Users /\ Refresher \notin Users
  /\ Owners \subseteq Users /\ Samplers \subseteq Users
  /\ "cpu" \in Domains
  /\ TTL \in Nat /\ MaxTime \in Nat /\ MaxInvalidations \in Nat

\* The domains the refresh loop keeps warm, in its order.
RefreshOrder == <<"cpu", "memory", "network", "load">>
Refreshed == {RefreshOrder[i] : i \in DOMAIN RefreshOrder} \cap Domains

VARIABLES
  now,            \* steady_clock
  cache,          \* the cache entry of each domain
  holder,         \* the thread that holds each domain's mutex
  baseline,       \* prev_cpu_stats: when it was read
  user,           \* the callers: program counter and locals
  running,        \* refresh_running
  joinable,       \* refresh_thread refers to a thread
  loop,           \* the refresh thread
  terminated,     \* std::terminate was called
  invalidations,  \* history: InvalidateCache calls so far, by domain
  staleServed,    \* history: a query returned a reading from before the
                  \* last invalidation
  revived         \* history: the CPU entry holds a sample from before an
                  \* invalidation that the store of GetCpuUsage undid

infoVars == <<now, cache, holder, baseline, user, running, joinable, loop,
              terminated, invalidations, staleServed, revived>>
cacheVars == <<cache, revived>>
refreshVars == <<running, joinable, loop, terminated>>

NoReading == [read |-> 0, epoch |-> 0, sampled |-> FALSE]
Times == 0..MaxTime
Readings == [read: Times, epoch: 0..MaxInvalidations, sampled: BOOLEAN]
IdleUser == [pc |-> "out", domain |-> "cpu", reading |-> NoReading]
IdleLoop == [pc |-> "none", todo |-> {}, domain |-> "cpu", reading |-> NoReading]

\* The range of every variable.
InfoTypeOK ==
  /\ now \in Times
  /\ cache \in [Domains -> [valid: BOOLEAN, at: Times, value: Readings]]
  /\ holder \in [Domains -> Users \cup {Refresher, Nobody}]
  /\ baseline \in Times
  /\ user \in [Users -> [pc: {"out", "fetched", "between", "sampled",
                             "starting", "joining"},
                         domain: Domains, reading: Readings]]
  /\ running \in BOOLEAN /\ joinable \in BOOLEAN /\ terminated \in BOOLEAN
  /\ loop \in [pc: {"none", "sleep", "next", "fetched", "done"},
               todo: SUBSET Refreshed, domain: Domains, reading: Readings]
  /\ invalidations \in [Domains -> 0..MaxInvalidations]
  /\ staleServed \in BOOLEAN /\ revived \in BOOLEAN

InfoInit ==
  /\ now = 0
  /\ cache = [d \in Domains |-> [valid |-> FALSE, at |-> 0, value |-> NoReading]]
  /\ holder = [d \in Domains |-> Nobody]
  /\ baseline = 0
  /\ user = [u \in Users |-> IdleUser]
  /\ running = FALSE /\ joinable = FALSE /\ terminated = FALSE
  /\ loop = IdleLoop
  /\ invalidations = [d \in Domains |-> 0]
  /\ staleServed = FALSE /\ revived = FALSE

Reading(d, sampled) ==
  [read |-> now, epoch |-> invalidations[d], sampled |-> sampled]

Tick ==
  /\ now < MaxTime
  /\ now' = now + 1
  /\ UNCHANGED <<cacheVars, holder, baseline, user, refreshVars, invalidations,
                 staleServed>>

----------------------------------------------------------------------------
(* Cache entries. *)

IsStale(d) ==
  \/ ~cache[d].valid
  \/ TTL = 0
  \/ now - cache[d].at > TTL

\* Whatever v is and whenever it was read, the entry is valid again.
Set(d, v) ==
  /\ cache' = [cache EXCEPT ![d] = [valid |-> TRUE, at |-> now, value |-> v]]
  /\ revived' = IF d = "cpu" THEN v.sampled /\ v.epoch < invalidations[d] ELSE revived

Serve(d, v) == staleServed' = (staleServed \/ v.epoch < invalidations[d])

\* A hit returns the entry.  What GetCpuUsage revived is recorded as such and
\* not as stale.
ServeCached(d) ==
  IF d = "cpu" /\ revived THEN UNCHANGED staleServed ELSE Serve(d, cache[d].value)

\* FetchCpuInfo also moves the baseline of the usage computation.
FetchCpuInfo(d) == baseline' = IF d = "cpu" THEN now ELSE baseline

----------------------------------------------------------------------------
(* Queries: Get<Domain> holds the domain's mutex until it returns. *)

Hit(u, d) ==
  /\ user[u].pc = "out" /\ holder[d] = Nobody
  /\ ~IsStale(d)
  /\ ServeCached(d)
  /\ UNCHANGED <<now, cacheVars, holder, baseline, user, refreshVars,
                 invalidations>>

Fetch(u, d) ==
  /\ user[u].pc = "out" /\ holder[d] = Nobody
  /\ IsStale(d)
  /\ holder' = [holder EXCEPT ![d] = u]
  /\ user' = [user EXCEPT ![u] = [pc |-> "fetched", domain |-> d,
                                  reading |-> Reading(d, FALSE)]]
  /\ FetchCpuInfo(d)
  /\ UNCHANGED <<now, cacheVars, refreshVars, invalidations, staleServed>>

StoreFetched(u) ==
  LET d == user[u].domain
  IN  /\ user[u].pc = "fetched"
      /\ Set(d, user[u].reading)
      /\ Serve(d, user[u].reading)
      /\ holder' = [holder EXCEPT ![d] = Nobody]
      /\ user' = [user EXCEPT ![u] = IdleUser]
      /\ UNCHANGED <<now, baseline, refreshVars, invalidations>>

\* GetCpuUsage reads /proc/stat twice without the mutex...
SampleBefore(u) ==
  /\ u \in Samplers /\ user[u].pc = "out"
  /\ user' = [user EXCEPT ![u].pc = "between", ![u].domain = "cpu"]
  /\ UNCHANGED <<now, cacheVars, holder, baseline, refreshVars, invalidations,
                 staleServed>>

SampleAfter(u) ==
  /\ user[u].pc = "between"
  /\ user' = [user EXCEPT ![u].pc = "sampled",
                          ![u].reading = Reading("cpu", TRUE)]
  /\ UNCHANGED <<now, cacheVars, holder, baseline, refreshVars, invalidations,
                 staleServed>>

\* Mutant: the second sample becomes the baseline, as in FetchCpuInfo.
SampledBaseline_After(u) == user[u].reading.read

\* An invalid cache is refilled by FetchCpuInfo, which moves the baseline.
SampledBaseline(u) == IF cache["cpu"].valid THEN baseline ELSE now

\* ... and stores and returns the second reading under the mutex, even if the
\* entry was invalidated since.
StoreSampled(u) ==
  /\ user[u].pc = "sampled" /\ holder["cpu"] = Nobody
  /\ Set("cpu", user[u].reading)
  /\ baseline' = SampledBaseline(u)
  /\ user' = [user EXCEPT ![u] = IdleUser]
  /\ UNCHANGED <<now, holder, refreshVars, invalidations, staleServed>>

\* Mutant: the flag is cleared without the domain's mutex.
MayInvalidate_Unlocked(d) == TRUE

MayInvalidate(d) == holder[d] = Nobody

\* InvalidateCache(domain); the variant without argument calls it for each.
InvalidateCache(u, d) ==
  /\ user[u].pc = "out" /\ MayInvalidate(d)
  /\ invalidations[d] < MaxInvalidations
  /\ cache' = [cache EXCEPT ![d].valid = FALSE]
  /\ invalidations' = [invalidations EXCEPT ![d] = @ + 1]
  /\ UNCHANGED <<now, holder, baseline, user, refreshVars, staleServed, revived>>

----------------------------------------------------------------------------
(* The refresh thread's life. *)

\* StartBackgroundRefresh: the exchange, and then the assignment, which
\* terminates the program when the handle still refers to a thread.
StartRefresh(u) ==
  /\ u \in Owners /\ user[u].pc = "out" /\ ~running
  /\ running' = TRUE
  /\ user' = [user EXCEPT ![u].pc = "starting"]
  /\ UNCHANGED <<now, cacheVars, holder, baseline, joinable, loop, terminated,
                 invalidations, staleServed>>

AssignThread(u) ==
  /\ user[u].pc = "starting"
  /\ IF joinable
     THEN terminated' = TRUE /\ UNCHANGED <<joinable, loop>>
     ELSE /\ joinable' = TRUE
          /\ loop' = [loop EXCEPT !.pc = "next", !.todo = {}]
          /\ UNCHANGED terminated
  /\ user' = [user EXCEPT ![u].pc = "out"]
  /\ UNCHANGED <<now, cacheVars, holder, baseline, running, invalidations, staleServed>>

\* StopBackgroundRefresh, also the destructor's and the moves' first step.
StopRefresh(u) ==
  /\ u \in Owners /\ user[u].pc = "out"
  /\ running' = FALSE
  /\ user' = [user EXCEPT ![u].pc = IF joinable THEN "joining" ELSE "out"]
  /\ UNCHANGED <<now, cacheVars, holder, baseline, joinable, loop, terminated,
                 invalidations, staleServed>>

JoinRefresh(u) ==
  /\ user[u].pc = "joining" /\ loop.pc = "done"
  /\ joinable' = FALSE
  /\ loop' = [loop EXCEPT !.pc = "none"]
  /\ user' = [user EXCEPT ![u].pc = "out"]
  /\ UNCHANGED <<now, cacheVars, holder, baseline, running, terminated,
                 invalidations, staleServed>>

\* RefreshLoop: test, sleep, test again, then one domain after the other.
LoopTests ==
  /\ \/ loop.pc = "next" /\ loop.todo = {}
     \/ loop.pc = "sleep"
  /\ loop' = IF running
             THEN [loop EXCEPT
                    !.pc = IF loop.pc = "next" THEN "sleep" ELSE "next",
                    !.todo = IF loop.pc = "next" THEN {} ELSE Refreshed]
             ELSE [loop EXCEPT !.pc = "done"]
  /\ UNCHANGED <<now, cacheVars, holder, baseline, user, running, joinable,
                 terminated, invalidations, staleServed>>

FirstTodo ==
  RefreshOrder[CHOOSE i \in DOMAIN RefreshOrder :
    /\ RefreshOrder[i] \in loop.todo
    /\ \A j \in 1..i - 1 : RefreshOrder[j] \notin loop.todo]

LoopFetches ==
  /\ loop.pc = "next" /\ loop.todo # {}
  /\ holder[FirstTodo] = Nobody
  /\ holder' = [holder EXCEPT ![FirstTodo] = Refresher]
  /\ loop' = [loop EXCEPT !.pc = "fetched", !.domain = FirstTodo,
                          !.reading = Reading(FirstTodo, FALSE)]
  /\ FetchCpuInfo(FirstTodo)
  /\ UNCHANGED <<now, cacheVars, user, running, joinable, terminated,
                 invalidations, staleServed>>

LoopStores ==
  /\ loop.pc = "fetched"
  /\ Set(loop.domain, loop.reading)
  /\ holder' = [holder EXCEPT ![loop.domain] = Nobody]
  /\ loop' = [IdleLoop EXCEPT !.pc = "next", !.todo = loop.todo \ {loop.domain}]
  /\ UNCHANGED <<now, baseline, user, running, joinable, terminated,
                 invalidations, staleServed>>

\* An exception ends the round: lock_guard releases the mutex, nothing is
\* stored and the loop goes on.
LoopThrows ==
  /\ loop.pc = "fetched"
  /\ holder' = [holder EXCEPT ![loop.domain] = Nobody]
  /\ loop' = [IdleLoop EXCEPT !.pc = "next"]
  /\ UNCHANGED <<now, cacheVars, baseline, user, running, joinable, terminated,
                 invalidations, staleServed>>

----------------------------------------------------------------------------

LoopStep == LoopTests \/ LoopFetches \/ LoopStores \/ LoopThrows

UserStep(u) ==
  \/ StoreFetched(u) \/ SampleAfter(u) \/ StoreSampled(u)
  \/ AssignThread(u) \/ JoinRefresh(u)

UserCall(u) ==
  \/ SampleBefore(u) \/ StartRefresh(u) \/ StopRefresh(u)
  \/ \E d \in Domains : Hit(u, d) \/ Fetch(u, d) \/ InvalidateCache(u, d)

InfoNext ==
  \/ Tick
  \/ LoopStep
  \/ \E u \in Users : UserStep(u) \/ UserCall(u)

\* Threads are scheduled and mutexes are handed out in the end.
InfoFairness ==
  /\ \A u \in Users : WF_infoVars(UserStep(u))
  /\ WF_infoVars(LoopStep)
  /\ SF_infoVars(LoopFetches)

InfoSpec == InfoInit /\ [][InfoNext]_infoVars

----------------------------------------------------------------------------
(* Properties. *)

\* InvalidateCache forces a fetch on the next access (system_info.h:448): what
\* a query returns was read since the last invalidation, even if a fetch was
\* under way then.  GetCpuUsage breaks this, and two answers are excepted:
\* its own sample, taken before it locks the mutex, and the CPU entry where
\* its Set (system_info.cc:517) made such a sample valid again after an
\* invalidation, until the entry is fetched or sampled anew.  GetCpuInfo
\* serves that one (493-494) without a fetch.
InvalidateForcesRefetch == ~staleServed

\* Queries and the refresh thread may fetch at the same time, but what a fetch
\* stores is never older than the reading it replaces, sampled or not, and
\* the CPU baseline never moves to an older snapshot.  Only the late store of
\* GetCpuUsage may replace a reading by an older one.
ReadingsMoveForward ==
  [][/\ baseline' >= baseline
     /\ \A d \in Domains :
          ~cache'[d].value.sampled =>
            cache'[d].value.read >= cache[d].value.read]_infoVars

\* Starting and stopping the refresh thread never assigns to a handle that
\* still refers to a thread (StartBackgroundRefresh, StopBackgroundRefresh).
NeverTerminates == ~terminated

\* StopBackgroundRefresh returns: the loop sees the flag and its thread ends.
StopRefreshReturns ==
  \A u \in Users : user[u].pc = "joining" ~> user[u].pc = "out"
=============================================================================
