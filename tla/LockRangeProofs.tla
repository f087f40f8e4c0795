--------------------------- MODULE LockRangeProofs ---------------------------
(***************************************************************************)
(* Proofs about the range lock for any number of threads, guards and       *)
(* ranges.  The argument: what the guards hold is a function (hold), the   *)
(* entries count its values (EntriesMatchGuards), and entries that exist   *)
(* together are compatible (EntriesCompatible).  Every action changes hold *)
(* at one guard at a time and entries by the same amount.                  *)
(***************************************************************************)
EXTENDS LockRange, FiniteSetTheorems, TLAPS

\* es counts, for each request, the guards that f maps to it.
Counts(f, es) ==
  \A r \in Requests : es[r] = Cardinality({g \in Guards : f[g] = r})

\* A thread that is not idle waits for one of its own guards.
CallsOK ==
  \A t \in Threads : pc[t] # "idle" =>
    /\ call[t] \in Calls
    /\ call[t].guard[1] = t

\* Two entries on overlapping ranges are both shared, and an exclusive range
\* has at most one entry.
EntriesCompatible ==
  \A r, q \in Requests :
    (entries[r] > 0 /\ entries[q] > 0 /\ Overlaps(r, q))
      => \/ r.mode = "kShared" /\ q.mode = "kShared"
         \/ r = q /\ entries[r] = 1

IInv ==
  /\ TypeOK
  /\ WaitersAreInside
  /\ CallsOK
  /\ EntriesMatchGuards
  /\ EntriesCompatible

-----------------------------------------------------------------------------
(* Lemmas about the constants and the helpers. *)

\* The guards are finitely many, so their holders can be counted.
LEMMA GuardsFinite == IsFiniteSet(Guards)
  BY LockRangeAssumption, FS_Product DEF Guards

\* A request is a record whose range is not empty (ValidateRange).
LEMMA RequestType ==
  ASSUME NEW r \in Requests
  PROVE  /\ r \in [offset : Nat, end : Nat, mode : Modes]
         /\ r.offset < r.end
         /\ Overlaps(r, r)
         /\ r # Null
  <1>1. PICK rg \in Ranges, m \in Modes :
          r = [offset |-> rg[1], end |-> rg[1] + rg[2], mode |-> m]
    BY DEF Requests
  <1>2. rg[1] \in Nat /\ rg[2] \in Nat /\ rg[2] # 0
    BY LockRangeAssumption DEF ValidateRange
  <1> QED
    BY <1>1, <1>2, LockRangeAssumption DEF Overlaps

\* The exclusive counterpart of a request is a request.
LEMMA UpgradedRequest ==
  ASSUME NEW r \in Requests
  PROVE  Exclusively(r) \in Requests /\ Exclusively(r).mode = "kExclusive"
  <1>1. PICK rg \in Ranges, m \in Modes :
          r = [offset |-> rg[1], end |-> rg[1] + rg[2], mode |-> m]
    BY DEF Requests
  <1>2. Exclusively(r) =
          [offset |-> rg[1], end |-> rg[1] + rg[2], mode |-> "kExclusive"]
    BY <1>1 DEF Exclusively
  <1>3. "kExclusive" \in Modes
    BY DEF Modes
  <1>4. Exclusively(r) \in Requests
    BY <1>2, <1>3 DEF Requests
  <1> QED
    BY <1>4 DEF Exclusively

\* A guard that held nothing gets r, and one entry for r appears.
LEMMA CountInsert ==
  ASSUME NEW f \in [Guards -> Requests \cup {Null}],
         NEW es \in [Requests -> Nat],
         NEW g \in Guards, NEW r \in Requests,
         f[g] = Null, Counts(f, es)
  PROVE  Counts([f EXCEPT ![g] = r], InsertEntry(es, r))
  <1> DEFINE H(h, q) == {x \in Guards : h[x] = q}
             f2 == [f EXCEPT ![g] = r]
  <1> SUFFICES ASSUME NEW q \in Requests
               PROVE  InsertEntry(es, r)[q] = Cardinality(H(f2, q))
    BY DEF Counts
  <1>1. IsFiniteSet(H(f, q))
    BY GuardsFinite, FS_Subset
  <1>2. es[q] = Cardinality(H(f, q))
    BY DEF Counts
  <1>3. g \notin H(f, q)
    BY RequestType
  <1>4. CASE q = r
    <2>1. H(f2, q) = H(f, q) \cup {g}
      BY <1>4
    <2> QED
      BY <2>1, <1>1, <1>2, <1>3, <1>4, FS_AddElement DEF InsertEntry
  <1>5. CASE q # r
    <2>1. H(f2, q) = H(f, q)
      BY <1>5, <1>3
    <2> QED
      BY <2>1, <1>2, <1>5 DEF InsertEntry
  <1> QED
    BY <1>4, <1>5

\* A guard that held r gives it up; an entry for r exists and one disappears.
LEMMA CountErase ==
  ASSUME NEW f \in [Guards -> Requests \cup {Null}],
         NEW es \in [Requests -> Nat],
         NEW g \in Guards, f[g] \in Requests, Counts(f, es)
  PROVE  /\ es[f[g]] > 0
         /\ EraseEntry(es, f[g]) \in [Requests -> Nat]
         /\ Counts([f EXCEPT ![g] = Null], EraseEntry(es, f[g]))
  <1> DEFINE H(h, q) == {x \in Guards : h[x] = q}
             r == f[g]
             f2 == [f EXCEPT ![g] = Null]
  <1>0. es[r] > 0
    <2>1. IsFiniteSet(H(f, r))
      BY GuardsFinite, FS_Subset
    <2>2. Cardinality(H(f, r)) # 0
      BY <2>1, FS_EmptySet
    <2> QED
      BY <2>2 DEF Counts
  <1>1. EraseEntry(es, r) \in [Requests -> Nat]
    BY <1>0 DEF EraseEntry
  <1>2. ASSUME NEW q \in Requests
        PROVE  EraseEntry(es, r)[q] = Cardinality(H(f2, q))
    <2>1. IsFiniteSet(H(f, q)) /\ es[q] = Cardinality(H(f, q))
      BY GuardsFinite, FS_Subset DEF Counts
    <2>2. q # Null
      BY RequestType
    <2>3. CASE q = r
      <3>1. H(f2, q) = H(f, q) \ {g} /\ g \in H(f, q)
        BY <2>3, <2>2
      <3> QED
        BY <3>1, <2>1, <2>3, FS_RemoveElement DEF EraseEntry
    <2>4. CASE q # r
      <3>1. H(f2, q) = H(f, q)
        BY <2>4, <2>2
      <3> QED
        BY <3>1, <2>1, <2>4 DEF EraseEntry
    <2> QED
      BY <2>3, <2>4
  <1> QED
    BY <1>0, <1>1, <1>2 DEF Counts

\* Erasing an entry and inserting it again changes nothing.
LEMMA InsertAfterErase ==
  ASSUME NEW es \in [Requests -> Nat], NEW r \in Requests
  PROVE  InsertEntry(EraseEntry(es, r), r) = es
  <1> DEFINE es2 == InsertEntry(EraseEntry(es, r), r)
  <1>1. ASSUME NEW q \in Requests PROVE es2[q] = es[q]
    BY DEF InsertEntry, EraseEntry
  <1>2. es2 = [q \in Requests |-> es2[q]]
    BY DEF InsertEntry, EraseEntry
  <1> QED BY <1>1, <1>2

\* hold is a function on the guards.
LEMMA HoldType ==
  ASSUME TypeOK
  PROVE  hold \in [Guards -> Requests \cup {Null}]
  BY DEF TypeOK, hold

\* The entry a granted request adds is compatible with the ones that are there.
LEMMA GrantCompatible ==
  ASSUME TypeOK, NEW es \in [Requests -> Nat], NEW r \in Requests,
         CanGrant(es, r),
         \A a, b \in Requests :
           (es[a] > 0 /\ es[b] > 0 /\ Overlaps(a, b))
             => \/ a.mode = "kShared" /\ b.mode = "kShared"
                \/ a = b /\ es[a] = 1,
         NEW es2, es2 = InsertEntry(es, r)
  PROVE  /\ es2 \in [Requests -> Nat]
         /\ \A a, b \in Requests :
              (es2[a] > 0 /\ es2[b] > 0 /\ Overlaps(a, b))
                => \/ a.mode = "kShared" /\ b.mode = "kShared"
                   \/ a = b /\ es2[a] = 1
  <1>1. es2 \in [Requests -> Nat]
    BY DEF InsertEntry
  <1>2. ASSUME NEW a \in Requests, es[a] > 0,
               Overlaps(a, r) \/ Overlaps(r, a)
        PROVE  a.mode = "kShared" /\ r.mode = "kShared"
    BY <1>2, RequestType DEF CanGrant, HasConflict, Overlaps, Modes
  <1>3. ASSUME NEW a \in Requests, NEW b \in Requests,
               es2[a] > 0, es2[b] > 0, Overlaps(a, b)
        PROVE  \/ a.mode = "kShared" /\ b.mode = "kShared"
               \/ a = b /\ es2[a] = 1
    <2>1. CASE a # r /\ b # r
      BY <1>3, <2>1 DEF InsertEntry
    <2>2. CASE a # r /\ b = r
      BY <1>3, <2>2, <1>2 DEF InsertEntry
    <2>3. CASE a = r /\ b # r
      BY <1>3, <2>3, <1>2 DEF InsertEntry
    <2>4. CASE a = r /\ b = r
      <3>1. CASE es[r] > 0
        BY <3>1, <2>4, <1>2, <1>3
      <3>2. CASE ~(es[r] > 0)
        BY <3>2, <2>4 DEF InsertEntry
      <3> QED BY <3>1, <3>2
    <2> QED BY <2>1, <2>2, <2>3, <2>4
  <1> QED BY <1>1, <1>3

-----------------------------------------------------------------------------
(* The inductive invariant. *)

\* A guard of an idle thread holds what it says, the guard a waiter waits for
\* holds nothing.
LEMMA HoldByState ==
  ASSUME IInv
  PROVE  /\ \A g \in Guards : pc[g[1]] = "idle" => hold[g] = guard[g]
         /\ \A t \in Threads : pc[t] # "idle" => hold[call[t].guard] = Null
  <1> USE DEF IInv, TypeOK, WaitersAreInside, CallsOK
  <1>1. ASSUME NEW g \in Guards, pc[g[1]] = "idle"
        PROVE  hold[g] = guard[g]
    BY <1>1 DEF hold
  <1>2. ASSUME NEW t \in Threads, pc[t] # "idle"
        PROVE  hold[call[t].guard] = Null
    <2>1. call[t].guard \in Guards /\ t \in waiters
      BY <1>2 DEF Calls
    <2> QED
      BY <2>1 DEF hold
  <1> QED BY <1>1, <1>2

\* Initially nothing is held and there are no entries.
LEMMA InitIInv == Init => IInv
  <1> SUFFICES ASSUME Init PROVE IInv
    OBVIOUS
  <1>1. TypeOK /\ WaitersAreInside /\ CallsOK
    BY DEF Init, TypeOK, WaitersAreInside, CallsOK
  <1>2. EntriesMatchGuards
    <2>1. ASSUME NEW r \in Requests PROVE {g \in Guards : hold[g] = r} = {}
      BY RequestType DEF Init, hold
    <2> QED
      BY <2>1, FS_EmptySet DEF Init, EntriesMatchGuards
  <1>3. EntriesCompatible
    BY DEF Init, EntriesCompatible
  <1> QED BY <1>1, <1>2, <1>3 DEF IInv

\* A call of Lock, TryLockUntil or TryLock keeps the invariant.
LEMMA LockIInv ==
  ASSUME IInv, NEW t \in Threads, NEW g \in Guards, NEW r \in Requests,
         NEW w \in Waits, Lock(t, g, r, w)
  PROVE  IInv'
  <1> DEFINE c == [guard |-> g, req |-> r, wait |-> w]
  <1>a. c \in Calls /\ c.guard = g /\ c.req = r /\ c.wait = w
    BY LockRangeAssumption DEF Calls
  <1>b. hold[g] = Null /\ guard[g] = Null /\ pc[t] = "idle" /\ g[1] = t
    BY HoldByState DEF Lock
  <1>c. hold \in [Guards -> Requests \cup {Null}] /\ Counts(hold, entries)
    BY HoldType DEF IInv, EntriesMatchGuards, Counts
  <1> HIDE DEF c
  <1>1. CASE /\ CanGrant(entries, c.req)
             /\ entries' = InsertEntry(entries, c.req)
             /\ guard' = [guard EXCEPT ![c.guard] = c.req]
             /\ pc' = pc
             /\ UNCHANGED <<waiters, call>>
    <2>1. TypeOK' /\ WaitersAreInside' /\ CallsOK'
      BY <1>1, <1>a DEF IInv, TypeOK, WaitersAreInside, CallsOK, InsertEntry
    <2>2. hold' = [hold EXCEPT ![g] = r]
      <3>1. ~\E u \in waiters : call[u].guard = g
        BY <1>b DEF IInv, WaitersAreInside, CallsOK
      <3> QED
        BY <1>1, <1>a, <3>1 DEF IInv, TypeOK, hold
    <2>3. EntriesMatchGuards'
      BY <1>1, <1>a, <1>b, <1>c, <2>2, CountInsert
         DEF IInv, TypeOK, Counts, EntriesMatchGuards
    <2>4. EntriesCompatible'
      BY <1>1, <1>a, GrantCompatible DEF IInv, TypeOK, EntriesCompatible
    <2> QED BY <2>1, <2>3, <2>4 DEF IInv
  <1>2. CASE UNCHANGED vars
    BY <1>2 DEF IInv, vars, TypeOK, WaitersAreInside, CallsOK,
       EntriesMatchGuards, hold, EntriesCompatible
  <1>3. CASE /\ entries' = entries
             /\ waiters' = waiters \cup {t}
             /\ pc' = [pc EXCEPT ![t] = "asleep"]
             /\ call' = [call EXCEPT ![t] = c]
             /\ UNCHANGED guard
    <2>1. TypeOK' /\ WaitersAreInside' /\ CallsOK'
      BY <1>3, <1>a, <1>b DEF IInv, TypeOK, WaitersAreInside, CallsOK
    <2>2. ASSUME NEW x \in Guards PROVE hold'[x] = hold[x]
      BY <1>3, <1>a, <1>b DEF IInv, TypeOK, WaitersAreInside, CallsOK, hold
    <2>3. EntriesMatchGuards'
      BY <1>3, <2>2 DEF IInv, EntriesMatchGuards
    <2>4. EntriesCompatible'
      BY <1>3 DEF IInv, EntriesCompatible
    <2> QED BY <2>1, <2>3, <2>4 DEF IInv
  <1> QED
    BY <1>1, <1>2, <1>3 DEF Lock, WaitLoop, c

\* An upgrade gives its shared entry up and is granted, or waits.
LEMMA UpgradeIInv ==
  ASSUME IInv, NEW t \in Threads, NEW g \in Guards, NEW w \in Waits,
         Upgrade(t, g, w)
  PROVE  IInv'
  <1> DEFINE s == guard[g]
             r == Exclusively(s)
             c == [guard |-> g, wait |-> w, req |-> r]
             es == EraseEntry(entries, s)
             f == [hold EXCEPT ![g] = Null]
  <1>a. s \in Requests /\ r \in Requests /\ s # Null
    BY UpgradedRequest DEF Upgrade, IInv, TypeOK
  <1>b. c \in Calls /\ c.guard = g /\ c.req = r /\ c.wait = w
    BY <1>a, LockRangeAssumption DEF Calls
  <1>c. hold[g] = s /\ pc[t] = "idle" /\ g[1] = t
    BY HoldByState DEF Upgrade
  <1>d. hold \in [Guards -> Requests \cup {Null}] /\ Counts(hold, entries)
    BY HoldType DEF IInv, EntriesMatchGuards, Counts
  <1>e. es \in [Requests -> Nat] /\ Counts(f, es)
    BY <1>a, <1>c, <1>d, CountErase DEF IInv, TypeOK
  <1>f. \A a, b \in Requests :
          (es[a] > 0 /\ es[b] > 0 /\ Overlaps(a, b))
            => \/ a.mode = "kShared" /\ b.mode = "kShared"
               \/ a = b /\ es[a] = 1
    BY <1>a, <1>e DEF IInv, TypeOK, EntriesCompatible, EraseEntry
  <1>g. f \in [Guards -> Requests \cup {Null}] /\ f[g] = Null
    BY <1>d
  <1>h. /\ NotifyAll \in [Threads -> {"idle", "asleep", "notified"}]
        /\ \A u \in Threads : (NotifyAll[u] = "idle") <=> (pc[u] = "idle")
    BY DEF NotifyAll, IInv, TypeOK
  <1>i. ~\E u \in waiters : call[u].guard = g
    BY <1>c DEF IInv, WaitersAreInside, CallsOK
  <1>j. WaitLoop(t, c, es, NotifyAll) /\ w # "no_wait"
    BY DEF Upgrade
  <1> HIDE DEF c, es, r, s
  <1>1. CASE /\ CanGrant(es, c.req)
             /\ entries' = InsertEntry(es, c.req)
             /\ guard' = [guard EXCEPT ![c.guard] = c.req]
             /\ pc' = NotifyAll
             /\ UNCHANGED <<waiters, call>>
    <2>1. TypeOK' /\ WaitersAreInside' /\ CallsOK'
      BY <1>1, <1>a, <1>b, <1>e, <1>h
         DEF IInv, TypeOK, WaitersAreInside, CallsOK, InsertEntry
    <2>2. hold' = [f EXCEPT ![g] = r]
      BY <1>1, <1>b, <1>i DEF IInv, TypeOK, hold
    <2>3. EntriesMatchGuards'
      BY <1>1, <1>a, <1>b, <1>e, <1>g, <2>2, CountInsert
         DEF Counts, EntriesMatchGuards
    <2>4. EntriesCompatible'
      BY <1>1, <1>a, <1>b, <1>e, <1>f, GrantCompatible
         DEF IInv, EntriesCompatible
    <2> QED BY <2>1, <2>3, <2>4 DEF IInv
  <1>2. CASE /\ entries' = es
             /\ waiters' = waiters \cup {t}
             /\ pc' = [NotifyAll EXCEPT ![t] = "asleep"]
             /\ call' = [call EXCEPT ![t] = c]
             /\ UNCHANGED guard
    <2>1. TypeOK' /\ WaitersAreInside' /\ CallsOK'
      BY <1>2, <1>b, <1>c, <1>e, <1>h
         DEF IInv, TypeOK, WaitersAreInside, CallsOK
    <2>2. hold' = f
      <3>1. ASSUME NEW x \in Guards PROVE hold'[x] = f[x]
        BY <1>2, <1>b, <1>c DEF IInv, TypeOK, WaitersAreInside, CallsOK, hold
      <3> QED BY <3>1 DEF hold
    <2>3. EntriesMatchGuards'
      BY <1>2, <1>e, <2>2 DEF Counts, EntriesMatchGuards
    <2>4. EntriesCompatible'
      BY <1>2, <1>f DEF EntriesCompatible
    <2> QED BY <2>1, <2>3, <2>4 DEF IInv
  <1> QED
    BY <1>1, <1>2, <1>b, <1>j DEF WaitLoop

\* A waiter that is granted its request when it runs again.
LEMMA WaiterGrantedIInv ==
  ASSUME IInv, NEW t \in Threads, pc[t] # "idle",
         CanGrant(entries, call[t].req),
         entries' = InsertEntry(entries, call[t].req),
         guard' = [guard EXCEPT ![call[t].guard] = call[t].req],
         LeaveWaitLoop(t)
  PROVE  IInv'
  <1> DEFINE g == call[t].guard
             r == call[t].req
  <1>a. g \in Guards /\ r \in Requests /\ g[1] = t
    BY DEF IInv, CallsOK, Calls
  <1>b. hold[g] = Null
    BY HoldByState
  <1>c. hold \in [Guards -> Requests \cup {Null}] /\ Counts(hold, entries)
    BY HoldType DEF IInv, EntriesMatchGuards, Counts
  <1>1. TypeOK' /\ WaitersAreInside' /\ CallsOK'
    BY <1>a DEF IInv, TypeOK, WaitersAreInside, CallsOK, InsertEntry,
                LeaveWaitLoop
  <1>2. hold' = [hold EXCEPT ![g] = r]
    <2>1. ASSUME NEW x \in Guards
          PROVE  hold'[x] = [hold EXCEPT ![g] = r][x]
      BY <1>a DEF IInv, TypeOK, WaitersAreInside, CallsOK, LeaveWaitLoop, hold
    <2> QED BY <2>1 DEF hold
  <1>3. EntriesMatchGuards'
    BY <1>a, <1>b, <1>c, <1>2, CountInsert
       DEF IInv, TypeOK, Counts, EntriesMatchGuards
  <1>4. EntriesCompatible'
    BY <1>a, GrantCompatible DEF IInv, TypeOK, EntriesCompatible
  <1> QED BY <1>1, <1>3, <1>4 DEF IInv

\* A wakeup, spurious or not, and a timeout keep the invariant.
LEMMA WaiterIInv ==
  ASSUME IInv, NEW t \in Threads, Resume(t) \/ Timeout(t) \/ SpuriousWakeup(t)
  PROVE  IInv'
  <1>1. CASE /\ pc[t] # "idle"
             /\ CanGrant(entries, call[t].req)
             /\ entries' = InsertEntry(entries, call[t].req)
             /\ guard' = [guard EXCEPT ![call[t].guard] = call[t].req]
             /\ LeaveWaitLoop(t)
    BY <1>1, WaiterGrantedIInv
  <1>2. CASE /\ pc[t] # "idle"
             /\ \/ pc' = [pc EXCEPT ![t] = "asleep"]
                \/ pc' = [pc EXCEPT ![t] = "notified"]
             /\ UNCHANGED <<entries, waiters, guard, call>>
    <2>1. TypeOK' /\ WaitersAreInside' /\ CallsOK'
      BY <1>2 DEF IInv, TypeOK, WaitersAreInside, CallsOK
    <2>2. hold' = hold
      BY <1>2 DEF hold
    <2> QED
      BY <1>2, <2>1, <2>2 DEF IInv, EntriesMatchGuards, EntriesCompatible
  <1>3. CASE /\ pc[t] # "idle"
             /\ LeaveWaitLoop(t)
             /\ guard' = [guard EXCEPT ![call[t].guard] = Null]
             /\ UNCHANGED entries
    <2>1. TypeOK' /\ WaitersAreInside' /\ CallsOK'
      BY <1>3 DEF IInv, TypeOK, WaitersAreInside, CallsOK, LeaveWaitLoop
    <2>2. ASSUME NEW x \in Guards PROVE hold'[x] = hold[x]
      BY <1>3 DEF IInv, TypeOK, WaitersAreInside, CallsOK, LeaveWaitLoop, hold
    <2> QED
      BY <1>3, <2>1, <2>2 DEF IInv, EntriesMatchGuards, EntriesCompatible
  <1>4. CASE Resume(t)
    BY <1>1, <1>2, <1>4 DEF Resume
  <1>5. CASE Timeout(t)
    BY <1>1, <1>3, <1>5 DEF Timeout
  <1>6. CASE SpuriousWakeup(t)
    BY <1>2, <1>6 DEF SpuriousWakeup
  <1> QED BY <1>4, <1>5, <1>6

\* DoRelease of what guard g holds, as far as the entries are concerned.
LEMMA ReleaseEntries ==
  ASSUME IInv, NEW g \in Guards, hold[g] \in Requests, DoRelease(hold[g])
  PROVE  /\ entries' \in [Requests -> Nat]
         /\ Counts([hold EXCEPT ![g] = Null], entries')
         /\ EntriesCompatible'
         /\ pc' \in [Threads -> {"idle", "asleep", "notified"}]
         /\ \A u \in Threads : (pc'[u] = "idle") <=> (pc[u] = "idle")
  <1>1. hold \in [Guards -> Requests \cup {Null}] /\ Counts(hold, entries)
    BY HoldType DEF IInv, EntriesMatchGuards, Counts
  <1>2. /\ entries' \in [Requests -> Nat]
        /\ Counts([hold EXCEPT ![g] = Null], entries')
    BY <1>1, CountErase DEF IInv, TypeOK, DoRelease
  <1>3. EntriesCompatible'
    BY <1>2 DEF IInv, TypeOK, EntriesCompatible, DoRelease, EraseEntry
  <1> QED
    BY <1>2, <1>3 DEF IInv, TypeOK, DoRelease, NotifyAll

\* Guard::Release keeps the invariant.
LEMMA ReleaseIInv ==
  ASSUME IInv, NEW t \in Threads, NEW g \in Guards, Release(t, g)
  PROVE  IInv'
  <1>1. hold[g] = guard[g] /\ guard[g] \in Requests /\ g[1] = t
    BY HoldByState DEF Release, IInv, TypeOK
  <1>2. TypeOK' /\ WaitersAreInside' /\ CallsOK'
    BY <1>1, ReleaseEntries DEF Release, IInv, TypeOK, WaitersAreInside, CallsOK
  <1>3. hold' = [hold EXCEPT ![g] = Null]
    BY DEF Release, IInv, TypeOK, hold
  <1>4. EntriesMatchGuards' /\ EntriesCompatible'
    BY <1>1, <1>3, ReleaseEntries DEF Release, EntriesMatchGuards, Counts
  <1> QED BY <1>2, <1>4 DEF IInv

\* Moving a guard, onto an empty one or onto one that is released first.
LEMMA MoveIInv ==
  ASSUME IInv, NEW t \in Threads, NEW g \in Guards, NEW h \in Guards,
         Move(t, g, h)
  PROVE  IInv'
  <1> DEFINE f1 == [hold EXCEPT ![g] = Null]
             f2 == [f1 EXCEPT ![h] = Null]
             f3 == [f2 EXCEPT ![g] = guard[h]]
  <1>a. hold[g] = guard[g] /\ hold[h] = guard[h] /\ g # h
    BY HoldByState DEF Move
  <1>b. hold \in [Guards -> Requests \cup {Null}] /\ Counts(hold, entries)
    BY HoldType DEF IInv, EntriesMatchGuards, Counts
  <1>c. ~\E u \in waiters : call[u].guard \in {g, h}
    BY DEF Move, IInv, WaitersAreInside, CallsOK
  <1>1. /\ entries' \in [Requests -> Nat]
        /\ Counts(f1, entries')
        /\ EntriesCompatible'
        /\ pc' \in [Threads -> {"idle", "asleep", "notified"}]
        /\ \A u \in Threads : (pc'[u] = "idle") <=> (pc[u] = "idle")
    <2>1. CASE guard[g] = Null
      <3>1. f1 = hold /\ UNCHANGED <<entries, pc>>
        BY <2>1, <1>a, <1>b DEF Move
      <3> QED
        BY <3>1, <1>b DEF IInv, TypeOK, EntriesCompatible
    <2>2. CASE guard[g] # Null
      BY <2>2, <1>a, ReleaseEntries DEF Move, IInv, TypeOK
    <2> QED BY <2>1, <2>2
  <1>2. TypeOK' /\ WaitersAreInside' /\ CallsOK'
    BY <1>1 DEF Move, IInv, TypeOK, WaitersAreInside, CallsOK
  <1>3. hold' = f3
    <2>1. ASSUME NEW x \in Guards PROVE hold'[x] = f3[x]
      BY <1>a, <1>b, <1>c DEF Move, IInv, TypeOK, hold
    <2> QED BY <2>1, <1>b DEF hold
  <1>4. Counts(f3, entries')
    <2>1. CASE guard[h] = Null
      <3>1. f3 = f1
        BY <2>1, <1>a, <1>b
      <3> QED BY <3>1, <1>1
    <2>2. CASE guard[h] # Null
      <3> DEFINE r == guard[h]
                 es == EraseEntry(entries', r)
      <3>1. f1 \in [Guards -> Requests \cup {Null}] /\ f1[h] = r /\ r \in Requests
        BY <2>2, <1>a, <1>b DEF IInv, TypeOK
      <3>2. es \in [Requests -> Nat] /\ Counts(f2, es)
        BY <3>1, <1>1, CountErase
      <3>3. f2 \in [Guards -> Requests \cup {Null}] /\ f2[g] = Null
        BY <1>b, <1>a
      <3>4. Counts(f3, InsertEntry(es, r))
        BY <3>1, <3>2, <3>3, CountInsert
      <3>5. InsertEntry(es, r) = entries'
        BY <3>1, <1>1, InsertAfterErase
      <3> QED BY <3>4, <3>5
    <2> QED BY <2>1, <2>2
  <1>5. EntriesMatchGuards'
    BY <1>3, <1>4 DEF EntriesMatchGuards, Counts
  <1> QED BY <1>1, <1>2, <1>5 DEF IInv

\* The invariant is inductive.
LEMMA NextIInv == IInv /\ [Next]_vars => IInv'
  <1> SUFFICES ASSUME IInv, [Next]_vars PROVE IInv'
    OBVIOUS
  <1>1. CASE UNCHANGED vars
    BY <1>1 DEF IInv, vars, TypeOK, WaitersAreInside, CallsOK,
       EntriesMatchGuards, hold, EntriesCompatible
  <1>2. CASE Next
    BY <1>2, LockIInv, UpgradeIInv, ReleaseIInv, MoveIInv, WaiterIInv DEF Next
  <1> QED BY <1>1, <1>2

\* Every reachable state satisfies the invariant.
THEOREM LockRangeInvariant == Spec => []IInv
  BY InitIInv, NextIInv, PTL DEF Spec

\* Entries and guards agree in every reachable state: a release always finds
\* an entry to erase and UpgradeUntil never reaches its LOG(FATAL).
THEOREM EntriesMatch == Spec => []EntriesMatchGuards
  <1>1. IInv => EntriesMatchGuards
    BY DEF IInv
  <1> QED BY <1>1, LockRangeInvariant, PTL

\* No two guards on overlapping ranges are valid together unless both are
\* shared, for any number of threads, guards and ranges.
THEOREM MutualExclusion == Spec => []NoConflictingHolders
  <1>1. ASSUME IInv PROVE NoConflictingHolders
    <2> SUFFICES ASSUME NEW g \in Guards, NEW h \in Guards, g # h,
                        hold[g] # Null, hold[h] # Null,
                        Overlaps(hold[g], hold[h])
                 PROVE  hold[g].mode = "kShared" /\ hold[h].mode = "kShared"
      BY DEF NoConflictingHolders
    <2>1. hold \in [Guards -> Requests \cup {Null}] /\ Counts(hold, entries)
      BY <1>1, HoldType DEF IInv, EntriesMatchGuards, Counts
    <2>2. hold[g] \in Requests /\ hold[h] \in Requests
      BY <2>1
    <2>3. entries \in [Requests -> Nat]
      BY <1>1 DEF IInv, TypeOK
    <2>4. entries[hold[g]] > 0 /\ entries[hold[h]] > 0
      BY <2>1, <2>2, <2>3, CountErase
    <2>5. CASE hold[g] = hold[h]
      <3> DEFINE r == hold[g]
                 f == [hold EXCEPT ![g] = Null]
      <3>1. f \in [Guards -> Requests \cup {Null}] /\ f[h] = r
        BY <2>1, <2>5
      <3>2. EraseEntry(entries, r) \in [Requests -> Nat]
            /\ Counts(f, EraseEntry(entries, r))
        BY <2>1, <2>2, <2>3, CountErase
      <3>3. EraseEntry(entries, r)[r] > 0
        BY <3>1, <3>2, <2>2, CountErase
      <3>4. entries[r] # 1
        BY <3>3, <2>2, <2>3 DEF EraseEntry
      <3> QED
        BY <1>1, <2>2, <2>4, <2>5, <3>4 DEF IInv, EntriesCompatible
    <2>6. CASE hold[g] # hold[h]
      BY <1>1, <2>2, <2>4, <2>6 DEF IInv, EntriesCompatible
    <2> QED BY <2>5, <2>6
  <1>2. IInv => NoConflictingHolders
    BY <1>1
  <1> QED BY <1>2, LockRangeInvariant, PTL

-----------------------------------------------------------------------------
(* No wakeup is lost when nobody waits with a deadline. *)

\* Pending calls wait the way some client call asked for.
PendingWaits == \A t \in Threads : pc[t] # "idle" => call[t].wait \in Waits

AwakeInv == IInv /\ PendingWaits /\ GrantableIsAwake

\* A step either wakes everybody, or only adds obstacles to the requests of the
\* threads it leaves asleep.
LEMMA AwakeStep ==
  ASSUME AwakeInv, "deadline" \notin Waits, Next
  PROVE  PendingWaits' /\ GrantableIsAwake'
  <1>n. \A u \in Threads : NotifyAll[u] # "asleep"
    BY DEF NotifyAll, AwakeInv, IInv, TypeOK
  <1>1. ASSUME NEW t \in Threads, NEW g \in Guards, NEW r \in Requests,
               NEW w \in Waits, Lock(t, g, r, w)
        PROVE  PendingWaits' /\ GrantableIsAwake'
    <2> DEFINE c == [guard |-> g, req |-> r, wait |-> w]
    <2>a. c.req = r /\ c.wait = w /\ pc[t] = "idle" /\ t \notin waiters
      BY <1>1 DEF Lock, AwakeInv, IInv, WaitersAreInside
    <2> HIDE DEF c
    <2>1. CASE /\ entries' = InsertEntry(entries, c.req)
               /\ pc' = pc
               /\ UNCHANGED <<waiters, call>>
      <3>1. \A e \in Requests : entries[e] > 0 => entries'[e] > 0
        BY <2>1, <2>a DEF InsertEntry, AwakeInv, IInv, TypeOK
      <3>2. \A q : CanGrant(entries, q)' => CanGrant(entries, q)
        BY <2>1, <3>1 DEF CanGrant, HasConflict, ExclusiveWaiterExists
      <3> QED
        BY <2>1, <3>2 DEF AwakeInv, PendingWaits, GrantableIsAwake
    <2>2. CASE UNCHANGED vars
      BY <2>2 DEF vars, AwakeInv, PendingWaits, GrantableIsAwake, CanGrant,
                  HasConflict, ExclusiveWaiterExists
    <2>3. CASE /\ ~CanGrant(entries, c.req)
               /\ entries' = entries
               /\ waiters' = waiters \cup {t}
               /\ pc' = [pc EXCEPT ![t] = "asleep"]
               /\ call' = [call EXCEPT ![t] = c]
      <3>1. \A u \in waiters : u \in waiters' /\ call'[u] = call[u]
        BY <2>3, <2>a DEF AwakeInv, IInv, TypeOK
      <3>2. \A q : CanGrant(entries, q)' => CanGrant(entries, q)
        BY <2>3, <3>1 DEF CanGrant, HasConflict, ExclusiveWaiterExists
      <3>3. call'[t] = c /\ \A u \in Threads \ {t} : call'[u] = call[u] /\ pc'[u] = pc[u]
        BY <2>3 DEF AwakeInv, IInv, TypeOK
      <3>4. PendingWaits'
        BY <3>3, <2>a DEF AwakeInv, PendingWaits
      <3>5. GrantableIsAwake'
        BY <2>3, <3>2, <3>3 DEF AwakeInv, GrantableIsAwake
      <3> QED BY <3>4, <3>5
    <2> QED
      BY <1>1, <2>1, <2>2, <2>3 DEF Lock, WaitLoop, c
  <1>2. ASSUME NEW t \in Threads, NEW g \in Guards, NEW w \in Waits,
               Upgrade(t, g, w)
        PROVE  PendingWaits' /\ GrantableIsAwake'
    <2> DEFINE c == [guard |-> g, wait |-> w, req |-> Exclusively(guard[g])]
               es == EraseEntry(entries, guard[g])
    <2>a. c.wait = w /\ w # "no_wait" /\ WaitLoop(t, c, es, NotifyAll)
      BY <1>2 DEF Upgrade
    <2>b. c.req.mode = "kExclusive"
      BY DEF Exclusively
    <2>c. \A u \in Threads : (NotifyAll[u] = "idle") <=> (pc[u] = "idle")
      BY DEF NotifyAll
    <2> HIDE DEF c, es
    <2>1. CASE pc' = NotifyAll /\ UNCHANGED <<waiters, call>>
      BY <2>1, <2>c, <1>n DEF AwakeInv, PendingWaits, GrantableIsAwake
    <2>2. CASE /\ ~CanGrant(es, c.req)
               /\ entries' = es
               /\ pc' = [NotifyAll EXCEPT ![t] = "asleep"]
               /\ call' = [call EXCEPT ![t] = c]
      <3>1. /\ call'[t] = c
            /\ \A u \in Threads \ {t} : call'[u] = call[u] /\ pc'[u] = NotifyAll[u]
        BY <2>2 DEF AwakeInv, IInv, TypeOK, NotifyAll
      <3>2. PendingWaits'
        BY <3>1, <2>a, <2>c DEF AwakeInv, PendingWaits
      <3>3. ~CanGrant(entries, call[t].req)'
        BY <2>2, <2>b, <3>1 DEF CanGrant, HasConflict
      <3>4. GrantableIsAwake'
        BY <3>1, <3>3, <1>n DEF GrantableIsAwake
      <3> QED BY <3>2, <3>4
    <2> QED
      BY <2>1, <2>2, <2>a DEF WaitLoop
  <1>3. ASSUME NEW t \in Threads, Resume(t)
        PROVE  PendingWaits' /\ GrantableIsAwake'
    <2>1. CASE /\ entries' = InsertEntry(entries, call[t].req)
               /\ LeaveWaitLoop(t)
      <3> DEFINE r == call[t].req
      <3>1. r \in Requests
        BY <1>3 DEF Resume, AwakeInv, IInv, CallsOK, Calls
      <3>2. /\ \A e \in Requests : entries[e] > 0 => entries'[e] > 0
            /\ entries'[r] > 0
        BY <2>1, <3>1 DEF InsertEntry, AwakeInv, IInv, TypeOK
      <3>3. /\ waiters' = waiters \ {t}
            /\ \A u \in Threads \ {t} : call'[u] = call[u] /\ pc'[u] = pc[u]
            /\ pc'[t] = "idle"
        BY <2>1 DEF LeaveWaitLoop, AwakeInv, IInv, TypeOK
      <3>4. ASSUME NEW q \in Requests, CanGrant(entries, q)'
            PROVE  CanGrant(entries, q)
        <4>1. ~HasConflict(entries, q)
          BY <3>2, <3>4 DEF CanGrant, HasConflict
        <4>2. ASSUME q.mode = "kShared", ExclusiveWaiterExists(q)
              PROVE  FALSE
          <5>1. PICK v \in waiters : call[v].req.mode = "kExclusive"
                                     /\ Overlaps(call[v].req, q)
            BY <4>2 DEF ExclusiveWaiterExists
          <5>2. CASE v = t
            BY <5>1, <5>2, <3>1, <3>2, <3>4, RequestType
               DEF CanGrant, HasConflict, Overlaps
          <5>3. CASE v # t
            <6>1. v \in waiters' /\ call'[v] = call[v]
              BY <5>3, <3>3 DEF AwakeInv, IInv, TypeOK
            <6> QED
              BY <5>1, <6>1, <3>4, <4>2 DEF CanGrant, ExclusiveWaiterExists
          <5> QED BY <5>2, <5>3
        <4> QED BY <4>1, <4>2 DEF CanGrant
      <3>5. GrantableIsAwake'
        <4> SUFFICES ASSUME NEW u \in Threads, pc'[u] = "asleep"
                     PROVE  ~CanGrant(entries, call[u].req)'
          BY DEF GrantableIsAwake
        <4>1. u # t /\ pc[u] = "asleep" /\ call'[u] = call[u]
          BY <3>3
        <4>2. call[u].req \in Requests
          BY <4>1 DEF AwakeInv, IInv, CallsOK, Calls
        <4> QED
          BY <4>1, <4>2, <3>4 DEF AwakeInv, GrantableIsAwake
      <3>6. PendingWaits'
        BY <3>3 DEF AwakeInv, PendingWaits
      <3> QED BY <3>5, <3>6
    <2>2. CASE /\ ~CanGrant(entries, call[t].req)
               /\ pc' = [pc EXCEPT ![t] = "asleep"]
               /\ UNCHANGED <<entries, waiters, guard, call>>
      BY <1>3, <2>2 DEF Resume, AwakeInv, IInv, TypeOK, PendingWaits,
            GrantableIsAwake, CanGrant, HasConflict, ExclusiveWaiterExists
    <2> QED BY <1>3, <2>1, <2>2 DEF Resume
  <1>4. ASSUME NEW t \in Threads, Timeout(t) PROVE FALSE
    BY <1>4 DEF Timeout, AwakeInv, PendingWaits
  <1>5. ASSUME NEW t \in Threads, SpuriousWakeup(t)
        PROVE  PendingWaits' /\ GrantableIsAwake'
    BY <1>5 DEF SpuriousWakeup, AwakeInv, IInv, TypeOK, PendingWaits,
          GrantableIsAwake, CanGrant, HasConflict, ExclusiveWaiterExists
  <1>6. ASSUME UNCHANGED <<waiters, call>>,
               pc' = NotifyAll \/ UNCHANGED <<entries, pc>>
        PROVE  PendingWaits' /\ GrantableIsAwake'
    <2>1. \A u \in Threads : (NotifyAll[u] = "idle") <=> (pc[u] = "idle")
      BY DEF NotifyAll
    <2>2. CASE pc' = NotifyAll
      BY <1>6, <2>1, <2>2, <1>n DEF AwakeInv, PendingWaits, GrantableIsAwake
    <2>3. CASE UNCHANGED <<entries, pc>>
      BY <1>6, <2>3 DEF AwakeInv, PendingWaits, GrantableIsAwake, CanGrant,
            HasConflict, ExclusiveWaiterExists
    <2> QED BY <1>6, <2>2, <2>3
  <1>7. ASSUME NEW t \in Threads, NEW g \in Guards, Release(t, g)
        PROVE  PendingWaits' /\ GrantableIsAwake'
    BY <1>6, <1>7 DEF Release, DoRelease
  <1>8. ASSUME NEW t \in Threads, NEW g \in Guards, NEW h \in Guards,
               Move(t, g, h)
        PROVE  PendingWaits' /\ GrantableIsAwake'
    BY <1>6, <1>8 DEF Move, DoRelease
  <1> QED
    BY <1>1, <1>2, <1>3, <1>4, <1>5, <1>7, <1>8 DEF Next

\* When no client uses TryLockFor, TryLockUntil or a timed upgrade, no thread
\* ever sleeps in WaitLoop while its request could be granted: every step that
\* removes an obstacle notifies, and an exclusive waiter only unregisters by
\* becoming an entry.
THEOREM NoLostWakeup ==
  ASSUME "deadline" \notin Waits
  PROVE  Spec => []GrantableIsAwake
  <1>1. Init => AwakeInv
    BY InitIInv DEF Init, AwakeInv, PendingWaits, GrantableIsAwake
  <1>2. AwakeInv /\ [Next]_vars => AwakeInv'
    <2> SUFFICES ASSUME AwakeInv, [Next]_vars PROVE AwakeInv'
      OBVIOUS
    <2>1. IInv'
      BY NextIInv DEF AwakeInv
    <2>2. CASE Next
      BY <2>1, <2>2, AwakeStep DEF AwakeInv
    <2>3. CASE UNCHANGED vars
      BY <2>1, <2>3 DEF vars, AwakeInv, PendingWaits, GrantableIsAwake,
            CanGrant, HasConflict, ExclusiveWaiterExists
    <2> QED BY <2>2, <2>3
  <1>3. AwakeInv => GrantableIsAwake
    BY DEF AwakeInv
  <1> QED BY <1>1, <1>2, <1>3, PTL DEF Spec
=============================================================================
