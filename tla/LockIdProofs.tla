---------------------------- MODULE LockIdProofs ----------------------------
(***************************************************************************)
(* Proofs about the per-id lock for any number of guards, ids and          *)
(* addresses: no caller's pointer dangles, reference counts are exact,     *)
(* guards exclude each other, and the whole is a table of reader/writer    *)
(* locks.                                                                  *)
(***************************************************************************)
EXTENDS LockId, FiniteSetTheorems, TLAPS

\* A client has an id exactly while it is not idle.
IdWhileBusy == \A c \in IdGuards : (cpc[c] = "idle") <=> (id[c] = NoEntry)

\* The map has different table for different ids.
EntriesDistinct ==
  \A i, j \in Ids : (table[i] # NoEntry /\ table[i] = table[j]) => i = j

\* The mutex of a live entry is owned by the guards on its id.
OwnersExact ==
  \A i \in Ids : table[i] # NoEntry =>
    owners[table[i]] = {c \in IdGuards : cpc[c] = "held" /\ id[c] = i}

IdInv ==
  /\ IdTypeOK
  /\ IdWhileBusy
  /\ EntriesDistinct
  /\ PointersAlive
  /\ OwnersExact
  /\ RefCountsExact
  /\ IdExclusion

-----------------------------------------------------------------------------
\* The users of an id can be counted, one more or one fewer.
LEMMA UsersCount ==
  ASSUME NEW S \in SUBSET IdGuards
  PROVE  /\ IsFiniteSet(S) /\ Cardinality(S) \in Nat
         /\ (Cardinality(S) = 0) <=> (S = {})
         /\ \A c \in IdGuards \ S : Cardinality(S \cup {c}) = Cardinality(S) + 1
         /\ \A c \in S : Cardinality(S \ {c}) = Cardinality(S) - 1
  <1>1. IsFiniteSet(S)
    BY LockIdAssumption, FS_Subset
  <1> QED
    BY <1>1, FS_CardinalityType, FS_EmptySet, FS_AddElement, FS_RemoveElement

\* Initially there are no table and no callers.
LEMMA InitIInv == IdInit => IdInv
  BY LockIdAssumption DEF IdInit, IdInv, IdTypeOK, IdWhileBusy, EntriesDistinct,
     PointersAlive, OwnersExact, RefCountsExact, Users, IdExclusion,
     LockModes, IdWaitKinds

\* Finding or creating the entry counts the caller in.
LEMMA AcquireEntryIInv ==
  ASSUME IdInv, NEW c \in IdGuards, NEW i \in Ids, NEW m \in LockModes,
         NEW w \in IdWaitKinds, AcquireEntry(c, i, m, w)
  PROVE  IdInv'
  <1> USE LockIdAssumption
  <1>a. id[c] = NoEntry /\ cpc[c] = "idle"
    BY DEF AcquireEntry, IdInv, IdWhileBusy
  <1>b. /\ cpc' = [cpc EXCEPT ![c] = "locking"]
        /\ id' = [id EXCEPT ![c] = i]
        /\ lockMode' = [lockMode EXCEPT ![c] = m]
        /\ waitKind' = [waitKind EXCEPT ![c] = w]
        /\ ptr' = [ptr EXCEPT ![c] = table'[i]]
    BY DEF AcquireEntry
  <1>c. Users(i)' = Users(i) \cup {c} /\ c \notin Users(i)
        /\ \A j \in Ids \ {i} : Users(j)' = Users(j)
    BY <1>a, <1>b DEF IdInv, IdTypeOK, Users
  <1>d. /\ \A j \in Ids : {d \in IdGuards : cpc'[d] = "held" /\ id'[d] = j}
                        = {d \in IdGuards : cpc[d] = "held" /\ id[d] = j}
        /\ \A d \in IdGuards : cpc'[d] = "held" =>
             cpc[d] = "held" /\ id'[d] = id[d] /\ lockMode'[d] = lockMode[d]
    BY <1>a, <1>b DEF IdInv, IdTypeOK
  <1>e. Users(i) \in SUBSET IdGuards
    BY DEF Users
  <1>1. IdWhileBusy'
    BY <1>a, <1>b DEF IdInv, IdTypeOK, IdWhileBusy
  <1>2. IdExclusion'
    BY <1>d DEF IdInv, IdExclusion
  <1>3. CASE table[i] = NoEntry
    <2>1. PICK a \in Addrs : /\ ~Live(a)
                             /\ table' = [table EXCEPT ![i] = a]
                             /\ ref' = [ref EXCEPT ![a] = 1]
                             /\ owners' = [owners EXCEPT ![a] = {}]
      BY <1>3 DEF AcquireEntry
    <2>2. IdTypeOK'
      BY <1>b, <2>1 DEF IdInv, IdTypeOK
    <2>3. EntriesDistinct'
      BY <2>1 DEF IdInv, IdTypeOK, EntriesDistinct, Live
    <2>4. Users(i) = {}
      BY <1>3 DEF IdInv, RefCountsExact
    <2>5. PointersAlive'
      BY <1>a, <1>b, <2>1, <2>4 DEF IdInv, IdTypeOK, PointersAlive, IdWhileBusy, Users
    <2>6. OwnersExact'
      <3> SUFFICES ASSUME NEW j \in Ids, table'[j] # NoEntry
                   PROVE  owners'[table'[j]]
                            = {d \in IdGuards : cpc'[d] = "held" /\ id'[d] = j}
        BY DEF OwnersExact
      <3>1. CASE j = i
        <4>1. {d \in IdGuards : cpc'[d] = "held" /\ id'[d] = i} = {}
          BY <1>d, <2>4 DEF Users
        <4> QED BY <3>1, <4>1, <2>1 DEF IdInv, IdTypeOK
      <3>2. CASE j # i
        BY <3>2, <2>1, <1>d DEF IdInv, IdTypeOK, OwnersExact, Live
      <3> QED BY <3>1, <3>2
    <2>7. RefCountsExact'
      <3>0. Cardinality(Users(i)) = 0
        BY <1>e, <2>4, UsersCount
      <3>1. Cardinality(Users(i)') = 1
        BY <3>0, <1>c, <1>e, UsersCount
      <3> QED
        BY <1>c, <2>1, <3>1 DEF IdInv, IdTypeOK, RefCountsExact, Live
    <2> QED
      BY <1>1, <1>2, <2>2, <2>3, <2>5, <2>6, <2>7 DEF IdInv
  <1>4. CASE table[i] # NoEntry
    <2>1. /\ ref' = [ref EXCEPT ![table[i]] = @ + 1]
          /\ table' = table /\ owners' = owners /\ table[i] \in Addrs
      BY <1>4 DEF AcquireEntry, IdInv, IdTypeOK
    <2>2. IdTypeOK'
      BY <1>b, <2>1 DEF IdInv, IdTypeOK
    <2>3. EntriesDistinct'
      BY <2>1 DEF IdInv, EntriesDistinct
    <2>4. PointersAlive'
      BY <1>4, <1>a, <1>b, <2>1 DEF IdInv, IdTypeOK, PointersAlive
    <2>5. OwnersExact'
      BY <2>1, <1>d DEF IdInv, OwnersExact
    <2>6. RefCountsExact'
      <3>1. Cardinality(Users(i)') = Cardinality(Users(i)) + 1
        BY <1>c, <1>e, UsersCount
      <3> QED
        BY <1>4, <1>c, <2>1, <3>1
           DEF IdInv, IdTypeOK, RefCountsExact, EntriesDistinct
    <2> QED
      BY <1>1, <1>2, <2>2, <2>3, <2>4, <2>5, <2>6 DEF IdInv
  <1> QED BY <1>3, <1>4

\* Taking the mutex, giving up on it and unlocking it.
LEMMA MutexIInv ==
  ASSUME IdInv, NEW c \in IdGuards, LockMutex(c) \/ TryFails(c) \/ Unlock(c)
  PROVE  IdInv'
  <1> USE LockIdAssumption
  <1>a. /\ UNCHANGED <<table, ref, id, lockMode, waitKind, ptr>>
        /\ cpc[c] # "idle" /\ cpc' = [cpc EXCEPT ![c] = cpc'[c]]
        /\ cpc'[c] \in {"held", "releasing"}
    BY DEF LockMutex, TryFails, Unlock, IdInv, IdTypeOK
  <1>b. ptr[c] \in Addrs /\ id[c] \in Ids /\ table[id[c]] = ptr[c]
    BY <1>a DEF IdInv, IdTypeOK, PointersAlive, IdWhileBusy
  <1>1. /\ IdTypeOK' /\ IdWhileBusy' /\ EntriesDistinct' /\ PointersAlive'
        /\ RefCountsExact'
    <2>1. IdTypeOK'
      BY <1>a, <1>b DEF LockMutex, TryFails, Unlock, IdInv, IdTypeOK
    <2>2. IdWhileBusy' /\ EntriesDistinct' /\ PointersAlive'
      BY <1>a, <1>b DEF IdInv, IdTypeOK, IdWhileBusy, EntriesDistinct, PointersAlive
    <2>3. RefCountsExact'
      BY <1>a DEF IdInv, RefCountsExact, Users
    <2> QED BY <2>1, <2>2, <2>3
  <1>2. OwnersExact'
    <2> SUFFICES ASSUME NEW j \in Ids, table'[j] # NoEntry
                 PROVE  owners'[table'[j]]
                          = {d \in IdGuards : cpc'[d] = "held" /\ id'[d] = j}
      BY DEF OwnersExact
    <2>1. CASE j = id[c]
      <3>1. owners[ptr[c]] = {d \in IdGuards : cpc[d] = "held" /\ id[d] = j}
        BY <2>1, <1>a, <1>b DEF IdInv, OwnersExact
      <3>2. CASE LockMutex(c)
        BY <3>1, <3>2, <2>1, <1>b DEF LockMutex, IdInv, IdTypeOK
      <3>3. CASE TryFails(c)
        BY <3>1, <3>3, <2>1, <1>b DEF TryFails, IdInv, IdTypeOK
      <3>4. CASE Unlock(c)
        BY <3>1, <3>4, <2>1, <1>b DEF Unlock, IdInv, IdTypeOK
      <3> QED BY <3>2, <3>3, <3>4
    <2>2. CASE j # id[c]
      <3>1. table[j] # ptr[c] /\ table[j] \in Addrs
        BY <2>2, <1>a, <1>b DEF IdInv, IdTypeOK, EntriesDistinct
      <3>2. owners'[table[j]] = owners[table[j]]
        BY <3>1, <1>b DEF LockMutex, TryFails, Unlock, IdInv, IdTypeOK
      <3> QED
        BY <2>2, <3>2, <1>a DEF IdInv, IdTypeOK, OwnersExact
    <2> QED BY <2>1, <2>2
  <1>3. IdExclusion'
    <2>1. CASE LockMutex(c)
      <3>1. \A d \in IdGuards : (cpc[d] = "held" /\ id[d] = id[c]) =>
              lockMode[d] = "shared" /\ lockMode[c] = "shared"
        BY <2>1, <1>b DEF LockMutex, Free, IdInv, OwnersExact
      <3> QED
        BY <2>1, <3>1, <1>a DEF LockMutex, IdInv, IdTypeOK, IdExclusion
    <2>2. CASE TryFails(c) \/ Unlock(c)
      BY <2>2, <1>a DEF TryFails, Unlock, IdInv, IdTypeOK, IdExclusion
    <2> QED BY <2>1, <2>2
  <1> QED BY <1>1, <1>2, <1>3 DEF IdInv

\* Counting a caller out, and erasing the entry when it was the last.
LEMMA ReleaseEntryIInv ==
  ASSUME IdInv, NEW c \in IdGuards, ReleaseEntry(c)
  PROVE  IdInv'
  <1> USE LockIdAssumption
  <1>0. id[c] \in Ids /\ table[id[c]] \in Addrs
    BY DEF ReleaseEntry, IdInv, IdTypeOK, IdWhileBusy
  <1> PICK i \in Ids : i = id[c]
    BY <1>0
  <1> PICK a \in Addrs : a = table[i]
    BY <1>0
  <1>a. cpc[c] = "releasing" /\ c \in Users(i)
    BY DEF ReleaseEntry, Users
  <1>b. /\ cpc' = [cpc EXCEPT ![c] = "idle"] /\ id' = [id EXCEPT ![c] = NoEntry]
        /\ ptr' = [ptr EXCEPT ![c] = NoEntry] /\ UNCHANGED <<owners, lockMode, waitKind>>
        /\ ref' = [ref EXCEPT ![a] = @ - 1]
    BY DEF ReleaseEntry
  <1>c. /\ Users(i)' = Users(i) \ {c} /\ \A j \in Ids \ {i} : Users(j)' = Users(j)
        /\ Users(i) \in SUBSET IdGuards /\ Users(i)' \in SUBSET IdGuards
    BY <1>a, <1>b DEF IdInv, IdTypeOK, Users
  <1>d. /\ ref[a] = Cardinality(Users(i))
        /\ Cardinality(Users(i)') = ref[a] - 1
        /\ (ref[a] - 1 = 0) <=> (Users(i)' = {})
    <2>1. ref[a] = Cardinality(Users(i))
      BY LockIdAssumption DEF IdInv, RefCountsExact
    <2>2. Cardinality(Users(i) \ {c}) = Cardinality(Users(i)) - 1
      BY <1>a, <1>c, UsersCount
    <2>3. (Cardinality(Users(i)') = 0) <=> (Users(i)' = {})
      BY <1>c, UsersCount
    <2> QED BY <2>1, <2>2, <2>3, <1>c
  <1>e. ref[a] - 1 \in Nat /\ ref'[a] = ref[a] - 1
    BY <1>a, <1>b, <1>c, <1>d, UsersCount DEF IdInv, IdTypeOK
  <1>f. /\ \A j \in Ids : {d \in IdGuards : cpc'[d] = "held" /\ id'[d] = j}
                        = {d \in IdGuards : cpc[d] = "held" /\ id[d] = j}
        /\ \A d \in IdGuards : cpc'[d] = "held" =>
             cpc[d] = "held" /\ id'[d] = id[d] /\ lockMode'[d] = lockMode[d]
    BY <1>a, <1>b DEF IdInv, IdTypeOK
  <1>1. IdWhileBusy' /\ IdExclusion'
    BY <1>a, <1>b, <1>f DEF IdInv, IdTypeOK, IdWhileBusy, IdExclusion
  <1>2. CASE ref'[a] = 0 /\ table' = [table EXCEPT ![i] = NoEntry]
    <2>1. IdTypeOK' /\ EntriesDistinct'
      BY <1>a, <1>b, <1>e, <1>2 DEF IdInv, IdTypeOK, EntriesDistinct
    <2>2. Users(i)' = {}
      BY <1>2, <1>d, <1>e
    <2>3. PointersAlive'
      BY <1>a, <1>b, <1>2, <2>2 DEF IdInv, IdTypeOK, PointersAlive, IdWhileBusy, Users
    <2>4. OwnersExact'
      BY <1>a, <1>b, <1>f, <1>2 DEF IdInv, IdTypeOK, OwnersExact
    <2>5. RefCountsExact'
      BY <1>a, <1>b, <1>c, <1>2, <2>2
         DEF IdInv, IdTypeOK, RefCountsExact, EntriesDistinct
    <2> QED BY <1>1, <2>1, <2>3, <2>4, <2>5 DEF IdInv
  <1>3. CASE ref'[a] # 0 /\ UNCHANGED table
    <2>1. IdTypeOK' /\ EntriesDistinct'
      BY <1>a, <1>b, <1>e, <1>3 DEF IdInv, IdTypeOK, EntriesDistinct
    <2>2. PointersAlive'
      BY <1>a, <1>b, <1>3 DEF IdInv, IdTypeOK, PointersAlive
    <2>3. OwnersExact'
      BY <1>b, <1>f, <1>3 DEF IdInv, OwnersExact
    <2>4. RefCountsExact'
      BY <1>a, <1>b, <1>c, <1>d, <1>e, <1>3
         DEF IdInv, IdTypeOK, RefCountsExact, EntriesDistinct
    <2> QED BY <1>1, <2>1, <2>2, <2>3, <2>4 DEF IdInv
  <1> QED
    BY <1>2, <1>3 DEF ReleaseEntry

\* Moving a held guard into an empty one.
LEMMA MoveIInv ==
  ASSUME IdInv, NEW c \in IdGuards, NEW d \in IdGuards, MoveIdGuard(c, d)
  PROVE  IdInv'
  <1> USE LockIdAssumption
  <1>0. /\ id[c] \in Ids /\ ptr[c] \in Addrs /\ table[id[c]] = ptr[c]
        /\ id[d] = NoEntry /\ c # d
    BY DEF MoveIdGuard, IdInv, IdTypeOK, IdWhileBusy, PointersAlive
  <1> PICK i \in Ids : i = id[c]
    BY <1>0
  <1> PICK a \in Addrs : a = ptr[c]
    BY <1>0
  <1>a. /\ cpc' = [cpc EXCEPT ![c] = "idle", ![d] = "held"]
        /\ id' = [id EXCEPT ![c] = NoEntry, ![d] = i]
        /\ lockMode' = [lockMode EXCEPT ![d] = lockMode[c]]
        /\ ptr' = [ptr EXCEPT ![c] = NoEntry, ![d] = a]
        /\ owners' = [owners EXCEPT ![a] = (@ \ {c}) \cup {d}]
        /\ UNCHANGED <<table, ref, waitKind>>
        /\ cpc[c] = "held" /\ cpc[d] = "idle"
    BY DEF MoveIdGuard
  <1>1. IdTypeOK' /\ IdWhileBusy' /\ EntriesDistinct' /\ PointersAlive'
    BY <1>0, <1>a DEF IdInv, IdTypeOK, IdWhileBusy, EntriesDistinct, PointersAlive
  <1>2. OwnersExact'
    <2> SUFFICES ASSUME NEW j \in Ids, table[j] # NoEntry
                 PROVE  owners'[table[j]]
                          = {x \in IdGuards : cpc'[x] = "held" /\ id'[x] = j}
      BY <1>a DEF OwnersExact
    <2>1. owners[table[j]] = {x \in IdGuards : cpc[x] = "held" /\ id[x] = j}
      BY DEF IdInv, OwnersExact
    <2>2. CASE j = i
      BY <2>1, <2>2, <1>0, <1>a DEF IdInv, IdTypeOK
    <2>3. CASE j # i
      <3>1. table[j] # a /\ table[j] \in Addrs
        BY <2>3, <1>0 DEF IdInv, IdTypeOK, EntriesDistinct
      <3> QED
        BY <2>1, <2>3, <3>1, <1>0, <1>a DEF IdInv, IdTypeOK
    <2> QED BY <2>2, <2>3
  <1>3. RefCountsExact'
    <2> DEFINE S == Users(i) \ {c}
    <2>1. /\ Users(i)' = S \cup {d} /\ c \in Users(i) /\ d \notin S
          /\ \A j \in Ids \ {i} : Users(j)' = Users(j)
      BY <1>0, <1>a DEF IdInv, IdTypeOK, Users
    <2>2. Users(i) \in SUBSET IdGuards /\ S \in SUBSET IdGuards
      BY DEF Users
    <2>3. Cardinality(S) = Cardinality(Users(i)) - 1
      BY <2>1, <2>2, UsersCount
    <2>4. Cardinality(S \cup {d}) = Cardinality(S) + 1
      BY <2>1, <2>2, UsersCount
    <2>5. Cardinality(Users(i)) \in Nat
      BY <2>2, UsersCount
    <2>6. Cardinality(Users(i)') = Cardinality(Users(i))
      BY <2>1, <2>3, <2>4, <2>5
    <2> QED
      BY <1>0, <1>a, <2>1, <2>6 DEF IdInv, RefCountsExact
  <1>4. IdExclusion'
    BY <1>0, <1>a DEF IdInv, IdTypeOK, IdExclusion
  <1> QED BY <1>1, <1>2, <1>3, <1>4 DEF IdInv

\* The invariant is inductive.
LEMMA NextIInv == IdInv /\ [IdNext]_idVars => IdInv'
  <1> SUFFICES ASSUME IdInv, [IdNext]_idVars PROVE IdInv'
    OBVIOUS
  <1>1. CASE UNCHANGED idVars
    <2>1. UNCHANGED <<table, ref, owners, cpc, id, lockMode, waitKind, ptr>>
      BY <1>1 DEF idVars, callVars
    <2>2. IdTypeOK' /\ IdWhileBusy' /\ EntriesDistinct' /\ PointersAlive'
      BY <2>1 DEF IdInv, IdTypeOK, IdWhileBusy, EntriesDistinct, PointersAlive
    <2>3. OwnersExact' /\ IdExclusion'
      BY <2>1 DEF IdInv, OwnersExact, IdExclusion
    <2>4. RefCountsExact'
      BY <2>1 DEF IdInv, RefCountsExact, Users
    <2> QED BY <2>2, <2>3, <2>4 DEF IdInv
  <1>2. CASE IdNext
    BY <1>2, AcquireEntryIInv, MutexIInv, ReleaseEntryIInv, MoveIInv DEF IdNext
  <1> QED BY <1>1, <1>2

\* Every reachable state satisfies the invariant.
THEOREM LockIdInvariant == IdSpec => []IdInv
  BY InitIInv, NextIInv, PTL DEF IdSpec

\* No caller ever uses the mutex of an entry that was erased: whoever waits on
\* it, owns it or has yet to be counted out finds the entry in the map.
THEOREM NoDanglingPointer == IdSpec => []PointersAlive
  <1>1. IdInv => PointersAlive
    BY DEF IdInv
  <1> QED BY <1>1, LockIdInvariant, PTL

\* ref_count is the number of callers inside and an unused id has no entry.
THEOREM RefCountsAreExact == IdSpec => []RefCountsExact
  <1>1. IdInv => RefCountsExact
    BY DEF IdInv
  <1> QED BY <1>1, LockIdInvariant, PTL

\* Two guards on one id are both shared.
THEOREM GuardsExclude == IdSpec => []IdExclusion
  <1>1. IdInv => IdExclusion
    BY DEF IdInv
  <1> QED BY <1>1, LockIdInvariant, PTL

-----------------------------------------------------------------------------
(* Refinement. *)

\* The guards on an id, with their modes.
GuardsOn(i) ==
  {<<c, lockMode[c]>> : c \in {d \in IdGuards : cpc[d] = "held" /\ id[d] = i}}

\* The lock a newcomer would meet is what the guards on the id hold, whether
\* or not the id has an entry.
HeldExact == heldById = [i \in Ids |-> GuardsOn(i)]

\* The invariant implies it.
LEMMA HeldByGuards == IdInv => HeldExact
  <1> SUFFICES ASSUME IdInv, NEW i \in Ids
               PROVE  heldById[i] = GuardsOn(i)
    BY DEF HeldExact, heldById
  <1>1. CASE table[i] = NoEntry
    BY <1>1 DEF heldById, IdInv, RefCountsExact, Users, GuardsOn
  <1>2. CASE table[i] # NoEntry
    BY <1>2 DEF heldById, IdInv, OwnersExact, GuardsOn
  <1> QED BY <1>1, <1>2

\* A step of LockId changes the guards of one id the way RWLocks allows, or
\* changes none.
LEMMA StepRefines ==
  IdInv /\ HeldExact /\ HeldExact' /\ [IdNext]_idVars => [Locks!Next]_heldById
  <1> SUFFICES ASSUME IdInv, HeldExact, HeldExact', [IdNext]_idVars
               PROVE  [Locks!Next]_heldById
    OBVIOUS
  <1> USE LockIdAssumption
  <1>s. ASSUME \A j \in Ids : GuardsOn(j)' = GuardsOn(j)
        PROVE  UNCHANGED heldById
    BY <1>s DEF HeldExact
  <1>u. ASSUME NEW i \in Ids, NEW S, GuardsOn(i)' = S,
               \A j \in Ids \ {i} : GuardsOn(j)' = GuardsOn(j)
        PROVE  heldById' = [heldById EXCEPT ![i] = S]
    BY <1>u DEF HeldExact
  <1>1. CASE UNCHANGED idVars
    BY <1>1 DEF idVars, callVars, heldById
  <1>2. ASSUME NEW c \in IdGuards,
               cpc'[c] # "held", cpc[c] # "held",
               \A d \in IdGuards \ {c} : /\ cpc'[d] = cpc[d] /\ id'[d] = id[d]
                                         /\ lockMode'[d] = lockMode[d]
        PROVE  UNCHANGED heldById
    BY <1>2, <1>s DEF GuardsOn
  <1>3. ASSUME NEW c \in IdGuards, NEW i \in Ids, NEW m \in LockModes,
               NEW w \in IdWaitKinds, AcquireEntry(c, i, m, w)
        PROVE  UNCHANGED heldById
    BY <1>2, <1>3 DEF AcquireEntry, IdInv, IdTypeOK
  <1>4. ASSUME NEW c \in IdGuards, TryFails(c) \/ ReleaseEntry(c)
        PROVE  UNCHANGED heldById
    BY <1>2, <1>4 DEF TryFails, ReleaseEntry, IdInv, IdTypeOK
  <1>5. ASSUME NEW c \in IdGuards, LockMutex(c)
        PROVE  Locks!Next
    <2>0. id[c] \in Ids /\ lockMode[c] \in Locks!LockModes
      BY <1>5 DEF LockMutex, IdInv, IdTypeOK, IdWhileBusy, LockModes,
                  Locks!LockModes
    <2> PICK i \in Ids : i = id[c]
      BY <2>0
    <2>1. /\ GuardsOn(i)' = GuardsOn(i) \cup {<<c, lockMode[c]>>}
          /\ \A j \in Ids \ {i} : GuardsOn(j)' = GuardsOn(j)
      BY <1>5 DEF LockMutex, GuardsOn, IdInv, IdTypeOK
    <2>2. heldById' = [heldById EXCEPT ![i] = heldById[i] \cup {<<c, lockMode[c]>>}]
      BY <2>1, <1>u DEF HeldExact
    <2>3. Locks!Compatible(i, lockMode[c])
      <3>1. \A d \in IdGuards : (cpc[d] = "held" /\ id[d] = i) =>
              lockMode[d] = "shared" /\ lockMode[c] = "shared"
        BY <1>5 DEF LockMutex, Free, IdInv, OwnersExact, PointersAlive
      <3> QED
        BY <3>1 DEF Locks!Compatible, HeldExact, GuardsOn
    <2> QED
      BY <2>0, <2>2, <2>3 DEF Locks!Next, Locks!Acquire
  <1>6. ASSUME NEW c \in IdGuards, Unlock(c)
        PROVE  Locks!Next
    <2>0. id[c] \in Ids /\ lockMode[c] \in Locks!LockModes
      BY <1>6 DEF Unlock, IdInv, IdTypeOK, IdWhileBusy, LockModes, Locks!LockModes
    <2> PICK i \in Ids : i = id[c]
      BY <2>0
    <2>1. /\ GuardsOn(i)' = GuardsOn(i) \ {<<c, lockMode[c]>>}
          /\ <<c, lockMode[c]>> \in GuardsOn(i)
          /\ \A j \in Ids \ {i} : GuardsOn(j)' = GuardsOn(j)
      BY <1>6 DEF Unlock, GuardsOn, IdInv, IdTypeOK
    <2>2. heldById' = [heldById EXCEPT ![i] = heldById[i] \ {<<c, lockMode[c]>>}]
      BY <2>1, <1>u DEF HeldExact
    <2>3. <<c, lockMode[c]>> \in heldById[i]
      BY <2>1 DEF HeldExact
    <2> QED
      BY <2>0, <2>2, <2>3 DEF Locks!Next, Locks!Release
  <1>7. ASSUME NEW c \in IdGuards, NEW d \in IdGuards, MoveIdGuard(c, d)
        PROVE  Locks!Next
    <2>0. id[c] \in Ids /\ lockMode[c] \in Locks!LockModes /\ c # d
      BY <1>7 DEF MoveIdGuard, IdInv, IdTypeOK, IdWhileBusy, LockModes, Locks!LockModes
    <2> PICK i \in Ids : i = id[c]
      BY <2>0
    <2>1. /\ cpc[c] = "held" /\ cpc[d] = "idle"
          /\ cpc' = [cpc EXCEPT ![c] = "idle", ![d] = "held"]
          /\ id' = [id EXCEPT ![c] = NoEntry, ![d] = i]
          /\ lockMode' = [lockMode EXCEPT ![d] = lockMode[c]]
      BY <1>7 DEF MoveIdGuard
    <2>2. /\ GuardsOn(i)' = (GuardsOn(i) \ {<<c, lockMode[c]>>}) \cup {<<d, lockMode[c]>>}
          /\ <<c, lockMode[c]>> \in GuardsOn(i)
          /\ \A j \in Ids \ {i} : GuardsOn(j)' = GuardsOn(j)
      BY <2>0, <2>1 DEF GuardsOn, IdInv, IdTypeOK
    <2>3. heldById' = [heldById EXCEPT ![i] =
             (heldById[i] \ {<<c, lockMode[c]>>}) \cup {<<d, lockMode[c]>>}]
      BY <2>2, <1>u DEF HeldExact
    <2>4. <<c, lockMode[c]>> \in heldById[i]
      BY <2>2 DEF HeldExact
    <2> QED
      BY <2>0, <2>3, <2>4 DEF Locks!Next, Locks!Pass
  <1> QED
    BY <1>1, <1>3, <1>4, <1>5, <1>6, <1>7 DEF IdNext

\* LockId implements the table of reader/writer locks, for any number of
\* guards, ids and addresses.
THEOREM Refinement == IdSpec => ImplementsRWLocks
  <1>1. IdInit => Locks!Init
    BY DEF IdInit, Locks!Init, heldById
  <1> QED
    BY <1>1, LockIdInvariant, HeldByGuards, StepRefines, PTL
       DEF IdSpec, ImplementsRWLocks, Locks!Spec
=============================================================================
