------------------------------- MODULE LockId -------------------------------
(***************************************************************************)
(* The per-id lock of yacul/concurrency/lock_id.h.                         *)
(*                                                                         *)
(* The map from ids to heap-allocated LockEntry objects is split into      *)
(* shards, each with its mutex.  One action is one critical section of a   *)
(* shard mutex (AcquireEntry, ReleaseEntry) or one operation on an entry's *)
(* shared_timed_mutex; between them a caller keeps a raw pointer to the    *)
(* entry, which only the reference count keeps alive.  Heap addresses are  *)
(* reused as soon as an entry is erased.                                   *)
(*                                                                         *)
(* A client is one guard object with the call that fills it.  Ids in       *)
(* different shards never share an entry, so sharding does not show (the   *)
(* diagnostic ActiveEntryCount, which sums the shards, is left out).       *)
(***************************************************************************)
EXTENDS Integers, FiniteSets

CONSTANTS IdGuards,   \* guard objects
          Ids,       \* the ids that are locked
          Addrs,     \* heap addresses of LockEntry objects
          NoEntry    \* no entry, no id, a null pointer

LockModes == {"exclusive", "shared"}

\* Lock and LockShared block; the Try variants may return an empty guard.
IdWaitKinds == {"block", "try"}

ASSUME LockIdAssumption ==
  /\ IsFiniteSet(IdGuards)
  /\ NoEntry \notin Ids /\ NoEntry \notin Addrs

VARIABLES table,     \* the shards' maps: id to address
          ref,       \* ref_count of the entry at an address
          owners,    \* who owns the entry's mutex
          cpc,       \* where each client is
          id,        \* the id of the client's call or guard
          lockMode,  \* exclusive (LockIdGuard) or shared (LockIdSharedGuard)
          waitKind,  \* whether the call may fail
          ptr        \* the caller's pointer to the entry

callVars == <<cpc, id, lockMode, waitKind, ptr>>
idVars == <<table, ref, owners, callVars>>

IdInit ==
  /\ table = [i \in Ids |-> NoEntry]
  /\ ref = [a \in Addrs |-> 0]
  /\ owners = [a \in Addrs |-> {}]
  /\ cpc = [c \in IdGuards |-> "idle"]
  /\ id = [c \in IdGuards |-> NoEntry]
  /\ lockMode = [c \in IdGuards |-> "shared"]
  /\ waitKind = [c \in IdGuards |-> "block"]
  /\ ptr = [c \in IdGuards |-> NoEntry]

Live(a) == \E i \in Ids : table[i] = a

\* Mutant: a caller that finds an entry is not counted.
AcquireEntry_CountsCreatorOnly(c, i, m, w) ==
  /\ cpc[c] = "idle"
  /\ \/ /\ table[i] = NoEntry
        /\ \E a \in Addrs : /\ ~Live(a)
                            /\ table' = [table EXCEPT ![i] = a]
                            /\ ref' = [ref EXCEPT ![a] = 1]
                            /\ owners' = [owners EXCEPT ![a] = {}]
     \/ table[i] # NoEntry /\ UNCHANGED <<table, ref, owners>>
  /\ cpc' = [cpc EXCEPT ![c] = "locking"]
  /\ id' = [id EXCEPT ![c] = i]
  /\ lockMode' = [lockMode EXCEPT ![c] = m]
  /\ waitKind' = [waitKind EXCEPT ![c] = w]
  /\ ptr' = [ptr EXCEPT ![c] = table'[i]]

\* AcquireEntry, under the shard mutex: find or create the entry and count the
\* caller in.
AcquireEntry(c, i, m, w) ==
  /\ cpc[c] = "idle"
  /\ \/ /\ table[i] = NoEntry
        /\ \E a \in Addrs : /\ ~Live(a)
                            /\ table' = [table EXCEPT ![i] = a]
                            /\ ref' = [ref EXCEPT ![a] = 1]
                            /\ owners' = [owners EXCEPT ![a] = {}]
     \/ /\ table[i] # NoEntry
        /\ ref' = [ref EXCEPT ![table[i]] = @ + 1]
        /\ UNCHANGED <<table, owners>>
  /\ cpc' = [cpc EXCEPT ![c] = "locking"]
  /\ id' = [id EXCEPT ![c] = i]
  /\ lockMode' = [lockMode EXCEPT ![c] = m]
  /\ waitKind' = [waitKind EXCEPT ![c] = w]
  /\ ptr' = [ptr EXCEPT ![c] = table'[i]]

\* shared_timed_mutex: lock or lock_shared, or a try that succeeds.
Free(a, m) == \A d \in owners[a] : lockMode[d] = "shared" /\ m = "shared"

LockMutex(c) ==
  /\ cpc[c] = "locking"
  /\ Free(ptr[c], lockMode[c])
  /\ owners' = [owners EXCEPT ![ptr[c]] = @ \cup {c}]
  /\ cpc' = [cpc EXCEPT ![c] = "held"]
  /\ UNCHANGED <<table, ref, id, lockMode, waitKind, ptr>>

\* Mutant: a failed try returns without ReleaseEntry.
TryFails_NoRelease(c) ==
  /\ cpc[c] = "locking"
  /\ waitKind[c] = "try"
  /\ cpc' = [cpc EXCEPT ![c] = "idle"]
  /\ id' = [id EXCEPT ![c] = NoEntry]
  /\ ptr' = [ptr EXCEPT ![c] = NoEntry]
  /\ UNCHANGED <<table, ref, owners, lockMode, waitKind>>

\* try_lock and try_lock_until may fail, even spuriously.
TryFails(c) ==
  /\ cpc[c] = "locking"
  /\ waitKind[c] = "try"
  /\ cpc' = [cpc EXCEPT ![c] = "releasing"]
  /\ UNCHANGED <<table, ref, owners, id, lockMode, waitKind, ptr>>

\* ReleaseExclusive and ReleaseShared up to ReleaseEntry.
Unlock(c) ==
  /\ cpc[c] = "held"
  /\ owners' = [owners EXCEPT ![ptr[c]] = @ \ {c}]
  /\ cpc' = [cpc EXCEPT ![c] = "releasing"]
  /\ UNCHANGED <<table, ref, id, lockMode, waitKind, ptr>>

\* Mutant: the entry is erased whoever else uses it.
ReleaseEntry_AlwaysErases(c) ==
  /\ cpc[c] = "releasing"
  /\ table[id[c]] # NoEntry
  /\ ref' = [ref EXCEPT ![table[id[c]]] = @ - 1]
  /\ table' = [table EXCEPT ![id[c]] = NoEntry]
  /\ cpc' = [cpc EXCEPT ![c] = "idle"]
  /\ id' = [id EXCEPT ![c] = NoEntry]
  /\ ptr' = [ptr EXCEPT ![c] = NoEntry]
  /\ UNCHANGED <<owners, lockMode, waitKind>>

\* ReleaseEntry, under the shard mutex: it looks the entry up by id again.
\* The code would do nothing if there were none; RefCountsExact rules that out.
ReleaseEntry(c) ==
  /\ cpc[c] = "releasing"
  /\ table[id[c]] # NoEntry
  /\ ref' = [ref EXCEPT ![table[id[c]]] = @ - 1]
  /\ \/ ref'[table[id[c]]] = 0 /\ table' = [table EXCEPT ![id[c]] = NoEntry]
     \/ ref'[table[id[c]]] # 0 /\ UNCHANGED table
  /\ cpc' = [cpc EXCEPT ![c] = "idle"]
  /\ id' = [id EXCEPT ![c] = NoEntry]
  /\ ptr' = [ptr EXCEPT ![c] = NoEntry]
  /\ UNCHANGED <<owners, lockMode, waitKind>>

\* The guards' move constructor, and their move assignment once the target has
\* been released: d takes over what c holds.
MoveIdGuard(c, d) ==
  /\ cpc[c] = "held" /\ cpc[d] = "idle"
  /\ cpc' = [cpc EXCEPT ![c] = "idle", ![d] = "held"]
  /\ id' = [id EXCEPT ![c] = NoEntry, ![d] = id[c]]
  /\ lockMode' = [lockMode EXCEPT ![d] = lockMode[c]]
  /\ ptr' = [ptr EXCEPT ![c] = NoEntry, ![d] = ptr[c]]
  /\ owners' = [owners EXCEPT ![ptr[c]] = (@ \ {c}) \cup {d}]
  /\ UNCHANGED <<table, ref, waitKind>>

IdNext ==
  \E c \in IdGuards :
    \/ \E i \in Ids, m \in LockModes, w \in IdWaitKinds : AcquireEntry(c, i, m, w)
    \/ LockMutex(c)
    \/ TryFails(c)
    \/ Unlock(c)
    \/ ReleaseEntry(c)
    \/ \E d \in IdGuards : MoveIdGuard(c, d)

IdSpec == IdInit /\ [][IdNext]_idVars

-----------------------------------------------------------------------------
(* Properties. *)

\* The range of every variable.
IdTypeOK ==
  /\ table \in [Ids -> Addrs \cup {NoEntry}]
  /\ ref \in [Addrs -> Nat]
  /\ owners \in [Addrs -> SUBSET IdGuards]
  /\ cpc \in [IdGuards -> {"idle", "locking", "held", "releasing"}]
  /\ id \in [IdGuards -> Ids \cup {NoEntry}]
  /\ lockMode \in [IdGuards -> LockModes]
  /\ waitKind \in [IdGuards -> IdWaitKinds]
  /\ ptr \in [IdGuards -> Addrs \cup {NoEntry}]

\* A caller's raw pointer is the entry the map has for its id: the entry is
\* neither erased nor replaced while some caller waits on its mutex, holds it
\* or has yet to be counted out.
PointersAlive ==
  \A c \in IdGuards : cpc[c] # "idle" => ptr[c] # NoEntry /\ table[id[c]] = ptr[c]

Users(i) == {c \in IdGuards : id[c] = i}

\* ref_count is the number of callers inside, and the map has no entry for an
\* id that nobody uses: ReleaseEntry erases neither too early nor too late.
RefCountsExact ==
  \A i \in Ids :
    IF table[i] = NoEntry THEN Users(i) = {}
    ELSE Users(i) # {} /\ ref[table[i]] = Cardinality(Users(i))

\* Guards on one id are one exclusive guard or only shared ones.
IdExclusion ==
  \A c, d \in IdGuards :
    (c # d /\ cpc[c] = "held" /\ cpc[d] = "held" /\ id[c] = id[d])
      => lockMode[c] = "shared" /\ lockMode[d] = "shared"

\* Who holds an id, read off its entry: the lock a newcomer would meet.
heldById ==
  [i \in Ids |-> IF table[i] = NoEntry THEN {}
                 ELSE {<<c, lockMode[c]>> : c \in owners[table[i]]}]

Locks == INSTANCE RWLocks WITH held <- heldById

\* LockId is a table of reader/writer locks: creating, counting and erasing
\* table never makes a lock, or the fact that it is held, disappear.
ImplementsRWLocks == Locks!Spec
=============================================================================
