------------------------------ MODULE LockRange ------------------------------
(***************************************************************************)
(* The range lock of yacul/concurrency/lock_range.{h,cc}.                  *)
(*                                                                         *)
(* Every public operation runs under mu_, which is given up only inside    *)
(* cv_.wait and cv_.wait_until, so one action is one critical section: a   *)
(* call up to its return or its first wait, one turn of the wait loop, or  *)
(* a release.  Guard objects are not shared between threads without        *)
(* synchronisation, so what an operation does to a guard outside mu_ is    *)
(* part of the same action.                                                *)
(*                                                                         *)
(* entries_ is a map keyed by (offset, id) whose ids are never looked up:  *)
(* a release or an upgrade takes the first entry equal in offset, end and  *)
(* mode.  Entries equal in those fields are interchangeable, so entries    *)
(* counts them.  InsertEntry sets share_count to 1 and nothing raises it,  *)
(* so the two branches that decrement it are dead and an entry always      *)
(* stands for one holder.                                                  *)
(***************************************************************************)
EXTENDS Integers, FiniteSets

CONSTANTS Threads,   \* client threads
          Writers,   \* the threads that may ask for exclusive access
          Slots,     \* each thread owns one Guard object per slot
          U64Max,    \* numeric_limits<uint64_t>::max()
          Ranges,    \* the <<offset, length>> pairs clients ask for
          Waits,     \* the acquisition variants clients call
          Null       \* a null owner_, and no pending call

Modes == {"kShared", "kExclusive"}

\* Lock waits forever, TryLockUntil and TryLockFor until a deadline, TryLock
\* not at all.
WaitKinds == {"kForever", "deadline", "no_wait"}

\* What the CHECKs of ValidateRange demand; a caller that breaks them aborts.
ValidateRange(offset, length) == length # 0 /\ offset <= U64Max - length

Requests == {[offset |-> rg[1], end |-> rg[1] + rg[2], mode |-> m] :
               rg \in Ranges, m \in Modes}

Guards == Threads \X Slots

ASSUME LockRangeAssumption ==
  /\ IsFiniteSet(Threads) /\ IsFiniteSet(Slots)
  /\ Writers \subseteq Threads
  /\ U64Max \in Nat
  /\ Ranges \subseteq Nat \X Nat
  /\ \A rg \in Ranges : ValidateRange(rg[1], rg[2])
  /\ Waits \subseteq WaitKinds
  /\ Null \notin Requests

VARIABLES entries,   \* entries_: how many entries there are for each request
          waiters,   \* waiters_: the threads whose Waiter is registered
          guard,     \* what each valid Guard says it holds, Null if invalid
          pc,        \* idle, asleep on cv_, or notified and not yet running
          call       \* the pending call of a thread that is not idle

vars == <<entries, waiters, guard, pc, call>>

Calls == [guard : Guards, req : Requests, wait : WaitKinds]

Init ==
  /\ entries = [r \in Requests |-> 0]
  /\ waiters = {}
  /\ guard = [g \in Guards |-> Null]
  /\ pc = [t \in Threads |-> "idle"]
  /\ call = [t \in Threads |-> Null]

-----------------------------------------------------------------------------
(* The helpers that run under mu_. *)

Overlaps(a, b) == a.offset < b.end /\ b.offset < a.end

\* Mutant: only an exclusive request is checked against the holders.
HasConflict_RequestOnly(es, r) ==
  \E e \in Requests : es[e] > 0 /\ Overlaps(e, r) /\ r.mode = "kExclusive"

\* The scan stops at the first key at or past the end of the request.
HasConflict(es, r) ==
  \E e \in Requests : /\ es[e] > 0
                      /\ e.offset < r.end
                      /\ Overlaps(e, r)
                      /\ r.mode = "kExclusive" \/ e.mode = "kExclusive"

ExclusiveWaiterExists(r) ==
  \E t \in waiters : /\ call[t].req.mode = "kExclusive"
                     /\ Overlaps(call[t].req, r)

\* Mutant: no writer preference.
CanGrant_NoPreference(es, r) == ~HasConflict(es, r)

CanGrant(es, r) ==
  /\ r.mode = "kShared" => ~ExclusiveWaiterExists(r)
  /\ ~HasConflict(es, r)

\* IsLockedAny adds offset and length in uint64_t with no overflow check.
IsLockedAny(offset, length) ==
  LET q == [offset |-> offset, end |-> (offset + length) % (U64Max + 1)]
  IN  /\ length # 0
      /\ \E e \in Requests : entries[e] > 0 /\ e.offset < q.end /\ Overlaps(e, q)

\* The same range, asked for exclusively.
Exclusively(r) ==
  [offset |-> r.offset, end |-> r.end, mode |-> "kExclusive"]

InsertEntry(es, r) == [es EXCEPT ![r] = @ + 1]

EraseEntry(es, r) == [es EXCEPT ![r] = @ - 1]

\* cv_.notify_all()
NotifyAll == [t \in Threads |-> IF pc[t] = "asleep" THEN "notified" ELSE pc[t]]

\* WaitLoop up to its return or its first wait; es and ps are entries_ and
\* the threads' states as the caller left them.
WaitLoop(t, c, es, ps) ==
  \/ /\ CanGrant(es, c.req)
     /\ entries' = InsertEntry(es, c.req)
     /\ guard' = [guard EXCEPT ![c.guard] = c.req]
     /\ pc' = ps
     /\ UNCHANGED <<waiters, call>>
  \/ /\ ~CanGrant(es, c.req)
     /\ c.wait = "no_wait"
     /\ UNCHANGED vars
  \/ /\ ~CanGrant(es, c.req)
     /\ c.wait # "no_wait"
     /\ entries' = es
     /\ waiters' = waiters \cup {t}
     /\ pc' = [ps EXCEPT ![t] = "asleep"]
     /\ call' = [call EXCEPT ![t] = c]
     /\ UNCHANGED guard

\* A waiter leaves WaitLoop: its Waiter is unregistered and its call returns.
\* Nobody is notified.
LeaveWaitLoop(t) ==
  /\ waiters' = waiters \ {t}
  /\ pc' = [pc EXCEPT ![t] = "idle"]
  /\ call' = [call EXCEPT ![t] = Null]

-----------------------------------------------------------------------------
(* The operations. *)

\* Lock, TryLockUntil, TryLockFor and TryLock: the guard they return is a new
\* object, here one of the caller's empty slots.
Lock(t, g, r, w) ==
  /\ pc[t] = "idle"
  /\ g[1] = t /\ guard[g] = Null
  /\ r.mode = "kExclusive" => t \in Writers
  /\ WaitLoop(t, [guard |-> g, req |-> r, wait |-> w], entries, pc)

\* Guard::Upgrade and UpgradeUntil on a valid shared guard: the entry is given
\* up first, then the thread competes for the exclusive one.  A missing entry
\* is LOG(FATAL); an exclusive guard returns kInvalid and changes nothing.
Upgrade(t, g, w) ==
  /\ pc[t] = "idle"
  /\ t \in Writers
  /\ w # "no_wait"
  /\ g[1] = t /\ guard[g] # Null
  /\ guard[g].mode = "kShared"
  /\ entries[guard[g]] > 0
  /\ WaitLoop(t, [guard |-> g, wait |-> w,
                  req |-> Exclusively(guard[g])],
              EraseEntry(entries, guard[g]), NotifyAll)

\* A woken waiter, by a notification or spuriously, tests the loop condition
\* again and acquires or goes back to sleep.  The test after the waiter is
\* unregistered sees the same entries and the same other waiters, and a
\* request's own Waiter never counts against it: it repeats the answer.
Resume(t) ==
  /\ pc[t] = "notified"
  /\ \/ /\ CanGrant(entries, call[t].req)
        /\ entries' = InsertEntry(entries, call[t].req)
        /\ guard' = [guard EXCEPT ![call[t].guard] = call[t].req]
        /\ LeaveWaitLoop(t)
     \/ /\ ~CanGrant(entries, call[t].req)
        /\ pc' = [pc EXCEPT ![t] = "asleep"]
        /\ UNCHANGED <<entries, waiters, guard, call>>

\* Mutant: a refused upgrade leaves the guard valid.
Timeout_KeepsGuard(t) ==
  /\ pc[t] # "idle"
  /\ call[t].wait = "deadline"
  /\ LeaveWaitLoop(t)
  /\ \/ /\ CanGrant(entries, call[t].req)
        /\ entries' = InsertEntry(entries, call[t].req)
        /\ guard' = [guard EXCEPT ![call[t].guard] = call[t].req]
     \/ /\ ~CanGrant(entries, call[t].req)
        /\ UNCHANGED <<entries, guard>>

\* wait_until reports a timeout: the request is tried once more, and a refused
\* upgrade leaves its guard invalid.  A refused TryLockUntil returns Guard{}.
Timeout(t) ==
  /\ pc[t] # "idle"
  /\ call[t].wait = "deadline"
  /\ LeaveWaitLoop(t)
  /\ \/ /\ CanGrant(entries, call[t].req)
        /\ entries' = InsertEntry(entries, call[t].req)
        /\ guard' = [guard EXCEPT ![call[t].guard] = call[t].req]
     \/ /\ ~CanGrant(entries, call[t].req)
        /\ guard' = [guard EXCEPT ![call[t].guard] = Null]
        /\ UNCHANGED entries

\* The condition variable may wake a thread for no reason.
SpuriousWakeup(t) ==
  /\ pc[t] = "asleep"
  /\ pc' = [pc EXCEPT ![t] = "notified"]
  /\ UNCHANGED <<entries, waiters, guard, call>>

\* Mutant: a release wakes nobody.
DoRelease_NoNotify(r) ==
  /\ entries[r] > 0
  /\ entries' = EraseEntry(entries, r)
  /\ UNCHANGED pc

\* DoRelease: erase the first entry equal to the guard and notify.  The code
\* would do nothing if it found none; EntriesMatchGuards rules that out.
DoRelease(r) ==
  /\ entries[r] > 0
  /\ entries' = EraseEntry(entries, r)
  /\ pc' = NotifyAll

\* Guard::Release, and the destructor of a valid guard.
Release(t, g) ==
  /\ pc[t] = "idle"
  /\ g[1] = t /\ guard[g] # Null
  /\ guard' = [guard EXCEPT ![g] = Null]
  /\ DoRelease(guard[g])
  /\ UNCHANGED <<waiters, call>>

\* Guard's move assignment, g = std::move(h), and its move constructor when g
\* is empty.  h may come from another thread that is not inside a call on it.
Move(t, g, h) ==
  /\ pc[t] = "idle" /\ pc[h[1]] = "idle"
  /\ g[1] = t /\ g # h
  /\ guard[h] # Null \/ guard[g] # Null
  /\ guard' = [guard EXCEPT ![g] = guard[h], ![h] = Null]
  /\ \/ guard[g] = Null /\ UNCHANGED <<entries, pc>>
     \/ guard[g] # Null /\ DoRelease(guard[g])
  /\ UNCHANGED <<waiters, call>>

Next ==
  \E t \in Threads :
    \/ \E g \in Guards :
         \/ \E r \in Requests, w \in Waits : Lock(t, g, r, w)
         \/ \E w \in Waits : Upgrade(t, g, w)
         \/ Release(t, g)
         \/ \E h \in Guards : Move(t, g, h)
    \/ Resume(t)
    \/ Timeout(t)
    \/ SpuriousWakeup(t)

Spec == Init /\ [][Next]_vars

\* A runnable thread runs and a deadline passes.
Scheduling == \A t \in Threads : WF_vars(Resume(t)) /\ WF_vars(Timeout(t))

\* Clients may hold a guard for ever.
FairSpec == Spec /\ Scheduling

\* Clients that let go of what they hold, whichever guard it was moved to.
Releasing ==
  \A r \in Requests :
    WF_vars(\E t \in Threads, g \in Guards : guard[g] = r /\ Release(t, g))

-----------------------------------------------------------------------------
(* Properties. *)

\* The range of every variable.
TypeOK ==
  /\ entries \in [Requests -> Nat]
  /\ waiters \subseteq Threads
  /\ guard \in [Guards -> Requests \cup {Null}]
  /\ pc \in [Threads -> {"idle", "asleep", "notified"}]
  /\ call \in [Threads -> Calls \cup {Null}]

\* waiters_ points to the Waiter of a thread exactly while that thread is
\* inside WaitLoop: the descriptors live on the waiters' stacks, so one left
\* behind by an early exit would be read after its frame is gone.
WaitersAreInside == waiters = {t \in Threads : pc[t] # "idle"}

\* What each guard really holds: nothing while an upgrade of it is pending.
hold == [g \in Guards |-> IF \E t \in waiters : call[t].guard = g THEN Null
                                                               ELSE guard[g]]

\* There are as many entries for a range and a mode as guards that hold it.
\* Releases and upgrades take any equal entry, so this is what makes a release
\* find one (DoRelease would silently leave the range locked for ever) and
\* keeps UpgradeUntil from its LOG(FATAL).
EntriesMatchGuards ==
  \A r \in Requests : entries[r] = Cardinality({g \in Guards : hold[g] = r})

\* What the lock is for: two guards on overlapping ranges are both shared,
\* whatever upgrades, moves and timeouts came before.
NoConflictingHolders ==
  \A g, h \in Guards :
    (g # h /\ hold[g] # Null /\ hold[h] # Null /\ Overlaps(hold[g], hold[h]))
      => hold[g].mode = "kShared" /\ hold[h].mode = "kShared"

\* No thread sleeps on cv_ while its request could be granted.  It holds when
\* no client uses a deadline: then every change that makes a request grantable
\* notifies.
GrantableIsAwake ==
  \A t \in Threads : pc[t] = "asleep" => ~CanGrant(entries, call[t].req)

\* lock_range.h:128 of Lock, "Blocks indefinitely until the lock can be
\* granted": a request does not stay grantable for ever with its thread asleep.
BlocksUntilGrantable ==
  \A t \in Threads :
    []<>~(pc[t] = "asleep" /\ CanGrant(entries, call[t].req))

\* lock_range.h:27, "Writer preference policy prevents writer starvation": when
\* holders release, the only writer gets its range however often readers of
\* overlapping ranges come back.
WriterNotStarved ==
  \A t \in Writers : pc[t] # "idle" ~> pc[t] = "idle"

\* IsLockedAny(offset, length) is true exactly when a guard holds some byte of
\* [offset, offset + length), for the ranges that ValidateRange accepts.
IsLockedAnyExact ==
  \A offset, length \in 0..U64Max :
    ValidateRange(offset, length) =>
      (IsLockedAny(offset, length) <=>
         \E g \in Guards :
           hold[g] # Null /\ Overlaps(hold[g], [offset |-> offset,
                                               end |-> offset + length]))
=============================================================================
