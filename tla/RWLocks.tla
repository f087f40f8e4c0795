------------------------------- MODULE RWLocks -------------------------------
(***************************************************************************)
(* What a table of reader/writer locks promises: one lock per id, held by  *)
(* one writer or by any number of readers.  LockId is shown to implement   *)
(* it.                                                                     *)
(***************************************************************************)
CONSTANTS IdGuards, Ids

LockModes == {"exclusive", "shared"}

VARIABLE held   \* the <<client, mode>> pairs that hold each id

Init == held = [i \in Ids |-> {}]

Compatible(i, m) ==
  \A h \in held[i] : h[2] = "shared" /\ m = "shared"

Acquire(c, i, m) ==
  /\ Compatible(i, m)
  /\ held' = [held EXCEPT ![i] = @ \cup {<<c, m>>}]

Release(c, i, m) ==
  /\ <<c, m>> \in held[i]
  /\ held' = [held EXCEPT ![i] = @ \ {<<c, m>>}]

\* A holder passes its hold on.
Pass(c, d, i, m) ==
  /\ <<c, m>> \in held[i]
  /\ held' = [held EXCEPT ![i] = (@ \ {<<c, m>>}) \cup {<<d, m>>}]

Next ==
  \E c \in IdGuards, i \in Ids, m \in LockModes :
    \/ Acquire(c, i, m)
    \/ Release(c, i, m)
    \/ \E d \in IdGuards : Pass(c, d, i, m)

Spec == Init /\ [][Next]_held
=============================================================================
