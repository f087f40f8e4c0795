---------------------------- MODULE MCConcurrency ----------------------------
(***************************************************************************)
(* The range lock, the thread pool and the priority scheduler, for their   *)
(* safety properties.  They share nothing, so a behaviour exercises one of *)
(* them while the others stay as they are: `part` says which.  The         *)
(* configuration gives the components the same threads, so that one        *)
(* exchange of names is a symmetry of all of them.                         *)
(***************************************************************************)
EXTENDS LockRange, ThreadPool, Qos, TLC

CONSTANTS i1, i2, i3

VARIABLE part

allVars == <<vars, poolVars, qosVars, part>>

\* [0,2) and [1,3) overlap, [2,3) touches the first and lies in the second.
Ranges_ == {<<0, 2>>, <<1, 2>>, <<2, 1>>}

\* All items on the lower level, so that two producers can race for its limit
\* behind an item that is in already.
Items_ == {i1, i2, i3}
Level_ == [i \in Items |-> 0]
Quota_ == [l \in 0..(Levels - 1) |-> l + 1]

\* Clients, producers and threads; tasks and consumers; items.
Symmetry ==
  Permutations(Clients) \cup Permutations(Tasks) \cup Permutations(Items)

AllInit ==
  /\ part \in {"ranges", "pool", "qos"}
  /\ Init /\ PoolInit /\ QosInit
  /\ part # "qos" => policy = CHOOSE p \in OverflowPolicies : TRUE

AllNext ==
  /\ UNCHANGED part
  /\ \/ /\ part = "ranges" /\ Next
        /\ UNCHANGED <<poolVars, qosVars>>
     \/ /\ part = "pool" /\ PoolNext
        /\ UNCHANGED <<vars, qosVars>>
     \/ /\ part = "qos" /\ QosNext
        /\ UNCHANGED <<vars, poolVars>>

AllSpec == AllInit /\ [][AllNext]_allVars
=============================================================================
