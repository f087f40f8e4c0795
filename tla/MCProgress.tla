------------------------------ MODULE MCProgress ------------------------------
(***************************************************************************)
(* The locks, the token bucket and the thread pool: what they implement    *)
(* and what must eventually happen.  They share nothing, so a behaviour    *)
(* exercises one of them while the others stay in their initial states:    *)
(* `part` says which.  No fair action is enabled there except those of the *)
(* pool's workers: their fairness is asked for only where the pool runs.   *)
(***************************************************************************)
EXTENDS LockRange, LockId, Spinlock, TokenBucket, ThreadPool

VARIABLE part

allVars == <<vars, idVars, spinVars, bucketVars, poolVars, part>>

Ranges_ == {<<0, 2>>, <<1, 2>>, <<2, 1>>}

AllInit ==
  /\ part \in {"ranges", "ids", "spin", "bucket", "pool"}
  /\ Init /\ IdInit /\ SpinInit /\ BucketInit /\ PoolInit

AllNext ==
  /\ UNCHANGED part
  /\ \/ /\ part = "ranges" /\ Next
        /\ UNCHANGED <<idVars, spinVars, bucketVars, poolVars>>
     \/ /\ part = "ids" /\ IdNext
        /\ UNCHANGED <<vars, spinVars, bucketVars, poolVars>>
     \/ /\ part = "spin" /\ SpinNext
        /\ UNCHANGED <<vars, idVars, bucketVars, poolVars>>
     \/ /\ part = "bucket" /\ BucketNext
        /\ UNCHANGED <<vars, idVars, spinVars, poolVars>>
     \/ /\ part = "pool" /\ PoolNext
        /\ UNCHANGED <<vars, idVars, spinVars, bucketVars>>

AllSpec ==
  /\ AllInit
  /\ [][AllNext]_allVars
  /\ Scheduling
  /\ Releasing
  /\ \A w \in Workers : SF_poolVars(part = "pool" /\ WorkerStep(w))
  /\ \A c \in Clients : SF_poolVars(part = "pool" /\ ClientStep(c))
=============================================================================
