----------------------------- MODULE MCProducers -----------------------------
(***************************************************************************)
(* The list of producers of the lock-free queue, with its tokens and hash  *)
(* tables, and the stopping of the priority scheduler.  They share         *)
(* nothing, so a behaviour exercises one of them while the other stays in  *)
(* its initial state, where no fair action is enabled: `part` says which.  *)
(***************************************************************************)
EXTENDS ProducerList, Qos, TLC

CONSTANTS e1, e2, e3, d1, d2   \* enqueuers and readers

VARIABLE part

\* Two of the three threads collide in the hash table.
HashIds_ == (e1 :> 0) @@ (e2 :> 0) @@ (e3 :> 3)
InitialOffsets_ == (d1 :> 0) @@ (d2 :> 1)

\* What a behaviour of the producer list may do: threads that register
\* implicit producers, where an allocation may fail; tokens that come and go;
\* readers, with a token and without, beside tokens and beside an implicit
\* producer.
Bounds_ ==
  LET bound(failures, first, second, made, added) ==
        [failures |-> failures, tries |-> (d1 :> first) @@ (d2 :> second),
         tokens |-> made, adds |-> added]
  IN {bound(1, 0, 0, 0, 3), bound(1, 0, 0, 4, 0), bound(0, 2, 0, 2, 0),
      bound(0, 0, 1, 2, 0), bound(0, 1, 1, 0, 1)}

\* One level in use, of quota one.
Level_ == [i \in Items |-> 0]
Quota_ == [l \in 0..(Levels - 1) |-> l + 1]

Init ==
  /\ part \in {"list", "qos"}
  /\ QosInit
  /\ ProducerListInit
  /\ part # "list" => left = CHOOSE b \in Bounds : TRUE

Next ==
  /\ UNCHANGED part
  /\ \/ part = "list" /\ ProducerListNext /\ UNCHANGED qosVars
     \/ part = "qos" /\ QosNext /\ UNCHANGED producerListVars

Spec ==
  /\ Init
  /\ [][Next]_<<producerListVars, qosVars, part>>
  /\ ProducerListFairness
  /\ QosFairness

\* Calls on the list return, also when the thread that resizes the hash fails
\* while others wait for it, and Stop of the scheduler does, paused or not.
WaitsEnd == CallsReturn /\ StopReturns
=============================================================================
