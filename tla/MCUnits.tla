-------------------------------- MODULE MCUnits --------------------------------
(***************************************************************************)
(* The small units of the asynchronous layer, checked in one run: a        *)
(* behaviour exercises one of them, chosen by the initial state.           *)
(***************************************************************************)
EXTENDS TaskQueue, AsyncBufferPool, IOBufferPool, ModelThreadPool, SyncBarriers

CONSTANTS c1, c2, i1, i2, i3
MCCallOf == (i1 :> c1) @@ (i2 :> c1) @@ (i3 :> c2)

VARIABLE unit

unitVars == <<unit, queueVars, blockVars, bucketVars, modelVars, barrierVars>>

UnitsInit ==
  /\ unit \in {"queue", "blocks", "buckets", "model", "barriers"}
  /\ QueueInit /\ BlocksInit /\ BucketsInit /\ ModelInit /\ BarriersInit

UnitsNext ==
  /\ UNCHANGED unit
  /\ \/ /\ unit = "queue" /\ QueueNext
        /\ UNCHANGED <<blockVars, bucketVars, modelVars, barrierVars>>
     \/ /\ unit = "blocks" /\ BlocksNext
        /\ UNCHANGED <<queueVars, bucketVars, modelVars, barrierVars>>
     \/ /\ unit = "buckets" /\ BucketsNext
        /\ UNCHANGED <<queueVars, blockVars, modelVars, barrierVars>>
     \/ /\ unit = "model" /\ ModelNext
        /\ UNCHANGED <<queueVars, blockVars, bucketVars, barrierVars>>
     \/ /\ unit = "barriers" /\ BarriersNext
        /\ UNCHANGED <<queueVars, blockVars, bucketVars, modelVars>>

UnitsSpec == UnitsInit /\ [][UnitsNext]_unitVars
=============================================================================
