--------------------------- MODULE MCRetryWorker ---------------------------
(***************************************************************************)
(* The retry worker on small instances.  Both circuits open at the first   *)
(* failure, for one tick: how circuits with different thresholds and reset *)
(* times work together is the question of MCCircuitBreaker.                *)
(***************************************************************************)
EXTENDS RetryWorker, TLC

CONSTANTS first, second, cron1, cron2, caller, replica1, replica2, novuApi, novu

MCCircuits == {novuApi, novu}
SmallestThreshold == (novuApi :> 1) @@ (novu :> 1)
SmallestResetTime == (novuApi :> 1) @@ (novu :> 1)

OneReplica == [w \in Workers |-> replica1]
TwoReplicas == [w \in Workers |-> IF w = cron1 THEN replica1 ELSE replica2]

MCPriority == [n \in Notifs |-> IF n = first THEN "normal" ELSE "urgent"]
MCCreatedAt == [n \in Notifs |-> IF n = first THEN 1 ELSE 2]
=============================================================================
