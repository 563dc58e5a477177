---------------------------- MODULE MCRetryAdmin ----------------------------
(***************************************************************************)
(* The retry worker and administrators.  Both circuits open at the first   *)
(* failure, for one tick.                                                  *)
(***************************************************************************)
EXTENDS RetryAdmin, TLC

CONSTANTS first, second, cron1, admin, replica1, novuApi, novu

MCCircuits == {novuApi, novu}
MCThreshold == (novuApi :> 1) @@ (novu :> 1)
MCResetTime == (novuApi :> 1) @@ (novu :> 1)

OneReplica == [w \in Workers |-> replica1]

MCPriority == [n \in Notifs |-> IF n = first THEN "normal" ELSE "urgent"]
MCCreatedAt == [n \in Notifs |-> IF n = first THEN 1 ELSE 2]
=============================================================================
