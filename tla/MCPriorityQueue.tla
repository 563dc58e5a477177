-------------------------- MODULE MCPriorityQueue --------------------------
(***************************************************************************)
(* The priority queue on small instances: two replicas, as deployed, of    *)
(* one worker each instead of 5, and MAX_RETRIES 3 becomes 1.              *)
(***************************************************************************)
EXTENDS PriorityQueue

CONSTANTS good, bad, replica1, replica2, worker
=============================================================================
