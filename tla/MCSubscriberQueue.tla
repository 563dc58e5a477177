------------------------- MODULE MCSubscriberQueue -------------------------
(***************************************************************************)
(* The subscriber queue on small instances: CONCURRENCY 3, MAX_RETRIES 5   *)
(* and the threshold 10 of the pause become 2, 2 and 3.                    *)
(***************************************************************************)
EXTENDS SubscriberQueue

CONSTANTS anna, ben, replica1, replica2

Create(u) == [kind |-> "create", user |-> u]
Change(u) == [kind |-> "update", user |-> u]

MCArrivals == <<Create(anna), Change(ben), Change(anna)>>
=============================================================================
