------------------------ MODULE MCCircuitBreaker ------------------------
(***************************************************************************)
(* Two deliveries of NovuWorkflowService through "novu-api" and "novu",    *)
(* and a subscriber request through "novu" alone.  A tick is 30 s: the     *)
(* reset times are those of the code (30 s outside, 60 s inside), and the  *)
(* thresholds 5 and 3 are scaled down to 2 and 1.                          *)
(***************************************************************************)
EXTENDS CircuitBreaker, TLC

CONSTANTS delivery1, delivery2, subscriber, novuApi, novu

MCCalls == {delivery1, delivery2, subscriber}
MCCircuits == {novuApi, novu}
MCThreshold == (novuApi :> 2) @@ (novu :> 1)
MCResetTime == (novuApi :> 1) @@ (novu :> 2)
MCRoute == [c \in MCCalls |-> IF c = subscriber THEN <<novu>> ELSE <<novuApi, novu>>]
=============================================================================
