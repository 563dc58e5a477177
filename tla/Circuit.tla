------------------------------ MODULE Circuit ------------------------------
(***************************************************************************)
(* The transitions of one named circuit of CircuitBreakerService and of a  *)
(* call that runs through several nested circuits.                         *)
(*                                                                         *)
(* NovuWorkflowService.triggerWorkflow runs inside the circuit "novu-api"  *)
(* and calls NovuClient, which opens a second execute() on the circuit     *)
(* "novu"; NotificationProcessingService puts a third one, "novu-workflow",*)
(* around both.  All of execute() up to its first await runs in one        *)
(* JavaScript job, so a call enters, or is refused by, its whole chain in  *)
(* one step; the chain settles inner circuit first in one burst of         *)
(* microtasks, which is one step too.                                      *)
(*                                                                         *)
(* nextAttempt is kept as the time left, `wait`: Date.now() < nextAttempt  *)
(* is wait > 0.  failureCount saturates at the threshold: the code only    *)
(* compares it with the threshold and resets it.                           *)
(***************************************************************************)
EXTENDS Naturals, Sequences

CONSTANTS Circuits,     \* the names of the circuits
          Threshold,    \* failureThreshold of each circuit
          ResetTime     \* resetTimeout of each circuit, in ticks

ASSUME CircuitAssumption ==
    /\ Threshold \in [Circuits -> Nat \ {0}]
    /\ ResetTime \in [Circuits -> Nat \ {0}]

CircuitState == [state: {"CLOSED", "OPEN", "HALF_OPEN"}, failureCount: Nat, wait: Nat]

\* A circuit as getOrCreateCircuit makes it; a circuit not yet created behaves the same.
Fresh == [state |-> "CLOSED", failureCount |-> 0, wait |-> 0]

\* Mutant: nextAttempt is never compared, an OPEN circuit refuses for ever.
Refuses_Forever(k) == k.state = "OPEN"

\* execute() throws "Circuit breaker ... is OPEN" without running the operation.
Refuses(k) == k.state = "OPEN" /\ k.wait > 0

\* execute(), and isCircuitOpen() when it answers FALSE: an OPEN circuit whose
\* reset time is over becomes HALF_OPEN.  Any number of calls may then enter.
Admitted(k) == IF k.state = "OPEN" THEN [k EXCEPT !.state = "HALF_OPEN"] ELSE k

\* A success closes the circuit whatever its state: one that a call of before
\* the opening reports late closes an OPEN circuit.
OnSuccess(k) == [state |-> "CLOSED", failureCount |-> 0, wait |-> k.wait]

\* Mutant: failureCount > failureThreshold.
OnFailure_OneMore(n, k) ==
    LET count == k.failureCount + 1
    IN  IF k.state = "HALF_OPEN" \/ count > Threshold[n]
        THEN [state |-> "OPEN", failureCount |-> count, wait |-> ResetTime[n]]
        ELSE [k EXCEPT !.failureCount = count]

\* A failure reported late, while OPEN, starts the reset time again.
OnFailure(n, k) ==
    LET reached == k.failureCount + 1 >= Threshold[n]
        count == IF reached THEN Threshold[n] ELSE k.failureCount + 1
    IN  IF k.state = "HALF_OPEN" \/ reached
        THEN [state |-> "OPEN", failureCount |-> count, wait |-> ResetTime[n]]
        ELSE [k EXCEPT !.failureCount = count]

\* isCircuitOpen, which the metrics getters call too: reading may change the state.
ReadOpen(k) == IF Refuses(k) THEN k ELSE Admitted(k)

\* Mutant: a state that execute() does not know.
Forced_Misspelt(k) == [state |-> "HALF-OPEN", failureCount |-> k.failureCount, wait |-> 0]

\* forceHalfOpen; the count stays.
Forced(k) == [state |-> "HALF_OPEN", failureCount |-> k.failureCount, wait |-> 0]

Elapse(k) == [k EXCEPT !.wait = IF @ > 0 THEN @ - 1 ELSE 0]

-----------------------------------------------------------------------------
\* A route is the sequence of the circuits around a call, the outermost first.
OnRoute(route, n) == \E i \in DOMAIN route : route[i] = n

Accepts(cs, route) == \A i \in DOMAIN route : ~Refuses(cs[route[i]])

\* The circuits a call enters before one further in refuses it.
Entered(cs, route) ==
    {route[i] : i \in {j \in DOMAIN route : \A h \in 1..j : ~Refuses(cs[route[h]])}}

\* The call enters its circuits.  A refusal further in is a rejected operation
\* for those it has entered: each of them counts a failure.
Begin(cs, route) ==
    [n \in Circuits |->
        IF n \notin Entered(cs, route) THEN cs[n]
        ELSE IF Accepts(cs, route) THEN Admitted(cs[n])
        ELSE OnFailure(n, Admitted(cs[n]))]

\* The operation resolves, rejects or outlives the timeout.
Settle(cs, route, ok) ==
    [n \in Circuits |->
        IF ~OnRoute(route, n) THEN cs[n]
        ELSE IF ok THEN OnSuccess(cs[n]) ELSE OnFailure(n, cs[n])]
=============================================================================
