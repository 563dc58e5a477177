--------------------------- MODULE CircuitBreaker ---------------------------
(***************************************************************************)
(* CircuitBreakerService with concurrent callers: every call runs through  *)
(* the nested circuits of its route against a Novu API that goes down and  *)
(* comes back, while the retry worker and the metrics endpoints read the   *)
(* circuits and an operator resets or forces them.                         *)
(***************************************************************************)
EXTENDS Circuit

CONSTANTS Calls,            \* callers, each with at most one call in flight
          Route,            \* the circuits around each caller's operation
          MaxOperatorOps    \* bound: how often an operator intervenes

ASSUME BreakerAssumption ==
    /\ Route \in [Calls -> Seq(Circuits)]
    /\ MaxOperatorOps \in Nat

VARIABLES circuits,     \* CircuitBreakerService.circuits
          call,         \* what each caller is doing
          up,           \* does Novu answer (environment)
          forced,       \* history: circuits an operator put in HALF_OPEN since they last closed
          operatorOps   \* operator interventions so far

vars == <<circuits, call, up, forced, operatorOps>>

\* A "doomed" call was in flight during an outage: it may still fail, or time
\* out, after Novu is back.
CallState == {"idle", "running", "doomed"}

TypeOK ==
    /\ circuits \in [Circuits -> CircuitState]
    /\ call \in [Calls -> CallState]
    /\ up \in BOOLEAN
    /\ forced \in SUBSET Circuits
    /\ operatorOps \in Nat

Init ==
    /\ circuits = [n \in Circuits |-> Fresh]
    /\ call = [c \in Calls |-> "idle"]
    /\ up = TRUE
    /\ forced = {}
    /\ operatorOps = 0

-----------------------------------------------------------------------------
Execute(c) ==
    /\ call[c] = "idle"
    /\ circuits' = Begin(circuits, Route[c])
    /\ call' = [call EXCEPT ![c] = IF ~Accepts(circuits, Route[c]) THEN "idle"
                                   ELSE IF up THEN "running" ELSE "doomed"]
    /\ UNCHANGED <<up, forced, operatorOps>>

Succeed(c) ==
    /\ up
    /\ call[c] # "idle"
    /\ circuits' = Settle(circuits, Route[c], TRUE)
    /\ call' = [call EXCEPT ![c] = "idle"]
    /\ forced' = {n \in forced : ~OnRoute(Route[c], n)}
    /\ UNCHANGED <<up, operatorOps>>

\* The operation rejects, or the 30 s timer of createTimeoutPromise wins the race.
Fail(c) ==
    /\ call[c] = "doomed"
    /\ circuits' = Settle(circuits, Route[c], FALSE)
    /\ call' = [call EXCEPT ![c] = "idle"]
    /\ UNCHANGED <<up, forced, operatorOps>>

\* isCircuitOpen, getCircuitMetrics and getAllCircuitMetrics.
Read(n) ==
    /\ circuits' = [circuits EXCEPT ![n] = ReadOpen(@)]
    /\ UNCHANGED <<call, up, forced, operatorOps>>

ResetCircuit(n) ==
    /\ operatorOps < MaxOperatorOps
    /\ circuits' = [circuits EXCEPT ![n] = Fresh]
    /\ forced' = forced \ {n}
    /\ operatorOps' = operatorOps + 1
    /\ UNCHANGED <<call, up>>

ForceHalfOpen(n) ==
    /\ operatorOps < MaxOperatorOps
    /\ circuits' = [circuits EXCEPT ![n] = Forced(@)]
    /\ forced' = forced \cup {n}
    /\ operatorOps' = operatorOps + 1
    /\ UNCHANGED <<call, up>>

Tick ==
    /\ \E n \in Circuits : circuits[n].wait > 0
    /\ circuits' = [n \in Circuits |-> Elapse(circuits[n])]
    /\ UNCHANGED <<call, up, forced, operatorOps>>

NovuGoesDown ==
    /\ up
    /\ up' = FALSE
    /\ call' = [c \in Calls |-> IF call[c] = "running" THEN "doomed" ELSE call[c]]
    /\ UNCHANGED <<circuits, forced, operatorOps>>

NovuComesBack ==
    /\ ~up
    /\ up' = TRUE
    /\ UNCHANGED <<circuits, call, forced, operatorOps>>

Next ==
    \/ \E c \in Calls : Execute(c) \/ Succeed(c) \/ Fail(c)
    \/ \E n \in Circuits : Read(n) \/ ResetCircuit(n) \/ ForceHalfOpen(n)
    \/ Tick
    \/ NovuGoesDown
    \/ NovuComesBack

\* Callers keep calling, every call settles (its timer sees to that) and time passes.
Fairness ==
    /\ \A c \in Calls : WF_vars(Execute(c)) /\ WF_vars(Succeed(c) \/ Fail(c))
    /\ WF_vars(Tick)

Spec == Init /\ [][Next]_vars /\ Fairness

-----------------------------------------------------------------------------
\* A circuit that lets calls through in the CLOSED state has seen fewer failures
\* in a row than its threshold, and one that is OPEN or HALF_OPEN has seen that
\* many, or an operator forced it: late answers, refusals by an inner circuit
\* and reads that flip the state in between never break the count of onFailure.
TripsAtThreshold ==
    \A n \in Circuits :
        /\ circuits[n].state = "CLOSED" => circuits[n].failureCount < Threshold[n]
        /\ circuits[n].state # "CLOSED" /\ n \notin forced
              => circuits[n].failureCount = Threshold[n]

\* Once Novu stays up, every circuit ends up CLOSED for good: the inner circuit's
\* longer reset time, refusals counted by the outer ones and failures that arrive
\* late (onFailure sets nextAttempt again) delay recovery but cannot prevent it.
RecoversWhenNovuIsUp ==
    <>[]up => <>[](\A n \in Circuits : circuits[n].state = "CLOSED")
=============================================================================
