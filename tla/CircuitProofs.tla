--------------------------- MODULE CircuitProofs ---------------------------
(***************************************************************************)
(* What the transitions of Circuit keep, for one circuit and for the calls *)
(* that go through several.  The modules that use circuits cite these.     *)
(***************************************************************************)
EXTENDS Circuit, TLAPS

\* A circuit whose count fits its state; f says whether an operator forced it.
Trips(n, k, f) ==
    /\ k.state = "CLOSED" => k.failureCount < Threshold[n]
    /\ k.state # "CLOSED" /\ ~f => k.failureCount = Threshold[n]

\* onFailure keeps a circuit well-formed and its count consistent with its state.
LEMMA OnFailureKeeps ==
    ASSUME NEW n \in Circuits, NEW k \in CircuitState, NEW f \in BOOLEAN
    PROVE  /\ OnFailure(n, k) \in CircuitState
           /\ Trips(n, k, f) => Trips(n, OnFailure(n, k), f)
<1>1. Threshold[n] \in Nat \ {0} /\ ResetTime[n] \in Nat
  BY CircuitAssumption
<1>2. CASE k.failureCount + 1 >= Threshold[n]
  <2>1. OnFailure(n, k) = [state |-> "OPEN", failureCount |-> Threshold[n], wait |-> ResetTime[n]]
    BY <1>2 DEF OnFailure
  <2> QED BY <1>1, <2>1 DEF CircuitState, Trips
<1>3. CASE ~(k.failureCount + 1 >= Threshold[n]) /\ k.state = "HALF_OPEN"
  <2>1. OnFailure(n, k) =
          [state |-> "OPEN", failureCount |-> k.failureCount + 1, wait |-> ResetTime[n]]
    BY <1>3 DEF OnFailure
  <2>2. OnFailure(n, k) \in CircuitState
    BY <1>1, <2>1 DEF CircuitState
  <2>3. k.failureCount \in Nat
    BY DEF CircuitState
  <2> QED BY <1>1, <1>3, <2>1, <2>2, <2>3 DEF Trips
<1>4. CASE ~(k.failureCount + 1 >= Threshold[n]) /\ k.state # "HALF_OPEN"
  <2>1. OnFailure(n, k) = [k EXCEPT !.failureCount = k.failureCount + 1]
    BY <1>4 DEF OnFailure
  <2>2. k.failureCount \in Nat
    BY DEF CircuitState
  <2>3. OnFailure(n, k) \in CircuitState
    BY <2>1, <2>2 DEF CircuitState
  <2>4. /\ OnFailure(n, k).state = k.state
        /\ OnFailure(n, k).failureCount = k.failureCount + 1
    BY <2>1 DEF CircuitState
  <2> QED BY <1>1, <1>4, <2>2, <2>3, <2>4 DEF Trips
<1> QED BY <1>2, <1>3, <1>4

\* So do the transitions that only move the state or the clock.
LEMMA MovesKeep ==
    ASSUME NEW n \in Circuits, NEW k \in CircuitState, NEW f \in BOOLEAN
    PROVE  /\ Admitted(k) \in CircuitState
           /\ ReadOpen(k) \in CircuitState
           /\ OnSuccess(k) \in CircuitState
           /\ Elapse(k) \in CircuitState
           /\ Trips(n, OnSuccess(k), FALSE)
           /\ Trips(n, k, f) => /\ Trips(n, Admitted(k), f)
                                /\ Trips(n, ReadOpen(k), f)
                                /\ Trips(n, Elapse(k), f)
<1>1. Threshold[n] \in Nat \ {0}
  BY CircuitAssumption
<1>2. Admitted(k) \in CircuitState /\ (Trips(n, k, f) => Trips(n, Admitted(k), f))
  BY DEF Admitted, CircuitState, Trips
<1>3. ReadOpen(k) \in CircuitState /\ (Trips(n, k, f) => Trips(n, ReadOpen(k), f))
  BY <1>2 DEF ReadOpen
<1>4. OnSuccess(k) \in CircuitState /\ Trips(n, OnSuccess(k), FALSE)
  BY <1>1 DEF OnSuccess, CircuitState, Trips
<1>5. Elapse(k) \in CircuitState /\ (Trips(n, k, f) => Trips(n, Elapse(k), f))
  BY DEF Elapse, CircuitState, Trips
<1> QED BY <1>2, <1>3, <1>4, <1>5

-----------------------------------------------------------------------------
\* A call entering its route.
LEMMA BeginKeeps ==
    ASSUME NEW cs \in [Circuits -> CircuitState], NEW forced \in SUBSET Circuits, NEW route
    PROVE  /\ Begin(cs, route) \in [Circuits -> CircuitState]
           /\ \A n \in Circuits : Trips(n, cs[n], n \in forced)
                                     => Trips(n, Begin(cs, route)[n], n \in forced)
<1> DEFINE kept(n, k) == /\ k \in CircuitState
                         /\ Trips(n, cs[n], n \in forced) => Trips(n, k, n \in forced)
<1>1. SUFFICES ASSUME NEW n \in Circuits
               PROVE  kept(n, Begin(cs, route)[n])
  BY DEF Begin
<1>2. cs[n] \in CircuitState /\ (n \in forced) \in BOOLEAN
  OBVIOUS
<1>3. kept(n, cs[n])
  BY <1>2
<1>4. kept(n, Admitted(cs[n]))
  BY <1>2, MovesKeep
<1>5. kept(n, OnFailure(n, Admitted(cs[n])))
  <2>1. Admitted(cs[n]) \in CircuitState
    BY <1>4
  <2>2. Trips(n, Admitted(cs[n]), n \in forced)
           => Trips(n, OnFailure(n, Admitted(cs[n])), n \in forced)
    BY <1>2, <2>1, OnFailureKeeps
  <2>3. OnFailure(n, Admitted(cs[n])) \in CircuitState
    BY <1>2, <2>1, OnFailureKeeps
  <2> QED BY <1>4, <2>2, <2>3
<1> HIDE DEF kept
<1> QED BY <1>3, <1>4, <1>5 DEF Begin

\* The end of a call, by each circuit: a success also clears the operator's mark.
LEMMA SettleKeeps ==
    ASSUME NEW cs \in [Circuits -> CircuitState], NEW forced \in SUBSET Circuits,
           NEW route, NEW ok \in BOOLEAN
    PROVE  /\ Settle(cs, route, ok) \in [Circuits -> CircuitState]
           /\ \A n \in Circuits : Trips(n, cs[n], n \in forced)
                => Trips(n, Settle(cs, route, ok)[n],
                         n \in forced /\ ~(ok /\ OnRoute(route, n)))
<1> DEFINE f(n) == n \in forced /\ ~(ok /\ OnRoute(route, n))
           kept(n, k) == /\ k \in CircuitState
                         /\ Trips(n, cs[n], n \in forced) => Trips(n, k, f(n))
<1>1. SUFFICES ASSUME NEW n \in Circuits
               PROVE  kept(n, Settle(cs, route, ok)[n])
  BY DEF Settle
<1>2. cs[n] \in CircuitState /\ (n \in forced) \in BOOLEAN
  OBVIOUS
<1>3. CASE ~OnRoute(route, n)
  BY <1>2, <1>3 DEF Settle
<1>4. CASE OnRoute(route, n) /\ ok
  <2>1. Settle(cs, route, ok)[n] = OnSuccess(cs[n]) /\ f(n) = FALSE
    BY <1>4 DEF Settle
  <2> QED BY <1>2, <2>1, MovesKeep
<1>5. CASE OnRoute(route, n) /\ ~ok
  <2>1. Settle(cs, route, ok)[n] = OnFailure(n, cs[n]) /\ f(n) = (n \in forced)
    BY <1>5 DEF Settle
  <2> QED BY <1>2, <2>1, OnFailureKeeps
<1> QED BY <1>3, <1>4, <1>5
=============================================================================
