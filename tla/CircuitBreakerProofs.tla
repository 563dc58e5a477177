----------------------- MODULE CircuitBreakerProofs -----------------------
(***************************************************************************)
(* CircuitBreaker's type invariant and TripsAtThreshold, for any number of *)
(* callers, circuits and routes.                                           *)
(***************************************************************************)
EXTENDS CircuitBreaker, CircuitProofs

-----------------------------------------------------------------------------
\* What is inductive: the two invariants together.
IInv == TypeOK /\ TripsAtThreshold

\* One step of some circuits, each by a transition that keeps Trips, keeps the
\* whole: the shape every action's proof has.
LEMMA CircuitwiseStep ==
    ASSUME IInv,
           circuits' \in [Circuits -> CircuitState],
           call' \in [Calls -> CallState], up' \in BOOLEAN,
           forced' \in SUBSET Circuits, operatorOps' \in Nat,
           \A n \in Circuits : Trips(n, circuits[n], n \in forced)
                                  => Trips(n, circuits'[n], n \in forced')
    PROVE  IInv'
<1>1. \A n \in Circuits : Trips(n, circuits[n], n \in forced)
  BY DEF IInv, TripsAtThreshold, Trips
<1>2. \A n \in Circuits : Trips(n, circuits'[n], n \in forced')
  BY <1>1
<1>3. TripsAtThreshold'
  BY <1>2 DEF TripsAtThreshold, Trips
<1> QED BY <1>3 DEF IInv, TypeOK

-----------------------------------------------------------------------------
LEMMA InitIInv == Init => IInv
<1>1. \A n \in Circuits : Threshold[n] \in Nat \ {0}
  BY CircuitAssumption
<1>2. Fresh \in CircuitState /\ Fresh.state = "CLOSED" /\ Fresh.failureCount = 0
  BY DEF Fresh, CircuitState
<1> QED BY <1>1, <1>2 DEF Init, IInv, TypeOK, TripsAtThreshold, CallState

LEMMA NextIInv == IInv /\ [Next]_vars => IInv'
<1> SUFFICES ASSUME IInv, [Next]_vars PROVE IInv'
  OBVIOUS
<1> USE DEF CallState
<1>0. TypeOK
  BY DEF IInv
<1>1. ASSUME NEW c \in Calls, Execute(c) PROVE IInv'
  <2>1. circuits' = Begin(circuits, Route[c]) /\ forced' = forced
    BY <1>1 DEF Execute
  <2>2. call' \in [Calls -> CallState] /\ up' \in BOOLEAN /\ operatorOps' \in Nat
    BY <1>0, <1>1 DEF Execute, TypeOK
  <2> QED BY <1>0, <2>1, <2>2, BeginKeeps, CircuitwiseStep DEF TypeOK
<1>2. ASSUME NEW c \in Calls, Succeed(c) PROVE IInv'
  <2>1. /\ circuits' = Settle(circuits, Route[c], TRUE)
        /\ \A n \in Circuits : n \in forced' <=> n \in forced /\ ~(TRUE /\ OnRoute(Route[c], n))
    BY <1>2 DEF Succeed
  <2>2. call' \in [Calls -> CallState] /\ up' \in BOOLEAN /\ operatorOps' \in Nat
        /\ forced' \in SUBSET Circuits
    BY <1>0, <1>2 DEF Succeed, TypeOK
  <2>3. /\ circuits' \in [Circuits -> CircuitState]
        /\ \A n \in Circuits : Trips(n, circuits[n], n \in forced)
              => Trips(n, circuits'[n], n \in forced /\ ~(TRUE /\ OnRoute(Route[c], n)))
    <3>1. circuits \in [Circuits -> CircuitState] /\ forced \in SUBSET Circuits
      BY <1>0 DEF TypeOK
    <3>2. /\ Settle(circuits, Route[c], TRUE) \in [Circuits -> CircuitState]
          /\ \A n \in Circuits : Trips(n, circuits[n], n \in forced)
                => Trips(n, Settle(circuits, Route[c], TRUE)[n],
                         n \in forced /\ ~(TRUE /\ OnRoute(Route[c], n)))
      BY <3>1, SettleKeeps
    <3> QED BY <2>1, <3>2
  <2>4. \A n \in Circuits : Trips(n, circuits[n], n \in forced)
                               => Trips(n, circuits'[n], n \in forced')
    BY <2>1, <2>3 DEF Trips
  <2> QED BY <1>0, <2>2, <2>3, <2>4, CircuitwiseStep
<1>3. ASSUME NEW c \in Calls, Fail(c) PROVE IInv'
  <2>1. /\ circuits' = Settle(circuits, Route[c], FALSE)
        /\ \A n \in Circuits : n \in forced' <=> n \in forced /\ ~(FALSE /\ OnRoute(Route[c], n))
    BY <1>3 DEF Fail
  <2>2. call' \in [Calls -> CallState] /\ up' \in BOOLEAN /\ operatorOps' \in Nat
        /\ forced' \in SUBSET Circuits
    BY <1>0, <1>3 DEF Fail, TypeOK
  <2>3. /\ circuits' \in [Circuits -> CircuitState]
        /\ \A n \in Circuits : Trips(n, circuits[n], n \in forced)
              => Trips(n, circuits'[n], n \in forced /\ ~(FALSE /\ OnRoute(Route[c], n)))
    <3>1. circuits \in [Circuits -> CircuitState] /\ forced \in SUBSET Circuits
      BY <1>0 DEF TypeOK
    <3>2. /\ Settle(circuits, Route[c], FALSE) \in [Circuits -> CircuitState]
          /\ \A n \in Circuits : Trips(n, circuits[n], n \in forced)
                => Trips(n, Settle(circuits, Route[c], FALSE)[n],
                         n \in forced /\ ~(FALSE /\ OnRoute(Route[c], n)))
      BY <3>1, SettleKeeps
    <3> QED BY <2>1, <3>2
  <2>4. \A n \in Circuits : Trips(n, circuits[n], n \in forced)
                               => Trips(n, circuits'[n], n \in forced')
    BY <2>1, <2>3 DEF Trips
  <2> QED BY <1>0, <2>2, <2>3, <2>4, CircuitwiseStep
<1>4. ASSUME NEW n \in Circuits, Read(n) PROVE IInv'
  <2>1. /\ circuits' = [circuits EXCEPT ![n] = ReadOpen(circuits[n])]
        /\ UNCHANGED <<call, up, forced, operatorOps>>
    BY <1>4 DEF Read
  <2>2. circuits' \in [Circuits -> CircuitState]
    BY <1>0, <2>1, MovesKeep DEF TypeOK
  <2>3. \A m \in Circuits : Trips(m, circuits[m], m \in forced)
                               => Trips(m, circuits'[m], m \in forced)
    <3> TAKE m \in Circuits
    <3>1. circuits[m] \in CircuitState /\ (m \in forced) \in BOOLEAN
      BY <1>0 DEF TypeOK
    <3>2. Trips(m, circuits[m], m \in forced) => Trips(m, ReadOpen(circuits[m]), m \in forced)
      BY <3>1, MovesKeep
    <3> QED BY <1>0, <2>1, <3>2 DEF TypeOK
  <2> QED BY <1>0, <2>1, <2>2, <2>3, CircuitwiseStep DEF TypeOK
<1>5. ASSUME NEW n \in Circuits, ResetCircuit(n) PROVE IInv'
  <2>1. Fresh \in CircuitState /\ Trips(n, Fresh, n \in forced')
    <3>1. Threshold[n] \in Nat \ {0}
      BY CircuitAssumption
    <3> QED BY <3>1 DEF Fresh, CircuitState, Trips
  <2>2. /\ circuits' = [circuits EXCEPT ![n] = Fresh]
        /\ forced' = forced \ {n}
        /\ UNCHANGED <<call, up>>
        /\ operatorOps' = operatorOps + 1
    BY <1>5 DEF ResetCircuit
  <2>3. \A m \in Circuits : Trips(m, circuits[m], m \in forced)
                               => Trips(m, circuits'[m], m \in forced')
    BY <1>0, <2>1, <2>2 DEF TypeOK, Trips
  <2> QED BY <1>0, <2>1, <2>2, <2>3, CircuitwiseStep DEF TypeOK
<1>6. ASSUME NEW n \in Circuits, ForceHalfOpen(n) PROVE IInv'
  <2>1. Forced(circuits[n]) \in CircuitState /\ Trips(n, Forced(circuits[n]), TRUE)
    BY <1>0 DEF Forced, CircuitState, Trips, TypeOK
  <2>2. /\ circuits' = [circuits EXCEPT ![n] = Forced(circuits[n])]
        /\ forced' = forced \cup {n}
        /\ UNCHANGED <<call, up>>
        /\ operatorOps' = operatorOps + 1
    BY <1>6 DEF ForceHalfOpen
  <2>3. \A m \in Circuits : Trips(m, circuits[m], m \in forced)
                               => Trips(m, circuits'[m], m \in forced')
    BY <1>0, <2>1, <2>2 DEF TypeOK, Trips
  <2> QED BY <1>0, <2>1, <2>2, <2>3, CircuitwiseStep DEF TypeOK
<1>7. CASE Tick
  <2>1. /\ circuits' = [n \in Circuits |-> Elapse(circuits[n])]
        /\ UNCHANGED <<call, up, forced, operatorOps>>
    BY <1>7 DEF Tick
  <2>2. circuits' \in [Circuits -> CircuitState]
    BY <1>0, <2>1, MovesKeep DEF TypeOK
  <2>3. \A m \in Circuits : Trips(m, circuits[m], m \in forced)
                               => Trips(m, circuits'[m], m \in forced)
    <3> TAKE m \in Circuits
    <3>1. circuits[m] \in CircuitState /\ (m \in forced) \in BOOLEAN
      BY <1>0 DEF TypeOK
    <3>2. Trips(m, circuits[m], m \in forced) => Trips(m, Elapse(circuits[m]), m \in forced)
      BY <3>1, MovesKeep
    <3> QED BY <1>0, <2>1, <3>2 DEF TypeOK
  <2> QED BY <1>0, <2>1, <2>2, <2>3, CircuitwiseStep DEF TypeOK
<1>8. CASE NovuGoesDown \/ NovuComesBack \/ UNCHANGED vars
  <2>1. UNCHANGED <<circuits, forced, operatorOps>>
    BY <1>8 DEF NovuGoesDown, NovuComesBack, vars
  <2>2. call' \in [Calls -> CallState] /\ up' \in BOOLEAN
    BY <1>0, <1>8 DEF NovuGoesDown, NovuComesBack, vars, TypeOK
  <2> QED BY <1>0, <2>1, <2>2, CircuitwiseStep DEF TypeOK
<1> QED BY <1>1, <1>2, <1>3, <1>4, <1>5, <1>6, <1>7, <1>8 DEF Next

\* Every reachable state of the circuit breaker service has the types its
\* interfaces declare.
THEOREM BreakerTypes == Spec => []TypeOK
<1>1. IInv => TypeOK
  BY DEF IInv
<1> QED BY <1>1, InitIInv, NextIInv, PTL DEF Spec

\* onSuccess, onFailure and the reads keep every circuit's count and state in
\* step, for any number of concurrent calls through any nesting of circuits.
THEOREM BreakerTripsAtThreshold == Spec => []TripsAtThreshold
<1>1. IInv => TripsAtThreshold
  BY DEF IInv
<1> QED BY <1>1, InitIInv, NextIInv, PTL DEF Spec
=============================================================================
