---------------------------- MODULE RetryProofs ----------------------------
(***************************************************************************)
(* Invariants of the retry worker for any number of replicas, cron jobs,   *)
(* manual callers and notifications: who owns a PENDING notification, what *)
(* SENT means, how far overlapping attempts take retryCount beyond         *)
(* maxRetries, what a worker that runs alone guarantees besides, and what  *)
(* of it survives administrators who retry and delete at the same time.    *)
(***************************************************************************)
EXTENDS RetryAdmin, CircuitProofs, FiniteSetTheorems

-----------------------------------------------------------------------------
(* What the building blocks of the actions do to the types *)

LEMMA AttemptTypes ==
    ASSUME attempt \in [Workers -> [Notifs -> Attempt]],
           NEW w \in Workers, NEW n \in Notifs, NEW pc \in Point, NEW b \in BOOLEAN,
           Go(w, n, pc) \/ Finish(w, n) \/ Catch(w, n, pc, b)
    PROVE  attempt' \in [Workers -> [Notifs -> Attempt]]
<1>1. attempt[w] \in [Notifs -> Attempt] /\ attempt[w][n] \in Attempt
  OBVIOUS
<1>2. \A a \in Attempt : [attempt EXCEPT ![w][n] = a] \in [Workers -> [Notifs -> Attempt]]
  BY <1>1
<1>3. CASE Go(w, n, pc)
  <2>1. [attempt[w][n] EXCEPT !.pc = pc] \in Attempt
    BY <1>1 DEF Attempt
  <2> QED BY <1>1, <1>3, <2>1 DEF Go
<1>4. CASE Finish(w, n)
  <2>1. NoAttempt \in Attempt
    BY DEF NoAttempt, Attempt, Point
  <2> QED BY <1>2, <1>4, <2>1 DEF Finish
<1>5. CASE Catch(w, n, pc, b)
  <2>1. [pc |-> pc, seen |-> attempt[w][n].seen, fatal |-> b] \in Attempt
    BY <1>1 DEF Attempt
  <2> QED BY <1>2, <1>5, <2>1 DEF Catch
<1> QED BY <1>3, <1>4, <1>5

LEMMA UpdateTypes ==
    ASSUME TypeOK, NEW n \in Notifs, NEW s \in Status, NEW outcome \in Outcomes,
           Update(n, s, outcome)
    PROVE  /\ status' \in [Notifs -> Status]
           /\ age' \in [Notifs -> 0..Backoffs]
           /\ faults' \in Nat
<1>1. 0 \in 0..Backoffs
  BY RetryAssumption
<1> QED BY <1>1 DEF TypeOK, Update

LEMMA CircuitTypes ==
    ASSUME TypeOK, NEW w \in Workers, NEW route, NEW ok \in BOOLEAN,
           OnCircuits(w, Begin(circuits[Host[w]], route))
             \/ OnCircuits(w, Settle(circuits[Host[w]], route, ok))
    PROVE  circuits' \in [Replicas -> [Circuits -> CircuitState]]
<1>1. Host[w] \in Replicas
  BY RetryAssumption
<1>2. circuits[Host[w]] \in [Circuits -> CircuitState]
  BY <1>1 DEF TypeOK
<1>3. Begin(circuits[Host[w]], route) \in [Circuits -> CircuitState]
  BY <1>2, {} \in SUBSET Circuits, BeginKeeps
<1>4. Settle(circuits[Host[w]], route, ok) \in [Circuits -> CircuitState]
  BY <1>2, {} \in SUBSET Circuits, SettleKeeps
<1> QED BY <1>1, <1>3, <1>4 DEF OnCircuits, TypeOK

-----------------------------------------------------------------------------
(* The type invariant *)

LEMMA InitTypeOK == Init => TypeOK
<1>1. Fresh \in CircuitState /\ NoAttempt \in Attempt
  BY DEF Fresh, CircuitState, NoAttempt, Attempt, Point
<1>2. 0 \in 0..Backoffs
  BY RetryAssumption
<1> QED BY <1>1, <1>2 DEF Init, TypeOK, Status

LEMMA RetryStepTypes ==
    ASSUME TypeOK, NEW w \in Workers, NEW n \in Notifs, RetryStep(w, n)
    PROVE  TypeOK'
<1> USE DEF store, history, Point
<1>1. ASSUME NEW outcome \in Outcomes, MarkPending(w, n, outcome) PROVE TypeOK'
  <2>1. attempt' \in [Workers -> [Notifs -> Attempt]]
    <3>1. CASE outcome = "ok"
      <4>1. Go(w, n, "triggering")
        BY <1>1, <3>1 DEF MarkPending
      <4> QED BY <4>1, AttemptTypes DEF TypeOK
    <3>2. CASE outcome # "ok"
      <4>1. PICK fatal \in BOOLEAN : Catch(w, n, "failing", fatal)
        BY <1>1, <3>2 DEF MarkPending
      <4> QED BY <4>1, AttemptTypes DEF TypeOK
    <3> QED BY <3>1, <3>2
  <2>2. retryCount' \in [Notifs -> Nat]
    BY <1>1 DEF MarkPending, TypeOK
  <2>3. /\ status' \in [Notifs -> Status]
        /\ age' \in [Notifs -> 0..Backoffs]
        /\ faults' \in Nat
    BY <1>1, UpdateTypes DEF MarkPending, Status
  <2> QED BY <1>1, <2>1, <2>2, <2>3 DEF MarkPending, TypeOK
<1>2. ASSUME NEW outcome \in Outcomes, MarkSent(w, n, outcome) PROVE TypeOK'
  <2>1. attempt' \in [Workers -> [Notifs -> Attempt]]
    <3>1. CASE outcome = "ok"
      <4>1. Finish(w, n)
        BY <1>2, <3>1 DEF MarkSent
      <4> QED BY <4>1, AttemptTypes DEF TypeOK
    <3>2. CASE outcome # "ok"
      <4>1. PICK fatal \in BOOLEAN : Catch(w, n, "failing", fatal)
        BY <1>2, <3>2 DEF MarkSent
      <4> QED BY <4>1, AttemptTypes DEF TypeOK
    <3> QED BY <3>1, <3>2
  <2>2. /\ status' \in [Notifs -> Status]
        /\ age' \in [Notifs -> 0..Backoffs]
        /\ faults' \in Nat
    BY <1>2, UpdateTypes DEF MarkSent, Status
  <2> QED BY <1>2, <2>1, <2>2 DEF MarkSent, TypeOK
<1>3. ASSUME CleanupToken(w, n) PROVE TypeOK'
  <2>1. attempt' \in [Workers -> [Notifs -> Attempt]]
    BY <1>3, AttemptTypes DEF CleanupToken, TypeOK
  <2> QED BY <1>3, <2>1 DEF CleanupToken, TypeOK
<1>4. ASSUME NEW outcome \in Outcomes,
             MarkFailed(w, n, outcome) \/ MarkDlq(w, n, outcome) \/ AddToDlq(w, n, outcome)
      PROVE  TypeOK'
  <2>1. attempt' \in [Workers -> [Notifs -> Attempt]]
    BY <1>4, AttemptTypes DEF MarkFailed, MarkDlq, AddToDlq, TypeOK
  <2>2. /\ status' \in [Notifs -> Status]
        /\ age' \in [Notifs -> 0..Backoffs]
        /\ faults' \in Nat
    BY <1>4, UpdateTypes DEF MarkFailed, MarkDlq, AddToDlq, Status
  <2> QED BY <1>4, <2>1, <2>2 DEF MarkFailed, MarkDlq, AddToDlq, TypeOK
<1>5. CASE Trigger(w, n)
  <2>1. attempt' \in [Workers -> [Notifs -> Attempt]]
    BY <1>5, AttemptTypes DEF Trigger, TypeOK
  <2>2. circuits' \in [Replicas -> [Circuits -> CircuitState]]
    BY <1>5, CircuitTypes DEF Trigger
  <2> QED BY <1>5, <2>1, <2>2 DEF Trigger, TypeOK
<1>6. CASE NovuAccepts(w, n)
  <2>1. attempt' \in [Workers -> [Notifs -> Attempt]]
    BY <1>6, AttemptTypes DEF NovuAccepts, TypeOK
  <2> QED BY <1>6, <2>1 DEF NovuAccepts, TypeOK
<1>7. CASE Delivered(w, n)
  <2>1. attempt' \in [Workers -> [Notifs -> Attempt]]
    BY <1>7, AttemptTypes DEF Delivered, TypeOK
  <2>2. circuits' \in [Replicas -> [Circuits -> CircuitState]]
    BY <1>7, CircuitTypes DEF Delivered
  <2> QED BY <1>7, <2>1, <2>2 DEF Delivered, TypeOK
<1>8. ASSUME NEW invalidToken \in BOOLEAN, NovuRejects(w, n, invalidToken) PROVE TypeOK'
  <2>1. attempt' \in [Workers -> [Notifs -> Attempt]]
    BY <1>8, AttemptTypes DEF NovuRejects, TypeOK
  <2>2. circuits' \in [Replicas -> [Circuits -> CircuitState]]
    BY <1>8, CircuitTypes DEF NovuRejects
  <2> QED BY <1>8, <2>1, <2>2 DEF NovuRejects, TypeOK
<1>9. CASE TimesOut(w, n)
  <2>1. attempt' \in [Workers -> [Notifs -> Attempt]]
    BY <1>9, AttemptTypes DEF TimesOut, TypeOK
  <2>2. circuits' \in [Replicas -> [Circuits -> CircuitState]]
    BY <1>9, CircuitTypes DEF TimesOut
  <2> QED BY <1>9, <2>1, <2>2 DEF TimesOut, TypeOK
<1> QED BY <1>1, <1>2, <1>3, <1>4, <1>5, <1>6, <1>7, <1>8, <1>9 DEF RetryStep

LEMMA NextTypes == TypeOK /\ [Next]_vars => TypeOK'
<1> SUFFICES ASSUME TypeOK, [Next]_vars PROVE TypeOK'
  OBVIOUS
<1> USE DEF store, history
<1>1. ASSUME NEW w \in CronWorkers, StartRun(w) PROVE TypeOK'
  <2>1. Host[w] \in Replicas /\ ApiCircuit \in Circuits
    BY RetryAssumption DEF Workers
  <2>2. circuits[Host[w]] \in [Circuits -> CircuitState]
    BY <2>1 DEF TypeOK
  <2>3. ReadOpen(circuits[Host[w]][ApiCircuit]) \in CircuitState
    BY <2>1, <2>2, MovesKeep
  <2>4. circuits' \in [Replicas -> [Circuits -> CircuitState]]
    BY <1>1, <2>1, <2>2, <2>3 DEF StartRun, TypeOK
  <2> QED BY <1>1, <2>4 DEF StartRun, TypeOK
<1>2. ASSUME NEW w \in CronWorkers, Query(w) PROVE TypeOK'
  <2>1. PICK b \in Batches :
          /\ phase' = [phase EXCEPT ![w] = IF b = {} THEN "idle" ELSE "processing"]
          /\ attempt' = [attempt EXCEPT ![w] = [n \in Notifs |->
                 IF n \in b THEN [pc |-> "marking", seen |-> retryCount[n], fatal |-> FALSE]
                 ELSE NoAttempt]]
    BY <1>2 DEF Query
  <2>2. \A n \in Notifs :
          [pc |-> "marking", seen |-> retryCount[n], fatal |-> FALSE] \in Attempt
    BY DEF TypeOK, Attempt, Point
  <2>3. NoAttempt \in Attempt
    BY DEF NoAttempt, Attempt, Point
  <2>4. attempt' \in [Workers -> [Notifs -> Attempt]]
    BY <2>1, <2>2, <2>3 DEF TypeOK
  <2> QED BY <1>2, <2>1, <2>4 DEF Query, TypeOK
<1>3. ASSUME NEW w \in CronWorkers, QueryFails(w) \/ EndRun(w) PROVE TypeOK'
  BY <1>3 DEF QueryFails, EndRun, TypeOK
<1>4. ASSUME NEW w \in Callers, NEW n \in Notifs, ManualRead(w, n) PROVE TypeOK'
  <2>1. [pc |-> "resetting", seen |-> retryCount[n], fatal |-> FALSE] \in Attempt
    BY DEF TypeOK, Attempt, Point
  <2>2. attempt' \in [Workers -> [Notifs -> Attempt]]
    BY <1>4, <2>1 DEF ManualRead, TypeOK
  <2> QED BY <1>4, <2>2 DEF ManualRead, TypeOK
<1>5. ASSUME NEW w \in Callers, NEW n \in Notifs, NEW outcome \in Outcomes,
             ManualReset(w, n, outcome)
      PROVE  TypeOK'
  <2>1. attempt' \in [Workers -> [Notifs -> Attempt]]
    BY <1>5, AttemptTypes DEF ManualReset, TypeOK, Workers, Point
  <2>2. /\ status' \in [Notifs -> Status]
        /\ age' \in [Notifs -> 0..Backoffs]
        /\ faults' \in Nat
    BY <1>5, UpdateTypes DEF ManualReset, Status
  <2>3. retryCount' \in [Notifs -> Nat]
    BY <1>5 DEF ManualReset, TypeOK
  <2> QED BY <1>5, <2>1, <2>2, <2>3 DEF ManualReset, TypeOK
<1>6. ASSUME NEW w \in Workers, NEW n \in Notifs, RetryStep(w, n) PROVE TypeOK'
  BY <1>6, RetryStepTypes
<1>7. ASSUME NEW n \in Notifs, LateRequest(n) PROVE TypeOK'
  BY <1>7 DEF LateRequest, TypeOK
<1>8. ASSUME NEW n \in Notifs, GrowOlder(n) PROVE TypeOK'
  <2>1. Backoffs \in Nat
    BY RetryAssumption
  <2> QED BY <1>8, <2>1 DEF GrowOlder, TypeOK
<1>9. ASSUME NEW p \in Replicas, Tick(p) PROVE TypeOK'
  <2>1. circuits[p] \in [Circuits -> CircuitState]
    BY DEF TypeOK
  <2>2. [c \in Circuits |-> Elapse(circuits[p][c])] \in [Circuits -> CircuitState]
    BY <2>1, MovesKeep
  <2>3. circuits' \in [Replicas -> [Circuits -> CircuitState]]
    BY <1>9, <2>2 DEF Tick, TypeOK
  <2> QED BY <1>9, <2>3 DEF Tick, TypeOK
<1>10. ASSUME NEW p \in Replicas, Crash(p) PROVE TypeOK'
  <2>1. Fresh \in CircuitState /\ NoAttempt \in Attempt
    BY DEF Fresh, CircuitState, NoAttempt, Attempt, Point
  <2> QED BY <1>10, <2>1 DEF Crash, TypeOK
<1>11. ASSUME NEW p \in Replicas, NEW ok \in BOOLEAN, OtherTraffic(p, ok) PROVE TypeOK'
  <2> DEFINE begun == Begin(circuits[p], <<ClientCircuit>>)
             settled == Settle(begun, <<ClientCircuit>>, ok)
  <2>1. begun \in [Circuits -> CircuitState]
    BY {} \in SUBSET Circuits, BeginKeeps DEF TypeOK
  <2>2. settled \in [Circuits -> CircuitState]
    BY <2>1, {} \in SUBSET Circuits, SettleKeeps
  <2>3. circuits' \in [Replicas -> [Circuits -> CircuitState]]
    BY <1>11, <2>2 DEF OtherTraffic, TypeOK
  <2> QED BY <1>11, <2>3 DEF OtherTraffic, TypeOK
<1>12. CASE UNCHANGED vars
  BY <1>12 DEF vars, TypeOK
<1> QED BY <1>1, <1>2, <1>3, <1>4, <1>5, <1>6, <1>7, <1>8, <1>9, <1>10, <1>11, <1>12
        DEF Next, CronStep, ManualStep

\* The retry worker's documents, attempts and circuits keep their types.
THEOREM RetryTypes == Spec => []TypeOK
BY InitTypeOK, NextTypes, PTL DEF Spec

-----------------------------------------------------------------------------
(* PendingIsOwned and SentWasAccepted *)

\* A cron job has attempts only while it processes a batch.
CronPhases == \A w \in CronWorkers : phase[w] # "processing"
                                        => \A n \in Notifs : At(w, n, "none")

\* An attempt that is about to record SENT has been accepted by Novu.
RecordsWhatNovuTook ==
    \A w \in Workers, n \in Notifs :
        attempt[w][n].pc \in {"accepted", "recording"} => accepted[n] > 0

\* PendingIsOwned but for some notifications: what is left of it when administrators
\* make notifications PENDING too.
OwnedExcept(X) ==
    \A n \in Notifs \ X : status[n] = "pending" =>
        n \in lost \/ \E w \in Workers : attempt[w][n].pc \in Owning

IInv(X) == TypeOK /\ CronPhases /\ RecordsWhatNovuTook /\ OwnedExcept(X) /\ SentWasAccepted

\* Every other attempt stays where it is.
Others(w, n) ==
    \A v \in Workers, m \in Notifs : v # w \/ m # n => attempt'[v][m] = attempt[v][m]

\* Where an update of one attempt leads.
LEMMA GoAfter ==
    ASSUME attempt \in [Workers -> [Notifs -> Attempt]],
           NEW w \in Workers, NEW n \in Notifs, NEW pc, Go(w, n, pc)
    PROVE  attempt'[w][n].pc = pc /\ Others(w, n)
<1>1. attempt[w] \in [Notifs -> Attempt] /\ attempt[w][n] \in Attempt
  OBVIOUS
<1> QED BY <1>1 DEF Go, Others, Attempt

LEMMA FinishAfter ==
    ASSUME attempt \in [Workers -> [Notifs -> Attempt]],
           NEW w \in Workers, NEW n \in Notifs, Finish(w, n)
    PROVE  attempt'[w][n].pc = "none" /\ Others(w, n)
<1>1. attempt[w] \in [Notifs -> Attempt] /\ attempt[w][n] \in Attempt
  OBVIOUS
<1> QED BY <1>1 DEF Finish, Others, NoAttempt

LEMMA CatchAfter ==
    ASSUME attempt \in [Workers -> [Notifs -> Attempt]],
           NEW w \in Workers, NEW n \in Notifs, NEW pc, NEW b, Catch(w, n, pc, b)
    PROVE  attempt'[w][n].pc = pc /\ Others(w, n)
<1>1. attempt[w] \in [Notifs -> Attempt] /\ attempt[w][n] \in Attempt
  OBVIOUS
<1> QED BY <1>1 DEF Catch, Others

\* What a step of one attempt can do to another attempt's notification (nothing),
\* and to its own.
Effects(w, n) ==
    /\ Others(w, n)
    /\ \A m \in Notifs : m # n => status'[m] = status[m]
    /\ \A m \in Notifs : accepted[m] > 0 => accepted'[m] > 0
    /\ lost \subseteq lost'
    /\ phase' = phase
    /\ ~At(w, n, "none")
    /\ status'[n] = "pending" /\ n \notin lost' =>
         \/ attempt'[w][n].pc \in Owning
         \/ status[n] = "pending" /\ attempt[w][n].pc \notin Owning
    /\ attempt'[w][n].pc \in {"accepted", "recording"} =>
         accepted'[n] > 0 \/ attempt[w][n].pc \in {"accepted", "recording"}
    /\ status'[n] = "sent" => status[n] = "sent" \/ At(w, n, "recording")

LEMMA RetryEffects ==
    ASSUME TypeOK, NEW w \in Workers, NEW n \in Notifs, RetryStep(w, n)
    PROVE  Effects(w, n)
<1> USE DEF store, history, At, Owning
<1>0. /\ attempt \in [Workers -> [Notifs -> Attempt]]
      /\ status \in [Notifs -> Status]
      /\ accepted \in [Notifs -> 0..2]
  BY DEF TypeOK
<1>1. ASSUME NEW outcome \in Outcomes, MarkPending(w, n, outcome) PROVE Effects(w, n)
  <2>1. PICK pc \in {"triggering", "failing"}, fatal \in BOOLEAN :
          Go(w, n, pc) \/ Catch(w, n, pc, fatal)
    BY <1>1 DEF MarkPending
  <2>2. /\ attempt'[w][n].pc \in Owning
        /\ Others(w, n)
    BY <1>0, <2>1, GoAfter, FinishAfter, CatchAfter
  <2>3. status'[n] # "sent" \/ status'[n] = status[n]
    BY <1>0, <1>1 DEF MarkPending, Update
  <2>4. attempt'[w][n].pc \notin {"accepted", "recording"}
    BY <1>0, <2>1, GoAfter, FinishAfter, CatchAfter
  <2> QED BY <1>0, <1>1, <2>2, <2>3, <2>4 DEF MarkPending, Update, Effects
<1>2. ASSUME NEW outcome \in Outcomes, MarkSent(w, n, outcome) PROVE Effects(w, n)
  <2>1. CASE outcome = "ok"
    <3>1. Finish(w, n)
      BY <1>2, <2>1 DEF MarkSent
    <3>2. /\ attempt'[w][n].pc = "none"
          /\ Others(w, n)
      BY <1>0, <3>1, GoAfter, FinishAfter, CatchAfter
    <3>3. status'[n] # "pending"
      BY <1>0, <1>2, <2>1 DEF MarkSent, Update, Applied
    <3> QED BY <1>0, <1>2, <3>2, <3>3 DEF MarkSent, Update, Effects
  <2>2. CASE outcome # "ok"
    <3>1. PICK fatal \in BOOLEAN : Catch(w, n, "failing", fatal)
      BY <1>2, <2>2 DEF MarkSent
    <3>2. /\ attempt'[w][n].pc = "failing"
          /\ Others(w, n)
      BY <1>0, <3>1, GoAfter, FinishAfter, CatchAfter
    <3> QED BY <1>0, <1>2, <3>2 DEF MarkSent, Update, Effects
  <2> QED BY <2>1, <2>2
<1>3. ASSUME CleanupToken(w, n) PROVE Effects(w, n)
  <2>1. Go(w, n, "failing")
    BY <1>3 DEF CleanupToken
  <2>2. /\ attempt'[w][n].pc = "failing"
        /\ Others(w, n)
    BY <1>0, <2>1, GoAfter, FinishAfter, CatchAfter
  <2> QED BY <1>0, <1>3, <2>2 DEF CleanupToken, Effects
<1>4. ASSUME NEW outcome \in Outcomes, MarkFailed(w, n, outcome) PROVE Effects(w, n)
  <2>1. Go(w, n, "toDlq") \/ Finish(w, n)
    BY <1>4 DEF MarkFailed
  <2>2. /\ attempt'[w][n].pc \in {"toDlq", "none"}
        /\ Others(w, n)
    BY <1>0, <2>1, GoAfter, FinishAfter, CatchAfter
  <2>3. status'[n] # "pending" \/ n \in lost'
    BY <1>0, <1>4 DEF MarkFailed, Update, Applied
  <2> QED BY <1>0, <1>4, <2>2, <2>3 DEF MarkFailed, Update, Effects
<1>5. ASSUME NEW outcome \in Outcomes, MarkDlq(w, n, outcome) PROVE Effects(w, n)
  <2>1. Go(w, n, "burying") \/ Finish(w, n)
    BY <1>5 DEF MarkDlq
  <2>2. /\ attempt'[w][n].pc \in {"burying", "none"}
        /\ Others(w, n)
    BY <1>0, <2>1, GoAfter, FinishAfter, CatchAfter
  <2> QED BY <1>0, <1>5, <2>2 DEF MarkDlq, Update, Effects
<1>6. ASSUME NEW outcome \in Outcomes, AddToDlq(w, n, outcome) PROVE Effects(w, n)
  <2>1. Finish(w, n)
    BY <1>6 DEF AddToDlq
  <2>2. /\ attempt'[w][n].pc = "none"
        /\ Others(w, n)
    BY <1>0, <2>1, GoAfter, FinishAfter, CatchAfter
  <2> QED BY <1>0, <1>6, <2>2 DEF AddToDlq, Update, Effects
<1>7. CASE Trigger(w, n)
  <2>1. PICK pc \in {"sending", "failing"} : Go(w, n, pc)
    BY <1>7 DEF Trigger
  <2>2. /\ attempt'[w][n].pc \in {"sending", "failing"}
        /\ Others(w, n)
    BY <1>0, <2>1, GoAfter, FinishAfter, CatchAfter
  <2> QED BY <1>0, <1>7, <2>2 DEF Trigger, Effects
<1>8. CASE NovuAccepts(w, n)
  <2>1. Go(w, n, "accepted")
    BY <1>8 DEF NovuAccepts
  <2>2. /\ attempt'[w][n].pc = "accepted"
        /\ Others(w, n)
    BY <1>0, <2>1, GoAfter, FinishAfter, CatchAfter
  <2>3. accepted'[n] > 0 /\ \A m \in Notifs : accepted[m] > 0 => accepted'[m] > 0
    BY <1>0, <1>8 DEF NovuAccepts
  <2> QED BY <1>0, <1>8, <2>2, <2>3 DEF NovuAccepts, Effects
<1>9. CASE Delivered(w, n)
  <2>1. Go(w, n, "recording")
    BY <1>9 DEF Delivered
  <2>2. /\ attempt'[w][n].pc = "recording"
        /\ Others(w, n)
    BY <1>0, <2>1, GoAfter, FinishAfter, CatchAfter
  <2> QED BY <1>0, <1>9, <2>2 DEF Delivered, Effects
<1>10. ASSUME NEW invalidToken \in BOOLEAN, NovuRejects(w, n, invalidToken)
       PROVE  Effects(w, n)
  <2>1. PICK pc \in {"cleaning", "failing"} : Go(w, n, pc)
    BY <1>10 DEF NovuRejects
  <2>2. /\ attempt'[w][n].pc \in {"cleaning", "failing"}
        /\ Others(w, n)
    BY <1>0, <2>1, GoAfter, FinishAfter, CatchAfter
  <2> QED BY <1>0, <1>10, <2>2 DEF NovuRejects, Effects
<1>11. CASE TimesOut(w, n)
  <2>1. Go(w, n, "failing")
    BY <1>11 DEF TimesOut
  <2>2. /\ attempt'[w][n].pc = "failing"
        /\ Others(w, n)
    BY <1>0, <2>1, GoAfter, FinishAfter, CatchAfter
  <2> QED BY <1>0, <1>11, <2>2 DEF TimesOut, Effects
<1> QED BY <1>1, <1>2, <1>3, <1>4, <1>5, <1>6, <1>7, <1>8, <1>9, <1>10, <1>11 DEF RetryStep

LEMMA RetryStepIInv ==
    ASSUME NEW X, IInv(X), NEW w \in Workers, NEW n \in Notifs, RetryStep(w, n)
    PROVE  IInv(X)'
<1> USE DEF At
<1>1. TypeOK' /\ Effects(w, n)
  BY RetryStepTypes, RetryEffects DEF IInv
<1>2. CronPhases'
  BY <1>1 DEF IInv, CronPhases, Effects, Others, Workers
<1>3. RecordsWhatNovuTook'
  BY <1>1 DEF IInv, RecordsWhatNovuTook, Effects, Others
<1>4. OwnedExcept(X)'
  <2> SUFFICES ASSUME NEW m \in Notifs \ X, status'[m] = "pending", m \notin lost'
               PROVE  \E v \in Workers : attempt'[v][m].pc \in Owning
    BY DEF OwnedExcept
  <2>1. CASE m # n
    <3>0. status[m] = "pending" /\ m \notin lost
      BY <1>1, <2>1 DEF Effects
    <3>1. PICK v \in Workers : attempt[v][m].pc \in Owning
      BY <3>0 DEF IInv, OwnedExcept
    <3>2. attempt'[v][m] = attempt[v][m]
      BY <1>1, <2>1 DEF Effects, Others
    <3> QED BY <3>1, <3>2
  <2>2. CASE m = n /\ attempt'[w][n].pc \in Owning
    BY <2>2
  <2>3. CASE m = n /\ attempt'[w][n].pc \notin Owning
    <3>1. status[n] = "pending" /\ attempt[w][n].pc \notin Owning /\ n \notin lost
      BY <1>1, <2>3 DEF Effects
    <3>2. PICK v \in Workers : attempt[v][n].pc \in Owning
      BY <2>3, <3>1 DEF IInv, OwnedExcept
    <3>3. attempt'[v][n] = attempt[v][n]
      BY <1>1, <3>1, <3>2 DEF Effects, Others
    <3> QED BY <2>3, <3>2, <3>3
  <2> QED BY <2>1, <2>2, <2>3
<1>5. SentWasAccepted'
  <2> SUFFICES ASSUME NEW m \in Notifs, status'[m] = "sent" PROVE accepted'[m] > 0
    BY DEF SentWasAccepted
  <2>1. CASE m # n
    BY <1>1, <2>1 DEF IInv, SentWasAccepted, Effects
  <2>2. CASE m = n
    <3>1. status[n] = "sent" \/ attempt[w][n].pc = "recording"
      BY <1>1, <2>2 DEF Effects
    <3>2. accepted[n] > 0
      BY <3>1 DEF IInv, SentWasAccepted, RecordsWhatNovuTook
    <3> QED BY <1>1, <2>2, <3>2 DEF Effects
  <2> QED BY <2>1, <2>2
<1> QED BY <1>1, <1>2, <1>3, <1>4, <1>5 DEF IInv

LEMMA NextIInv ==
    ASSUME NEW X, IInv(X), [Next]_vars
    PROVE  IInv(X)'
<1> USE DEF At, store, history
<1>0. TypeOK' /\ attempt \in [Workers -> [Notifs -> Attempt]] /\ TypeOK
  BY NextTypes DEF IInv, TypeOK
<1>1. ASSUME NEW w \in CronWorkers, StartRun(w) \/ QueryFails(w) \/ EndRun(w) PROVE IInv(X)'
  <2>1. /\ UNCHANGED <<status, attempt, accepted, lost>>
        /\ \A v \in CronWorkers : phase'[v] # "processing" =>
             phase[v] # "processing" \/ \A n \in Notifs : attempt[v][n].pc = "none"
    BY <1>0, <1>1 DEF StartRun, QueryFails, EndRun, TypeOK
  <2> QED BY <1>0, <2>1 DEF IInv, CronPhases, RecordsWhatNovuTook, OwnedExcept,
                            SentWasAccepted
<1>2. ASSUME NEW w \in CronWorkers, Query(w) PROVE IInv(X)'
  <2>1. PICK b \in Batches :
          /\ phase' = [phase EXCEPT ![w] = IF b = {} THEN "idle" ELSE "processing"]
          /\ attempt' = [attempt EXCEPT ![w] = [n \in Notifs |->
                 IF n \in b THEN [pc |-> "marking", seen |-> retryCount[n], fatal |-> FALSE]
                 ELSE NoAttempt]]
    BY <1>2 DEF Query
  <2>2. UNCHANGED <<status, accepted, lost>>
    BY <1>2 DEF Query
  <2>3. w \in Workers /\ \A n \in Notifs : attempt[w][n].pc = "none"
    BY <1>2 DEF Workers, Query, IInv, CronPhases
  <2>4. \A n \in Notifs : attempt'[w][n].pc \in {"marking", "none"}
    BY <1>0, <2>1, <2>3 DEF NoAttempt
  <2>5. \A v \in Workers : v # w => attempt'[v] = attempt[v]
    BY <1>0, <2>1
  <2>6. CronPhases'
    <3> SUFFICES ASSUME NEW v \in CronWorkers, phase'[v] # "processing", NEW n \in Notifs
                 PROVE  attempt'[v][n].pc = "none"
      BY DEF CronPhases
    <3>1. CASE v # w
      BY <1>0, <2>1, <2>5, <3>1 DEF IInv, CronPhases, TypeOK, Workers
    <3>2. CASE v = w
      <4>1. b = {}
        BY <1>0, <2>1, <3>2 DEF TypeOK
      <4> QED BY <1>0, <2>1, <2>3, <3>2, <4>1 DEF NoAttempt
    <3> QED BY <3>1, <3>2
  <2>7. RecordsWhatNovuTook'
    BY <2>2, <2>4, <2>5 DEF IInv, RecordsWhatNovuTook
  <2>8. OwnedExcept(X)'
    BY <2>2, <2>3, <2>5 DEF IInv, OwnedExcept, Owning
  <2> QED BY <1>0, <2>2, <2>6, <2>7, <2>8 DEF IInv, SentWasAccepted
<1>3. ASSUME NEW w \in Callers, NEW n \in Notifs, ManualRead(w, n) PROVE IInv(X)'
  <2>1. w \in Workers /\ w \notin CronWorkers
    BY RetryAssumption DEF Workers
  <2>2. /\ UNCHANGED <<status, accepted, lost, phase>>
        /\ attempt[w][n].pc = "none" /\ attempt'[w][n].pc = "resetting"
        /\ Others(w, n)
    BY <1>0, <1>3, <2>1 DEF ManualRead, Others
  <2> QED BY <1>0, <2>1, <2>2 DEF IInv, CronPhases, RecordsWhatNovuTook, OwnedExcept,
                                  SentWasAccepted, Owning, Others, Workers
<1>4. ASSUME NEW w \in Callers, NEW n \in Notifs, NEW outcome \in Outcomes,
             ManualReset(w, n, outcome)
      PROVE  IInv(X)'
  <2>1. w \in Workers /\ w \notin CronWorkers
    BY RetryAssumption DEF Workers
  <2>2. UNCHANGED <<accepted, phase>> /\ lost \subseteq lost' /\ attempt[w][n].pc = "resetting"
    BY <1>4 DEF ManualReset
  <2>3. /\ Others(w, n)
        /\ \/ attempt'[w][n].pc = "marking"
           \/ attempt'[w][n].pc = "none" /\ n \in lost'
    <3>1. CASE outcome = "ok"
      BY <1>0, <1>4, <2>1, <3>1, GoAfter DEF ManualReset
    <3>2. CASE outcome # "ok"
      BY <1>0, <1>4, <2>1, <3>2, FinishAfter DEF ManualReset
    <3> QED BY <3>1, <3>2
  <2>4. /\ \A m \in Notifs : m # n => status'[m] = status[m]
        /\ status'[n] = "sent" => status[n] = "sent"
    BY <1>0, <1>4 DEF ManualReset, Update, TypeOK
  <2>5. CronPhases' /\ RecordsWhatNovuTook' /\ SentWasAccepted'
    BY <2>1, <2>2, <2>3, <2>4 DEF IInv, CronPhases, RecordsWhatNovuTook, SentWasAccepted,
                                  Others, Workers
  <2>6. OwnedExcept(X)'
    BY <2>1, <2>2, <2>3, <2>4 DEF IInv, OwnedExcept, Owning, Others
  <2> QED BY <1>0, <2>5, <2>6 DEF IInv
<1>5. ASSUME NEW w \in Workers, NEW n \in Notifs, RetryStep(w, n) PROVE IInv(X)'
  BY <1>5, RetryStepIInv
<1>6. ASSUME NEW n \in Notifs, LateRequest(n) PROVE IInv(X)'
  <2>1. /\ UNCHANGED <<status, attempt, lost, phase>>
        /\ \A m \in Notifs : accepted[m] > 0 => accepted'[m] > 0
    BY <1>0, <1>6 DEF LateRequest, TypeOK
  <2> QED BY <1>0, <2>1 DEF IInv, CronPhases, RecordsWhatNovuTook, OwnedExcept,
                            SentWasAccepted
<1>7. ASSUME NEW p \in Replicas, Crash(p) PROVE IInv(X)'
  <2>1. /\ UNCHANGED <<status, accepted>>
        /\ \A w \in Workers, n \in Notifs :
             \/ attempt'[w][n] = attempt[w][n]
             \/ attempt'[w][n].pc = "none" /\ (attempt[w][n].pc # "none" => n \in lost')
        /\ lost \subseteq lost'
    BY <1>0, <1>7 DEF Crash, NoAttempt, TypeOK, Attempt
  <2>2. \A w \in CronWorkers : Host[w] # p => phase'[w] = phase[w] /\ attempt'[w] = attempt[w]
    BY <1>0, <1>7 DEF Crash, Workers
  <2>3. \A w \in CronWorkers, n \in Notifs : Host[w] = p => attempt'[w][n].pc = "none"
    BY <1>7 DEF Crash, NoAttempt, Workers
  <2>4. CronPhases'
    BY <2>2, <2>3 DEF IInv, CronPhases
  <2>5. RecordsWhatNovuTook' /\ SentWasAccepted'
    BY <2>1 DEF IInv, RecordsWhatNovuTook, SentWasAccepted
  <2>6. OwnedExcept(X)'
    BY <2>1 DEF IInv, OwnedExcept, Owning
  <2> QED BY <1>0, <2>4, <2>5, <2>6 DEF IInv
<1>8. ASSUME UNCHANGED <<status, attempt, accepted, lost, phase>> PROVE IInv(X)'
  BY <1>0, <1>8 DEF IInv, CronPhases, RecordsWhatNovuTook, OwnedExcept, SentWasAccepted
<1>9. ASSUME \/ \E n \in Notifs : GrowOlder(n)
             \/ \E p \in Replicas : Tick(p)
             \/ \E p \in Replicas, ok \in BOOLEAN : OtherTraffic(p, ok)
             \/ UNCHANGED vars
      PROVE  IInv(X)'
  BY <1>8, <1>9 DEF GrowOlder, Tick, OtherTraffic, vars
<1> QED BY <1>1, <1>2, <1>3, <1>4, <1>5, <1>6, <1>7, <1>9 DEF Next, CronStep, ManualStep

LEMMA InitIInv ==
    ASSUME NEW X, Init
    PROVE  IInv(X)
<1>1. TypeOK
  BY InitTypeOK
<1>2. CronPhases /\ RecordsWhatNovuTook /\ OwnedExcept(X) /\ SentWasAccepted
  BY DEF Init, CronPhases, RecordsWhatNovuTook, OwnedExcept, SentWasAccepted, At,
         NoAttempt, Workers
<1> QED BY <1>1, <1>2 DEF IInv

\* With any number of replicas and manual callers, a PENDING notification has an
\* attempt that will write its next status, or was stranded by a fault.
THEOREM RetryPendingIsOwned == Spec => []PendingIsOwned
<1>1. IInv({}) => PendingIsOwned
  BY DEF IInv, OwnedExcept, PendingIsOwned
<1>2. Init => IInv({})
  BY InitIInv
<1>3. IInv({}) /\ [Next]_vars => IInv({})'
  BY NextIInv
<1> QED BY <1>1, <1>2, <1>3, PTL DEF Spec

\* With any number of replicas and manual callers, SENT is recorded only for
\* notifications that Novu has accepted.
THEOREM RetrySentWasAccepted == Spec => []SentWasAccepted
<1>1. IInv({}) => SentWasAccepted
  BY DEF IInv
<1>2. Init => IInv({})
  BY InitIInv
<1>3. IInv({}) /\ [Next]_vars => IInv({})'
  BY NextIInv
<1> QED BY <1>1, <1>2, <1>3, PTL DEF Spec

-----------------------------------------------------------------------------
(* How far overlapping attempts take retryCount *)

\* The attempts that have still to count themselves.
Waiting(n) == {w \in Workers : attempt[w][n].pc = "marking"}

\* Every attempt starts below maxRetries and each worker has one at most, so what is
\* counted and what is still to be counted stay below the bound together.
CountInv ==
    /\ TypeOK
    /\ \A n \in Notifs :
         /\ status[n] # "absent"
         /\ retryCount[n] + Cardinality(Waiting(n)) < MaxRetries + Cardinality(Workers)

LEMMA SomeWorkers ==
    ASSUME NEW S \in SUBSET Workers, NEW T \in SUBSET S
    PROVE  /\ Cardinality(T) \in Nat /\ Cardinality(S) \in Nat /\ Cardinality(Workers) \in Nat
           /\ Cardinality(T) <= Cardinality(S) /\ Cardinality(S) <= Cardinality(Workers)
<1>1. IsFiniteSet(Workers)
  BY RetryAssumption
<1>2. IsFiniteSet(S) /\ Cardinality(S) <= Cardinality(Workers)
  BY <1>1, FS_Subset
<1>3. IsFiniteSet(T) /\ Cardinality(T) <= Cardinality(S)
  BY <1>2, FS_Subset
<1> QED BY <1>1, <1>2, <1>3, FS_CardinalityType

\* A step that neither counts nor starts an attempt keeps the bound.
LEMMA Uncounted ==
    ASSUME CountInv, NEW n \in Notifs,
           retryCount'[n] = retryCount[n], Waiting(n)' \subseteq Waiting(n)
    PROVE  retryCount'[n] + Cardinality(Waiting(n)') < MaxRetries + Cardinality(Workers)
<1>1. Waiting(n) \in SUBSET Workers /\ Waiting(n)' \in SUBSET Waiting(n)
  BY DEF Waiting
<1>2. /\ Cardinality(Waiting(n)') \in Nat /\ Cardinality(Waiting(n)) \in Nat
      /\ Cardinality(Workers) \in Nat
      /\ Cardinality(Waiting(n)') <= Cardinality(Waiting(n))
  BY <1>1, SomeWorkers
<1>3. retryCount[n] \in Nat /\ MaxRetries \in Nat
  BY RetryAssumption DEF CountInv, TypeOK
<1>4. retryCount[n] + Cardinality(Waiting(n)) < MaxRetries + Cardinality(Workers)
  BY DEF CountInv
<1> QED BY <1>2, <1>3, <1>4

\* An attempt that counts itself stops waiting.
LEMMA Counted ==
    ASSUME CountInv, NEW n \in Notifs, NEW w \in Waiting(n),
           retryCount'[n] \in {retryCount[n], retryCount[n] + 1},
           Waiting(n)' \subseteq Waiting(n) \ {w}
    PROVE  retryCount'[n] + Cardinality(Waiting(n)') < MaxRetries + Cardinality(Workers)
<1>1. /\ Waiting(n) \in SUBSET Workers
      /\ Waiting(n) \ {w} \in SUBSET Workers
      /\ Waiting(n)' \in SUBSET (Waiting(n) \ {w})
  BY DEF Waiting
<1>2. /\ Cardinality(Waiting(n)') \in Nat
      /\ Cardinality(Workers) \in Nat
      /\ Cardinality(Waiting(n)') <= Cardinality(Waiting(n) \ {w})
  BY <1>1, SomeWorkers
<1>3. IsFiniteSet(Waiting(n)) /\ Cardinality(Waiting(n)) \in Nat
  BY <1>1, RetryAssumption, FS_Subset, FS_CardinalityType
<1>4. Cardinality(Waiting(n) \ {w}) = Cardinality(Waiting(n)) - 1
  BY <1>3, FS_RemoveElement
<1>5. retryCount[n] \in Nat /\ MaxRetries \in Nat
  BY RetryAssumption DEF CountInv, TypeOK
<1>6. retryCount[n] + Cardinality(Waiting(n)) < MaxRetries + Cardinality(Workers)
  BY DEF CountInv
<1> QED BY <1>2, <1>3, <1>4, <1>5, <1>6

\* Attempts that start when the count is below maxRetries can be as many as the workers.
LEMMA Started ==
    ASSUME NEW n \in Notifs, retryCount'[n] \in Nat, retryCount'[n] < MaxRetries
    PROVE  retryCount'[n] + Cardinality(Waiting(n)') < MaxRetries + Cardinality(Workers)
<1>1. Waiting(n)' \in SUBSET Workers
  BY DEF Waiting
<1>2. /\ Cardinality(Waiting(n)') \in Nat /\ Cardinality(Workers) \in Nat
      /\ Cardinality(Waiting(n)') <= Cardinality(Workers)
  BY <1>1, SomeWorkers
<1>3. MaxRetries \in Nat
  BY RetryAssumption
<1> QED BY <1>2, <1>3

\* No step of an attempt leads back to where it counts itself.
LEMMA NeverMarksAgain ==
    ASSUME TypeOK, NEW w \in Workers, NEW n \in Notifs, RetryStep(w, n)
    PROVE  Others(w, n) /\ attempt'[w][n].pc # "marking"
<1> USE DEF At
<1>0. attempt \in [Workers -> [Notifs -> Attempt]]
  BY DEF TypeOK
<1>1. ASSUME NEW pc, pc # "marking", NEW b, Go(w, n, pc) \/ Finish(w, n) \/ Catch(w, n, pc, b)
      PROVE  Others(w, n) /\ attempt'[w][n].pc # "marking"
  BY <1>0, <1>1, GoAfter, FinishAfter, CatchAfter
<1>2. ASSUME NEW outcome \in Outcomes, MarkPending(w, n, outcome)
      PROVE  Others(w, n) /\ attempt'[w][n].pc # "marking"
  <2>1. PICK pc \in {"triggering", "failing"}, b \in BOOLEAN : Go(w, n, pc) \/ Catch(w, n, pc, b)
    BY <1>2 DEF MarkPending
  <2> QED BY <1>1, <2>1
<1>3. ASSUME NEW outcome \in Outcomes, MarkSent(w, n, outcome)
      PROVE  Others(w, n) /\ attempt'[w][n].pc # "marking"
  <2>1. PICK b \in BOOLEAN : Finish(w, n) \/ Catch(w, n, "failing", b)
    BY <1>3 DEF MarkSent
  <2> QED BY <1>1, <2>1
<1>4. ASSUME CleanupToken(w, n)
      PROVE  Others(w, n) /\ attempt'[w][n].pc # "marking"
  BY <1>1, <1>4 DEF CleanupToken
<1>5. ASSUME NEW outcome \in Outcomes, MarkFailed(w, n, outcome)
      PROVE  Others(w, n) /\ attempt'[w][n].pc # "marking"
  BY <1>1, <1>5 DEF MarkFailed
<1>6. ASSUME NEW outcome \in Outcomes, MarkDlq(w, n, outcome)
      PROVE  Others(w, n) /\ attempt'[w][n].pc # "marking"
  BY <1>1, <1>6 DEF MarkDlq
<1>7. ASSUME NEW outcome \in Outcomes, AddToDlq(w, n, outcome)
      PROVE  Others(w, n) /\ attempt'[w][n].pc # "marking"
  BY <1>1, <1>7 DEF AddToDlq
<1>8. ASSUME Trigger(w, n) PROVE Others(w, n) /\ attempt'[w][n].pc # "marking"
  <2>1. PICK pc \in {"sending", "failing"} : Go(w, n, pc)
    BY <1>8 DEF Trigger
  <2> QED BY <1>1, <2>1
<1>9. ASSUME NovuAccepts(w, n) PROVE Others(w, n) /\ attempt'[w][n].pc # "marking"
  BY <1>1, <1>9 DEF NovuAccepts
<1>10. ASSUME Delivered(w, n) PROVE Others(w, n) /\ attempt'[w][n].pc # "marking"
  BY <1>1, <1>10 DEF Delivered
<1>11. ASSUME NEW invalidToken \in BOOLEAN, NovuRejects(w, n, invalidToken)
       PROVE  Others(w, n) /\ attempt'[w][n].pc # "marking"
  <2>1. PICK pc \in {"cleaning", "failing"} : Go(w, n, pc)
    BY <1>11 DEF NovuRejects
  <2> QED BY <1>1, <2>1
<1>12. ASSUME TimesOut(w, n) PROVE Others(w, n) /\ attempt'[w][n].pc # "marking"
  BY <1>1, <1>12 DEF TimesOut
<1> QED BY <1>2, <1>3, <1>4, <1>5, <1>6, <1>7, <1>8, <1>9, <1>10, <1>11, <1>12 DEF RetryStep

LEMMA RetryStepCount ==
    ASSUME CountInv, NEW w \in Workers, NEW n \in Notifs, RetryStep(w, n)
    PROVE  CountInv'
<1>1. TypeOK /\ TypeOK' /\ Others(w, n) /\ attempt'[w][n].pc # "marking"
  BY NeverMarksAgain, RetryStepTypes DEF CountInv
<1>2. \A m \in Notifs : Waiting(m)' \subseteq Waiting(m)
  BY <1>1 DEF Waiting, Others
<1>3. w \notin Waiting(n)'
  BY <1>1 DEF Waiting
<1>4. \A m \in Notifs : status'[m] # "absent"
  BY <1>1 DEF CountInv, TypeOK, RetryStep, MarkPending, MarkSent, CleanupToken, MarkFailed,
              MarkDlq, AddToDlq, Update, Trigger, NovuAccepts, Delivered, NovuRejects, TimesOut,
              store
<1>5. \/ retryCount' = retryCount
      \/ /\ w \in Waiting(n)
         /\ retryCount' = [retryCount EXCEPT ![n] = @ + 1]
  BY DEF RetryStep, MarkPending, MarkSent, CleanupToken, MarkFailed, MarkDlq, AddToDlq,
         Trigger, NovuAccepts, Delivered, NovuRejects, TimesOut, store, At, Waiting
<1>6. ASSUME NEW m \in Notifs
      PROVE  retryCount'[m] + Cardinality(Waiting(m)') < MaxRetries + Cardinality(Workers)
  <2>1. CASE retryCount'[m] = retryCount[m]
    BY <1>2, <2>1, Uncounted
  <2>2. CASE retryCount'[m] # retryCount[m]
    <3>1. m = n /\ w \in Waiting(n) /\ retryCount'[n] = retryCount[n] + 1
      BY <1>1, <1>5, <2>2 DEF TypeOK
    <3>2. Waiting(n)' \subseteq Waiting(n) \ {w}
      BY <1>2, <1>3
    <3> QED BY <3>1, <3>2, Counted
  <2> QED BY <2>1, <2>2
<1> QED BY <1>1, <1>4, <1>6 DEF CountInv

LEMMA NextCount == CountInv /\ [Next]_vars => CountInv'
<1> SUFFICES ASSUME CountInv, [Next]_vars PROVE CountInv'
  OBVIOUS
<1> USE DEF At, store, history
<1>0. TypeOK' /\ TypeOK /\ attempt \in [Workers -> [Notifs -> Attempt]]
  BY NextTypes DEF CountInv, TypeOK
<1>1. ASSUME UNCHANGED <<status, retryCount>>,
             \A m \in Notifs : Waiting(m)' \subseteq Waiting(m)
      PROVE  CountInv'
  <2>1. ASSUME NEW m \in Notifs
        PROVE  retryCount'[m] + Cardinality(Waiting(m)') < MaxRetries + Cardinality(Workers)
    BY <1>1, Uncounted
  <2> QED BY <1>0, <1>1, <2>1 DEF CountInv
<1>2. ASSUME NEW w \in CronWorkers, Query(w) PROVE CountInv'
  <2>1. PICK b \in Batches :
          attempt' = [attempt EXCEPT ![w] = [n \in Notifs |->
                 IF n \in b THEN [pc |-> "marking", seen |-> retryCount[n], fatal |-> FALSE]
                 ELSE NoAttempt]]
    BY <1>2 DEF Query
  <2>2. UNCHANGED <<status, retryCount>>
    BY <1>2 DEF Query
  <2>3. ASSUME NEW m \in Notifs
        PROVE  retryCount'[m] + Cardinality(Waiting(m)') < MaxRetries + Cardinality(Workers)
    <3>1. CASE m \in b
      <4>1. retryCount[m] < MaxRetries
        BY <3>1 DEF Batches, Eligible
      <4> QED BY <1>0, <2>2, <4>1, Started DEF TypeOK
    <3>2. CASE m \notin b
      <4>1. Waiting(m)' \subseteq Waiting(m)
        BY <1>0, <2>1, <3>2 DEF Waiting, NoAttempt, Workers
      <4> QED BY <2>2, <4>1, Uncounted
    <3> QED BY <3>1, <3>2
  <2> QED BY <1>0, <2>2, <2>3 DEF CountInv
<1>3. ASSUME NEW w \in Callers, NEW n \in Notifs, ManualRead(w, n) PROVE CountInv'
  <2>1. \A m \in Notifs : Waiting(m)' \subseteq Waiting(m)
    BY <1>0, <1>3 DEF ManualRead, Waiting, Workers
  <2> QED BY <1>1, <1>3, <2>1 DEF ManualRead
<1>4. ASSUME NEW w \in Callers, NEW n \in Notifs, NEW outcome \in Outcomes,
             ManualReset(w, n, outcome)
      PROVE  CountInv'
  <2>0. w \in Workers /\ status[n] # "absent"
    BY DEF Workers, CountInv
  <2>1. Others(w, n) /\ (outcome # "ok" => attempt'[w][n].pc = "none")
    <3>1. CASE outcome = "ok"
      BY <1>0, <1>4, <2>0, <3>1, GoAfter DEF ManualReset
    <3>2. CASE outcome # "ok"
      BY <1>0, <1>4, <2>0, <3>2, FinishAfter DEF ManualReset
    <3> QED BY <3>1, <3>2
  <2>2. /\ \A m \in Notifs : status'[m] # "absent"
        /\ \A m \in Notifs : m # n => retryCount'[m] = retryCount[m]
    BY <1>0, <1>4 DEF ManualReset, Update, CountInv, TypeOK
  <2>3. ASSUME NEW m \in Notifs
        PROVE  retryCount'[m] + Cardinality(Waiting(m)') < MaxRetries + Cardinality(Workers)
    <3>1. CASE m # n
      <4>1. Waiting(m)' \subseteq Waiting(m)
        BY <2>1, <3>1 DEF Waiting, Others
      <4> QED BY <2>2, <3>1, <4>1, Uncounted
    <3>2. CASE m = n /\ retryCount'[n] = 0
      BY <3>2, Started, RetryAssumption
    <3>3. CASE m = n /\ retryCount'[n] # 0
      <4>1. outcome = "rejected" /\ retryCount' = retryCount
        BY <1>0, <1>4, <2>0, <3>3 DEF ManualReset, Applied, TypeOK
      <4>2. Waiting(m)' \subseteq Waiting(m)
        BY <2>1, <4>1, <3>3 DEF Waiting, Others
      <4> QED BY <4>1, <4>2, Uncounted
    <3> QED BY <3>1, <3>2, <3>3
  <2> QED BY <1>0, <2>2, <2>3 DEF CountInv
<1>5. ASSUME NEW w \in Workers, NEW n \in Notifs, RetryStep(w, n) PROVE CountInv'
  BY <1>5, RetryStepCount
<1>6. ASSUME NEW p \in Replicas, Crash(p) PROVE CountInv'
  <2>1. \A m \in Notifs : Waiting(m)' \subseteq Waiting(m)
    BY <1>0, <1>6 DEF Crash, Waiting, NoAttempt
  <2> QED BY <1>1, <1>6, <2>1 DEF Crash
<1>7. ASSUME UNCHANGED <<status, retryCount, attempt>> PROVE CountInv'
  BY <1>1, <1>7 DEF Waiting
<1>8. ASSUME \/ \E w \in CronWorkers : StartRun(w) \/ QueryFails(w) \/ EndRun(w)
             \/ \E n \in Notifs : LateRequest(n) \/ GrowOlder(n)
             \/ \E p \in Replicas : Tick(p)
             \/ \E p \in Replicas, ok \in BOOLEAN : OtherTraffic(p, ok)
             \/ UNCHANGED vars
      PROVE  CountInv'
  BY <1>7, <1>8 DEF StartRun, QueryFails, EndRun, LateRequest, GrowOlder, Tick, OtherTraffic, vars
<1> QED BY <1>2, <1>3, <1>4, <1>5, <1>6, <1>8 DEF Next, CronStep, ManualStep

LEMMA InitCount == Init => CountInv
<1> SUFFICES ASSUME Init PROVE CountInv
  OBVIOUS
<1>1. TypeOK
  BY InitTypeOK
<1>2. ASSUME NEW n \in Notifs
      PROVE  /\ status[n] # "absent"
             /\ retryCount[n] + Cardinality(Waiting(n)) < MaxRetries + Cardinality(Workers)
  <2>1. status[n] = "failed" /\ retryCount[n] = 0
    BY DEF Init
  <2>2. Waiting(n) \in SUBSET Workers
    BY DEF Waiting
  <2>3. /\ Cardinality(Waiting(n)) \in Nat /\ Cardinality(Workers) \in Nat
        /\ Cardinality(Waiting(n)) <= Cardinality(Workers)
    BY <2>2, SomeWorkers
  <2> QED BY <2>1, <2>3, RetryAssumption
<1> QED BY <1>1, <1>2 DEF CountInv

\* However many replicas' attempts overlap, retryCount exceeds maxRetries by less
\* than the number of workers: the query's filter bounds what is sent to one user.
THEOREM RetryCountIsBounded == Spec => []RetryCountBound
<1>1. CountInv => RetryCountBound
  <2> SUFFICES ASSUME CountInv, NEW n \in Notifs
               PROVE  retryCount[n] < MaxRetries + Cardinality(Workers)
    BY DEF RetryCountBound
  <2>1. Waiting(n) \in SUBSET Workers
    BY DEF Waiting
  <2>2. Cardinality(Waiting(n)) \in Nat /\ Cardinality(Workers) \in Nat
    BY <2>1, SomeWorkers
  <2> QED BY <2>2, RetryAssumption DEF CountInv, TypeOK
<1> QED BY <1>1, InitCount, NextCount, PTL DEF Spec

-----------------------------------------------------------------------------
(* A lone worker: one replica and no manual retries *)

Lone == \E w \in CronWorkers : Workers = {w}

Trying == {"triggering", "sending", "accepted", "recording", "cleaning", "failing"}

\* The count that an attempt read is the one it leaves, or one less.
CountsItself(w, n) ==
    /\ attempt[w][n].pc = "marking" =>
         retryCount[n] = attempt[w][n].seen /\ retryCount[n] < MaxRetries
    /\ attempt[w][n].pc \in Trying => retryCount[n] <= attempt[w][n].seen + 1
    /\ status[n] = "failed" /\ retryCount[n] >= MaxRetries =>
         n \in lost \/ attempt[w][n].pc = "toDlq"

\* Without a fault, Novu accepts a notification in one attempt, and that attempt
\* records it.
AcceptedOnce(w, n) ==
    /\ n \in outstanding => n \in ambiguous
    /\ n \notin ambiguous =>
         /\ status[n] = "sent" => attempt[w][n].pc = "none"
         /\ accepted[n] # 0 =>
              /\ accepted[n] = 1
              /\ \/ attempt[w][n].pc \in {"accepted", "recording"}
                 \/ attempt[w][n].pc = "none" /\ status[n] = "sent"

Alone(w, n) == status[n] # "absent" /\ CountsItself(w, n) /\ AcceptedOnce(w, n)

LoneInv == IInv({}) /\ \A w \in Workers, n \in Notifs : Alone(w, n)

\* An update of an attempt that goes on keeps the count it read.
LEMMA GoesOn ==
    ASSUME attempt \in [Workers -> [Notifs -> Attempt]],
           NEW w \in Workers, NEW n \in Notifs, NEW pc, NEW b, Go(w, n, pc) \/ Catch(w, n, pc, b)
    PROVE  /\ attempt'[w][n].pc = pc /\ attempt'[w][n].seen = attempt[w][n].seen
           /\ attempt[w][n].seen \in Nat
<1>1. attempt[w] \in [Notifs -> Attempt] /\ attempt[w][n] \in Attempt
  OBVIOUS
<1> QED BY <1>1 DEF Go, Catch, Attempt

LEMMA UpdateIs ==
    ASSUME TypeOK, NEW n \in Notifs, NEW s, NEW outcome, Update(n, s, outcome),
           status[n] # "absent"
    PROVE  /\ status'[n] = IF outcome = "rejected" THEN status[n] ELSE s
           /\ Applied(n, outcome) <=> outcome # "rejected"
BY DEF TypeOK, Update, Applied

LEMMA RetryStepAlone ==
    ASSUME TypeOK, NEW w \in Workers, NEW n \in Notifs, Alone(w, n), RetryStep(w, n)
    PROVE  Alone(w, n)'
<1> USE DEF At, store, history, Alone, Trying
<1>0. /\ attempt \in [Workers -> [Notifs -> Attempt]]
      /\ retryCount \in [Notifs -> Nat] /\ accepted \in [Notifs -> 0..2]
      /\ MaxRetries \in Nat
  BY RetryAssumption DEF TypeOK
<1>1. ASSUME NEW outcome \in Outcomes, MarkPending(w, n, outcome) PROVE Alone(w, n)'
  <2>1. PICK pc \in {"triggering", "failing"}, b \in BOOLEAN : Go(w, n, pc) \/ Catch(w, n, pc, b)
    BY <1>1 DEF MarkPending
  <2>2. /\ attempt'[w][n].pc \in {"triggering", "failing"}
        /\ attempt'[w][n].seen = attempt[w][n].seen /\ attempt[w][n].seen \in Nat
    BY <1>0, <2>1, GoesOn
  <2>3. /\ status'[n] = IF outcome = "rejected" THEN status[n] ELSE "pending"
        /\ retryCount'[n] = IF outcome = "rejected" THEN retryCount[n] ELSE retryCount[n] + 1
    BY <1>0, <1>1, UpdateIs DEF MarkPending
  <2>4. attempt[w][n].pc = "marking" /\ UNCHANGED <<outstanding, accepted, ambiguous, lost>>
    BY <1>1 DEF MarkPending
  <2>5. CountsItself(w, n)'
    BY <1>0, <2>2, <2>3, <2>4 DEF CountsItself
  <2> QED BY <2>2, <2>3, <2>4, <2>5 DEF AcceptedOnce
<1>2. ASSUME NEW outcome \in Outcomes, MarkSent(w, n, outcome) PROVE Alone(w, n)'
  <2>1. /\ attempt[w][n].pc = "recording"
        /\ UNCHANGED <<retryCount, outstanding, accepted, lost>>
        /\ status'[n] = IF outcome = "rejected" THEN status[n] ELSE "sent"
    BY <1>2, UpdateIs DEF MarkSent
  <2>2. CASE outcome = "ok"
    <3>1. attempt'[w][n].pc = "none" /\ ambiguous' = ambiguous
      BY <1>0, <1>2, <2>2, FinishAfter DEF MarkSent
    <3> QED BY <2>1, <2>2, <3>1 DEF CountsItself, AcceptedOnce
  <2>3. CASE outcome # "ok"
    <3>1. PICK b \in BOOLEAN : Catch(w, n, "failing", b)
      BY <1>2, <2>3 DEF MarkSent
    <3>2. /\ attempt'[w][n].pc = "failing" /\ attempt'[w][n].seen = attempt[w][n].seen
          /\ ambiguous' = ambiguous \cup {n}
      BY <1>0, <1>2, <2>3, <3>1, GoesOn DEF MarkSent
    <3> QED BY <2>1, <3>2 DEF CountsItself, AcceptedOnce
  <2> QED BY <2>2, <2>3
<1>3. ASSUME NEW outcome \in Outcomes, MarkFailed(w, n, outcome) PROVE Alone(w, n)'
  <2>1. /\ attempt[w][n].pc = "failing"
        /\ UNCHANGED <<retryCount, outstanding, accepted, ambiguous>>
        /\ status'[n] = IF outcome = "rejected" THEN status[n] ELSE "failed"
        /\ lost' = IF outcome = "ok" THEN lost ELSE lost \cup {n}
    BY <1>3, UpdateIs DEF MarkFailed
  <2>2. CASE outcome = "ok" /\ (attempt[w][n].fatal \/ Exhausted(w, n))
    <3>1. attempt'[w][n].pc = "toDlq"
      BY <1>0, <1>3, <2>2, GoesOn DEF MarkFailed
    <3> QED BY <2>1, <2>2, <3>1 DEF CountsItself, AcceptedOnce
  <2>3. CASE ~(outcome = "ok" /\ (attempt[w][n].fatal \/ Exhausted(w, n)))
    <3>1. attempt'[w][n].pc = "none"
      BY <1>0, <1>3, <2>3, FinishAfter DEF MarkFailed
    <3>2. attempt[w][n].seen \in Nat
      BY <1>0 DEF Attempt
    <3>3. outcome = "ok" => retryCount[n] < MaxRetries
      BY <1>0, <2>1, <2>3, <3>2 DEF Exhausted, CountsItself
    <3>4. CountsItself(w, n)'
      BY <1>0, <2>1, <3>1, <3>3 DEF CountsItself
    <3> QED BY <2>1, <3>1, <3>4 DEF AcceptedOnce
  <2> QED BY <2>2, <2>3
<1>4. ASSUME NEW outcome \in Outcomes, MarkDlq(w, n, outcome) PROVE Alone(w, n)'
  <2>1. /\ attempt[w][n].pc = "toDlq"
        /\ UNCHANGED <<retryCount, outstanding, accepted, ambiguous>>
        /\ status'[n] = IF outcome = "rejected" THEN status[n] ELSE "dlq"
        /\ lost' = IF outcome = "ok" THEN lost ELSE lost \cup {n}
    BY <1>4, UpdateIs DEF MarkDlq
  <2>2. attempt'[w][n].pc = IF outcome = "ok" THEN "burying" ELSE "none"
    <3>1. CASE outcome = "ok"
      BY <1>0, <1>4, <3>1, GoesOn DEF MarkDlq
    <3>2. CASE outcome # "ok"
      BY <1>0, <1>4, <3>2, FinishAfter DEF MarkDlq
    <3> QED BY <3>1, <3>2
  <2> QED BY <2>1, <2>2 DEF CountsItself, AcceptedOnce
<1>5. ASSUME NEW outcome \in Outcomes, AddToDlq(w, n, outcome) PROVE Alone(w, n)'
  <2>1. /\ attempt[w][n].pc = "burying" /\ attempt'[w][n].pc = "none"
        /\ UNCHANGED <<retryCount, outstanding, accepted, ambiguous, lost>>
        /\ status'[n] = IF outcome = "rejected" THEN status[n] ELSE "dlq"
    BY <1>0, <1>5, UpdateIs, FinishAfter DEF AddToDlq
  <2> QED BY <2>1 DEF CountsItself, AcceptedOnce
<1>6. CASE Trigger(w, n)
  <2>1. PICK pc \in {"sending", "failing"} : Go(w, n, pc)
    BY <1>6 DEF Trigger
  <2>2. /\ attempt'[w][n].pc \in {"sending", "failing"}
        /\ attempt'[w][n].seen = attempt[w][n].seen
    BY <1>0, <2>1, GoesOn
  <2>3. /\ attempt[w][n].pc = "triggering"
        /\ UNCHANGED <<status, retryCount, outstanding, accepted, ambiguous, lost>>
    BY <1>6 DEF Trigger
  <2> QED BY <2>2, <2>3 DEF CountsItself, AcceptedOnce
<1>7. CASE NovuAccepts(w, n)
  <2>1. /\ attempt[w][n].pc \in {"sending", "accepted"}
        /\ accepted' = [accepted EXCEPT ![n] = IF accepted[n] = 0 THEN 1 ELSE 2]
        /\ ambiguous' = IF attempt[w][n].pc = "accepted" THEN ambiguous \cup {n} ELSE ambiguous
        /\ UNCHANGED <<status, retryCount, outstanding, lost>>
    BY <1>7 DEF NovuAccepts
  <2>2. attempt'[w][n].pc = "accepted" /\ attempt'[w][n].seen = attempt[w][n].seen
    <3>1. attempt \in [Workers -> [Notifs -> Attempt]] /\ Go(w, n, "accepted")
      BY <1>0, <1>7 DEF NovuAccepts
    <3> HIDE DEF At, store, history, Alone, Trying
    <3> QED BY <3>1, GoesOn
  <2>3. /\ accepted'[n] = IF accepted[n] = 0 THEN 1 ELSE 2
        /\ n \notin ambiguous' => n \notin ambiguous /\ attempt[w][n].pc # "accepted"
        /\ n \in ambiguous => n \in ambiguous'
    BY <1>0, <2>1
  <2>4. CountsItself(w, n)'
    BY <2>1, <2>2 DEF CountsItself
  <2>5. AcceptedOnce(w, n)'
    BY <2>1, <2>2, <2>3 DEF AcceptedOnce
  <2> QED BY <2>1, <2>4, <2>5
<1>8. CASE Delivered(w, n)
  <2>1. /\ attempt'[w][n].pc = "recording" /\ attempt'[w][n].seen = attempt[w][n].seen
        /\ attempt[w][n].pc = "accepted"
        /\ UNCHANGED <<status, retryCount, outstanding, accepted, ambiguous, lost>>
    BY <1>0, <1>8, GoesOn DEF Delivered
  <2> QED BY <2>1 DEF CountsItself, AcceptedOnce
<1>9. ASSUME NEW invalidToken \in BOOLEAN, NovuRejects(w, n, invalidToken) PROVE Alone(w, n)'
  <2>1. PICK pc \in {"cleaning", "failing"} : Go(w, n, pc)
    BY <1>9 DEF NovuRejects
  <2>2. /\ attempt'[w][n].pc \in {"cleaning", "failing"}
        /\ attempt'[w][n].seen = attempt[w][n].seen
    BY <1>0, <2>1, GoesOn
  <2>3. /\ attempt[w][n].pc \in {"sending", "accepted"}
        /\ n \notin ambiguous' => n \notin ambiguous /\ attempt[w][n].pc # "accepted"
        /\ n \in ambiguous => n \in ambiguous'
        /\ UNCHANGED <<status, retryCount, outstanding, accepted, lost>>
    BY <1>9 DEF NovuRejects
  <2> QED BY <2>2, <2>3 DEF CountsItself, AcceptedOnce
<1>10. CASE TimesOut(w, n)
  <2>1. /\ attempt'[w][n].pc = "failing" /\ attempt'[w][n].seen = attempt[w][n].seen
        /\ attempt[w][n].pc \in {"sending", "accepted"}
        /\ n \in ambiguous' /\ UNCHANGED <<status, retryCount, accepted, lost>>
    BY <1>0, <1>10, GoesOn DEF TimesOut
  <2> QED BY <2>1 DEF CountsItself, AcceptedOnce
<1>11. CASE CleanupToken(w, n)
  <2>1. /\ attempt'[w][n].pc = "failing" /\ attempt'[w][n].seen = attempt[w][n].seen
        /\ attempt[w][n].pc = "cleaning"
        /\ UNCHANGED <<status, retryCount, outstanding, accepted, ambiguous, lost>>
    BY <1>0, <1>11, GoesOn DEF CleanupToken
  <2> QED BY <2>1 DEF CountsItself, AcceptedOnce
<1> QED BY <1>1, <1>2, <1>3, <1>4, <1>5, <1>6, <1>7, <1>8, <1>9, <1>10, <1>11 DEF RetryStep

\* A step of one attempt leaves the other notifications of its worker alone.
LEMMA RetryStepElsewhere ==
    ASSUME TypeOK, NEW w \in Workers, NEW n \in Notifs, NEW m \in Notifs, m # n,
           Alone(w, m), RetryStep(w, n)
    PROVE  Alone(w, m)'
<1> USE DEF At, store, history
<1>1. /\ status \in [Notifs -> Status] /\ retryCount \in [Notifs -> Nat]
      /\ accepted \in [Notifs -> 0..2]
  BY DEF TypeOK
<1>2. attempt'[w][m] = attempt[w][m]
  BY RetryEffects DEF Effects, Others
<1>3. status'[m] = status[m]
  BY RetryEffects DEF Effects
<1>4. retryCount'[m] = retryCount[m]
  BY <1>1 DEF RetryStep, MarkPending, MarkSent, CleanupToken, MarkFailed, MarkDlq, AddToDlq,
              Trigger, NovuAccepts, Delivered, NovuRejects, TimesOut
<1>5. accepted'[m] = accepted[m]
  BY <1>1 DEF RetryStep, MarkPending, MarkSent, CleanupToken, MarkFailed, MarkDlq, AddToDlq,
              Trigger, NovuAccepts, Delivered, NovuRejects, TimesOut
<1>6. /\ m \in lost' <=> m \in lost
      /\ m \in ambiguous' <=> m \in ambiguous
      /\ m \in outstanding' <=> m \in outstanding
  BY DEF RetryStep, MarkPending, MarkSent, CleanupToken, MarkFailed, MarkDlq, AddToDlq,
         Trigger, NovuAccepts, Delivered, NovuRejects, TimesOut
<1> QED BY <1>2, <1>3, <1>4, <1>5, <1>6 DEF Alone, CountsItself, AcceptedOnce, Trying

LEMMA LoneNext ==
    ASSUME Lone, LoneInv, [Next]_vars
    PROVE  LoneInv'
<1> USE DEF At, store, history
<1>1. PICK w \in CronWorkers : Workers = {w}
  BY DEF Lone
<1>2. Callers = {}
  BY <1>1, RetryAssumption DEF Workers
<1>3. TypeOK /\ IInv({}) /\ IInv({})' /\ attempt \in [Workers -> [Notifs -> Attempt]]
  BY NextIInv DEF LoneInv, IInv, TypeOK
<1>4. SUFFICES ASSUME NEW m \in Notifs PROVE Alone(w, m)'
  BY <1>1, <1>3 DEF LoneInv
<1>5. Alone(w, m)
  BY <1>1 DEF LoneInv
<1>6. CASE UNCHANGED <<status, retryCount, attempt, outstanding, accepted, ambiguous, lost>>
  BY <1>5, <1>6 DEF Alone, CountsItself, AcceptedOnce, Trying
<1>7. CASE Query(w)
  <2>1. PICK b \in Batches :
          attempt' = [attempt EXCEPT ![w] = [n \in Notifs |->
                 IF n \in b THEN [pc |-> "marking", seen |-> retryCount[n], fatal |-> FALSE]
                 ELSE NoAttempt]]
    BY <1>7 DEF Query
  <2>2. UNCHANGED <<status, retryCount, outstanding, accepted, ambiguous, lost>>
    BY <1>7 DEF Query
  <2>3. attempt[w][m].pc = "none"
    BY <1>1, <1>3, <1>7 DEF Query, IInv, CronPhases
  <2>4. CASE m \in b
    <3>1. status[m] = "failed" /\ retryCount[m] < MaxRetries
      BY <2>4 DEF Batches, Eligible
    <3>2. attempt'[w][m] = [pc |-> "marking", seen |-> retryCount[m], fatal |-> FALSE]
      BY <1>1, <1>3, <2>1, <2>4
    <3>3. retryCount[m] \in Nat /\ MaxRetries \in Nat
      BY <1>3, RetryAssumption DEF TypeOK
    <3> QED BY <1>5, <2>2, <2>3, <3>1, <3>2, <3>3
            DEF Alone, CountsItself, AcceptedOnce, Trying
  <2>5. CASE m \notin b
    <3>1. attempt'[w][m].pc = "none"
      BY <1>1, <1>3, <2>1, <2>5 DEF NoAttempt
    <3> QED BY <1>5, <2>2, <2>3, <3>1 DEF Alone, CountsItself, AcceptedOnce, Trying
  <2> QED BY <2>4, <2>5
<1>8. ASSUME NEW n \in Notifs, RetryStep(w, n) PROVE Alone(w, m)'
  <2>1. CASE m = n
    BY <1>1, <1>3, <1>5, <1>8, <2>1, RetryStepAlone
  <2>2. CASE m # n
    BY <1>1, <1>3, <1>5, <1>8, <2>2, RetryStepElsewhere
  <2> QED BY <2>1, <2>2
<1>9. ASSUME NEW n \in Notifs, LateRequest(n) PROVE Alone(w, m)'
  <2>1. /\ UNCHANGED <<status, retryCount, attempt, ambiguous, lost>>
        /\ m \in outstanding' => m \in outstanding
        /\ accepted'[m] = accepted[m] \/ m \in outstanding
    BY <1>3, <1>9 DEF LateRequest, TypeOK
  <2> QED BY <1>5, <2>1 DEF Alone, CountsItself, AcceptedOnce, Trying
<1>10. ASSUME NEW p \in Replicas, Crash(p) PROVE Alone(w, m)'
  <2>1. UNCHANGED <<status, retryCount, accepted>>
    BY <1>10 DEF Crash
  <2>2. CASE Host[w] = p
    <3>1. attempt'[w][m].pc = "none"
      BY <1>1, <1>10, <2>2 DEF Crash, NoAttempt
    <3>2. attempt[w][m].pc \in Point
      BY <1>1, <1>3 DEF Attempt
    <3>3. /\ attempt[w][m].pc # "none" \/ m \in lost => m \in lost'
          /\ m \in ambiguous' <=>
               m \in ambiguous \/ attempt[w][m].pc \in {"sending", "accepted", "recording"}
          /\ m \in outstanding' => m \in outstanding \/ attempt[w][m].pc = "sending"
      BY <1>1, <1>10, <2>2, <3>2 DEF Crash
    <3> QED BY <1>5, <2>1, <3>1, <3>3 DEF Alone, CountsItself, AcceptedOnce, Trying
  <2>3. CASE Host[w] # p
    <3>1. attempt'[w] = attempt[w]
      BY <1>1, <1>10, <2>3 DEF Crash
    <3>2. UNCHANGED <<lost, ambiguous, outstanding>>
      BY <1>1, <1>10, <2>3 DEF Crash
    <3> QED BY <1>5, <2>1, <3>1, <3>2 DEF Alone, CountsItself, AcceptedOnce, Trying
  <2> QED BY <2>2, <2>3
<1>11. ASSUME \/ StartRun(w) \/ QueryFails(w) \/ EndRun(w)
              \/ \E n \in Notifs : GrowOlder(n)
              \/ \E p \in Replicas : Tick(p)
              \/ \E p \in Replicas, ok \in BOOLEAN : OtherTraffic(p, ok)
              \/ UNCHANGED vars
       PROVE  Alone(w, m)'
  BY <1>6, <1>11 DEF StartRun, QueryFails, EndRun, GrowOlder, Tick, OtherTraffic, vars
<1>12. \A v \in CronWorkers : v = w
  BY <1>1 DEF Workers
<1> QED BY <1>1, <1>2, <1>7, <1>8, <1>9, <1>10, <1>11, <1>12 DEF Next, CronStep

LEMMA LoneInit == ASSUME Init PROVE LoneInv
<1>1. IInv({})
  BY InitIInv
<1>2. ASSUME NEW w \in Workers, NEW n \in Notifs PROVE Alone(w, n)
  BY <1>2, RetryAssumption DEF Init, NoAttempt, Alone, CountsItself, AcceptedOnce, Trying
<1> QED BY <1>1, <1>2 DEF LoneInv

\* A lone worker never leaves a FAILED notification without retries outside the dead
\* letter queue, unless a fault came between; with overlapping attempts it may.
THEOREM LoneExhaustedIsDeadLettered ==
    ASSUME Lone
    PROVE  Spec => []ExhaustedIsDeadLettered
<1>1. LoneInv => ExhaustedIsDeadLettered
  <2>1. PICK w \in CronWorkers : Workers = {w}
    BY DEF Lone
  <2> QED BY <2>1 DEF LoneInv, Alone, CountsItself, ExhaustedIsDeadLettered
<1>2. Init => LoneInv
  BY LoneInit
<1>3. LoneInv /\ [Next]_vars => LoneInv'
  BY LoneNext
<1> QED BY <1>1, <1>2, <1>3, PTL DEF Spec

\* A lone worker has Novu accept a notification twice only after a timeout, a lost
\* reply, a crash or a failed update.
THEOREM LoneDuplicateNeedsFault ==
    ASSUME Lone
    PROVE  Spec => []DuplicateNeedsFault
<1>1. LoneInv => DuplicateNeedsFault
  <2>1. PICK w \in CronWorkers : Workers = {w}
    BY DEF Lone
  <2> QED BY <2>1 DEF LoneInv, Alone, AcceptedOnce, DuplicateNeedsFault
<1>2. Init => LoneInv
  BY LoneInit
<1>3. LoneInv /\ [Next]_vars => LoneInv'
  BY LoneNext
<1> QED BY <1>1, <1>2, <1>3, PTL DEF Spec

\* What a lone worker has recorded as SENT it leaves alone, unless the database
\* reported an error for an update that it had applied.
THEOREM LoneSentIsFinal ==
    ASSUME Lone
    PROVE  Spec => SentIsFinal
<1> USE DEF At, store
<1> DEFINE Final == \A n \in Notifs :
                        status[n] = "sent" => status'[n] = "sent" \/ n \in ambiguous
<1>1. PICK w \in CronWorkers : Workers = {w}
  BY DEF Lone
<1>2. Callers = {} /\ \A v \in CronWorkers : v = w
  BY <1>1, RetryAssumption DEF Workers
<1>3. LoneInv /\ [Next]_vars => [Final]_vars
  <2> SUFFICES ASSUME LoneInv, Next, NEW n \in Notifs, status[n] = "sent", n \notin ambiguous
               PROVE  status'[n] = "sent"
    OBVIOUS
  <2>1. attempt[w][n].pc = "none" /\ TypeOK
    BY <1>1 DEF LoneInv, Alone, AcceptedOnce, IInv
  <2>2. ASSUME NEW m \in Notifs, RetryStep(w, m) PROVE status'[n] = "sent"
    BY <1>1, <2>1, <2>2, RetryEffects DEF Effects
  <2>3. ASSUME \/ CronStep(w)
               \/ \E m \in Notifs : LateRequest(m) \/ GrowOlder(m)
               \/ \E p \in Replicas : Tick(p) \/ Crash(p)
               \/ \E p \in Replicas, ok \in BOOLEAN : OtherTraffic(p, ok)
        PROVE  status'[n] = "sent"
    BY <2>3 DEF CronStep, StartRun, Query, QueryFails, EndRun, LateRequest, GrowOlder, Tick,
                Crash, OtherTraffic
  <2> QED BY <1>1, <1>2, <2>2, <2>3 DEF Next
<1>4. Init => LoneInv
  BY LoneInit
<1>5. LoneInv /\ [Next]_vars => LoneInv'
  BY LoneNext
<1> QED BY <1>3, <1>4, <1>5, PTL DEF Spec, SentIsFinal

-----------------------------------------------------------------------------
(* Administrators who retry and delete what the worker works on *)

\* An update by id keeps the collection's types and revives nothing.
LEMMA UpdateKeepsDeleted ==
    ASSUME TypeOK, NEW n \in Notifs, NEW s \in Status, NEW outcome, Update(n, s, outcome)
    PROVE  \A m \in Notifs : status[m] = "absent" => status'[m] = "absent"
BY DEF TypeOK, Update, Applied

LEMMA RewriteTypes ==
    ASSUME AdminTypeOK, NEW a \in Admins, NEW outcome \in Outcomes, NEW op, NEW count \in Nat,
           Rewrite(a, op, count, outcome)
    PROVE  AdminTypeOK'
<1> DEFINE n == request[a].id
<1>1. n \in Notifs
  BY DEF AdminTypeOK, Request, Rewrite, NoRequest
<1>2. Update(n, "pending", outcome) /\ "pending" \in Status
  BY DEF Rewrite, Status
<1>3. status' \in [Notifs -> Status] /\ age' \in [Notifs -> 0..Backoffs] /\ faults' \in Nat
  <2> HIDE DEF n
  <2> QED BY <1>1, <1>2, UpdateTypes DEF AdminTypeOK
<1>4. retryCount' \in [Notifs -> Nat]
  <2>1. \/ retryCount' = retryCount
        \/ retryCount' = [retryCount EXCEPT ![n] = count]
    BY DEF Rewrite
  <2> QED BY <1>1, <2>1 DEF AdminTypeOK, TypeOK
<1>5. released' \in [Notifs -> 0..MaxReleases]
  <2>1. \/ released' = released
        \/ released' = [released EXCEPT ![n] = @ + 1]
    BY DEF Rewrite
  <2>2. released[n] < MaxReleases
    BY DEF Rewrite
  <2> QED BY <1>1, <2>1, <2>2, AdminAssumption DEF AdminTypeOK
<1>6. request' \in [Admins -> Request]
  BY DEF Rewrite, AdminTypeOK, Request
<1>7. TypeOK'
  BY <1>3, <1>4 DEF Rewrite, AdminTypeOK, TypeOK, history
<1> QED BY <1>5, <1>6, <1>7 DEF AdminTypeOK

LEMMA AdminNextTypes ==
    ASSUME AdminTypeOK, [AdminNext]_adminVars
    PROVE  AdminTypeOK'
<1>1. CASE Next /\ UNCHANGED <<request, released>>
  BY <1>1, NextTypes DEF AdminTypeOK
<1>2. CASE UNCHANGED adminVars
  <2>1. TypeOK'
    BY <1>2, NextTypes DEF AdminTypeOK, adminVars
  <2> QED BY <1>2, <2>1 DEF AdminTypeOK, adminVars
<1>3. ASSUME NEW a \in Admins, NEW n \in Notifs, ReadDlqEntry(a, n) \/ ReadFailed(a, n)
      PROVE  AdminTypeOK'
  <2>1. PICK op \in {"retryDlqEntry", "retryNotification"} : \E s \in Status : Reads(a, n, op, s)
    BY <1>3 DEF ReadDlqEntry, ReadFailed, Status
  <2>2. TypeOK'
    BY <2>1, NextTypes DEF Reads, AdminTypeOK
  <2>3. retryCount[n] \in Nat
    BY DEF AdminTypeOK, TypeOK
  <2>4. request' \in [Admins -> Request]
    BY <2>1, <2>3 DEF Reads, AdminTypeOK, Request
  <2> QED BY <2>1, <2>2, <2>4 DEF Reads, AdminTypeOK
<1>4. ASSUME NEW a \in Admins, NEW outcome \in Outcomes, ReleaseDlqEntry(a, outcome)
      PROVE  AdminTypeOK'
  BY <1>4, RewriteTypes DEF ReleaseDlqEntry
<1>5. ASSUME NEW a \in Admins, NEW outcome \in Outcomes, ReleaseFailed(a, outcome)
      PROVE  AdminTypeOK'
  <2>1. request[a].seen + 1 \in Nat
    BY <1>5 DEF ReleaseFailed, Rewrite, AdminTypeOK, Request, NoRequest
  <2> QED BY <1>5, <2>1, RewriteTypes DEF ReleaseFailed
<1>6. ASSUME NEW n \in Notifs, DeleteDlqEntry(n) PROVE AdminTypeOK'
  BY <1>6 DEF DeleteDlqEntry, AdminTypeOK, TypeOK, Status, history
<1> QED BY <1>1, <1>2, <1>3, <1>4, <1>5, <1>6 DEF AdminNext, AdminStep

\* Whatever administrators do in between, the collection keeps its types.
THEOREM AdminTypes == AdminSpec => []AdminTypeOK
<1>1. AdminInit => AdminTypeOK
  BY InitTypeOK, AdminAssumption DEF AdminInit, AdminTypeOK, Request
<1>2. AdminTypeOK /\ [AdminNext]_adminVars => AdminTypeOK'
  BY AdminNextTypes
<1> QED BY <1>1, <1>2, PTL DEF AdminSpec

-----------------------------------------------------------------------------
\* IInv with the notifications that administrators released excepted.
AdminIInv ==
    AdminTypeOK /\ CronPhases /\ RecordsWhatNovuTook /\ PendingIsOwnedOrReleased /\ SentWasAccepted

LEMMA AdminNextIInv ==
    ASSUME AdminIInv, [AdminNext]_adminVars
    PROVE  AdminIInv'
<1>0. AdminTypeOK /\ AdminTypeOK'
  BY AdminNextTypes DEF AdminIInv
<1>1. CASE [Next]_vars /\ UNCHANGED <<request, released>>
  <2>1. PICK X : X = {n \in Notifs : released[n] > 0}
    OBVIOUS
  <2>2. IInv(X)
    BY <2>1 DEF AdminIInv, IInv, AdminTypeOK, OwnedExcept, PendingIsOwnedOrReleased
  <2>3. IInv(X)'
    BY <1>1, <2>2, NextIInv
  <2>4. PendingIsOwnedOrReleased'
    <3> SUFFICES ASSUME NEW n \in Notifs, status'[n] = "pending", n \notin lost',
                        ~(released'[n] > 0)
                 PROVE  \E w \in Workers : attempt'[w][n].pc \in Owning
      BY DEF PendingIsOwnedOrReleased
    <3>1. n \in Notifs \ X
      BY <1>1, <2>1
    <3> QED BY <2>3, <3>1 DEF IInv, OwnedExcept
  <2> QED BY <1>0, <2>3, <2>4 DEF AdminIInv, IInv
<1>2. ASSUME UNCHANGED <<phase, attempt, accepted, lost>>,
             \A n \in Notifs : /\ status'[n] = "sent" => status[n] = "sent"
                               /\ status'[n] = "pending" =>
                                    status[n] = "pending" \/ released'[n] > 0
                               /\ released[n] > 0 => released'[n] > 0
      PROVE  AdminIInv'
  BY <1>0, <1>2 DEF AdminIInv, CronPhases, RecordsWhatNovuTook, PendingIsOwnedOrReleased,
                    SentWasAccepted, At
<1>3. ASSUME NEW a \in Admins, NEW n \in Notifs, ReadDlqEntry(a, n) \/ ReadFailed(a, n)
      PROVE  AdminIInv'
  BY <1>2, <1>3 DEF ReadDlqEntry, ReadFailed, Reads, vars
<1>4. ASSUME NEW a \in Admins, NEW op, NEW count, NEW outcome \in Outcomes,
             Rewrite(a, op, count, outcome)
      PROVE  AdminIInv'
  <2>1. PICK n \in Notifs : n = request[a].id
    BY <1>0, <1>4 DEF AdminTypeOK, Request, Rewrite, NoRequest
  <2>2. /\ status' = IF Applied(n, outcome) THEN [status EXCEPT ![n] = "pending"] ELSE status
        /\ released' = IF Applied(n, outcome) THEN [released EXCEPT ![n] = @ + 1] ELSE released
        /\ UNCHANGED <<phase, attempt, accepted, lost>>
    BY <1>4, <2>1 DEF Rewrite, Update, history
  <2>3. status \in [Notifs -> Status] /\ released \in [Notifs -> 0..MaxReleases]
    BY <1>0 DEF AdminTypeOK, TypeOK
  <2> QED BY <1>2, <2>1, <2>2, <2>3, AdminAssumption
<1>5. ASSUME NEW n \in Notifs, DeleteDlqEntry(n) PROVE AdminIInv'
  BY <1>0, <1>2, <1>5 DEF DeleteDlqEntry, AdminTypeOK, TypeOK, history
<1> QED BY <1>1, <1>3, <1>4, <1>5
        DEF AdminNext, AdminStep, ReleaseDlqEntry, ReleaseFailed, adminVars

\* With any number of administrators besides the workers, the only PENDING
\* notifications without an attempt are those that a fault stranded or a retry of an
\* administrator released.
THEOREM AdminPendingIsOwned == AdminSpec => []PendingIsOwnedOrReleased
<1>1. AdminInit => AdminIInv
  <2> SUFFICES ASSUME AdminInit PROVE AdminIInv
    OBVIOUS
  <2>1. IInv({})
    BY InitIInv DEF AdminInit
  <2>2. AdminTypeOK
    BY <2>1, AdminAssumption DEF AdminInit, AdminTypeOK, Request, IInv
  <2> QED BY <2>1, <2>2 DEF IInv, OwnedExcept, PendingIsOwnedOrReleased, AdminIInv
<1>2. AdminIInv /\ [AdminNext]_adminVars => AdminIInv'
  BY AdminNextIInv
<1>3. AdminIInv => PendingIsOwnedOrReleased
  BY DEF AdminIInv
<1> QED BY <1>1, <1>2, <1>3, PTL DEF AdminSpec

-----------------------------------------------------------------------------
LEMMA RetryStepKeepsDeleted ==
    ASSUME TypeOK, NEW w \in Workers, NEW n \in Notifs, RetryStep(w, n)
    PROVE  \A m \in Notifs : status[m] = "absent" => status'[m] = "absent"
<1>1. ASSUME NEW outcome \in Outcomes,
             \/ MarkPending(w, n, outcome) \/ MarkSent(w, n, outcome)
             \/ MarkFailed(w, n, outcome) \/ MarkDlq(w, n, outcome)
             \/ AddToDlq(w, n, outcome)
      PROVE  \A m \in Notifs : status[m] = "absent" => status'[m] = "absent"
  <2>1. PICK s \in Status : Update(n, s, outcome)
    BY <1>1 DEF MarkPending, MarkSent, MarkFailed, MarkDlq, AddToDlq, Status
  <2> QED BY <2>1, UpdateKeepsDeleted
<1>2. ASSUME \/ Trigger(w, n) \/ NovuAccepts(w, n) \/ Delivered(w, n) \/ TimesOut(w, n)
             \/ CleanupToken(w, n)
             \/ \E invalidToken \in BOOLEAN : NovuRejects(w, n, invalidToken)
      PROVE  status' = status
  BY <1>2 DEF Trigger, NovuAccepts, Delivered, TimesOut, CleanupToken, NovuRejects, store
<1> QED BY <1>1, <1>2 DEF RetryStep

\* Attempts of any number of workers and requests of any number of administrators,
\* under way when a dead letter queue entry is deleted, do not bring it back.
THEOREM DeletedIsFinal == AdminSpec => DeletedStaysDeleted
<1> DEFINE Kept == \A n \in Notifs : status[n] = "absent" => status'[n] = "absent"
<1>1. AdminTypeOK /\ [AdminNext]_adminVars => [Kept]_adminVars
  <2> SUFFICES ASSUME AdminTypeOK, AdminNext PROVE Kept
    OBVIOUS
  <2>0. TypeOK
    BY DEF AdminTypeOK
  <2>1. ASSUME NEW w \in Workers, NEW n \in Notifs, RetryStep(w, n) PROVE Kept
    BY <2>0, <2>1, RetryStepKeepsDeleted
  <2>2. ASSUME NEW w \in Callers, NEW n \in Notifs, NEW outcome \in Outcomes,
               ManualReset(w, n, outcome)
        PROVE  Kept
    BY <2>0, <2>2, UpdateKeepsDeleted DEF ManualReset, Status
  <2>3. ASSUME \/ \E w \in CronWorkers : CronStep(w)
               \/ \E w \in Callers, n \in Notifs : ManualRead(w, n)
               \/ \E n \in Notifs : LateRequest(n) \/ GrowOlder(n)
               \/ \E p \in Replicas : Tick(p) \/ Crash(p)
               \/ \E p \in Replicas, ok \in BOOLEAN : OtherTraffic(p, ok)
        PROVE  Kept
    BY <2>3 DEF CronStep, StartRun, Query, QueryFails, EndRun, ManualRead, LateRequest,
                GrowOlder, Tick, Crash, OtherTraffic, store
  <2>4. ASSUME NEW a \in Admins, NEW n \in Notifs, ReadDlqEntry(a, n) \/ ReadFailed(a, n)
        PROVE  Kept
    BY <2>4 DEF ReadDlqEntry, ReadFailed, Reads, vars
  <2>5. ASSUME NEW a \in Admins, NEW outcome \in Outcomes,
               ReleaseDlqEntry(a, outcome) \/ ReleaseFailed(a, outcome)
        PROVE  Kept
    <3>1. PICK n \in Notifs : n = request[a].id
      BY <2>5 DEF AdminTypeOK, Request, ReleaseDlqEntry, ReleaseFailed, Rewrite, NoRequest
    <3>2. Update(n, "pending", outcome) /\ "pending" \in Status
      BY <2>5, <3>1 DEF ReleaseDlqEntry, ReleaseFailed, Rewrite, Status
    <3> QED BY <2>0, <3>2, UpdateKeepsDeleted
  <2>6. ASSUME NEW n \in Notifs, DeleteDlqEntry(n) PROVE Kept
    BY <2>0, <2>6 DEF DeleteDlqEntry, TypeOK
  <2> QED BY <2>1, <2>2, <2>3, <2>4, <2>5, <2>6 DEF AdminNext, AdminStep, Next, ManualStep
<1> QED BY <1>1, AdminTypes, PTL DEF AdminSpec, DeletedStaysDeleted
=============================================================================
