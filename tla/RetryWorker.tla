---------------------------- MODULE RetryWorker ----------------------------
(***************************************************************************)
(* RetryWorkerService: the cron job that re-sends FAILED notifications,    *)
(* its retryNotification handler and its manualRetry operation, over the   *)
(* one user-notification collection that all replicas of the service       *)
(* share.  Each replica has circuits of its own, in memory.                *)
(*                                                                         *)
(* A handler is cut where it awaits: a database update and the resumption  *)
(* of the handler after it are two steps, and what a handler read at its   *)
(* start (`seen`) is used at its end.  `outcome` is what an update returns:*)
(* "ok", "rejected" (not applied) or "unanswered" (applied, but the        *)
(* connection failed before the reply).                                    *)
(***************************************************************************)
EXTENDS Circuit, FiniteSets

CONSTANTS Notifs,       \* user notifications
          Replicas,     \* processes of the service
          CronWorkers,  \* one per replica: its cron job
          Callers,      \* callers of manualRetry
          Host,         \* the replica of each worker
          MaxRetries,   \* retryConfig.maxRetries (3)
          Backoffs,     \* the number of retryConfig.backoffIntervals (3)
          BatchSize,    \* retryConfig.batchSize (100)
          Priority,     \* the priority of each notification
          CreatedAt,    \* when each notification was created
          ApiCircuit, ClientCircuit,  \* "novu-api" and "novu"
          MaxFaults     \* bound: crashes and database errors

Workers == CronWorkers \cup Callers

\* MongoDB compares the priorities as strings.
SortPosition == [high |-> 1, low |-> 2, normal |-> 3, urgent |-> 4]

ASSUME RetryAssumption ==
    /\ IsFiniteSet(Workers)
    /\ CronWorkers \cap Callers = {}
    /\ Host \in [Workers -> Replicas]
    /\ MaxRetries \in Nat \ {0} /\ Backoffs \in Nat \ {0} /\ BatchSize \in Nat \ {0}
    /\ Priority \in [Notifs -> DOMAIN SortPosition]
    /\ CreatedAt \in [Notifs -> Nat]
    /\ {ApiCircuit, ClientCircuit} \subseteq Circuits
    /\ MaxFaults \in Nat

VARIABLES status,       \* UserNotification.status; "absent" once deleted
          retryCount,   \* UserNotification.retryCount
          age,          \* how many backoff intervals fit between updatedAt and now
          phase,        \* where each cron job stands
          attempt,      \* where retryNotification stands, for each worker and notification
          circuits,     \* CircuitBreakerService.circuits of each replica
          outstanding,  \* requests of given-up calls that Novu may still accept
          accepted,     \* history: how often Novu accepted the notification (0, 1, 2 or more)
          ambiguous,    \* history: an accepted or given-up call went unrecorded
          lost,         \* history: a fault ended an attempt halfway
          faults        \* crashes and database errors so far

store == <<status, retryCount, age>>
history == <<accepted, ambiguous, lost>>
vars == <<status, retryCount, age, phase, attempt, circuits, outstanding,
          accepted, ambiguous, lost, faults>>

Status == {"pending", "sent", "failed", "dlq", "absent"}

\* The awaits of manualRetry ("resetting") and of retryNotification; "cleaning" to
\* "burying" are those of its catch block.
Point == {"none", "resetting", "marking", "triggering", "sending", "accepted", "recording",
          "cleaning", "failing", "toDlq", "burying"}

Attempt == [pc : Point, seen : Nat, fatal : BOOLEAN]
NoAttempt == [pc |-> "none", seen |-> 0, fatal |-> FALSE]

TypeOK ==
    /\ status \in [Notifs -> Status]
    /\ retryCount \in [Notifs -> Nat]
    /\ age \in [Notifs -> 0..Backoffs]
    /\ phase \in [CronWorkers -> {"idle", "querying", "processing"}]
    /\ attempt \in [Workers -> [Notifs -> Attempt]]
    /\ circuits \in [Replicas -> [Circuits -> CircuitState]]
    /\ outstanding \subseteq Notifs
    /\ accepted \in [Notifs -> 0..2]
    /\ ambiguous \subseteq Notifs
    /\ lost \subseteq Notifs
    /\ faults \in Nat

\* The first delivery of every notification has failed: NovuNotificationService
\* stored it FAILED with retryCount 0.
Init ==
    /\ status = [n \in Notifs |-> "failed"]
    /\ retryCount = [n \in Notifs |-> 0]
    /\ age = [n \in Notifs |-> 0]
    /\ phase = [w \in CronWorkers |-> "idle"]
    /\ attempt = [w \in Workers |-> [n \in Notifs |-> NoAttempt]]
    /\ circuits = [p \in Replicas |-> [c \in Circuits |-> Fresh]]
    /\ outstanding = {}
    /\ accepted = [n \in Notifs |-> 0]
    /\ ambiguous = {}
    /\ lost = {}
    /\ faults = 0

-----------------------------------------------------------------------------
Outcomes == {"ok", "rejected", "unanswered"}

At(w, n, pc) == attempt[w][n].pc = pc
Go(w, n, pc) == attempt' = [attempt EXCEPT ![w][n].pc = pc]
Finish(w, n) == attempt' = [attempt EXCEPT ![w][n] = NoAttempt]

\* The catch block starts; shouldMoveToDLQ is what ErrorClassifier answers.
Catch(w, n, pc, shouldMoveToDLQ) ==
    attempt' = [attempt EXCEPT
                  ![w][n] = [pc |-> pc, seen |-> @.seen, fatal |-> shouldMoveToDLQ]]

\* Mutant: the update upserts.
Applied_Upserting(n, outcome) == outcome # "rejected"

\* updateOne({ id }) matches nothing once the notification is deleted.
Applied(n, outcome) == outcome # "rejected" /\ status[n] # "absent"

Update(n, s, outcome) ==
    /\ outcome # "ok" => faults < MaxFaults
    /\ faults' = IF outcome = "ok" THEN faults ELSE faults + 1
    /\ status' = IF Applied(n, outcome) THEN [status EXCEPT ![n] = s] ELSE status
    /\ age' = IF Applied(n, outcome) THEN [age EXCEPT ![n] = 0] ELSE age

Route == <<ApiCircuit, ClientCircuit>>

OnCircuits(w, cs) == circuits' = [circuits EXCEPT ![Host[w]] = cs]

-----------------------------------------------------------------------------
(* processFailedNotifications *)

\* The job skips this run while "novu-api" is OPEN; asking may make it HALF_OPEN.
StartRun(w) ==
    /\ phase[w] = "idle"
    /\ circuits' = [circuits EXCEPT ![Host[w]][ApiCircuit] = ReadOpen(@)]
    /\ phase' = [phase EXCEPT ![w] =
                   IF Refuses(circuits[Host[w]][ApiCircuit]) THEN "idle" ELSE "querying"]
    /\ UNCHANGED <<store, attempt, outstanding, history, faults>>

\* Mutant: no filter on retryCount.
Eligible_AnyCount == {n \in Notifs : status[n] = "failed" /\ \E i \in 1..Backoffs : age[n] >= i}

\* The three alternatives of $or: an update at least the i-th interval ago.
Eligible == {n \in Notifs : /\ status[n] = "failed"
                            /\ retryCount[n] < MaxRetries
                            /\ \E i \in 1..Backoffs : age[n] >= i}

SortedBefore(m, n) ==
    \/ SortPosition[Priority[m]] < SortPosition[Priority[n]]
    \/ Priority[m] = Priority[n] /\ CreatedAt[m] < CreatedAt[n]

\* limit(batchSize) in sort order; where the order leaves a choice the database has it.
Batches == {b \in SUBSET Eligible :
               /\ Cardinality(b) <= BatchSize
               /\ b # Eligible => Cardinality(b) = BatchSize
               /\ \A n \in b, m \in Eligible \ b : ~SortedBefore(m, n)}

Query(w) ==
    /\ phase[w] = "querying"
    /\ \E b \in Batches :
         /\ phase' = [phase EXCEPT ![w] = IF b = {} THEN "idle" ELSE "processing"]
         /\ attempt' = [attempt EXCEPT ![w] = [n \in Notifs |->
                IF n \in b THEN [pc |-> "marking", seen |-> retryCount[n], fatal |-> FALSE]
                ELSE NoAttempt]]
    /\ UNCHANGED <<store, circuits, outstanding, history, faults>>

QueryFails(w) ==
    /\ phase[w] = "querying"
    /\ faults < MaxFaults
    /\ faults' = faults + 1
    /\ phase' = [phase EXCEPT ![w] = "idle"]
    /\ UNCHANGED <<store, attempt, circuits, outstanding, history>>

\* Promise.allSettled: the run is over when every attempt of its batch is.
EndRun(w) ==
    /\ phase[w] = "processing"
    /\ \A n \in Notifs : At(w, n, "none")
    /\ phase' = [phase EXCEPT ![w] = "idle"]
    /\ UNCHANGED <<store, attempt, circuits, outstanding, history, faults>>

-----------------------------------------------------------------------------
(* manualRetry, up to its call of retryNotification with what it read *)

ManualRead(w, n) ==
    /\ \A m \in Notifs : At(w, m, "none")
    /\ status[n] = "failed"
    /\ attempt' = [attempt EXCEPT
                    ![w][n] = [pc |-> "resetting", seen |-> retryCount[n], fatal |-> FALSE]]
    /\ UNCHANGED <<store, phase, circuits, outstanding, history, faults>>

ManualReset(w, n, outcome) ==
    /\ At(w, n, "resetting")
    /\ Update(n, "pending", outcome)
    /\ retryCount' = IF Applied(n, outcome) THEN [retryCount EXCEPT ![n] = 0] ELSE retryCount
    /\ IF outcome = "ok" THEN Go(w, n, "marking") /\ UNCHANGED lost
                         ELSE Finish(w, n) /\ lost' = lost \cup {n}
    /\ UNCHANGED <<phase, circuits, outstanding, accepted, ambiguous>>

-----------------------------------------------------------------------------
(* retryNotification *)

\* Mutant: PENDING without $inc of retryCount.
MarkPending_Uncounted(w, n, outcome) ==
    /\ At(w, n, "marking")
    /\ Update(n, "pending", outcome)
    /\ IF outcome = "ok" THEN Go(w, n, "triggering")
                         ELSE \E fatal \in BOOLEAN : Catch(w, n, "failing", fatal)
    /\ UNCHANGED <<retryCount, phase, circuits, outstanding, history>>

MarkPending(w, n, outcome) ==
    /\ At(w, n, "marking")
    /\ Update(n, "pending", outcome)
    /\ retryCount' = IF Applied(n, outcome) THEN [retryCount EXCEPT ![n] = @ + 1]
                                            ELSE retryCount
    /\ IF outcome = "ok" THEN Go(w, n, "triggering")
                         ELSE \E fatal \in BOOLEAN : Catch(w, n, "failing", fatal)
    /\ UNCHANGED <<phase, circuits, outstanding, history>>

\* Mutant: a refusal is logged and the attempt goes on as if it had been sent.
Trigger_SwallowsRefusal(w, n) ==
    /\ At(w, n, "triggering")
    /\ OnCircuits(w, Begin(circuits[Host[w]], Route))
    /\ Go(w, n, IF Accepts(circuits[Host[w]], Route) THEN "sending" ELSE "recording")
    /\ UNCHANGED <<store, phase, outstanding, history, faults>>

\* Mutant: a refusal ends the attempt at once, to save the retry for later.
Trigger_SkipsRefused(w, n) ==
    /\ At(w, n, "triggering")
    /\ OnCircuits(w, Begin(circuits[Host[w]], Route))
    /\ IF Accepts(circuits[Host[w]], Route) THEN Go(w, n, "sending") ELSE Finish(w, n)
    /\ UNCHANGED <<store, phase, outstanding, history, faults>>

\* triggerWorkflow, through both circuits.  A refusal counts as one of the
\* attempts although Novu was never called.
Trigger(w, n) ==
    /\ At(w, n, "triggering")
    /\ OnCircuits(w, Begin(circuits[Host[w]], Route))
    /\ Go(w, n, IF Accepts(circuits[Host[w]], Route) THEN "sending" ELSE "failing")
    /\ UNCHANGED <<store, phase, outstanding, history, faults>>

\* Novu takes a request of executeWithRetry; it takes another when the reply to
\* the first one was lost and the loop sends again.
NovuAccepts(w, n) ==
    /\ attempt[w][n].pc \in {"sending", "accepted"}
    /\ accepted' = [accepted EXCEPT ![n] = IF @ = 0 THEN 1 ELSE 2]
    /\ ambiguous' = IF At(w, n, "accepted") THEN ambiguous \cup {n} ELSE ambiguous
    /\ Go(w, n, "accepted")
    /\ UNCHANGED <<store, phase, circuits, outstanding, lost, faults>>

Delivered(w, n) ==
    /\ At(w, n, "accepted")
    /\ OnCircuits(w, Settle(circuits[Host[w]], Route, TRUE))
    /\ Go(w, n, "recording")
    /\ UNCHANGED <<store, phase, outstanding, history, faults>>

\* The last request of the loop fails.  NovuClient's error carries the status only
\* in its text, so every answer is RETRYABLE except one that names an invalid token.
NovuRejects(w, n, invalidToken) ==
    /\ attempt[w][n].pc \in {"sending", "accepted"}
    /\ OnCircuits(w, Settle(circuits[Host[w]], Route, FALSE))
    /\ Go(w, n, IF invalidToken THEN "cleaning" ELSE "failing")
    /\ ambiguous' = IF At(w, n, "accepted") THEN ambiguous \cup {n} ELSE ambiguous
    /\ UNCHANGED <<store, phase, outstanding, accepted, lost, faults>>

\* The 30 s of the circuits end first; executeWithRetry goes on unobserved.
TimesOut(w, n) ==
    /\ attempt[w][n].pc \in {"sending", "accepted"}
    /\ OnCircuits(w, Settle(circuits[Host[w]], Route, FALSE))
    /\ Go(w, n, "failing")
    /\ outstanding' = outstanding \cup {n}
    /\ ambiguous' = ambiguous \cup {n}
    /\ UNCHANGED <<store, phase, accepted, lost, faults>>

\* Mutant: no return after the update, the attempt falls through to the failure.
MarkSent_FallsThrough(w, n, outcome) ==
    /\ At(w, n, "recording")
    /\ Update(n, "sent", outcome)
    /\ \E fatal \in BOOLEAN : Catch(w, n, "failing", fatal)
    /\ ambiguous' = IF outcome = "ok" THEN ambiguous ELSE ambiguous \cup {n}
    /\ UNCHANGED <<retryCount, phase, circuits, outstanding, accepted, lost>>

MarkSent(w, n, outcome) ==
    /\ At(w, n, "recording")
    /\ Update(n, "sent", outcome)
    /\ IF outcome = "ok"
       THEN Finish(w, n) /\ UNCHANGED ambiguous
       ELSE /\ \E fatal \in BOOLEAN : Catch(w, n, "failing", fatal)
            /\ ambiguous' = ambiguous \cup {n}
    /\ UNCHANGED <<retryCount, phase, circuits, outstanding, accepted, lost>>

\* TokenCleanupService: its updateOne({ id }) matches no device token (they have no
\* stored id), and its errors, of the Novu requests too, are collected, not thrown.
CleanupToken(w, n) ==
    /\ At(w, n, "cleaning")
    /\ Go(w, n, "failing")
    /\ UNCHANGED <<store, phase, circuits, outstanding, history, faults>>

\* Mutant: the attempt under way is not counted.
Exhausted_OneLater(w, n) == attempt[w][n].seen >= MaxRetries

\* seen is the retryCount of before this attempt, and of before any other
\* attempt that overlaps this one.
Exhausted(w, n) == attempt[w][n].seen + 1 >= MaxRetries

MarkFailed(w, n, outcome) ==
    /\ At(w, n, "failing")
    /\ Update(n, "failed", outcome)
    /\ IF outcome = "ok" /\ (attempt[w][n].fatal \/ Exhausted(w, n))
       THEN Go(w, n, "toDlq")
       ELSE Finish(w, n)
    /\ lost' = IF outcome = "ok" THEN lost ELSE lost \cup {n}
    /\ UNCHANGED <<retryCount, phase, circuits, outstanding, accepted, ambiguous>>

\* Mutant: a status that no query looks for.
MarkDlq_Misspelt(w, n, outcome) ==
    /\ At(w, n, "toDlq")
    /\ Update(n, "dead", outcome)
    /\ IF outcome = "ok" THEN Go(w, n, "burying") ELSE Finish(w, n)
    /\ lost' = IF outcome = "ok" THEN lost ELSE lost \cup {n}
    /\ UNCHANGED <<retryCount, phase, circuits, outstanding, accepted, ambiguous>>

\* moveToDeadLetterQueue; it logs and swallows the error of either update.
MarkDlq(w, n, outcome) ==
    /\ At(w, n, "toDlq")
    /\ Update(n, "dlq", outcome)
    /\ IF outcome = "ok" THEN Go(w, n, "burying") ELSE Finish(w, n)
    /\ lost' = IF outcome = "ok" THEN lost ELSE lost \cup {n}
    /\ UNCHANGED <<retryCount, phase, circuits, outstanding, accepted, ambiguous>>

\* DLQService.addToDLQ.
AddToDlq(w, n, outcome) ==
    /\ At(w, n, "burying")
    /\ Update(n, "dlq", outcome)
    /\ Finish(w, n)
    /\ UNCHANGED <<retryCount, phase, circuits, outstanding, history>>

-----------------------------------------------------------------------------
(* The environment *)

\* A given-up loop sends again, is accepted, or ends.
LateRequest(n) ==
    /\ n \in outstanding
    /\ accepted' \in {accepted, [accepted EXCEPT ![n] = IF @ = 0 THEN 1 ELSE 2]}
    /\ outstanding' \in {outstanding, outstanding \ {n}}
    /\ UNCHANGED <<store, phase, attempt, circuits, ambiguous, lost, faults>>

\* Subscriber and template requests of the same replica run through "novu" alone.
OtherTraffic(p, ok) ==
    /\ Accepts(circuits[p], <<ClientCircuit>>)
    /\ circuits' = [circuits EXCEPT
                      ![p] = Settle(Begin(@, <<ClientCircuit>>), <<ClientCircuit>>, ok)]
    /\ UNCHANGED <<store, phase, attempt, outstanding, history, faults>>

GrowOlder(n) ==
    /\ status[n] = "failed" /\ age[n] < Backoffs
    /\ age' = [age EXCEPT ![n] = @ + 1]
    /\ UNCHANGED <<status, retryCount, phase, attempt, circuits, outstanding,
                   history, faults>>

Tick(p) ==
    /\ \E c \in Circuits : circuits[p][c].wait > 0
    /\ circuits' = [circuits EXCEPT ![p] = [c \in Circuits |-> Elapse(@[c])]]
    /\ UNCHANGED <<store, phase, attempt, outstanding, history, faults>>

\* The process dies and restarts: its attempts and its circuits were in memory.
\* Requests on their way still reach Novu.
Crash(p) ==
    LET dying == {w \in Workers : Host[w] = p}
        At_p(pcs) == {n \in Notifs : \E w \in dying : attempt[w][n].pc \in pcs}
    IN  /\ faults < MaxFaults
        /\ faults' = faults + 1
        /\ phase' = [w \in CronWorkers |-> IF w \in dying THEN "idle" ELSE phase[w]]
        /\ attempt' = [w \in Workers |->
                         IF w \in dying THEN [n \in Notifs |-> NoAttempt] ELSE attempt[w]]
        /\ circuits' = [circuits EXCEPT ![p] = [c \in Circuits |-> Fresh]]
        /\ lost' = lost \cup At_p(Point \ {"none"})
        /\ ambiguous' = ambiguous \cup At_p({"sending", "accepted", "recording"})
        /\ outstanding' = outstanding \cup At_p({"sending"})
        /\ UNCHANGED <<store, accepted>>

-----------------------------------------------------------------------------
RetryStep(w, n) ==
    \/ \E outcome \in Outcomes :
         \/ MarkPending(w, n, outcome)
         \/ MarkSent(w, n, outcome)
         \/ MarkFailed(w, n, outcome)
         \/ MarkDlq(w, n, outcome)
         \/ AddToDlq(w, n, outcome)
    \/ Trigger(w, n)
    \/ NovuAccepts(w, n)
    \/ Delivered(w, n)
    \/ \E invalidToken \in BOOLEAN : NovuRejects(w, n, invalidToken)
    \/ TimesOut(w, n)
    \/ CleanupToken(w, n)

CronStep(w) == StartRun(w) \/ Query(w) \/ QueryFails(w) \/ EndRun(w)

ManualStep(w, n) ==
    \/ ManualRead(w, n)
    \/ \E outcome \in Outcomes : ManualReset(w, n, outcome)

Next ==
    \/ \E w \in CronWorkers : CronStep(w)
    \/ \E w \in Callers, n \in Notifs : ManualStep(w, n)
    \/ \E w \in Workers, n \in Notifs : RetryStep(w, n)
    \/ \E n \in Notifs : LateRequest(n) \/ GrowOlder(n)
    \/ \E p \in Replicas : Tick(p) \/ Crash(p)
    \/ \E p \in Replicas, ok \in BOOLEAN : OtherTraffic(p, ok)

\* The cron keeps firing, handlers are resumed, every call settles (the circuits'
\* timer sees to that) and time passes.  Nothing is assumed of faults, of callers
\* or of whether Novu answers.
Fairness ==
    /\ \A w \in CronWorkers : WF_vars(CronStep(w))
    /\ \A w \in Workers, n \in Notifs : WF_vars(RetryStep(w, n))
    /\ \A n \in Notifs : WF_vars(GrowOlder(n))
    /\ \A p \in Replicas : WF_vars(Tick(p))

Spec == Init /\ [][Next]_vars /\ Fairness

-----------------------------------------------------------------------------
\* Nothing looks for PENDING notifications, so each one must have an attempt that
\* will write its next status, however attempts of several replicas overlap;
\* only a fault in the middle of an attempt may strand one.
Owning == {"marking", "triggering", "sending", "accepted", "recording", "cleaning", "failing"}

PendingIsOwned ==
    \A n \in Notifs : status[n] = "pending" =>
        n \in lost \/ \E w \in Workers : attempt[w][n].pc \in Owning

\* SENT is never written for a notification that Novu has not accepted, whichever
\* circuit refused, request failed or overlapping attempt wrote first.
SentWasAccepted == \A n \in Notifs : status[n] = "sent" => accepted[n] > 0

\* Attempts that overlap all pass the retryCount filter before any of them counts,
\* so maxRetries is exceeded, but by less than the number of workers.
RetryCountBound == \A n \in Notifs : retryCount[n] < MaxRetries + Cardinality(Workers)

\* A FAILED notification that has used its retries is on its way to the dead
\* letter queue: otherwise the query never returns it and it is in no queue at all.
ExhaustedIsDeadLettered ==
    \A n \in Notifs : status[n] = "failed" /\ retryCount[n] >= MaxRetries =>
        n \in lost \/ \E w \in Workers : attempt[w][n].pc = "toDlq"

\* A user gets the notification twice only if a call timed out, its reply was
\* lost, or the database or the process failed after Novu had accepted it.
DuplicateNeedsFault == \A n \in Notifs : accepted[n] = 2 => n \in ambiguous

\* A notification recorded as SENT is left alone, unless recording it was reported
\* as failed although it was applied.
SentIsFinal ==
    [][\A n \in Notifs : status[n] = "sent" => status'[n] = "sent" \/ n \in ambiguous]_vars

\* Every FAILED notification is in the end delivered or dead-lettered, unless a
\* fault stranded it: no batch limit, refusing circuit or timeout starves it.
EveryFailureResolved ==
    \A n \in Notifs :
        status[n] = "failed" ~> (status[n] \in {"sent", "dlq"} \/ n \in lost)
=============================================================================
