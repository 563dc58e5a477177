----------------------------- MODULE UserEvents -----------------------------
(***************************************************************************)
(* The handlers of auth-event.handler.ts, run by the EventConsumer of each *)
(* replica over the user collection that all replicas share; the handler   *)
(* of updated users feeds the subscriber queue of its replica.  Of that    *)
(* queue only what SubscriberTasks promises is used, which the module      *)
(* SubscriberQueue is shown to keep.  The events of the kind "content" are *)
(* handled in NotificationEvents, which extends this module.               *)
(*                                                                         *)
(* The handler of created users never succeeds: its document lacks the     *)
(* userId that the schema requires.  The only documents are those that     *)
(* were in the collection before, by scripts/seed for example.             *)
(*                                                                         *)
(* A database call is two steps where a crash between its effect and its   *)
(* reply matters: `outcome` is "ok", "rejected" (no effect: the call       *)
(* failed, or another document has the email) or "unanswered" (applied,    *)
(* but the connection failed before the reply).                            *)
(***************************************************************************)
EXTENDS EventConsumer, Sequences

CONSTANTS Users,
          Seeded,         \* those with a document when the processes start
          User,           \* the user each event is about; of no use for "content"
          Kind,           \* the kind of each event
          ForNovu,        \* updates that change a field Novu has (hasNovuChanges)
          MaxTasks,       \* bound: tasks enqueued
          MaxFaults       \* bound: crashes, lost connections and failed calls

Changes == {"updated", "roleChanged", "deleted"}

ASSUME UserAssumption ==
    /\ Seeded \subseteq Users
    /\ User \in [Events -> Users]
    /\ Kind \in [Events -> {"created", "updated", "roleChanged", "deleted", "content"}]
    /\ {"saving", "updating", "updated"} \subseteq HandlerPoints
    /\ MaxTasks \in Nat /\ MaxFaults \in Nat

VARIABLES log, held, done, abandoned,   \* the tasks of the subscriber queues
          doc,        \* the documents of users
          cause,      \* history: the event that each task comes from
          contended,  \* history: users with two events in hand at once
          faults      \* faults so far

Queue == INSTANCE SubscriberTasks

tasks == <<log, held, done, abandoned>>
userVars == <<consumerVars, tasks, doc, cause, contended, faults>>

\* data: the last event written to the document.
Document == [data : Events \cup {0}, active : BOOLEAN]
Known == [data |-> 0, active |-> TRUE]

UserTypeOK ==
    /\ ConsumerTypeOK
    /\ Queue!TasksTypeOK
    /\ doc \in [Seeded -> Document]
    /\ cause \in Seq(Events) /\ Len(cause) = Len(log)
    /\ contended \subseteq Users
    /\ faults \in Nat

UserInit ==
    /\ ConsumerInit
    /\ Queue!TasksInit
    /\ doc = [u \in Seeded |-> Known]
    /\ cause = <<>> /\ contended = {}
    /\ faults = 0

-----------------------------------------------------------------------------
InHand(r) == User[delivered[r]]
Exists(u) == u \in DOMAIN doc
About(e) == IF e = 0 \/ Kind[e] = "content" THEN {} ELSE {User[e]}
Handles(r, kinds) == delivered[r] # 0 /\ Kind[delivered[r]] \in kinds

Fault == faults < MaxFaults /\ faults' = faults + 1
Outcome(outcome) == IF outcome = "ok" THEN UNCHANGED faults ELSE Fault

\* A step of a handler leaves the rest of the consumer alone, and mostly the queue.
HandlerOnly == UNCHANGED <<ready, delivered, registered, deaf, consumerHistory, contended>>
NoTask == UNCHANGED <<tasks, cause>>

\* findByUserId of UserCreated: a user that exists is skipped.
FindForCreate(r) ==
    /\ At(r, "handling") /\ Handles(r, {"created"})
    /\ IF Exists(InHand(r)) THEN Succeed(r) ELSE Goto(r, "saving") /\ UNCHANGED attempts
    /\ HandlerOnly /\ NoTask /\ UNCHANGED <<faults, doc>>

\* findByUserId of UserUpdated: a user that does not exist is skipped.
FindForUpdate(r) ==
    /\ At(r, "handling") /\ Handles(r, {"updated"})
    /\ IF Exists(InHand(r)) THEN Goto(r, "updating") /\ UNCHANGED attempts ELSE Succeed(r)
    /\ HandlerOnly /\ NoTask /\ UNCHANGED <<faults, doc>>

FindFails(r) ==
    /\ At(r, "handling") /\ Handles(r, {"created", "updated"})
    /\ Fault
    /\ FailAttempt(r)
    /\ HandlerOnly /\ NoTask /\ UNCHANGED doc

\* createFromAuthEvent.  The document has no userId, and save() rejects it before it
\* reaches the database: the error is no duplicate key, and the create task of the
\* lines that follow is never enqueued.
SaveUser(r) ==
    /\ At(r, "saving")
    /\ FailAttempt(r)
    /\ HandlerOnly /\ NoTask /\ UNCHANGED <<faults, doc>>

\* updateFromAuthEvent and softDeleteFromAuthEvent: findByIdAndUpdate, and an error
\* if there was nothing to update.
Written(u, e) ==
    IF ~Exists(u) THEN doc
    ELSE [doc EXCEPT ![u].data = e, ![u].active = @ /\ Kind[e] # "deleted"]

UpdateUser(r, outcome) ==
    LET u == InHand(r)
    IN  /\ \/ At(r, "updating")
           \/ At(r, "handling") /\ Handles(r, {"roleChanged", "deleted"})
        /\ Outcome(outcome)
        /\ doc' = IF outcome = "rejected" THEN doc ELSE Written(u, delivered[r])
        /\ CASE outcome # "ok" \/ ~Exists(u) -> FailAttempt(r)
             [] outcome = "ok" /\ Exists(u) /\ At(r, "updating") ->
                    Goto(r, "updated") /\ UNCHANGED attempts
             [] OTHER -> Succeed(r)
        /\ HandlerOnly /\ NoTask

\* Mutant: the task is enqueued by a fire-and-forget job of its own, after the reply.
EnqueueUpdate_Later(r) ==
    /\ At(r, "updated") /\ delivered[r] \in ForNovu
    /\ Succeed(r)
    /\ HandlerOnly /\ NoTask /\ UNCHANGED <<faults, doc>>

\* The reply arrives; the update task is enqueued in the same job.
EnqueueUpdate(r) ==
    /\ At(r, "updated") /\ delivered[r] \in ForNovu
    /\ Queue!Enqueue([kind |-> "update", user |-> InHand(r)])
    /\ cause' = Append(cause, delivered[r])
    /\ Succeed(r)
    /\ HandlerOnly /\ UNCHANGED <<faults, doc>>

NothingForNovu(r) ==
    /\ At(r, "updated") /\ delivered[r] \notin ForNovu
    /\ Succeed(r)
    /\ HandlerOnly /\ NoTask /\ UNCHANGED <<faults, doc>>

-----------------------------------------------------------------------------
Rest == NoTask /\ UNCHANGED doc

Receive(r) ==
    \E e \in Events :
        /\ Deliver(r, e)
        /\ contended' = contended \cup
               (About(e) \cap UNION {About(delivered[p]) : p \in Replicas \ {r}})
        /\ Rest /\ UNCHANGED faults

Start(r) == Register(r) /\ Rest /\ UNCHANGED <<contended, faults>>

Acknowledge(r) == (Bury(r) \/ Ack(r)) /\ Rest /\ UNCHANGED <<contended, faults>>

Disconnect(r) == Fault /\ LoseConnection(r) /\ Rest /\ UNCHANGED contended

\* What becomes of the tasks in the replica's memory, LetGo says.
Dies(r) == ConsumerDies(r) /\ Rest /\ UNCHANGED contended

Crash(r) == Fault /\ Dies(r)

\* The failed acknowledgement of a message that another replica may already handle.
DiesDeaf(r) == AckImpossible(r) /\ Dies(r) /\ UNCHANGED faults

\* The document is not touched: updateSubscriberId, with which a create task ends, sets
\* fields that the schema lacks, and Mongoose strips them.
TaskSettles ==
    /\ (\E t \in Queue!Tasks : Queue!Finish(t)) \/ Queue!LetGo
    /\ UNCHANGED <<consumerVars, doc, cause, contended, faults>>

UserHandlerStep(r) ==
    \/ FindForCreate(r) \/ FindForUpdate(r) \/ FindFails(r) \/ SaveUser(r)
    \/ \E outcome \in {"ok", "rejected", "unanswered"} : UpdateUser(r, outcome)
    \/ EnqueueUpdate(r) \/ NothingForNovu(r)

UserConsumerStep(r) == Receive(r) \/ Acknowledge(r) \/ DiesDeaf(r) \/ UserHandlerStep(r)

UserNext ==
    \/ \E r \in Replicas : Start(r) \/ UserConsumerStep(r) \/ Disconnect(r) \/ Crash(r)
    \/ TaskSettles

\* Processes start up, messages are delivered and handlers resumed; the queue keeps
\* its promise.
UserFairness ==
    /\ \A r \in Replicas : WF_userVars(Start(r)) /\ WF_userVars(UserConsumerStep(r))
    /\ Queue!Resolution

UserSpec == UserInit /\ [][UserNext]_userVars /\ UserFairness

-----------------------------------------------------------------------------
\* Updates that Novu is to hear of: their user has a document, and they were neither
\* given up nor too early.
Due(e) ==
    /\ Kind[e] = "updated" /\ e \in ForNovu /\ Exists(User[e])
    /\ e \notin early \cup buried

\* An update that is acknowledged has left a task for Novu, whichever call failed and
\* wherever a process died: the acknowledgement comes after the task.
AckedUpdateIsEnqueued ==
    \A e \in acked : Due(e) => \E t \in DOMAIN cause : cause[t] = e

\* An acknowledged change or deletion has reached the document of its user, or a later
\* event has, unless it came too early or was given up, or two replicas had events of
\* the user in hand at once: redelivery keeps the order.
NoChangeLost ==
    \A e \in acked : Kind[e] \in Changes /\ Exists(User[e]) =>
        \/ doc[User[e]].data >= e
        \/ User[e] \in contended
        \/ e \in early \cup buried

\* The document never goes back to what an earlier event said, however often
\* events are redelivered, unless two replicas had the user in hand at once.
DocumentNeverBackwards ==
    [][\A u \in DOMAIN doc : doc'[u].data >= doc[u].data \/ u \in contended]_userVars

\* Every update of the backlog that Novu is to hear of is told to it or abandoned by the
\* queue in the end, through redeliveries and restarts, as long as a replica listens.
EveryUpdateResolved ==
    \A e \in ForNovu :
        e \in ready => []<>(\/ deaf = Replicas
                            \/ ~Due(e)
                            \/ \E t \in done \cup abandoned : cause[t] = e)

\* The backlog is worked off in the end, whatever fails, as long as a replica listens.
BacklogIsWorkedOff ==
    []<>(deaf = Replicas \/ (ready = {} /\ \A r \in Replicas : delivered[r] = 0))
=============================================================================
