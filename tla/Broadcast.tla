----------------------------- MODULE Broadcast -----------------------------
(***************************************************************************)
(* Announcements of administrators: BroadcastNotificationService, which    *)
(* answers a request, and ScheduledNotificationService, whose cron job     *)
(* takes up the scheduled ones every minute on every replica, without a    *)
(* lock and without waiting for its last run.  They share the processes    *)
(* with the requests of BatchProcessing.  Cancelling is offered by the     *)
(* service, though no controller calls it yet.                             *)
(*                                                                         *)
(* The cron job's user notifications lack id, _id and notificationId,      *)
(* which the schema requires: insertMany validates them first and rejects  *)
(* any list that is not empty.                                             *)
(***************************************************************************)
EXTENDS BatchProcessing

CONSTANTS Announcements,
          Scheduled,   \* those with a scheduledAt
          Users,
          Target,      \* the active users in the database that each is meant for
          ByRole,      \* the users that the auth service knows for its roles
          Named,       \* the users it names
          Crons,       \* runs of the cron job that may overlap
          None         \* no announcement

ASSUME BroadcastAssumption ==
    /\ Scheduled \subseteq Announcements /\ None \notin Announcements
    /\ \A f \in {Target, ByRole, Named} : f \in [Announcements -> SUBSET Users]
    /\ \A a \in Announcements \cup Crons : Host[a] \in Replicas

VARIABLES status,      \* the announcements' status, "none" before they are saved
          request,     \* where the request of each stands
          unserved,    \* users it has yet to queue a message for
          due,         \* announcements whose scheduledAt has passed
          run,         \* where each run stands
          batch,       \* announcements the run has yet to process
          current,     \* the one it processes
          reached,     \* users found for that one
          cancelling,  \* announcements whose cancellation has read "scheduled"
          records,     \* history: pending user notifications, <<announcement, user>>
          messages,    \* history: messages enqueued for <<announcement, user>>
          unqueued,    \* history: <<announcement, user>> whose publication failed
          raced        \* history: announcements cancelled while a run had found them

castRequest == <<request, unserved>>
castRun == <<run, batch, current, reached>>
castHistory == <<records, messages, unqueued>>
castVars == <<status, request, unserved, due, run, batch, current, reached,
              cancelling, records, messages, unqueued, raced>>
vars == <<batchVars, castVars>>

Statuses == {"none", "pending", "scheduled", "active", "failed", "cancelled"}

TypeOK ==
    /\ BatchTypeOK
    /\ status \in [Announcements -> Statuses]
    /\ request \in [Announcements ->
                      {"none", "recording", "queueing", "answered", "failed", "gone"}]
    /\ unserved \in [Announcements -> SUBSET Users]
    /\ due \subseteq Scheduled /\ cancelling \subseteq Announcements
    /\ run \in [Crons -> {"resting", "next", "recording", "activating", "failing"}]
    /\ batch \in [Crons -> SUBSET Announcements]
    /\ current \in [Crons -> Announcements \cup {None}]
    /\ reached \in [Crons -> SUBSET Users]
    /\ \A h \in {records, messages, unqueued} : h \subseteq Announcements \X Users
    /\ raced \subseteq Announcements

Init ==
    /\ BatchInit
    /\ status = [a \in Announcements |-> "none"]
    /\ request = [a \in Announcements |-> "none"]
    /\ unserved = [a \in Announcements |-> {}]
    /\ due = {} /\ cancelling = {}
    /\ run = [c \in Crons |-> "resting"]
    /\ batch = [c \in Crons |-> {}]
    /\ current = [c \in Crons |-> None]
    /\ reached = [c \in Crons |-> {}]
    /\ records = {} /\ messages = {} /\ unqueued = {} /\ raced = {}

-----------------------------------------------------------------------------
(* createBroadcast *)

InProgress(a) == request[a] \in {"recording", "queueing"}
RequestAt(a, p) == request' = [request EXCEPT ![a] = p]

\* The targets are found, the announcement is saved; a scheduled one is left to the
\* cron job.  An error of either is the answer.
Create(a, ok) ==
    /\ a \in asked /\ request[a] = "none"
    /\ Unless(ok)
    /\ IF ~ok THEN RequestAt(a, "failed") /\ UNCHANGED <<status, unserved>>
       ELSE IF a \in Scheduled
       THEN /\ status' = [status EXCEPT ![a] = "scheduled"]
            /\ RequestAt(a, "answered") /\ UNCHANGED unserved
       ELSE /\ status' = [status EXCEPT ![a] = "pending"]
            /\ RequestAt(a, "recording")
            /\ unserved' = [unserved EXCEPT ![a] = Target[a]]
    /\ UNCHANGED <<due, castRun, cancelling, castHistory, raced>>

\* Mutant: the messages are queued although the records were not stored.
AfterRecording_Always(ok) == "queueing"

AfterRecording(ok) == IF ok THEN "queueing" ELSE "failed"

\* createUserNotifications: an insertMany that fails may have inserted some.
Record(a, ok) ==
    /\ request[a] = "recording"
    /\ Unless(ok)
    /\ \E some \in SUBSET Target[a] :
         /\ ok => some = Target[a]
         /\ records' = records \cup ({a} \X some)
    /\ RequestAt(a, AfterRecording(ok))
    /\ UNCHANGED <<status, unserved, due, castRun, cancelling, messages, unqueued,
                   raced>>

\* queueNotificationsForSending, one user: a failed publication is logged.
QueueFor(a, u, ok) ==
    /\ request[a] = "queueing" /\ u \in unserved[a]
    /\ Unless(ok)
    /\ unserved' = [unserved EXCEPT ![a] = @ \ {u}]
    /\ messages' = IF ok THEN messages \cup {<<a, u>>} ELSE messages
    /\ unqueued' = IF ok THEN unqueued ELSE unqueued \cup {<<a, u>>}
    /\ UNCHANGED <<status, request, due, castRun, cancelling, records, raced>>

AnswerBroadcast(a) ==
    /\ request[a] = "queueing" /\ unserved[a] = {}
    /\ RequestAt(a, "answered")
    /\ UNCHANGED <<status, unserved, due, castRun, cancelling, castHistory, raced,
                   faults>>

-----------------------------------------------------------------------------
(* processScheduledNotifications *)

RunAt(c, p) == run' = [run EXCEPT ![c] = p]
CronOnly == UNCHANGED <<castRequest, due, cancelling, castHistory, raced>>

BecomesDue(a) ==
    /\ a \in Scheduled \ due /\ status[a] # "none"
    /\ due' = due \cup {a}
    /\ UNCHANGED <<status, castRequest, castRun, cancelling, castHistory, raced, faults>>

\* Mutant: what was cancelled is found as well.
Ready_AnyStatus == {a \in due : status[a] \in {"scheduled", "cancelled"}}

Ready == {a \in due : status[a] = "scheduled"}

\* An error ends the run.
FindReady(c, ok) ==
    /\ run[c] = "resting" /\ Ready # {}
    /\ Unless(ok)
    /\ IF ok THEN batch' = [batch EXCEPT ![c] = Ready] /\ RunAt(c, "next")
             ELSE UNCHANGED <<batch, run>>
    /\ UNCHANGED <<status, current, reached>> /\ CronOnly

\* getTargetUsers.  The client turns an error of the look-up by roles into no users;
\* an error of the look-up by name, a user who is not found, or a refusing circuit
\* fails the announcement.  Without roles and names nobody is found.
TakeNext(c, a, outcome) ==
    /\ run[c] = "next" /\ a \in batch[c]
    /\ Unless(outcome = "found")
    /\ batch' = [batch EXCEPT ![c] = @ \ {a}]
    /\ current' = [current EXCEPT ![c] = a]
    /\ reached' = [reached EXCEPT ![c] =
                       CASE outcome = "found"    -> ByRole[a] \cup Named[a]
                         [] outcome = "no roles" -> Named[a]
                         [] OTHER                -> {}]
    /\ RunAt(c, IF outcome = "failed" THEN "failing" ELSE "recording")
    /\ UNCHANGED status /\ CronOnly

EndOfBatch(c) ==
    /\ run[c] = "next" /\ batch[c] = {}
    /\ RunAt(c, "resting")
    /\ UNCHANGED <<status, batch, current, reached, faults>> /\ CronOnly

\* createUserNotifications: only an empty list can be inserted.
RecordFound(c) ==
    /\ run[c] = "recording"
    /\ RunAt(c, IF reached[c] = {} THEN "activating" ELSE "failing")
    /\ UNCHANGED <<status, batch, current, reached, faults>> /\ CronOnly

Processed(c) ==
    /\ current' = [current EXCEPT ![c] = None]
    /\ reached' = [reached EXCEPT ![c] = {}]

\* findByIdAndUpdate, whatever the status is by now.
Activate(c, ok) ==
    /\ run[c] = "activating"
    /\ Unless(ok)
    /\ IF ok THEN /\ status' = [status EXCEPT ![current[c]] = "active"]
                  /\ RunAt(c, "next") /\ Processed(c)
             ELSE RunAt(c, "failing") /\ UNCHANGED <<status, current, reached>>
    /\ UNCHANGED batch /\ CronOnly

\* Mutant: the announcement stays scheduled, to be tried again for ever.
Failed_Kept(a) == status[a]

Failed(a) == "failed"

\* An error of this update leaves the loop: the rest of the batch waits for the next run.
MarkFailed(c, ok) ==
    /\ run[c] = "failing"
    /\ Unless(ok)
    /\ status' = IF ok THEN [status EXCEPT ![current[c]] = Failed(current[c])] ELSE status
    /\ RunAt(c, IF ok THEN "next" ELSE "resting")
    /\ batch' = IF ok THEN batch ELSE [batch EXCEPT ![c] = {}]
    /\ Processed(c)
    /\ CronOnly

-----------------------------------------------------------------------------
(* cancelScheduledNotification *)

Found(a) == \E c \in Crons : a \in batch[c] \/ current[c] = a

ReadCancelled(a) ==
    /\ status[a] = "scheduled" /\ a \notin cancelling
    /\ cancelling' = cancelling \cup {a}
    /\ UNCHANGED <<status, castRequest, due, castRun, castHistory, raced, faults>>

Cancel(a, ok) ==
    /\ a \in cancelling
    /\ Unless(ok)
    /\ cancelling' = cancelling \ {a}
    /\ status' = IF ok THEN [status EXCEPT ![a] = "cancelled"] ELSE status
    /\ raced' = IF ok /\ Found(a) THEN raced \cup {a} ELSE raced
    /\ UNCHANGED <<castRequest, due, castRun, castHistory>>

-----------------------------------------------------------------------------
\* A process dies, and starts again with its cron job at rest.
Crash(r) ==
    LET dying == {a \in Announcements : Host[a] = r /\ InProgress(a)}
    IN  /\ Fault
        /\ BatchesDie(r)
        /\ request' = [a \in Announcements |-> IF a \in dying THEN "gone" ELSE request[a]]
        /\ unserved' = [a \in Announcements |-> IF a \in dying THEN {} ELSE unserved[a]]
        /\ run' = [c \in Crons |-> IF Host[c] = r THEN "resting" ELSE run[c]]
        /\ batch' = [c \in Crons |-> IF Host[c] = r THEN {} ELSE batch[c]]
        /\ current' = [c \in Crons |-> IF Host[c] = r THEN None ELSE current[c]]
        /\ reached' = [c \in Crons |-> IF Host[c] = r THEN {} ELSE reached[c]]
        /\ UNCHANGED <<status, due, cancelling, castHistory, raced>>

CastStep(a) ==
    \/ \E ok \in BOOLEAN : Record(a, ok)
    \/ \E u \in Users, ok \in BOOLEAN : QueueFor(a, u, ok)
    \/ AnswerBroadcast(a)

CronStep(c) ==
    \/ \E ok \in BOOLEAN : FindReady(c, ok) \/ Activate(c, ok) \/ MarkFailed(c, ok)
    \/ \E a \in Announcements, outcome \in {"found", "no roles", "failed"} :
           TakeNext(c, a, outcome)
    \/ RecordFound(c)
    \/ EndOfBatch(c)

BatchesOnly == UNCHANGED castVars
AnnouncementsOnly ==
    UNCHANGED <<asked, stage, checked, unique, todo, successful, failed, seen,
                batchHistory>>

Next ==
    \/ BatchNext /\ BatchesOnly
    \/ /\ \/ \E a \in Announcements :
               \/ \E ok \in BOOLEAN : Create(a, ok) \/ Cancel(a, ok)
               \/ CastStep(a) \/ BecomesDue(a) \/ ReadCancelled(a)
          \/ \E c \in Crons : CronStep(c)
       /\ AnnouncementsOnly
    \/ \E r \in Replicas : Crash(r)

\* A process goes on with its requests, and its cron job fires.
Spec ==
    /\ Init /\ [][Next]_vars
    /\ \A b \in Batches : WF_vars(BatchStep(b) /\ BatchesOnly)
    /\ \A a \in Announcements : WF_vars(CastStep(a) /\ AnnouncementsOnly)
    /\ \A c \in Crons : WF_vars(CronStep(c) /\ AnnouncementsOnly)

-----------------------------------------------------------------------------
\* No user has a message without a record, and an answered broadcast has left both
\* for each of its users, except where a publication failed.
BroadcastIsComplete ==
    /\ messages \subseteq records
    /\ \A a \in Announcements \ Scheduled : request[a] = "answered" =>
         \A u \in Target[a] : <<a, u>> \in records /\ <<a, u>> \in messages \cup unqueued

\* What was cancelled stays so, unless a run of some replica had found it before.
CancelIsFinal ==
    [][\A a \in Announcements :
           status[a] = "cancelled" /\ a \notin raced => status'[a] = "cancelled"]_vars

\* Every request comes to an end, with an answer or with its process, and every
\* announcement that is due is taken up, whichever replica fails in between.
RequestsEnd ==
    []<>(/\ \A b \in Batches : ~Live(b)
         /\ \A a \in Announcements : ~InProgress(a)
         /\ Ready = {})
=============================================================================
