-------------------------- MODULE SubscriberQueue --------------------------
(***************************************************************************)
(* NovuSubscriberQueueService: the in-memory queue of each replica that    *)
(* creates and updates the Novu subscribers of users, its breaker, and its *)
(* backup in Redis, under one key that all replicas share.                 *)
(*                                                                         *)
(* Every Novu call runs through the circuit "novu" of the replica, which   *)
(* the deliveries of the replica use too: it may refuse at any time.  A    *)
(* batch is started in one JavaScript job, so it refuses all of a batch or *)
(* none of it.  `processing` is not kept: it holds exactly while a task of *)
(* the batch is under way (Promise.allSettled).                            *)
(*                                                                         *)
(* The application never calls enableShutdownHooks, so onModuleDestroy     *)
(* does not run when the process is told to stop: a restart is a Crash.    *)
(***************************************************************************)
EXTENDS Naturals, FiniteSets, SequencesExt

CONSTANTS Users,
          Arrivals,       \* the requests to the queue, in the order they are made
          Replicas,       \* processes of the service
          Concurrency,    \* CONCURRENCY (3)
          MaxRetries,     \* MAX_RETRIES (5)
          BreakAfter,     \* CIRCUIT_BREAKER_THRESHOLD (10)
          Nil,            \* no backup
          MaxTasks,       \* bound: tasks enqueued
          MaxWrites,      \* bound: snapshots on their way at once
          MaxFaults       \* bound: crashes, errors of Redis and given-up calls

\* A task is the number it was enqueued as.
Tasks == 1..MaxTasks
Request == [kind : {"create", "update", "delete"}, user : Users]

Entry == [task : Tasks, attempts : 0..(MaxRetries - 1)]

ASSUME QueueAssumption ==
    /\ Arrivals \in Seq(Request)
    /\ Concurrency \in Nat \ {0} /\ MaxRetries \in Nat \ {0} /\ BreakAfter \in Nat \ {0}
    /\ Nil \notin Seq(Entry)
    /\ MaxTasks \in Nat /\ MaxWrites \in Nat /\ MaxFaults \in Nat

VARIABLES restored,   \* replicas past restoreQueueFromRedis, whose processor runs
          queue,      \* queue of each replica
          running,    \* processingTasks of each replica, and how far each task is
          failures,   \* novuFailureCount of each replica
          paused,     \* replicas whose circuitBreakerOpen is set
          writes,     \* snapshots on their way to Redis
          backup,     \* the value under REDIS_QUEUE_KEY
          late,       \* tasks of given-up calls that Novu may still apply
          subscriber, \* the task that Novu applied last to each user's subscriber, 0 for none
          log,        \* history: what each task asks for
          done,       \* history: tasks that succeeded
          dropped,    \* history: tasks removed after a refusal, a timeout or their last try
          exposed,    \* history: tasks a named fault may lose
          disturbed,  \* history: users whose tasks a named cause may reorder
          faults      \* faults so far

memory == <<restored, queue, running, failures, paused>>
redis == <<writes, backup>>
novuSide == <<late, subscriber>>
queueHistory == <<log, done, dropped, exposed, disturbed>>
queueVars == <<restored, queue, running, failures, paused, writes, backup, late,
               subscriber, log, done, dropped, exposed, disturbed, faults>>

TasksOf(q) == {q[i].task : i \in DOMAIN q}
Owner(t) == log[t].user
Kind(t) == log[t].kind
Points == {"none", "calling", "accepted", "recording"}

QueueTypeOK ==
    /\ restored \subseteq Replicas
    /\ queue \in [Replicas -> Seq(Entry)]
    /\ running \in [Replicas -> [Tasks -> Points]]
    /\ failures \in [Replicas -> 0..BreakAfter]
    /\ paused \subseteq Replicas
    /\ writes \in [Replicas -> Seq(Seq(Entry))]
    /\ backup \in Seq(Entry) \cup {Nil}
    /\ late \subseteq Tasks
    /\ subscriber \in [Users -> 0..MaxTasks]
    /\ log \in Seq(Request)
    /\ done \subseteq Tasks /\ dropped \subseteq Tasks /\ exposed \subseteq Tasks
    /\ disturbed \subseteq Users
    /\ faults \in Nat

QueueInit ==
    /\ restored = {}
    /\ queue = [r \in Replicas |-> <<>>]
    /\ running = [r \in Replicas |-> [t \in Tasks |-> "none"]]
    /\ failures = [r \in Replicas |-> 0]
    /\ paused = {}
    /\ writes = [r \in Replicas |-> <<>>]
    /\ backup = Nil
    /\ late = {}
    /\ subscriber = [u \in Users |-> 0]
    /\ log = <<>>
    /\ done = {} /\ dropped = {} /\ exposed = {} /\ disturbed = {}
    /\ faults = 0

-----------------------------------------------------------------------------
\* The tasks in the backup, and in the snapshots of a replica that are on their way.
Backed == IF backup = Nil THEN {} ELSE TasksOf(backup)
Unwritten(r) == UNION {TasksOf(writes[r][i]) : i \in DOMAIN writes[r]}

ServedElsewhere(r) == {Owner(t) : t \in UNION {TasksOf(queue[p]) : p \in Replicas \ {r}}}

InFlight(r) == {t \in Tasks : running[r][t] # "none"}

\* removeTaskFromQueue: findIndex and splice.
Without(q, t) ==
    IF t \in TasksOf(q)
    THEN LET at == CHOOSE i \in DOMAIN q : q[i].task = t IN RemoveAt(q, at)
    ELSE q

\* Mutant: the failed task goes to the end of the queue, as the comment has it.
Retried_AtTheEnd(q, t) ==
    LET at == CHOOSE i \in DOMAIN q : q[i].task = t
    IN  Append(Without(q, t), [task |-> t, attempts |-> q[at].attempts + 1])

\* The failed task keeps its place in the queue.
Retried(q, t) ==
    [i \in DOMAIN q |-> IF q[i].task = t
                        THEN [task |-> t, attempts |-> q[i].attempts + 1] ELSE q[i]]

Attempts(q, t) == LET at == CHOOSE i \in DOMAIN q : q[i].task = t IN q[at].attempts

WithQueue(r, q) == queue' = [queue EXCEPT ![r] = q]
Go(r, t, point) == running' = [running EXCEPT ![r] = [@ EXCEPT ![t] = point]]

-----------------------------------------------------------------------------
(* enqueueCreate, enqueueUpdate, enqueueDelete *)

\* Mutant: only the tasks not under way are backed up.
Snapshot_Waiting(r, q) == SelectSeq(q, LAMBDA e : running[r][e.task] = "none")

\* backupQueueToRedis serializes the whole queue when it is called.
Snapshot(r, q) == q

\* Until the queue is restored the array that the task is pushed to will be replaced.
Enqueue(r, request) ==
    LET t == Len(log) + 1
        q == Append(queue[r], [task |-> t, attempts |-> 0])
    IN  /\ t \in Tasks
        /\ Len(writes[r]) < MaxWrites
        /\ WithQueue(r, q)
        /\ writes' = [writes EXCEPT ![r] = Append(@, Snapshot(r, q))]
        /\ log' = Append(log, request)
        /\ exposed' = IF r \in restored THEN exposed ELSE exposed \cup {t}
        /\ disturbed' = disturbed \cup ({request.user} \cap ServedElsewhere(r))
        /\ UNCHANGED <<restored, running, failures, paused, backup, novuSide, done, dropped,
                       faults>>

-----------------------------------------------------------------------------
(* The processor *)

FirstTasks(q) == {q[i].task : i \in {j \in DOMAIN q : j <= Concurrency}}

MayStart(r) == r \in restored /\ r \notin paused /\ queue[r] # <<>> /\ InFlight(r) = {}

Together(batch) ==
    {Owner(t) : t \in {x \in batch : \E y \in batch \ {x} : Owner(x) = Owner(y)}}

\* Mutant: the flag `processing` is not looked at.
StartBatch_Overlapping(r) ==
    LET batch == FirstTasks(queue[r]) \ InFlight(r)
    IN  /\ r \in restored /\ r \notin paused /\ batch # {}
        /\ running' = [running EXCEPT ![r] =
                         [t \in Tasks |-> IF t \in batch THEN "calling" ELSE @[t]]]
        /\ disturbed' = disturbed \cup Together(batch)
        /\ UNCHANGED <<restored, queue, failures, paused, redis, novuSide, log, done,
                       dropped, exposed, faults>>

\* processBatch: the interval fires, the first tasks call Novu.
StartBatch(r) ==
    LET batch == FirstTasks(queue[r]) \ InFlight(r)
    IN  /\ MayStart(r)
        /\ running' = [running EXCEPT ![r] =
                         [t \in Tasks |-> IF t \in batch THEN "calling" ELSE @[t]]]
        /\ disturbed' = disturbed \cup Together(batch)
        /\ UNCHANGED <<restored, queue, failures, paused, redis, novuSide, log, done,
                       dropped, exposed, faults>>

\* "Circuit breaker novu is OPEN": the tasks of the batch are removed untried.
BatchRefused(r) ==
    LET batch == FirstTasks(queue[r])
    IN  /\ MayStart(r)
        /\ WithQueue(r, SubSeq(queue[r], Concurrency + 1, Len(queue[r])))
        /\ dropped' = dropped \cup batch
        /\ UNCHANGED <<restored, running, failures, paused, redis, novuSide, log,
                       done, exposed, disturbed, faults>>

-----------------------------------------------------------------------------
(* processTask and handleTaskFailure *)

Complete(r, t) ==
    /\ WithQueue(r, Without(queue[r], t))
    /\ Go(r, t, "none")
    /\ failures' = [failures EXCEPT ![r] = 0]
    /\ done' = done \cup {t}
    /\ UNCHANGED <<paused, dropped>>

\* Mutant: one try too many.
LastTry_Late(q, t) == Attempts(q, t) + 1 > MaxRetries

LastTry(q, t) == Attempts(q, t) + 1 >= MaxRetries

\* The count is only compared with the threshold: it saturates there.
Fail(r, t) ==
    LET reached == failures[r] + 1 >= BreakAfter
    IN  /\ Go(r, t, "none")
        /\ failures' = [failures EXCEPT ![r] = IF reached THEN BreakAfter ELSE @ + 1]
        /\ paused' = IF reached THEN paused \cup {r} ELSE paused
        /\ IF LastTry(queue[r], t)
           THEN WithQueue(r, Without(queue[r], t)) /\ dropped' = dropped \cup {t}
           ELSE WithQueue(r, Retried(queue[r], t)) /\ UNCHANGED dropped
        /\ UNCHANGED done

\* deleteSubscriber of NovuClient resolves without calling Novu.
AppliedTo(t) == IF Kind(t) = "delete" THEN subscriber ELSE [subscriber EXCEPT ![Owner(t)] = t]

\* Novu takes a request of executeWithRetry, or one more after a lost reply.
NovuApplies(r, t) ==
    /\ running[r][t] \in {"calling", "accepted"}
    /\ subscriber' = AppliedTo(t)
    /\ Go(r, t, "accepted")
    /\ UNCHANGED <<restored, queue, failures, paused, redis, late, queueHistory,
                   faults>>

\* A create goes on to userService.updateSubscriberId.
Delivered(r, t) ==
    /\ running[r][t] = "accepted"
    /\ IF Kind(t) = "create"
       THEN Go(r, t, "recording") /\ UNCHANGED <<queue, failures, paused, done, dropped>>
       ELSE Complete(r, t)
    /\ UNCHANGED <<restored, redis, novuSide, log, exposed, disturbed, faults>>

Rejected(r, t) ==
    /\ running[r][t] \in {"calling", "accepted"}
    /\ Fail(r, t)
    /\ UNCHANGED <<restored, redis, novuSide, log, exposed, disturbed, faults>>

\* The circuit's 30 s end first: "Circuit breaker timeout" reads like a refusal, so the
\* task is removed without a retry, and executeWithRetry goes on unobserved, beside the
\* user's next task.
TimesOut(r, t) ==
    /\ running[r][t] \in {"calling", "accepted"}
    /\ faults < MaxFaults
    /\ faults' = faults + 1
    /\ Go(r, t, "none")
    /\ WithQueue(r, Without(queue[r], t))
    /\ dropped' = dropped \cup {t}
    /\ late' = late \cup {t}
    /\ disturbed' = disturbed \cup {Owner(t)}
    /\ UNCHANGED <<restored, failures, paused, redis, subscriber, log, done, exposed>>

\* updateSubscriberId: the user may be missing, or the database fail.  Nothing of it
\* is stored: the schema of users knows no subscriberId.
Recorded(r, t, ok) ==
    /\ running[r][t] = "recording"
    /\ IF ok THEN Complete(r, t) ELSE Fail(r, t)
    /\ UNCHANGED <<restored, redis, novuSide, log, exposed, disturbed, faults>>

\* The timer of openCircuitBreaker.
ClosePause(r) ==
    /\ r \in paused
    /\ paused' = paused \ {r}
    /\ failures' = [failures EXCEPT ![r] = 0]
    /\ UNCHANGED <<restored, queue, running, redis, novuSide, queueHistory, faults>>

-----------------------------------------------------------------------------
(* The backup in Redis *)

\* The commands of one connection are executed in order; those sent during a
\* restore are executed after its GET.  An error is swallowed.
WriteBackup(r, ok) ==
    LET q == Head(writes[r])
        replaced == IF Replicas = {r} THEN {} ELSE Backed \ TasksOf(q)
    IN  /\ r \in restored /\ writes[r] # <<>>
        /\ ~ok => faults < MaxFaults
        /\ faults' = IF ok THEN faults ELSE faults + 1
        /\ writes' = [writes EXCEPT ![r] = Tail(@)]
        /\ backup' = IF ok THEN q ELSE backup
        /\ exposed' = exposed \cup (IF ok THEN replaced ELSE TasksOf(q))
        /\ UNCHANGED <<memory, novuSide, log, done, dropped, disturbed>>

\* No task of the backup is a day old.  What is under the key replaces the queue,
\* be it of this replica or of another.  A task that is restored after a later one
\* was applied will undo that one, and a snapshot taken before the restore will
\* replace the backup by what it lacks.
Restore(r, ok) ==
    LET found == IF ok /\ backup # Nil THEN backup ELSE queue[r]
        undoing == {Owner(t) : t \in {x \in TasksOf(found) : x < subscriber[Owner(x)]}}
    IN  /\ r \notin restored
        /\ ~ok => faults < MaxFaults
        /\ faults' = IF ok THEN faults ELSE faults + 1
        /\ restored' = restored \cup {r}
        /\ WithQueue(r, found)
        /\ disturbed' = disturbed \cup undoing
                          \cup (ServedElsewhere(r) \cap {Owner(t) : t \in TasksOf(found)})
        /\ exposed' = IF ~ok \/ writes[r] # <<>> THEN exposed \cup Backed ELSE exposed
        /\ UNCHANGED <<running, failures, paused, redis, novuSide, log, done,
                       dropped>>

-----------------------------------------------------------------------------
(* The environment *)

\* The process dies and starts again; what it had not written yet is lost.
QueueDies(r) ==
    LET calling == {t \in Tasks : running[r][t] = "calling"}
    IN  /\ restored' = restored \ {r}
        /\ WithQueue(r, <<>>)
        /\ running' = [running EXCEPT ![r] = [t \in Tasks |-> "none"]]
        /\ failures' = [failures EXCEPT ![r] = 0]
        /\ paused' = paused \ {r}
        /\ writes' = [writes EXCEPT ![r] = <<>>]
        /\ late' = late \cup calling
        /\ exposed' = exposed \cup (Unwritten(r) \ Backed)
        /\ disturbed' = disturbed \cup {Owner(t) : t \in calling}
        /\ UNCHANGED <<backup, subscriber, log, done, dropped>>

Crash(r) == faults < MaxFaults /\ faults' = faults + 1 /\ QueueDies(r)

LateRequest(t) ==
    /\ t \in late
    /\ late' = late \ {t}
    /\ subscriber' = AppliedTo(t)
    /\ UNCHANGED <<memory, redis, queueHistory, faults>>

-----------------------------------------------------------------------------
NovuStep(r, t) ==
    \/ NovuApplies(r, t)
    \/ Delivered(r, t)
    \/ Rejected(r, t)
    \/ TimesOut(r, t)

ProcessorStep(r) == StartBatch(r) \/ BatchRefused(r)

\* What the queue and its environment do by themselves; a crash, the recording of a
\* subscriber and the enqueueing involve the rest of the process.
QueueStep ==
    \/ \E r \in Replicas : ProcessorStep(r) \/ ClosePause(r)
    \/ \E r \in Replicas, t \in Tasks : NovuStep(r, t)
    \/ \E r \in Replicas, ok \in BOOLEAN : WriteBackup(r, ok) \/ Restore(r, ok)
    \/ \E t \in Tasks : LateRequest(t)

Arrive ==
    /\ Len(log) < Len(Arrivals)
    /\ \E r \in Replicas : Enqueue(r, Arrivals[Len(log) + 1])

QueueNext ==
    \/ QueueStep
    \/ Arrive
    \/ \E r \in Replicas : Crash(r)
    \/ \E r \in Replicas, t \in Tasks, ok \in BOOLEAN : Recorded(r, t, ok)

\* The interval and the timer fire, and every call settles: the circuit's own
\* timer sees to that.
QueueFairness ==
    /\ \A r \in Replicas : /\ WF_queueVars(ProcessorStep(r))
                           /\ WF_queueVars(ClosePause(r))
                           /\ WF_queueVars(\E ok \in BOOLEAN : Restore(r, ok))
    /\ \A r \in Replicas :
         WF_queueVars(\E t \in Tasks : \/ Delivered(r, t) \/ Rejected(r, t) \/ TimesOut(r, t)
                                       \/ \E ok \in BOOLEAN : Recorded(r, t, ok))

QueueSpec == QueueInit /\ [][QueueNext]_queueVars /\ QueueFairness

-----------------------------------------------------------------------------
\* A task under way is overtaken by, and overtakes, at most the other tasks of its
\* window: the queue keeps the order of arrival through retries, refusals and
\* restores, and only its first CONCURRENCY tasks run.
BoundedOvertaking ==
    \A r \in Replicas :
        /\ \A i, j \in DOMAIN queue[r] :
               i < j => queue[r][i].task < queue[r][j].task
        /\ \A t \in Tasks : running[r][t] # "none" =>
               \E i \in DOMAIN queue[r] : i <= Concurrency /\ queue[r][i].task = t

\* Novu never goes back from a later task of a user to an earlier one, however
\* often either is retried, unless both were in one batch, a call was given up and its
\* requests went on beside the next task, a restore repeats what was done, or two
\* replicas serve the user.
NeverBackwards ==
    [][\A u \in Users : u \in disturbed' \/ subscriber'[u] >= subscriber[u]]_queueVars

\* The queue keeps the promise of SubscriberTasks: whatever crashes, a task is in a
\* memory, in the backup that the next start restores or on its way there until it is
\* done, dropped (refused, out of time or out of tries), or exposed: enqueued or
\* restored while a task was enqueued during a restore, not written to the backup, or
\* replaced there by another replica.  No failing task, refusing circuit or pause keeps
\* it from one of these for ever.
Held == Backed \cup UNION {TasksOf(queue[r]) \cup Unwritten(r) : r \in Replicas}

Promise == INSTANCE SubscriberTasks WITH held <- Held, abandoned <- dropped \cup exposed

TasksAreKept == Promise!TasksSpec
=============================================================================
