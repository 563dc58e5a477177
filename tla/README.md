# Formal models of the notification service

TLA+ specifications of the notification service (NestJS, MongoDB, RabbitMQ, Redis, Novu), the
TLC configurations that check them on small instances, and proofs checked by TLAPS. Paths below
are relative to the repository's `src/` unless they start with `docs/` or `infrastructure/kubernetes/`.

    tlc -config MCRetryFaults.cfg MCRetryWorker     check one run
    tlapm RetryProofs.tla                            check one module's proofs

`PROJECT.json` lists the runs, the source lines each definition models, the hazards and the
properties that cover them, and for each property a mutant: a changed definition under which TLC
finds the property violated.

## 1. The system

The service receives events from RabbitMQ and requests over HTTP, decides which users get which
notification over which channel, sends it through the Novu API, records one *user notification*
per user and channel in MongoDB, and retries those that failed. Several replicas run against the
same database and broker (`infrastructure/kubernetes/deployment.yaml:11`, two at least).

| Component | State it keeps | Operations | Hard behaviour |
|---|---|---|---|
| Circuit breaker (`infrastructure/external/circuit-breaker`) | in memory, per process: state, failure count and next attempt of each named circuit | `execute`, `isCircuitOpen`, metrics, `resetCircuit`, `forceHalfOpen` | concurrent calls through nested circuits, late answers, time-outs, reads that change the state |
| Retry worker (`workers/retry-worker.ts`) | `status`, `retryCount`, `updatedAt` of every user notification in MongoDB; its handlers' local copies | cron job every 5 minutes, `retryNotification` for each of a batch, `manualRetry` | the cron of every replica over one collection without claiming, stale copies across awaits, crash or database error between two updates, time-out racing the delivery |
| Dead letter queue (`modules/notification/integration/dlq`) | the same documents in status `dlq` | `addToDLQ`, retry, bulk retry, delete, clean-up | administrators and the worker update the same document |
| Manual retry (`modules/notification/admin/.../manual-retry.service.ts`) | the same documents | `retryNotification` | check, then update by id |
| Novu client and its request loop (`infrastructure/external/novu`) | none | `triggerWorkflow` and subscriber requests: up to four requests with growing pauses, inside the circuit `novu` | the loop goes on after the circuit's time-out |
| Error classification (`common/services/error-classifier.service.ts`) | none | `classifyError` | texts decide between retry, token clean-up and dead letter |
| Token clean-up (`modules/notification/domain/services`) | `isActive` of device tokens | clean up a user's tokens, stale tokens | errors are collected, not thrown |
| Notification events (`modules/notification/notification/application`, `modules/notification/integration/rabbitmq`) | notification documents | look up the users of an event, drop those who switched such content off, save one notification, queue a message for each user | failures per user are swallowed, repeated events create new notifications, preferences change between two attempts |
| Priority queue (`modules/notification/priority-queue`) | main, retry and dead letter queue in RabbitMQ; a bookkeeping copy in Redis that nothing restores | enqueue, workers with two consumers each, one Novu workflow per channel, delayed retry, dead letter | acknowledgement against crash and lost connection, the copy sent before the original is acknowledged, a request loop that sends again or goes on after its time-out |
| Subscriber queue (`infrastructure/external/novu/novu-subscriber-queue.service.ts`) | in-memory queue, breaker, backup in Redis under one key for all replicas | enqueue create, update, delete; three tasks at a time, failure handling, backup and restore | retries and given-up calls against the order of one user's tasks, backup written on enqueue only, restore over what was enqueued meanwhile |
| Event consumer (`infrastructure/messaging`) | the unacknowledged message; the handlers registered so far | validate, handle with retries, dead letter, acknowledge | redelivery, a dead letter that is bound to no queue, a connection that is never replaced |
| User events (`.../event-handlers/auth-event.handler.ts`, `modules/notification/user`) | one document per user | create (always fails), update, change roles, delete; enqueue the subscriber's task | events of one user on two replicas, document and task written in two steps |
| Batch processing (`modules/notification/batch-processing`) | deduplication keys and statistics in Redis | check for duplicates, publish in chunks, answer | get then set, failure between chunks |
| Broadcast and scheduled announcements (`modules/notification/admin`) | announcements, user notifications | create, queue for each user; cron job every minute; cancel | the cron of every replica without a lock, partial insertMany |
| Preferences (`modules/notification/preferences`) | one document per user, a Redis entry with a time to live | read, create default, update | reads and updates overlap over document and cache, whole documents are written back |
| Scheduling, bulk operations, user synchronisation, queue persistence | one document per job | create, update, cancel, execute | not wired, or never executed: the execution is simulated |
| Record keeping: categories, templates, device tokens, webhooks, throttling rules, segments, A/B tests, analytics, lifecycle, fallback, multi-provider | one collection each | create, read, update, delete, statistics | hardly any |
| Caches, pools, logging, monitoring, security, controllers | counters, caches | output, filters | hardly any |

How they interact: the event consumer hands an event to its handler. User events write the user's document and feed
the subscriber queue of the replica; what that queue writes back about the subscriber is not in the schema of users
and is not stored. Content events, and broadcasts of administrators, leave one message per user in the priority queue
(batches publish to RabbitMQ queues of their own). Its workers call `NovuWorkflowService.triggerWorkflow`, which runs
inside the circuit `novu-api` and calls `NovuClient.triggerWorkflow`, which runs its request loop inside the circuit
`novu`. The retry worker reads those, skips its run while `novu-api` is open, and triggers them again through the same
two circuits; after `maxRetries` it moves them to the dead letter queue, where administrators retry or delete them.
Subscriber requests share the circuit `novu`. The worker of each replica has circuits of its own but shares the
collection.

`AppModule` does not import queue persistence, bulk operations, lifecycle, fallback, throttling,
multi-provider, segmentation, A/B testing and advanced monitoring; `scheduling.service.ts` and
`webhook.service.ts` at the top of their modules are superseded and provided by no module; no code
of the repository calls the wired scheduling service, `manualRetry` or `cancelScheduledNotification`
yet. `main.ts` does not call `enableShutdownHooks`, so no `onModuleDestroy` runs when a process is
stopped: every restart is a crash.

What makes each component correct:

* Circuit breaker: it trips at its threshold and not before; it recovers once Novu is back,
  however circuits are nested.
* Retry worker and dead letter queue: every failed notification ends SENT or in the dead letter
  queue; SENT means that Novu accepted it; nobody is stranded in PENDING; retries are bounded;
  a user gets a duplicate only where a fault made the outcome unknown.
* Administration: a retry is sent again; what is deleted stays deleted.
* Event consumer and priority queue: no message is acknowledged before it was handled, and none
  vanishes; retries are bounded; a user is notified twice only after a redelivery or where the
  request loop sent again.
* User events and subscriber queue: an acknowledged change is in the document, and Novu's queue has the
  task for it; one user's tasks take effect in order; nothing that was enqueued is lost but to a refusal,
  a time-out, its last try or a fault that can be named.
* Batches and announcements: the answer tells what happened; a duplicate is refused only if the
  original was published; a cancelled announcement stays cancelled.
* Preferences: an acknowledged update is not lost again, and the cache catches up with the document.

## 2. Modules

| Module | What it is |
|---|---|
| `Circuit` | the transitions of one circuit, and of a call that passes through several (`Begin`, `Settle`); no state of its own |
| `CircuitBreaker` | callers, operators and an unreliable Novu around the circuits of one process |
| `RetryWorker` | the retry worker of every replica, its manual callers, the collection and the circuits; extends `Circuit` |
| `RetryAdmin` | `RetryWorker` together with the operations of the dead letter queue service and of the manual retry service |
| `SubscriberTasks` | abstract: what the subscriber queue promises to those who enqueue |
| `SubscriberQueue` | the queue of every replica, its processor, breaker and backup; implements `SubscriberTasks` |
| `EventConsumer` | delivery, attempts and acknowledgement of the messages of `notification.queue`, on every replica |
| `UserEvents` | the handlers of user events over the user collection and an abstract queue (`INSTANCE SubscriberTasks`); extends `EventConsumer` |
| `NotificationEvents` | the handler of published content, on the same consumer and the same users; extends `UserEvents` |
| `PriorityQueue` | the three queues of the broker and the workers of every replica |
| `BatchProcessing` | requests to process a batch, deduplication in Redis, publication in chunks |
| `Broadcast` | immediate and scheduled announcements on the same processes; extends `BatchProcessing` |
| `Preferences` | one user's preferences: document, cache entry, reads and updates |
| `CircuitProofs` | lemmas on `Circuit` |
| `CircuitBreakerProofs`, `SubscriberQueueProofs`, `PriorityQueueProofs`, `PreferencesProofs` | theorems of one module each |
| `RetryProofs` | theorems of `RetryWorker` and `RetryAdmin` |
| `EventsProofs` | theorems of `EventConsumer`, `UserEvents` and `NotificationEvents` together |
| `AdminRequestsProofs` | theorems of `BatchProcessing` and `Broadcast` together |
| `MCCircuitBreaker`, `MCRetryWorker`, `MCRetryAdmin`, `MCSubscriberQueue`, `MCEvents`, `MCPriorityQueue`, `MCAdminRequests`, `MCPreferences` | constants for TLC |

Definitions named `X_Something` and commented *Mutant* are variants of `X` used by `PROJECT.json`
only; no specification refers to them.

### From code to state and actions

*Circuit.* A record has the fields of the code, with `nextAttempt` as the ticks still to wait.
`lastFailureTime` is only reported. Everything `execute()` does before its first await runs in one
JavaScript job, so entering all circuits of a route, or being refused by one of them, is one step
(`Begin`); the time-out of the inner circuit fires first and the rejections travel outwards in
microtasks, so settling is one step too (`Settle`). A refusal by an inner circuit is a failure of
the outer ones.

*RetryWorker.* The variables `status`, `retryCount` and `age` are the collection: `age` counts the
backoff intervals that have passed since `updatedAt`. `attempt[w][n]` is the point at which the
handler `retryNotification` of worker `w` stands for `n`, with the `retryCount` it read (`seen`).
Each `await` separates two actions: `MarkPending`, `Trigger`, `Delivered`/`NovuRejects`/`TimesOut`,
`MarkSent`, `CleanupToken`, `MarkFailed`, `MarkDlq`, `AddToDlq` in the order of the code. A database
update has one of three outcomes: applied, not applied, or applied with the reply lost; the last
two throw. A crash ends all attempts and forgets the circuits of a replica, while a request on its
way can still reach Novu. `outstanding` are request loops that were given up by the time-out and
still run. `accepted`, `ambiguous` and `lost` are history variables: how often Novu took the
notification, whether an acceptance went unrecorded, and whether a fault cut an attempt short.

The classifier is modelled by what reaches the worker. `NovuClient` throws errors with the status
only in the text, so Novu's answers are classified as retryable, or as an invalid token by the
text; `shouldMoveToDLQ` can only come from the text of a database error, which is left open.

*RetryAdmin.* A request of an administrator reads in one step and updates in another. Deletion
finds and deletes in one database operation. An entry of a bulk operation is an operation.

*SubscriberQueue.* `queue[r]` is the array `queue` of replica `r`, `running[r][t]` the point at which `processTask`
stands for the task `t`, which is the number under which it was enqueued. A batch starts in one job (`StartBatch`,
`BatchRefused`). `handleTaskFailure` leaves a failed task where it is, although its comment says "move to end"
(`Retried`). A call out of time fails with "Circuit breaker timeout", in which `handleTaskFailure` finds the "Circuit
breaker" of a refusal: the task is removed at once, uncounted and without a retry, and its request loop goes on beside
the user's next task (`TimesOut`, `LateRequest`). `updateSubscriberId`, with which a `create` ends, is a call that may
fail and stores nothing. `MCArrivals` calls `enqueueCreate` as the queue offers it, although no event gets that far
today (see `UserEvents`). `backupQueueToRedis` serialises the queue at once and is written later: `writes[r]` are the
snapshots on their way. `Restore` reads the key after the process may already have enqueued tasks and replaces the
queue. `log`, `done`, `dropped`, `exposed` and `disturbed` are history.

*EventConsumer, UserEvents, NotificationEvents.* A replica holds one message (`prefetch(1)`), the
oldest that waits. `point` is where its handler stands: between two awaits a crash, a lost
connection or a failed database call may come. `Register` is a step of its own since
consumption starts first. `Bury` publishes a message that failed for good with a key that no queue is
bound to; the broker is external and appears as `ready` and `Requeued`. A closed connection is never
replaced (`LoseConnection`): the replica goes on with what it has in hand and ends with the
acknowledgement it cannot send (`AckImpossible`). User documents hold the number of the last event
written to them instead of its data. The save of a created user always fails, for want of the `userId` that the schema
requires (`SaveUser`), so the only documents are those of `Seeded` users, which `scripts/seed` for example
writes. An update writes the document and enqueues its task when the reply has come (`EnqueueUpdate`); `cause` is
history, the event each task comes from. `NotificationEvents` finds the users that `UserEvents` has left behind
(`FindUsers`), reads the preferences of all of them at once (`PreferencesFail`) and drops those who have the content
switched off, unless the event overrides preferences (`FilterUsers`). With no user left, the event counts as processed.
`muted` are the users who have it switched off, and `Switch` changes that at any time; there is one type of content and
one channel. Only a deletion changes whether a user is active: updates that set `isActive` are left out. `found` is what the last attempt
let through on a replica that can still acknowledge the event, since an attempt that a later one replaces
promises nothing.

*PriorityQueue.* RabbitMQ applies `prefetch(1)` to each consumer, so a worker has two hands, one for the main and one
for the retry queue. For one channel after the other `triggerWorkflow` runs the request loop: Novu takes a request
(`NovuAccepts`), and another if the reply to it was lost, since nothing tells it that they are the same; then the call
returns (`Triggered`) or throws, which is logged (`TriggerFails`). If it throws because its time is up, the loop goes
on and a request may reach Novu later (`outstanding`, `LateRequest`), as after a crash. `ambiguous` is history: the
calls that may for these reasons have been accepted more than once. `StoreRecord` saves one user notification after
all channels; only what throws outside of these two loops (`Poison`) reaches `handleMessageFailure`, which sends the
copy to the retry queue or the dead letter queue first and acknowledges afterwards (`HandleFailure`, `AckMessage`).
Retried messages carry their count. Queues are bags, since priorities let messages overtake each other.

*BatchProcessing, Broadcast.* `stage`/`request` is where each request stands between two awaits.
`StoreKey` follows `LookUp` as SETEX follows GET. `PublishChunk` is one chunk on its channel, which
may break after some messages, of which the broker may have got fewer. A cron run keeps a
copy of the announcements it found (`FindReady`) and writes each by its id at the end (`Activate`,
`MarkFailed`). `BecomesDue` is the clock. Both share the processes that may crash.

*Preferences.* One user suffices, since users share nothing. A request looks into the cache, then reads
the document, creates the default if there is none (an upsert), fills the cache, and an update applies
its flags to the whole that it has read (`Applied`), saves and caches it. `settled` is
history: for each flag what the last update made of it, if that update was alone and cached.

## 3. Runs

| Run | Instance | Shows |
|---|---|---|
| `circuit` | two circuits with thresholds 2 and 1 and reset times 1 and 2, two callers through both and one through the inner, one operator intervention | a CLOSED circuit has fewer failures than its threshold, any other exactly that many unless an operator forced it; once Novu stays up every circuit closes for good |
| `retry_faults` | two notifications, batches of one, one cron, 2 retries, 1 fault | for a lone worker: exhausted notifications are dead-lettered, duplicates need a fault or a time-out, SENT is final, every failure is resolved and the sort and limit starve none |
| `retry_overlap` | one notification, a cron and a manual caller on two replicas, 2 retries | overlapping attempts never leave a PENDING notification without an owner, never record SENT without an acceptance, and exceed `maxRetries` by less than the number of workers |
| `retry_admin` | one notification, one cron, one administrator with two retries, 2 retries, 1 fault | a PENDING notification has an owner, was stranded by a fault or released by an administrator; deleted entries stay deleted |
| `retried_is_resent` | the same without faults | **violated**: a notification that an administrator retries stays PENDING for ever |
| `exhausted_overlap` | two crons on two replicas | **violated**: overlapping attempts leave a notification FAILED with all retries used, outside the dead letter queue |
| `subscriber_queue` | one replica, a create and two updates of two users, two tasks at a time, 2 tries, pause after 3 failures, 1 fault | the queue keeps the order of arrival through retries, removals and restores, Novu never goes back but for named causes, and the queue implements `SubscriberTasks`, liveness included |
| `events` | two replicas, 2 attempts, 1 fault; one user with a document, one without who has content switched off; one switch of preferences; backlogs of two updates, an update with a deletion, a creation with an update or a deletion, a deletion with content for everyone, content for named users and by role, and overriding content | an acknowledged update has left its task, no acknowledged change is lost, documents do not go back, acknowledged content is queued for every user it was meant for, attempts alone never duplicate a message; every update is told to Novu or dropped by its queue, and the backlog is worked off, as long as a replica listens |
| `priority_queue` | two replicas with a worker each, two channels, a good and a poison message, 1 retry, 1 fault | nothing vanishes, poison is parked after exactly its retries, a second delivery needs a redelivery, a lost reply or a late request and a second record a redelivery, every message settles |
| `admin_requests` | two replicas; two equal batches, a batch with a repeated key beside one that is too large, a broadcast, two scheduled announcements; two cron runs, 1 fault | what the answers, refusals and cancellations are worth, and that all requests end |
| `preferences` | two replicas, an event that reads again and again, three updates in two groups, 2 faults | an update made alone is kept, and the cache catches up |
| `partial_update` | one update of one flag, one reader, no faults | **violated**: the other flags of its group are switched off |

The three violations are disagreements between the code and its own tests or stories; the
quotations are in `PROJECT.json` under `findings`. Other disagreements met while modelling, without
a run of their own:

* The three alternatives of `$or` (`workers/retry-worker.ts:91`) let the shortest interval decide, so
  retries are not 1, 5 and 15 minutes apart; the sort compares priorities as strings and puts
  `urgent` last, while the comment at `:97` says high priority first; refusals by the inner circuit use up
  retries although Novu was never asked; `docs/architecture/error-handling-strategy.md:26` says the
  circuit opens after 10 failures and the code says 5.
* No user can be created from an event: `createFromAuthEvent` (`modules/notification/user/user.service.ts:45-63`)
  never sets the `userId` that the schema requires (`user.schema.ts:12-13`), so each attempt ends in a ValidationError,
  and the event is dead-lettered to no queue and acknowledged. The branch for a duplicate email
  (`auth-event.handler.ts:183`) and `enqueueCreate` (`:163`) are not reached, against "STEP 1: Create user in local
  database" (`:145`) and "`UserCreatedEvent` - New user registration" (`docs/architecture/components.md:84`).
* `updateSubscriberId` (`user.service.ts:160-170`) sets fields that the schema of users lacks; Mongoose's strict mode
  strips them, and no document ever names its subscriber.
* A subscriber task whose call is out of time is dropped without a retry (`novu-subscriber-queue.service.ts:417-429`,
  `circuit-breaker.service.ts:109`), against "Retry mechanism (5 attempts with exponential backoff)"
  (`novu-subscriber-queue.service.ts:58`).
* One call of `triggerWorkflow` may notify a user more than once, since its requests carry no transaction id
  (`novu-retry.service.ts:41-62`).
* A notification whose token is invalid is retried, and the clean-up's update matches no
  stored token, against `docs/stories/1.9.retry-error-handling.md:24`.
* `priority-queue.service.ts:861` logs the error of every channel, so the rethrow at `:952`, "Re-throw to
  trigger retry logic", is not reached by a failed delivery: the message is acknowledged and nothing
  retries it, against "Failed notifications go to retry queue" (`docs/stories/1.9.retry-error-handling.md:171`).
* The cron's user notifications lack required fields: a scheduled announcement that finds users fails, one
  without targets becomes `active` without reaching anybody (`docs/stories/1.10.admin-dashboard-apis-broadcast.md:44`);
  immediate announcements stay PENDING; `active` and `cancelled` are no members of the status enumeration.
* A request that found no preferences creates the defaults by an upsert, and an update starts from the
  cached whole: one that overlaps can undo an acknowledged opt-out, against "All
  notification sending must respect user preferences" (`docs/stories/1.5`). `AloneIsKept` is what is left.
* Updating a device token or a category fails: the repositories insert a document whose `_id` exists.

### Bounds

* Thresholds: in `circuit`, 2 outside and 1 inside keep the order of the code's 5 and 3. Only whether a
  count is below its threshold matters, and the proofs cover any thresholds. The runs of the retry worker
  use 1 and 1: both circuits still open, refuse and recover.
* Time: in `circuit` a tick is 30 s, so reset times 1 and 2 are those of the code.
* `Backoffs` is 1: because of the `$or`, only the shortest interval decides.
* `MaxRetries` (and `MaxAttempts`) is 2: the least number with a retry that is not the last one. In `priority_queue`
  it is 1: `MAX_RETRIES` counts retries there and not tries, so that a message is tried twice. In the subscriber queue
  the batch of 2 over 3 tasks has a task that waits and one that retries.
* `MaxFaults` bounds crashes, lost connections and failed calls, and in the two queues the calls that are given up
  and, in the priority queue, the lost replies that make the request loop send again: one of them can come at every
  point of a path without faults, and the safety properties that are proved hold for any number. With two faults
  `retry_faults` (one notification, 3 retries), `subscriber_queue` (1.7 million states), `admin_requests` and, for
  safety only, `priority_queue` (1.6 million states) were checked as well; so were two readers of preferences (670,000
  states).
* One notification suffices where notifications do not compete (the updates of one do not touch another
  except through the circuits, which `OtherTraffic` also moves); the batch limit needs two.
* `MaxTasks` (enqueued tasks), `MaxWrites` (snapshots a replica has on their way at once) and
  `MaxCopies` (notifications saved for one event): 3, 1 and 2, enough for three tasks running at once,
  for a task that overtakes another, and for an event that is saved twice when it is redelivered.
* `MaxSwitches` is 1: the user who refuses content may begin to want it, or the other to refuse it, between any two steps.
* `Backlogs` and `Sessions` choose what happens together: pairs of events of one user, pairs of
  requests that touch the same keys.
* `accepted` of the retry worker saturates at 2: the properties ask whether there is none, one, or more.
* `MaxReleases` and `MaxOperatorOps` bound what people do.

`CHECK_DEADLOCK FALSE` stands where everything that was asked for is done and the
instance stops. Symmetry is not used: the runs have liveness properties or an order on their constants.

### Fairness

Assumed is only what the runtime does: the cron keeps firing and its handler is resumed
(`CronStep`), every handler is resumed and every call settles, since the circuit's timer rejects
a call that does not answer (`RetryStep`, `Succeed \/ Fail`), and time passes (`Tick`,
`GrowOlder`). In `CircuitBreaker` callers keep calling. Nothing is assumed of Novu, of faults, of
administrators or of manual callers. `RecoversWhenNovuIsUp` has as its hypothesis that Novu stays up.

In the other modules the same holds: processes start up and go on (`Start`, `WorkerStep`,
`ProcessorStep`, `BatchStep`, `CastStep`, `RequestStep`), cron jobs fire, RabbitMQ delivers, Redis
removes what has expired (`Expire`), the timer ends a pause (`ClosePause`). No fairness is assumed of
faults, of requests yet to be made, of users who might switch their preferences, or of Novu; a lost reply and a call
out of time are faults. Where nothing connects again, the properties say
`deaf = Replicas`. `UserEvents` assumes the `Resolution` of its abstract queue, which `TasksAreKept` checks
of the real one.

## 4. Proofs

All theorems hold for every value of the constants that satisfies the named assumptions:
`CircuitAssumption` (thresholds and reset times are positive), `BreakerAssumption`,
`RetryAssumption` (the workers are a finite set with a host each, the configuration numbers are
positive, both circuits exist), `AdminAssumption`, `QueueAssumption` (the configuration numbers are positive),
`PriorityAssumption` (finitely many replicas and workers, at least one channel),
`PreferencesAssumption` (the updates name flags and ask for values), `ConsumerAssumption`,
`UserAssumption` and `ContentAssumption` (events are numbered and have a kind and a user),
`BatchAssumption` and `BroadcastAssumption` (batches are not empty, requests have a host). None says
anything of another system.

* `CircuitProofs`: what `OnFailure` counts (`Trips`, `OnFailureKeeps`) and that every transition of a
  circuit, and `Begin` and `Settle` over any route, keep "the count is below the threshold exactly when
  CLOSED" (`MovesKeep`, `BeginKeeps`, `SettleKeeps`).
* `BreakerTypes`, `BreakerTripsAtThreshold`: type correctness together with `TripsAtThreshold` is
  inductive; each action is one of the moves of `CircuitProofs` applied to some of the circuits.
* `RetryTypes`, `RetryPendingIsOwned`, `RetrySentWasAccepted`: with `IInv` as the inductive invariant.
  `PendingIsOwned` is not inductive alone: a run's `Query` replaces all attempts of its cron,
  so `CronPhases` says that a cron that is not processing has no attempt. `SentWasAccepted`
  needs `RecordsWhatNovuTook`: an attempt that is about to record SENT, or has an answer to
  report, belongs to a notification that Novu has accepted. The proof has one step for each action.
  It holds for any number of replicas, crons, callers, notifications and faults, and does not use
  fairness. `IInv(X)` excepts the notifications `X` from `PendingIsOwned`; here `X` is empty.
* `RetryCountIsBounded`: `RetryCountBound` is not inductive, since two attempts that read the same count
  both increment it later. `CountInv` adds the attempts that have still to count themselves
  (`Waiting`): the two together stay below `MaxRetries` plus the number of workers. The query starts
  attempts only where the count is below `MaxRetries` (`Started`), an attempt that counts leaves
  `Waiting` (`Counted`), and no step of an attempt leads back to `MarkPending` (`NeverMarksAgain`).
* `LoneExhaustedIsDeadLettered`, `LoneDuplicateNeedsFault`, `LoneSentIsFinal`: for the deployment `Lone`, one
  replica and no manual retries, with any notifications, limits and faults; the run `exhausted_overlap`
  shows that two workers break the first. `LoneInv` adds to `IInv({})`, for each notification, that the count an
  attempt read is the one it leaves or one less (`CountsItself`), and that Novu accepted it at most
  once unless an acceptance was ambiguous (`AcceptedOnce`).
* `AdminTypes`, `AdminPendingIsOwned`, `DeletedIsFinal`: the same for `RetryAdmin`, with any number of
  administrators. A step of the worker keeps `IInv(X)` where `X` are the notifications an administrator
  released, and a step of an administrator adds to `X` what it makes PENDING. Deletion is final
  because every update, of an attempt or a request under way, is by id and applies to nothing once the document
  is gone.
* `QueueTypes`, `QueueKeepsOrder`, `QueueKeepsItsPromise`, `NoQueuedTaskVanishes`: with `QueueInv` as the inductive
  invariant. It adds to the type that queues, snapshots and backup are all in the order of arrival (`InOrder`), that a
  task under way is among the first `Concurrency` (`UnderWay`), and how the three places where a task may be hang
  together: a served task is in what the replica writes last, a written one is served, unless it is done, dropped or
  exposed (`ServedIsWritten`, `WrittenIsServed`, `AloneServesAll`, `BeforeRestore`). Without these a crash or a
  restore might let go of a task that is settled nowhere. Each step is shown together with the step of
  `SubscriberTasks` it maps to, under `held <- Held, abandoned <- dropped \cup exposed`: the safety half of the
  refinement that `subscriber_queue` checks as `TasksAreKept`. Every step of `SubscriberTasks` keeps its
  `NoTaskVanishes`, and the queue inherits it.
* `PriorityTypes`, `PoisonIsParked`, `NoMessageVanishes`, `NobodyIsNotifiedTwice`: the first three with `PriorityInv`.
  `HandOK` relates what is left to trigger and to record of a message in hand to what was sent and stored; `Entrusted`
  says that a message which is not settled waits, or is in hand with its copy not yet made. Crashes put messages back
  into bags, for which the bag operators are expanded to functions. `OnceInv` is for the last: of a message that never
  went back to its queue from a hand there is one copy, which waits while nothing was sent (`OneCopy`), or one hand,
  which records only what has no record yet and whose call under way is the only one to trigger of which Novu may have
  a request (`SendsOnce`). Calls that sent again or were given up are `ambiguous` and left aside; a request that
  arrives late belongs to one of them, or to a message whose hand died and that is in `again`.
* `PreferencesTypes`, `UndisturbedUpdatesAreKept`: `AloneIsKept` speaks of the document and the cache only;
  `PreferencesInv` says that every copy a request has in hand agrees with what is settled, and that an
  update in progress has unsettled the flags it will write (`RequestOK`). A request that is alone stays
  the only one until another starts, which ends its privilege.

* `NovuNeverGoesBack`: on top of `QueueInv`, `NotBackInv` says of a user who is not disturbed that no queued
  task is older than the one Novu applied last, that one replica at most holds tasks of the user, that the
  oldest runs before the others start, and that a given-up request still on its way belongs to a user who is disturbed.
  Every way in which a task can get behind a later one, two tasks of a user in one batch, a restore, a second replica or a
  call that is given up and whose task is gone while its request goes on, is shown to disturb the user.
* `EventTypes`, `AcknowledgedUpdatesAreEnqueued`, `DocumentsNeverGoBack`, `AcknowledgedChangesAreKept`,
  `OneMessageForEachUser`, `AckedEventsAreQueued`: of the event consumer with all its handlers. `HandOK` ties the
  point of a handler to the kind of event in hand. `Owned` says that one copy of a message can be acknowledged: it
  waits, or one replica that is still connected has it; what a deaf replica works on was put back. From it follow
  `TaskInv` (an update that is about to be acknowledged and that Novu is to hear of has its task), `Once` (a user
  whose message is queued is no longer to do) and `Progress` (between the lookup and the filter nothing is found yet,
  but a user who is named and never refused is to do; after the filter, whoever is meant is done or to do). For a user
  whose events were never in hand twice, `InOrder` says that the document is not ahead of what is in hand, and that
  not ahead of what waits: redelivery keeps the order. `Kept` adds that a change that is dealt with is in the document
  while it waits for its task or its acknowledgement, and stays there.
* `AdminTypes`, `KeysArePublishedOnce`, `RefusalsAreCovered`, `AnswersAreHonest`, `BroadcastsAreComplete`,
  `CancelledStaysCancelled`: of batches and announcements on the same replicas, with one invariant of named parts.
  Each step is first classified by what it does to a batch (pass, refuse, store a key, turn, publish, lapse, die), so
  that the parts are proved for moves and not for actions. `OnceInv`: what was let through has a key that Redis knows
  or that is in doubt, and nobody else is at the key a request is about to store. `CoverInv`: a key that Redis knows
  belongs to something published, about to be, or lost. `CountedInv`: while nothing failed all that is done has
  reached its queue. `CastInv`: a user of a broadcast is unserved, or has a message or a failed publication.
  `CancelInv`: what is cancelled is found by no run of the cron job, unless one had found it before.

Every safety invariant and every action property of a passing run is stated by one of these theorems. One
property turned out to need a change when it was proved: `AckedIsQueued` was false with two
faults, since `found` kept what an abandoned attempt had found.

Only model-checked: liveness under fairness (`RecoversWhenNovuIsUp`, `EveryFailureResolved`, the `Resolution` in
`TasksAreKept`, `EveryUpdateResolved`, `BacklogIsWorkedOff`, `EveryMessageSettles`, `RequestsEnd`,
`CacheCatchesUp`), which is outside the prover's reach. The three violations are counterexamples of TLC.

## 5. Plan

Worth doing next:

1. `NotificationEvents` and `PriorityQueue` composed: a message that the first leaves is one that the
   second accepts.
2. Device tokens and categories, once their updates work.

## 6. Not modelled

Record keeping over single collections (categories, templates, device tokens, webhooks), the in-app inbox,
statistics, HTTP routing and validation, text rendering, logging and metrics: no protocol state, one
database operation each. Scheduling, bulk operations, user synchronisation and queue persistence, throttling,
lifecycle, fallback, multi-provider, segmentation, A/B testing, analytics and advanced monitoring are not
wired into `AppModule`, are called by nothing, or simulate their work; a model of them would be one of
code that does not run. These are most of the lines of the repository, which is why
the map covers a small share of it. The Novu API, MongoDB, Redis and RabbitMQ are external and appear as the outcomes
their callers see. A loss of the connection to Redis ends the process (`redis.service.ts` listens to
`_`, not to `error`) and is a crash. `PROJECT.json` lists every part with its status.
