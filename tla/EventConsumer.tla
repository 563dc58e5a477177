--------------------------- MODULE EventConsumer ---------------------------
(***************************************************************************)
(* RabbitMQConsumerService and the consuming side of RabbitMQService: each *)
(* replica takes one message at a time from notification.queue (prefetch   *)
(* 1), runs its handler with retries and acknowledges it.  What a handler  *)
(* does between "handling" and Succeed or FailAttempt is left to the       *)
(* modules that extend this one, and so is what else dies with a process.  *)
(*                                                                         *)
(* "dlq.notification", the key of both the explicit and the broker's dead- *)
(* lettering, is bound to no queue: a buried message is nowhere.           *)
(***************************************************************************)
EXTENDS Naturals

CONSTANTS Replicas,     \* processes of the service
          Events,       \* messages of the queue, numbered as they were published
          Backlogs,     \* sets of messages that may wait when the processes start
          Malformed,    \* those that do not parse or lack a required field
          MaxAttempts,  \* RABBITMQ_RETRY_COUNT (3) and the first attempt
          HandlerPoints \* where a handler may stand between two awaits

ASSUME ConsumerAssumption ==
    /\ Events \subseteq Nat \ {0} /\ Malformed \subseteq Events
    /\ Backlogs \subseteq SUBSET Events
    /\ MaxAttempts \in Nat \ {0}

VARIABLES ready,      \* notification.queue: the oldest message is delivered first
          delivered,  \* the message each replica works on, 0 for none
          point,      \* where its handler stands
          attempts,   \* attempts of executeWithRetry begun
          registered, \* replicas whose handlers are registered
          deaf,       \* replicas whose connection is gone
          acked,      \* history: messages acknowledged
          early,      \* history: messages that found no handler yet
          buried      \* history: messages given to the dead letter exchange

progress == <<delivered, point, attempts>>
consumerHistory == <<acked, early, buried>>
consumerVars == <<ready, delivered, point, attempts, registered, deaf, acked, early, buried>>

ConsumerPoints == {"idle", "handling", "burying", "acking"} \cup HandlerPoints

ConsumerTypeOK ==
    /\ ready \subseteq Events
    /\ delivered \in [Replicas -> Events \cup {0}]
    /\ point \in [Replicas -> ConsumerPoints]
    /\ attempts \in [Replicas -> 0..MaxAttempts]
    /\ registered \subseteq Replicas /\ deaf \subseteq Replicas
    /\ acked \subseteq Events /\ early \subseteq Events /\ buried \subseteq Events

\* The processes start over a queue that already holds the messages.
ConsumerInit ==
    /\ ready \in Backlogs
    /\ delivered = [r \in Replicas |-> 0]
    /\ point = [r \in Replicas |-> "idle"]
    /\ attempts = [r \in Replicas |-> 0]
    /\ registered = {} /\ deaf = {}
    /\ acked = {} /\ early = {} /\ buried = {}

At(r, p) == point[r] = p
Goto(r, p) == point' = [point EXCEPT ![r] = p]

-----------------------------------------------------------------------------
\* Mutant: a queue that does not keep the order of publication.
Deliver_AnyOrder(r, e) ==
    /\ delivered[r] = 0 /\ r \notin deaf
    /\ e \in ready
    /\ ready' = ready \ {e}
    /\ delivered' = [delivered EXCEPT ![r] = e]
    /\ attempts' = [attempts EXCEPT ![r] = 1]
    /\ Goto(r, CASE e \in Malformed -> "burying"
                 [] e \notin Malformed /\ r \in registered -> "handling"
                 [] OTHER -> "acking")
    /\ early' = IF r \in registered \/ e \in Malformed THEN early ELSE early \cup {e}
    /\ UNCHANGED <<registered, deaf, acked, buried>>

\* RabbitMQModule starts to consume before RabbitMQConsumerModule registers the
\* handlers.  A message without a handler is warned of and counts as processed.
Deliver(r, e) ==
    /\ delivered[r] = 0 /\ r \notin deaf
    /\ e \in ready /\ \A f \in ready : e <= f
    /\ ready' = ready \ {e}
    /\ delivered' = [delivered EXCEPT ![r] = e]
    /\ attempts' = [attempts EXCEPT ![r] = 1]
    /\ Goto(r, CASE e \in Malformed -> "burying"
                 [] e \notin Malformed /\ r \in registered -> "handling"
                 [] OTHER -> "acking")
    /\ early' = IF r \in registered \/ e \in Malformed THEN early ELSE early \cup {e}
    /\ UNCHANGED <<registered, deaf, acked, buried>>

\* NotificationEventConsumer.onModuleInit.
Register(r) ==
    /\ r \notin registered
    /\ registered' = registered \cup {r}
    /\ UNCHANGED <<ready, progress, deaf, consumerHistory>>

\* The handler returns; the message is acknowledged next.
Succeed(r) == Goto(r, "acking") /\ UNCHANGED attempts

\* Mutant: the attempts are not counted.
FailAttempt_Uncounted(r) == Goto(r, "handling") /\ UNCHANGED attempts

\* Mutant: the handler's error is caught and logged.
FailAttempt_Swallowed(r) == Succeed(r)

\* Mutant: one attempt too many.
FailAttempt_OneMore(r) ==
    IF attempts[r] <= MaxAttempts
    THEN Goto(r, "handling") /\ attempts' = [attempts EXCEPT ![r] = @ + 1]
    ELSE Goto(r, "burying") /\ UNCHANGED attempts

\* The handler throws: executeWithRetry calls it again, from its start.
FailAttempt(r) ==
    IF attempts[r] < MaxAttempts
    THEN Goto(r, "handling") /\ attempts' = [attempts EXCEPT ![r] = @ + 1]
    ELSE Goto(r, "burying") /\ UNCHANGED attempts

\* moveToDeadLetterQueue, whose errors are swallowed.
Bury(r) ==
    /\ At(r, "burying")
    /\ buried' = buried \cup {delivered[r]}
    /\ Goto(r, "acking")
    /\ UNCHANGED <<ready, delivered, attempts, registered, deaf, acked, early>>

Ack(r) ==
    /\ At(r, "acking") /\ r \notin deaf
    /\ acked' = acked \cup {delivered[r]}
    /\ delivered' = [delivered EXCEPT ![r] = 0]
    /\ attempts' = [attempts EXCEPT ![r] = 0]
    /\ Goto(r, "idle")
    /\ UNCHANGED <<ready, registered, deaf, early, buried>>

-----------------------------------------------------------------------------
\* Mutant: a message that was delivered once is not delivered again.
Requeued_Never(r) == ready

\* The broker puts an unacknowledged message back to its place.
Requeued(r) ==
    IF r \in deaf THEN ready ELSE ready \cup ({delivered[r]} \ {0})

\* Nothing connects again: the replica stays deaf until its process dies.  The
\* handler under way goes on.
LoseConnection(r) ==
    /\ r \notin deaf
    /\ deaf' = deaf \cup {r}
    /\ ready' = Requeued(r)
    /\ UNCHANGED <<progress, registered, consumerHistory>>

\* ack on a closed channel throws, and so does nack in the catch block: the
\* unhandled rejection ends the process.
AckImpossible(r) == At(r, "acking") /\ r \in deaf

ConsumerDies(r) ==
    /\ ready' = Requeued(r)
    /\ delivered' = [delivered EXCEPT ![r] = 0]
    /\ attempts' = [attempts EXCEPT ![r] = 0]
    /\ Goto(r, "idle")
    /\ registered' = registered \ {r}
    /\ deaf' = deaf \ {r}
    /\ UNCHANGED consumerHistory
=============================================================================
