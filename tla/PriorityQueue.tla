--------------------------- MODULE PriorityQueue ---------------------------
(***************************************************************************)
(* PriorityQueueService: the queues priority.notification.queue, its retry *)
(* queue and its dead letter queue, and the workers of each replica that   *)
(* trigger one Novu workflow per channel and record what was sent.         *)
(*                                                                         *)
(* A worker is a channel with prefetch(1) and two consumers, and RabbitMQ  *)
(* applies the limit to each of them: a worker has two hands, one for each *)
(* queue.  Messages of different priority overtake each other, so any      *)
(* message may be the next.  The state kept in Redis is only logged, and   *)
(* onModuleDestroy never runs: the application asks for no shutdown hooks. *)
(***************************************************************************)
EXTENDS Naturals, FiniteSets, Bags

CONSTANTS Replicas,     \* processes of the service
          Workers,      \* workers of each replica (5)
          Channels,     \* channels of every notification, numbered in their order
          Keys,         \* notifications for a user each, as they may be enqueued
          Poison,       \* those whose handling throws, whatever Novu answers
          MaxRetries,   \* maxRetries (3)
          Nothing,      \* the content of an empty hand
          MaxFaults     \* bound: crashes, lost connections, failed saves, lost replies,
                        \* calls out of time

Message == [key : Keys, retries : 0..(MaxRetries + 1)]
Hands == Replicas \X Workers \X {"main", "retry"}

\* A message in hand: the channels to trigger, whether Novu has taken a request of
\* the call for the first of them, those to record, and whether a copy of the
\* message went to another queue.
InHand == [message : Message, triggering : SUBSET Channels, taken : BOOLEAN,
           storing : SUBSET Channels, moved : BOOLEAN]

ASSUME PriorityAssumption ==
    /\ IsFiniteSet(Replicas) /\ IsFiniteSet(Workers)
    /\ Channels \subseteq Nat /\ Channels # {}
    /\ Nothing \notin InHand
    /\ Poison \subseteq Keys
    /\ MaxRetries \in Nat /\ MaxFaults \in Nat

VARIABLES main, retry, dlq,  \* the messages of the three queues
          hand,        \* what each consumer of each worker has in hand
          deaf,        \* replicas whose connection is gone
          accepted,    \* history: keys that reached the main queue
          outstanding, \* given-up calls <<key, channel>> whose requests may yet reach Novu
          sent,        \* history: whether Novu has accepted each call never, once or more often
          stored,      \* history: likewise the user notifications saved as "sent"
          ambiguous,   \* history: calls that sent again after Novu had accepted one
                       \* request of theirs, or went on after they were given up
          refused,     \* history: <<key, channel>> whose workflow or record failed
          parked,      \* history: keys given to the dead letter queue
          again,       \* history: keys whose message went back to its queue in hand
          faults       \* faults so far

queues == <<main, retry, dlq>>
novu == <<outstanding, sent, ambiguous>>
deliveries == <<novu, stored, refused>>
priorityVars == <<queues, hand, deaf, accepted, deliveries, parked, again, faults>>

One(m) == SetToBag({m})

Calls == Keys \X Channels

\* Never, once, more often: no property tells more apart.
More(n) == IF n = 0 THEN 1 ELSE 2

PriorityTypeOK ==
    /\ \A bag \in {main, retry, dlq} : IsABag(bag) /\ BagToSet(bag) \subseteq Message
    /\ hand \in [Hands -> InHand \cup {Nothing}]
    /\ deaf \subseteq Replicas
    /\ accepted \subseteq Keys /\ parked \subseteq Keys /\ again \subseteq Keys
    /\ sent \in [Calls -> 0..2] /\ stored \in [Calls -> 0..2]
    /\ outstanding \subseteq Calls /\ ambiguous \subseteq Calls /\ refused \subseteq Calls
    /\ faults \in 0..MaxFaults

PriorityInit ==
    /\ main = EmptyBag /\ retry = EmptyBag /\ dlq = EmptyBag
    /\ hand = [h \in Hands |-> Nothing]
    /\ deaf = {}
    /\ accepted = {} /\ parked = {} /\ again = {}
    /\ sent = [e \in Calls |-> 0] /\ stored = [e \in Calls |-> 0]
    /\ outstanding = {} /\ ambiguous = {} /\ refused = {}
    /\ faults = 0

Fault == faults < MaxFaults /\ faults' = faults + 1

-----------------------------------------------------------------------------
\* enqueueNotification, once the broker has the message.
EnqueueNotification(k) ==
    /\ main' = main (+) One([key |-> k, retries |-> 0])
    /\ accepted' = accepted \cup {k}
    /\ UNCHANGED <<retry, dlq, hand, deaf, deliveries, parked, again>>

Busy(h) == hand[h] # Nothing
Hold(h, x) == hand' = [hand EXCEPT ![h] = x]

Of(h) == IF h[3] = "main" THEN main ELSE retry

\* A consumer gets the next message of its queue.
Take(h) ==
    /\ ~Busy(h) /\ h[1] \notin deaf
    /\ \E m \in BagToSet(Of(h)) :
         /\ main' = IF h[3] = "main" THEN main (-) One(m) ELSE main
         /\ retry' = IF h[3] = "retry" THEN retry (-) One(m) ELSE retry
         /\ Hold(h, [message |-> m, triggering |-> IF m.key \in Poison THEN {} ELSE Channels,
                     taken |-> FALSE, storing |-> {}, moved |-> FALSE])
    /\ UNCHANGED <<dlq, deaf, accepted, deliveries, parked, again>>

First(channels) == CHOOSE c \in channels : \A d \in channels : c <= d

Calling(h) == Busy(h) /\ hand[h].triggering # {}

\* The call under way.
Call(h) == <<hand[h].message.key, First(hand[h].triggering)>>

\* Novu takes a request of executeWithRetry, which carries nothing to know it by; it
\* takes another one when the reply to the first was lost and the loop sends again.
NovuAccepts(h, repeated) ==
    /\ Calling(h) /\ hand[h].taken = repeated
    /\ sent' = [sent EXCEPT ![Call(h)] = More(@)]
    /\ ambiguous' = IF repeated THEN ambiguous \cup {Call(h)} ELSE ambiguous
    /\ Hold(h, [hand[h] EXCEPT !.taken = TRUE])
    /\ UNCHANGED <<queues, deaf, outstanding, accepted, stored, refused, parked, again>>

\* triggerWorkflow returns, and the next channel follows.
Triggered(h) ==
    LET c == First(hand[h].triggering)
    IN  /\ Calling(h) /\ hand[h].taken
        /\ Hold(h, [hand[h] EXCEPT !.triggering = @ \ {c}, !.taken = FALSE, !.storing = @ \cup {c}])
        /\ UNCHANGED <<queues, deaf, accepted, deliveries, parked, again>>

\* triggerWorkflow throws: the circuit refuses, the last request fails, or the 30 s
\* of the circuit end before the loop, which then goes on unobserved.  The error is
\* logged, and the next channel follows.
TriggerFails(h, late) ==
    LET c == First(hand[h].triggering)
    IN  /\ Calling(h)
        /\ refused' = refused \cup {Call(h)}
        /\ outstanding' = IF late THEN outstanding \cup {Call(h)} ELSE outstanding
        /\ ambiguous' = IF late THEN ambiguous \cup {Call(h)} ELSE ambiguous
        /\ Hold(h, [hand[h] EXCEPT !.triggering = @ \ {c}, !.taken = FALSE])
        /\ UNCHANGED <<queues, deaf, accepted, sent, stored, parked, again>>

\* A request of a given-up call reaches Novu.
LateRequest(e) ==
    /\ e \in outstanding
    /\ sent' = [sent EXCEPT ![e] = More(@)]
    /\ UNCHANGED <<queues, hand, deaf, outstanding, ambiguous, accepted, stored, refused, parked, again>>

\* One turn of its second loop: the record of a triggered channel, with errors
\* logged only.
StoreRecord(h, ok) ==
    LET x == hand[h]
        c == First(x.storing)
    IN  /\ Busy(h) /\ x.triggering = {} /\ x.storing # {}
        /\ Hold(h, [x EXCEPT !.storing = @ \ {c}])
        /\ IF ok THEN stored' = [stored EXCEPT ![<<x.message.key, c>>] = More(@)] /\ UNCHANGED refused
                 ELSE refused' = refused \cup {<<x.message.key, c>>} /\ UNCHANGED stored
        /\ UNCHANGED <<queues, deaf, accepted, novu, parked, again>>

Done(h) == Busy(h) /\ hand[h].triggering = {} /\ hand[h].storing = {}

\* Mutant: a message one of whose channels failed is handled again as a whole.
Fails_OnRefusal(h) ==
    LET k == hand[h].message.key
    IN  Done(h) /\ ~hand[h].moved /\ (k \in Poison \/ \E c \in Channels : <<k, c>> \in refused)

\* handleNotification throws.
Fails(h) == Done(h) /\ ~hand[h].moved /\ hand[h].message.key \in Poison

Finished(h) == Done(h) /\ ~Fails(h)

\* Mutant: the retried message carries the count it came with.
Again_SameCount(m) == m

Again(m) == [m EXCEPT !.retries = @ + 1]

\* Mutant: the last retry is left out.
MayRetry_Strictly(m) == m.retries < MaxRetries

\* Mutant: there is no last retry.
MayRetry_Always(m) == TRUE

MayRetry(m) == m.retries <= MaxRetries

\* handleMessageFailure: the copy for the retry or the dead letter queue is sent,
\* without delay, and the message itself acknowledged next.
HandleFailure(h) ==
    LET m == Again(hand[h].message)
    IN  /\ Fails(h) /\ h[1] \notin deaf
        /\ Hold(h, [hand[h] EXCEPT !.moved = TRUE])
        /\ IF MayRetry(m)
           THEN retry' = retry (+) One(m) /\ UNCHANGED <<dlq, parked>>
           ELSE dlq' = dlq (+) One(m) /\ parked' = parked \cup {m.key} /\ UNCHANGED retry
        /\ UNCHANGED <<main, deaf, accepted, deliveries, again>>

AckMessage(h) ==
    /\ Finished(h) /\ h[1] \notin deaf
    /\ Hold(h, Nothing)
    /\ UNCHANGED <<queues, deaf, accepted, deliveries, parked, again>>

\* Nothing reads the dead letter queue; its messages live for 24 hours.
Expire ==
    /\ \E m \in BagToSet(dlq) : dlq' = dlq (-) One(m)
    /\ UNCHANGED <<main, retry, hand, deaf, accepted, deliveries, parked, again>>

-----------------------------------------------------------------------------
HandsOf(r, q) == {h \in Hands : h[1] = r /\ h[3] = q /\ Busy(h)}

Messages(hs) == [m \in {hand[h].message : h \in hs} |->
                    Cardinality({h \in hs : hand[h].message = m})]

\* Mutant: consumers without acknowledgements.
PutBack_NoAck(r) == UNCHANGED <<main, retry, again>>

\* The broker puts back what the replica had not acknowledged.
PutBack(r) ==
    IF r \in deaf THEN UNCHANGED <<main, retry, again>>
    ELSE /\ main' = main (+) Messages(HandsOf(r, "main"))
         /\ retry' = retry (+) Messages(HandsOf(r, "retry"))
         /\ again' = again \cup {hand[h].message.key : h \in HandsOf(r, "main") \cup HandsOf(r, "retry")}

\* The connection is lost and never replaced; what is in hand is handled to its end.
Disconnect(r) ==
    /\ r \notin deaf /\ Fault
    /\ PutBack(r)
    /\ deaf' = deaf \cup {r}
    /\ UNCHANGED <<dlq, hand, accepted, deliveries, parked>>

\* Its requests on their way may still arrive.
Dies(r) ==
    /\ PutBack(r)
    /\ hand' = [h \in Hands |-> IF h[1] = r THEN Nothing ELSE hand[h]]
    /\ deaf' = deaf \ {r}
    /\ outstanding' = outstanding \cup {Call(h) : h \in {g \in Hands : g[1] = r /\ Calling(g)}}
    /\ UNCHANGED <<dlq, accepted, sent, ambiguous, stored, refused, parked>>

Crash(r) == Fault /\ Dies(r)

\* The acknowledgement throws, and so do the nack and the publication of
\* handleMessageFailure and the nack of the consumer: the rejection is unhandled.
AckThrows(h) == h[1] \in deaf /\ (Finished(h) \/ Fails(h)) /\ Dies(h[1]) /\ UNCHANGED faults

-----------------------------------------------------------------------------
\* A call out of time and a failed save are faults.
WorkerStep(h) ==
    \/ /\ \/ Take(h)
          \/ Triggered(h) \/ TriggerFails(h, FALSE)
          \/ StoreRecord(h, TRUE)
          \/ HandleFailure(h)
          \/ AckMessage(h)
       /\ UNCHANGED faults
    \/ (TriggerFails(h, TRUE) \/ StoreRecord(h, FALSE)) /\ Fault
    \/ AckThrows(h)

\* So is the lost reply that makes the loop send again.
NovuStep ==
    \/ \E h \in Hands : NovuAccepts(h, TRUE) /\ Fault
    \/ /\ (\E h \in Hands : NovuAccepts(h, FALSE)) \/ (\E e \in Calls : LateRequest(e))
       /\ UNCHANGED faults

PriorityNext ==
    \/ \E k \in Keys \ accepted : EnqueueNotification(k) /\ UNCHANGED faults
    \/ \E h \in Hands : WorkerStep(h)
    \/ NovuStep
    \/ Expire /\ UNCHANGED faults
    \/ \E r \in Replicas : Disconnect(r) \/ Crash(r)

\* Messages are delivered and the workers go on.
PrioritySpec ==
    /\ PriorityInit /\ [][PriorityNext]_priorityVars
    /\ \A h \in Hands : WF_priorityVars(WorkerStep(h))

-----------------------------------------------------------------------------
Waiting(k) == \E bag \in {main, retry} : \E m \in BagToSet(bag) : m.key = k
Handled(k) == \E h \in Hands : Busy(h) /\ hand[h].message.key = k

\* What is accounted for: the channel's workflow was accepted and recorded, or an
\* error of it was logged.
Answered(k, c) == <<k, c>> \in refused \/ (sent[<<k, c>>] > 0 /\ stored[<<k, c>>] > 0)

Settled(k) == k \in parked \/ (k \notin Poison /\ \A c \in Channels : Answered(k, c))

-----------------------------------------------------------------------------
\* A message that reached the main queue is in a queue or in hand until each of its
\* channels is answered or, if it is poison, until it was given to the dead letter
\* queue, whatever crashes or disconnects in between.
NothingVanishes ==
    \A k \in accepted :
        Waiting(k) \/ Handled(k) \/ Settled(k)

\* A poison message comes to the dead letter queue after MAX_RETRIES retries, not
\* before and not after, and has reached nobody.
PoisonIsParkedInTime ==
    /\ \A m \in BagToSet(dlq) : m.retries = MaxRetries + 1 /\ m.key \in Poison
    /\ \A m \in BagToSet(main) \cup BagToSet(retry) : m.retries <= MaxRetries
    /\ \A k \in Poison, c \in Channels : sent[<<k, c>>] = 0

\* A user is notified twice of one message on a channel only if the message went
\* back to its queue while it was in hand, or the request loop sent again after a lost
\* reply or after its call was given up; only the former leaves two records of it.
TwiceOnlyIfAgain ==
    \A k \in Keys \ again, c \in Channels :
        /\ sent[<<k, c>>] > 1 => <<k, c>> \in ambiguous
        /\ stored[<<k, c>>] <= 1

\* Every message is in the end answered on each channel or dead-lettered, as long as
\* a replica is connected.
EveryMessageSettles == \A k \in Keys : k \in accepted ~> Settled(k) \/ deaf = Replicas
=============================================================================
