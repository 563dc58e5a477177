-------------------------- MODULE BatchProcessing --------------------------
(***************************************************************************)
(* BatchProcessingService.processBatch, called by the requests of          *)
(* administrators on any replica: it refuses what the Redis cache of all   *)
(* replicas has seen, and publishes the rest in chunks, one priority after *)
(* another, on a channel of its own for each chunk, without confirmations  *)
(* by the broker.                                                          *)
(*                                                                         *)
(* A loss of the connection to Redis ends the process (redis.service.ts    *)
(* listens to '_' instead of 'error'); what a request survives is an error *)
(* of a single command.                                                    *)
(***************************************************************************)
EXTENDS Naturals, Sequences, FiniteSets, FiniteSetsExt

CONSTANTS Replicas,
          Batches,      \* requests to process a batch
          Sessions,     \* sets of requests that administrators may make
          Content,      \* the notifications of each: a deduplication key and a priority
          BatchKeys,    \* the deduplication keys
          Host,         \* the replica that serves each request
          ChunkSize,    \* BATCH_SIZE (100)
          MaxBatchSize, \* MAX_BATCH_SIZE (1000)
          MaxFaults     \* bound: failed commands, broken channels, crashes

ASSUME BatchAssumption ==
    /\ Content \in [Batches -> Seq([key : BatchKeys, priority : STRING]) \ {<<>>}]
    /\ \A b \in Batches : Host[b] \in Replicas
    /\ ChunkSize \in Nat \ {0} /\ MaxBatchSize \in Nat /\ MaxFaults \in Nat

VARIABLES asked,      \* the requests that are made
          stage,      \* where each stands
          checked,    \* notifications whose key was looked up
          unique,     \* those let through
          todo,       \* those of them not yet published
          successful, failed,  \* its counts
          seen,       \* the keys in Redis
          published,  \* history: <<batch, index>> that reached their queue
          unsure,     \* history: keys that expired, met an error of Redis, or were
                      \* looked up by two requests at once
          missed,     \* history: keys taken by a notification that was not published
          broken,     \* history: requests one of whose channels broke
          faults \* faults so far

batchHistory == <<published, unsure, missed, broken>>
batchVars == <<asked, stage, checked, unique, todo, successful, failed, seen,
               published, unsure, missed, broken, faults>>

Stages == {"waiting", "looking up", "storing", "publishing", "answered", "rejected", "gone"}
Live(b) == stage[b] \in {"looking up", "storing", "publishing"}
Items(b) == DOMAIN Content[b]
KeyOf(b, i) == Content[b][i].key
Total(b) == Len(Content[b])

BatchTypeOK ==
    /\ stage \in [Batches -> Stages]
    /\ checked \in [Batches -> Nat]
    /\ unique \in [Batches -> SUBSET Nat] /\ todo \in [Batches -> SUBSET Nat]
    /\ successful \in [Batches -> Nat] /\ failed \in [Batches -> Nat]
    /\ \A b \in Batches :
         /\ checked[b] \in 0..Total(b)
         /\ unique[b] \subseteq 1..checked[b] /\ todo[b] \subseteq unique[b]
         /\ successful[b] \in 0..Total(b) /\ failed[b] \in 0..(2 * Total(b))
    /\ seen \subseteq BatchKeys /\ unsure \subseteq BatchKeys /\ missed \subseteq BatchKeys
    /\ published \subseteq UNION {{b} \X Items(b) : b \in Batches}
    /\ broken \subseteq Batches
    /\ faults \in 0..MaxFaults

BatchInit ==
    /\ asked \in Sessions
    /\ stage = [b \in Batches |-> "waiting"]
    /\ checked = [b \in Batches |-> 0]
    /\ unique = [b \in Batches |-> {}] /\ todo = [b \in Batches |-> {}]
    /\ successful = [b \in Batches |-> 0] /\ failed = [b \in Batches |-> 0]
    /\ seen = {}
    /\ published = {} /\ unsure = {} /\ missed = {} /\ broken = {}
    /\ faults = 0

Stage(b, s) == stage' = [stage EXCEPT ![b] = s]
Fault == faults < MaxFaults /\ faults' = faults + 1
Unless(ok) == IF ok THEN UNCHANGED faults ELSE Fault

-----------------------------------------------------------------------------
\* A batch that is too large is refused before anything is looked up.
Accept(b) ==
    /\ b \in asked /\ stage[b] = "waiting"
    /\ Stage(b, IF Total(b) > MaxBatchSize THEN "rejected" ELSE "looking up")
    /\ UNCHANGED <<asked, checked, unique, todo, successful, failed, seen, batchHistory,
                   faults>>

Current(b) == checked[b] + 1
CurrentKey(b) == KeyOf(b, Current(b))

\* Where the loop over the notifications goes on after the i-th.
AfterCheck(b, i) == Stage(b, IF i = Total(b) THEN "publishing" ELSE "looking up")

LetThrough(b) ==
    /\ unique' = [unique EXCEPT ![b] = @ \cup {Current(b)}]
    /\ todo' = [todo EXCEPT ![b] = @ \cup {Current(b)}]
    /\ checked' = [checked EXCEPT ![b] = @ + 1]
    /\ AfterCheck(b, Current(b))

Refuse(b) ==
    /\ checked' = [checked EXCEPT ![b] = @ + 1]
    /\ AfterCheck(b, Current(b))
    /\ UNCHANGED <<unique, todo>>

AtTheSameKey(b) ==
    {p \in Batches \ {b} : stage[p] = "storing" /\ CurrentKey(p) = CurrentKey(b)}

\* Mutant: a notification that cannot be looked up is refused.
LookUpFails_Refuses(b) == Refuse(b)

LookUpFails(b) == LetThrough(b)

\* checkDeduplication, the GET: an error lets the notification through.
LookUp(b, ok) ==
    /\ stage[b] = "looking up"
    /\ Unless(ok)
    /\ CASE ~ok -> LookUpFails(b)
         [] ok /\ CurrentKey(b) \in seen -> Refuse(b)
         [] OTHER -> Stage(b, "storing") /\ UNCHANGED <<unique, todo, checked>>
    /\ unsure' = IF ok /\ (CurrentKey(b) \in seen \/ AtTheSameKey(b) = {})
                 THEN unsure ELSE unsure \cup {CurrentKey(b)}
    /\ UNCHANGED <<asked, successful, failed, seen, published, missed, broken>>

\* Mutant: the key is stored under the id of the batch.
Stored_Elsewhere(b) == seen

Stored(b) == seen \cup {CurrentKey(b)}

\* checkDeduplication, the SETEX: it may fail before or after it was executed.
StoreKey(b, ok, executed) ==
    /\ stage[b] = "storing" /\ (ok => executed)
    /\ Unless(ok)
    /\ seen' = IF executed THEN Stored(b) ELSE seen
    /\ LetThrough(b)
    /\ unsure' = IF executed THEN unsure ELSE unsure \cup {CurrentKey(b)}
    /\ UNCHANGED <<asked, successful, failed, published, missed, broken>>

\* The key lives for DEDUPLICATION_TTL.
Expire(k) ==
    /\ k \in seen
    /\ seen' = seen \ {k}
    /\ unsure' = unsure \cup {k}
    /\ UNCHANGED <<asked, stage, checked, unique, todo, successful, failed, published,
                   missed, broken, faults>>

-----------------------------------------------------------------------------
Priority(b, i) == Content[b][i].priority
FirstOf(b, p) == Min({i \in unique[b] : Priority(b, i) = p})

\* groupByPriority and chunkArray: the groups in the order of their first member.
NextChunk(b) ==
    LET p == CHOOSE q \in {Priority(b, i) : i \in todo[b]} :
                 \A i \in todo[b] : FirstOf(b, q) <= FirstOf(b, Priority(b, i))
        group == {i \in todo[b] : Priority(b, i) = p}
    IN  {i \in group : Cardinality({j \in group : j < i}) < ChunkSize}

Unpublished(b) == stage[b] = "publishing" /\ todo[b] # {}

Upto(chunk, n) == {i \in chunk : Cardinality({j \in chunk : j < i}) < n}

\* Mutant: failed counts only what was not sent.
CountedAsFailed_Unsent(chunk, sent, closed) == Cardinality(chunk) - sent

\* What was not sent, and the whole chunk again if the channel could not be closed.
CountedAsFailed(chunk, sent, closed) ==
    Cardinality(chunk) - sent + (IF closed THEN 0 ELSE Cardinality(chunk))

\* Mutant: what could not be published stays to be published.
Remaining_OnlySent(b, chunk, reached) == todo[b] \ Upto(chunk, reached)

Remaining(b, chunk, reached) == todo[b] \ chunk

\* publishChunkToQueue on a channel that works until `sent` messages were written;
\* `reached` of them come to the broker.  Closing waits for the broker, so that all
\* messages reach it if the channel could be closed.
PublishChunk(b, sent, reached, closed) ==
    LET chunk == NextChunk(b)
    IN  /\ Unpublished(b)
        /\ reached <= sent /\ sent <= Cardinality(chunk)
        /\ closed => reached = Cardinality(chunk)
        /\ Unless(closed)
        /\ successful' = [successful EXCEPT ![b] = @ + sent]
        /\ failed' = [failed EXCEPT ![b] = @ + CountedAsFailed(chunk, sent, closed)]
        /\ todo' = [todo EXCEPT ![b] = Remaining(b, chunk, reached)]
        /\ published' = published \cup ({b} \X Upto(chunk, reached))
        /\ missed' = missed \cup {KeyOf(b, i) : i \in chunk \ Upto(chunk, reached)}
        /\ broken' = IF closed THEN broken ELSE broken \cup {b}
        /\ UNCHANGED <<asked, stage, checked, unique, seen, unsure>>

\* No channel could be had: the chunk counts as failed once.
NoChannel(b) ==
    LET chunk == NextChunk(b)
    IN  /\ Unpublished(b)
        /\ Fault
        /\ failed' = [failed EXCEPT ![b] = @ + Cardinality(chunk)]
        /\ todo' = [todo EXCEPT ![b] = @ \ chunk]
        /\ missed' = missed \cup {KeyOf(b, i) : i \in chunk}
        /\ UNCHANGED <<asked, stage, checked, unique, successful, seen, published, unsure,
                       broken>>

Answer(b) ==
    /\ stage[b] = "publishing" /\ todo[b] = {}
    /\ Stage(b, "answered")
    /\ UNCHANGED <<asked, checked, unique, todo, successful, failed, seen, batchHistory,
                   faults>>

-----------------------------------------------------------------------------
\* The process of a replica dies, and its requests with it.
BatchesDie(r) ==
    LET dying == {b \in Batches : Host[b] = r /\ Live(b)}
    IN  /\ stage' = [b \in Batches |-> IF b \in dying THEN "gone" ELSE stage[b]]
        /\ missed' = missed \cup UNION {{KeyOf(b, i) : i \in todo[b]} : b \in dying}
        /\ todo' = [b \in Batches |-> IF b \in dying THEN {} ELSE todo[b]]
        /\ UNCHANGED <<asked, checked, unique, successful, failed, seen, published, unsure,
                       broken>>

BatchStep(b) ==
    \/ \E ok \in BOOLEAN : LookUp(b, ok)
    \/ \E ok, executed \in BOOLEAN : StoreKey(b, ok, executed)
    \/ /\ Unpublished(b)
       /\ \E sent, reached \in 0..ChunkSize, closed \in BOOLEAN :
              PublishChunk(b, sent, reached, closed)
    \/ NoChannel(b)
    \/ Answer(b)

BatchNext ==
    \/ \E b \in Batches : Accept(b) \/ BatchStep(b)
    \/ \E k \in BatchKeys : Expire(k)

-----------------------------------------------------------------------------
\* A key reaches a queue twice only if it expired, met an error of Redis, or two
\* requests looked it up at once: GET and SETEX are two commands.
PublishedOnce ==
    \A x, y \in published :
        KeyOf(x[1], x[2]) = KeyOf(y[1], y[2]) /\ x # y => KeyOf(x[1], x[2]) \in unsure

\* What is refused as a duplicate was published, or is about to be, except when the
\* notification that took the key was lost: a retry is then refused all the same.
RefusedIsCovered ==
    \A b \in Batches : \A i \in 1..checked[b] \ unique[b] :
        LET k == KeyOf(b, i)
        IN  \/ k \in missed
            \/ \E x \in published : KeyOf(x[1], x[2]) = k
            \/ \E p \in Batches : \E j \in todo[p] : KeyOf(p, j) = k

\* An answer without failures means that everything reached its queue or was refused,
\* and the counts add up unless a channel broke and its chunk was counted twice.
AnswerIsHonest ==
    \A b \in Batches : stage[b] = "answered" =>
        /\ failed[b] = 0 => \A i \in unique[b] : <<b, i>> \in published
        /\ b \notin broken => successful[b] + failed[b] = Cardinality(unique[b])
=============================================================================
