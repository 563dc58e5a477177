------------------------ MODULE AdminRequestsProofs ------------------------
(***************************************************************************)
(* What the requests of administrators leave behind, for any batches,      *)
(* announcements, replicas and faults: a key is published once, what is    *)
(* refused is covered, the counts of an answer are true, an answered       *)
(* broadcast is complete and a cancelled announcement stays so.            *)
(***************************************************************************)
EXTENDS Broadcast, FiniteSetTheorems, TLAPS

-----------------------------------------------------------------------------
(* What a step is to the batches *)

\* The other requests do not notice.
Unmoved(b) ==
    /\ stage'[b] = stage[b] /\ checked'[b] = checked[b]
    /\ unique'[b] = unique[b] /\ todo'[b] = todo[b]
    /\ successful'[b] = successful[b] /\ failed'[b] = failed[b]

Others(b) == \A q \in Batches \ {b} : Unmoved(q)

\* A notification is let through: its key is stored, or there is a doubt about it.
Passes(b) ==
    /\ stage[b] \in {"looking up", "storing"}
    /\ stage'[b] = IF Current(b) = Total(b) THEN "publishing" ELSE "looking up"
    /\ checked'[b] = Current(b)
    /\ unique'[b] = unique[b] \cup {Current(b)} /\ todo'[b] = todo[b] \cup {Current(b)}
    /\ UNCHANGED <<successful, failed, published, missed, broken>>
    /\ unsure \subseteq unsure' /\ unsure' \subseteq unsure \cup {CurrentKey(b)}
    /\ \/ seen' = seen /\ CurrentKey(b) \in unsure'
       \/ seen' = seen \cup {CurrentKey(b)} /\ stage[b] = "storing"

\* Or refused, as its key was seen.
Refuses(b) ==
    /\ stage[b] = "looking up" /\ CurrentKey(b) \in seen
    /\ stage'[b] = IF Current(b) = Total(b) THEN "publishing" ELSE "looking up"
    /\ checked'[b] = Current(b)
    /\ unique'[b] = unique[b] /\ todo'[b] = todo[b]
    /\ UNCHANGED <<successful, failed, seen, published, unsure, missed, broken>>

\* Or its key is going to be stored.
Stores(b) ==
    /\ stage[b] = "looking up" /\ CurrentKey(b) \notin seen
    /\ stage'[b] = "storing"
    /\ UNCHANGED <<checked, unique, todo, successful, failed, seen, published, missed, broken>>
    /\ unsure \subseteq unsure' /\ unsure' \subseteq unsure \cup {CurrentKey(b)}
    /\ AtTheSameKey(b) = {} \/ CurrentKey(b) \in unsure'

\* A request begins or ends.
Turns(b) ==
    /\ \/ stage[b] = "waiting" /\ stage'[b] \in {"rejected", "looking up"}
       \/ stage[b] = "publishing" /\ todo[b] = {} /\ stage'[b] = "answered"
    /\ UNCHANGED <<checked, unique, todo, successful, failed, seen, published, unsure, missed, broken>>

\* A chunk leaves, of which `out` reaches the broker.
Leaves(b, chunk, out, sent, lost) ==
    /\ stage[b] = "publishing"
    /\ chunk \subseteq todo[b] /\ out \subseteq chunk
    /\ sent \in Nat /\ sent <= Cardinality(chunk)
    /\ lost \in Nat /\ lost <= 2 * Cardinality(chunk)
    /\ lost = 0 => out = chunk
    /\ b \notin broken' => sent + lost = Cardinality(chunk)
    /\ todo'[b] = todo[b] \ chunk
    /\ successful'[b] = successful[b] + sent /\ failed'[b] = failed[b] + lost
    /\ published' = published \cup ({b} \X out)
    /\ missed' = missed \cup {KeyOf(b, i) : i \in chunk \ out}
    /\ broken \subseteq broken' /\ broken' \subseteq broken \cup {b}
    /\ UNCHANGED <<stage, checked, unique, seen, unsure>>

Publishes(b) == \E chunk, out, sent, lost : Leaves(b, chunk, out, sent, lost)

Functional ==
    /\ stage \in [Batches -> Stages] /\ checked \in [Batches -> Nat]
    /\ unique \in [Batches -> SUBSET Nat] /\ todo \in [Batches -> SUBSET Nat]
    /\ successful \in [Batches -> Nat] /\ failed \in [Batches -> Nat]

LEMMA LetThroughMoves ==
    ASSUME Functional, NEW b \in Batches, LetThrough(b)
    PROVE  /\ stage' \in [Batches -> Stages] /\ checked' \in [Batches -> Nat]
           /\ unique' \in [Batches -> SUBSET Nat] /\ todo' \in [Batches -> SUBSET Nat]
           /\ \A q \in Batches \ {b} : /\ stage'[q] = stage[q] /\ checked'[q] = checked[q]
                                       /\ unique'[q] = unique[q] /\ todo'[q] = todo[q]
           /\ stage'[b] = IF Current(b) = Total(b) THEN "publishing" ELSE "looking up"
           /\ checked'[b] = Current(b)
           /\ unique'[b] = unique[b] \cup {Current(b)} /\ todo'[b] = todo[b] \cup {Current(b)}
<1>1. checked[b] \in Nat /\ Current(b) \in Nat /\ Current(b) = checked[b] + 1
  BY DEF Functional, Current
<1> QED BY <1>1 DEF Functional, LetThrough, AfterCheck, Stage, Stages

LEMMA RefuseMoves ==
    ASSUME Functional, NEW b \in Batches, Refuse(b)
    PROVE  /\ stage' \in [Batches -> Stages] /\ checked' \in [Batches -> Nat]
           /\ UNCHANGED <<unique, todo>>
           /\ \A q \in Batches \ {b} : stage'[q] = stage[q] /\ checked'[q] = checked[q]
           /\ stage'[b] = IF Current(b) = Total(b) THEN "publishing" ELSE "looking up"
           /\ checked'[b] = Current(b)
<1>1. checked[b] \in Nat /\ Current(b) \in Nat /\ Current(b) = checked[b] + 1
  BY DEF Functional, Current
<1> QED BY <1>1 DEF Functional, Refuse, AfterCheck, Stage, Stages

LEMMA LookUpMoves ==
    ASSUME Functional, NEW b \in Batches, NEW ok \in BOOLEAN, LookUp(b, ok)
    PROVE  Functional' /\ Others(b) /\ (Passes(b) \/ Refuses(b) \/ Stores(b))
<1>1. /\ stage[b] = "looking up" /\ UNCHANGED <<successful, failed, seen, published, missed, broken>>
      /\ unsure' = IF ok /\ (CurrentKey(b) \in seen \/ AtTheSameKey(b) = {})
                   THEN unsure ELSE unsure \cup {CurrentKey(b)}
      /\ CASE ~ok -> LetThrough(b)
           [] ok /\ CurrentKey(b) \in seen -> Refuse(b)
           [] OTHER -> Stage(b, "storing") /\ UNCHANGED <<unique, todo, checked>>
  BY DEF LookUp, LookUpFails
<1>2. CASE ~ok
  <2>1. LetThrough(b) /\ unsure' = unsure \cup {CurrentKey(b)}
    BY <1>1, <1>2
  <2> QED BY <1>1, <2>1, LetThroughMoves DEF Functional, Others, Unmoved, Passes
<1>3. CASE ok /\ CurrentKey(b) \in seen
  <2>1. Refuse(b) /\ unsure' = unsure
    BY <1>1, <1>3
  <2> QED BY <1>1, <1>3, <2>1, RefuseMoves DEF Functional, Others, Unmoved, Refuses
<1>4. CASE ok /\ CurrentKey(b) \notin seen
  <2>1. stage' = [stage EXCEPT ![b] = "storing"] /\ UNCHANGED <<unique, todo, checked>>
    BY <1>1, <1>4 DEF Stage
  <2>2. unsure' = IF AtTheSameKey(b) = {} THEN unsure ELSE unsure \cup {CurrentKey(b)}
    BY <1>1, <1>4
  <2> QED BY <1>1, <1>4, <2>1, <2>2 DEF Functional, Others, Unmoved, Stores, Stages
<1> QED BY <1>2, <1>3, <1>4

LEMMA StoreKeyMoves ==
    ASSUME Functional, NEW b \in Batches, NEW ok \in BOOLEAN, NEW executed \in BOOLEAN,
           StoreKey(b, ok, executed)
    PROVE  Functional' /\ Others(b) /\ Passes(b)
<1>1. /\ stage[b] = "storing" /\ UNCHANGED <<successful, failed, published, missed, broken>>
      /\ LetThrough(b)
      /\ seen' = IF executed THEN seen \cup {CurrentKey(b)} ELSE seen
      /\ unsure' = IF executed THEN unsure ELSE unsure \cup {CurrentKey(b)}
  BY DEF StoreKey, Stored
<1>2. /\ unsure \subseteq unsure' /\ unsure' \subseteq unsure \cup {CurrentKey(b)}
      /\ \/ seen' = seen /\ CurrentKey(b) \in unsure'
         \/ seen' = seen \cup {CurrentKey(b)}
  BY <1>1
<1> QED BY <1>1, <1>2, LetThroughMoves DEF Functional, Others, Unmoved, Passes

\* All notifications of a chunk come before the end of the chunk.
LEMMA UptoAll ==
    ASSUME NEW chunk, IsFiniteSet(chunk), chunk \subseteq Nat
    PROVE  Upto(chunk, Cardinality(chunk)) = chunk
<1>1. ASSUME NEW i \in chunk PROVE Cardinality({j \in chunk : j < i}) < Cardinality(chunk)
  <2> DEFINE before == {j \in chunk : j < i}
  <2>1. before \subseteq chunk /\ i \notin before
    BY <1>1
  <2> HIDE DEF before
  <2>2. /\ Cardinality(before) \in Nat /\ Cardinality(chunk) \in Nat
        /\ Cardinality(before) <= Cardinality(chunk) /\ Cardinality(before) # Cardinality(chunk)
    BY <1>1, <2>1, FS_Subset, FS_CardinalityType
  <2> QED BY <2>2 DEF before
<1> QED BY <1>1 DEF Upto

LEMMA ChunkOfTodo ==
    ASSUME NEW b
    PROVE  NextChunk(b) \subseteq todo[b]
BY DEF NextChunk

LEMMA PublishChunkMoves ==
    ASSUME Functional, NEW b \in Batches, IsFiniteSet(todo[b]),
           NEW sent \in Nat, NEW arrived \in Nat, NEW closed \in BOOLEAN,
           PublishChunk(b, sent, arrived, closed)
    PROVE  Functional' /\ Others(b) /\ Publishes(b)
<1> DEFINE chunk == NextChunk(b)
           out == Upto(chunk, arrived)
           lost == CountedAsFailed(chunk, sent, closed)
<1>1. /\ stage[b] = "publishing" /\ sent <= Cardinality(chunk)
      /\ closed => arrived = Cardinality(chunk)
      /\ successful' = [successful EXCEPT ![b] = @ + sent]
      /\ failed' = [failed EXCEPT ![b] = @ + lost]
      /\ todo' = [todo EXCEPT ![b] = @ \ chunk]
      /\ published' = published \cup ({b} \X out)
      /\ missed' = missed \cup {KeyOf(b, i) : i \in chunk \ out}
      /\ broken' = IF closed THEN broken ELSE broken \cup {b}
      /\ UNCHANGED <<stage, checked, unique, seen, unsure>>
  BY DEF PublishChunk, Unpublished, Remaining
<1>2. chunk \subseteq todo[b] /\ todo[b] \subseteq Nat /\ out \subseteq chunk
  BY ChunkOfTodo DEF Functional, Upto
<1> HIDE DEF chunk
<1>3. IsFiniteSet(chunk) /\ Cardinality(chunk) \in Nat
  BY <1>2, FS_Subset, FS_CardinalityType
<1>4. lost \in Nat /\ lost <= 2 * Cardinality(chunk) /\ (closed => sent + lost = Cardinality(chunk))
  BY <1>1, <1>3 DEF CountedAsFailed
<1>5. ASSUME lost = 0 PROVE out = chunk
  <2>1. CASE closed
    BY <1>1, <1>2, <1>3, <2>1, UptoAll
  <2>2. CASE ~closed
    <3>1. Cardinality(chunk) = 0
      BY <1>1, <1>3, <1>5, <2>2 DEF CountedAsFailed
    <3> QED BY <1>2, <1>3, <3>1, FS_EmptySet
  <2> QED BY <2>1, <2>2
<1> HIDE DEF out, lost
<1>6. Functional' /\ Others(b)
  BY <1>1, <1>2, <1>4 DEF Functional, Others, Unmoved
<1>7. Leaves(b, chunk, out, sent, lost)
  <2>1. /\ todo'[b] = todo[b] \ chunk
        /\ successful'[b] = successful[b] + sent /\ failed'[b] = failed[b] + lost
    BY <1>1 DEF Functional
  <2>2. b \notin broken' => sent + lost = Cardinality(chunk)
    BY <1>1, <1>4
  <2> QED BY <1>1, <1>2, <1>4, <1>5, <2>1, <2>2 DEF Leaves
<1> QED BY <1>6, <1>7 DEF Publishes

LEMMA NoChannelMoves ==
    ASSUME Functional, NEW b \in Batches, IsFiniteSet(todo[b]), NoChannel(b)
    PROVE  Functional' /\ Others(b) /\ Publishes(b)
<1> DEFINE chunk == NextChunk(b)
           lost == Cardinality(chunk)
<1>1. /\ stage[b] = "publishing"
      /\ failed' = [failed EXCEPT ![b] = @ + lost]
      /\ todo' = [todo EXCEPT ![b] = @ \ chunk]
      /\ missed' = missed \cup {KeyOf(b, i) : i \in chunk}
      /\ UNCHANGED <<stage, checked, unique, successful, seen, published, unsure, broken>>
  BY DEF NoChannel, Unpublished
<1>2. chunk \subseteq todo[b] /\ todo[b] \subseteq Nat
  BY ChunkOfTodo DEF Functional
<1> HIDE DEF chunk
<1>3. IsFiniteSet(chunk) /\ lost \in Nat
  BY <1>2, FS_Subset, FS_CardinalityType
<1>4. lost = 0 => {} = chunk
  BY <1>3, FS_EmptySet
<1>5. Functional' /\ Others(b)
  BY <1>1, <1>2, <1>3 DEF Functional, Others, Unmoved
<1>6. Leaves(b, chunk, {}, 0, lost)
  <2>1. /\ todo'[b] = todo[b] \ chunk
        /\ successful'[b] = successful[b] + 0 /\ failed'[b] = failed[b] + lost
    BY <1>1, <1>3 DEF Functional
  <2>2. 0 <= lost /\ lost <= 2 * lost /\ 0 + lost = lost
    BY <1>3
  <2>3. {b} \X {} = {}
    OBVIOUS
  <2> QED BY <1>1, <1>2, <1>3, <1>4, <2>1, <2>2, <2>3 DEF Leaves
<1> QED BY <1>5, <1>6 DEF Publishes

\* Every step of a request is one of these.
LEMMA BatchMoves ==
    ASSUME Functional, NEW b \in Batches, IsFiniteSet(todo[b]), Accept(b) \/ BatchStep(b)
    PROVE  /\ Functional' /\ Others(b)
           /\ Passes(b) \/ Refuses(b) \/ Stores(b) \/ Turns(b) \/ Publishes(b)
<1>1. CASE Accept(b)
  BY <1>1 DEF Accept, Stage, batchHistory, Functional, Stages, Others, Unmoved, Turns
<1>2. ASSUME NEW ok \in BOOLEAN, LookUp(b, ok)
      PROVE  Functional' /\ Others(b) /\ (Passes(b) \/ Refuses(b) \/ Stores(b))
  BY <1>2, LookUpMoves
<1>3. ASSUME NEW ok \in BOOLEAN, NEW executed \in BOOLEAN, StoreKey(b, ok, executed)
      PROVE  Functional' /\ Others(b) /\ Passes(b)
  BY <1>3, StoreKeyMoves
<1>4. ASSUME NEW sent \in 0..ChunkSize, NEW arrived \in 0..ChunkSize, NEW closed \in BOOLEAN,
             PublishChunk(b, sent, arrived, closed)
      PROVE  Functional' /\ Others(b) /\ Publishes(b)
  <2>1. sent \in Nat /\ arrived \in Nat
    BY BatchAssumption
  <2> QED BY <1>4, <2>1, PublishChunkMoves
<1>5. NoChannel(b) => Functional' /\ Others(b) /\ Publishes(b)
  BY NoChannelMoves
<1>6. CASE Answer(b)
  BY <1>6 DEF Answer, Stage, batchHistory, Functional, Stages, Others, Unmoved, Turns
<1> QED BY <1>1, <1>2, <1>3, <1>4, <1>5, <1>6 DEF BatchStep

-----------------------------------------------------------------------------
(* Types and counts *)

Done(b) == unique[b] \ todo[b]

\* What is counted does not exceed what is done.
CountsOf(b) ==
    /\ stage[b] \in {"waiting", "looking up", "storing"} => checked[b] < Total(b)
    /\ checked[b] <= Total(b)
    /\ unique[b] \subseteq 1..checked[b] /\ todo[b] \subseteq unique[b]
    /\ successful[b] <= Cardinality(Done(b)) /\ failed[b] <= 2 * Cardinality(Done(b))

Sets ==
    /\ seen \subseteq BatchKeys /\ unsure \subseteq BatchKeys /\ missed \subseteq BatchKeys
    /\ published \subseteq UNION {{b} \X Items(b) : b \in Batches}
    /\ broken \subseteq Batches

BatchInv ==
    /\ Functional /\ Sets
    /\ \A b \in Batches : CountsOf(b)

LEMMA ElementOf ==
    ASSUME NEW S, NEW c \in Seq(S), NEW i \in 1..Len(c)
    PROVE  c[i] \in S
OBVIOUS

LEMMA ItemsOf ==
    ASSUME NEW b \in Batches
    PROVE  /\ Total(b) \in Nat \ {0} /\ Items(b) = 1..Total(b)
           /\ \A i \in 1..Total(b) : KeyOf(b, i) \in BatchKeys
<1>1. Content[b] \in Seq([key : BatchKeys, priority : STRING]) /\ Content[b] # <<>>
  BY BatchAssumption
<1> DEFINE c == Content[b]
<1> HIDE DEF c
<1>2. c \in Seq([key : BatchKeys, priority : STRING]) /\ c # <<>>
  BY <1>1 DEF c
<1>3. Len(c) \in Nat /\ DOMAIN c = 1..Len(c)
  BY <1>2
<1>4. Len(c) # 0
  BY <1>2
<1>5. ASSUME NEW i \in 1..Len(c) PROVE c[i].key \in BatchKeys
  <2>1. c[i] \in [key : BatchKeys, priority : STRING]
    BY <1>2, ElementOf
  <2> QED BY <2>1
<1> QED BY <1>3, <1>4, <1>5 DEF Total, Items, KeyOf, c

LEMMA FiniteUpto ==
    ASSUME NEW n \in Nat
    PROVE  IsFiniteSet(1..n) /\ Cardinality(1..n) = n
BY FS_Interval

\* The sets of indices are finite, and how much is done is bounded by the batch.
LEMMA FiniteIndices ==
    ASSUME BatchInv, NEW b \in Batches
    PROVE  /\ IsFiniteSet(unique[b]) /\ IsFiniteSet(todo[b]) /\ IsFiniteSet(Done(b))
           /\ Cardinality(Done(b)) \in Nat /\ Cardinality(Done(b)) <= Total(b)
           /\ Cardinality(unique[b]) \in Nat
<1>1. /\ checked[b] \in Nat /\ checked[b] <= Total(b) /\ unique[b] \subseteq 1..checked[b]
      /\ todo[b] \subseteq unique[b] /\ Total(b) \in Nat
  BY ItemsOf DEF BatchInv, Functional, CountsOf
<1>2. unique[b] \subseteq 1..Total(b) /\ Done(b) \subseteq 1..Total(b)
  BY <1>1 DEF Done
<1>3. IsFiniteSet(1..Total(b)) /\ Cardinality(1..Total(b)) = Total(b)
  BY <1>1, FiniteUpto
<1>4. IsFiniteSet(unique[b]) /\ IsFiniteSet(Done(b)) /\ Cardinality(Done(b)) <= Total(b)
  BY <1>2, <1>3, FS_Subset
<1> QED BY <1>1, <1>4, FS_Subset, FS_CardinalityType

\* A chunk that leaves is done.
LEMMA DoneGrows ==
    ASSUME BatchInv, NEW b \in Batches, NEW chunk \in SUBSET todo[b]
    PROVE  /\ unique[b] \ (todo[b] \ chunk) = Done(b) \cup chunk
           /\ Cardinality(chunk) \in Nat
           /\ Cardinality(Done(b) \cup chunk) = Cardinality(Done(b)) + Cardinality(chunk)
<1>1. chunk \subseteq unique[b] /\ Done(b) \cap chunk = {}
  BY DEF BatchInv, CountsOf, Done
<1>2. IsFiniteSet(chunk) /\ Cardinality(chunk) \in Nat /\ IsFiniteSet(Done(b)) /\ Cardinality(Done(b)) \in Nat
  BY <1>1, FiniteIndices, FS_Subset, FS_CardinalityType
<1>3. Cardinality(Done(b) \cup chunk) = Cardinality(Done(b)) + Cardinality(chunk) - Cardinality(Done(b) \cap chunk)
  BY <1>2, FS_Union
<1>4. Cardinality(Done(b) \cap chunk) = 0
  BY <1>1, FS_EmptySet
<1> QED BY <1>1, <1>2, <1>3, <1>4 DEF Done

LEMMA NextIndex ==
    ASSUME NEW m \in Nat, NEW t \in Nat, m < t
    PROVE  m + 1 \in 1..t /\ m + 1 \notin 1..m
OBVIOUS

LEMMA Onward ==
    ASSUME NEW m \in Nat, NEW S, S \subseteq 1..m
    PROVE  S \subseteq 1..(m + 1) /\ S \cup {m + 1} \subseteq 1..(m + 1)
OBVIOUS

LEMMA NotLast ==
    ASSUME NEW t \in Nat, NEW i \in 1..t
    PROVE  i <= t /\ (i # t => i < t)
OBVIOUS

\* The next notification of a request.
LEMMA CurrentOf ==
    ASSUME BatchInv, NEW b \in Batches, stage[b] \in {"waiting", "looking up", "storing"}
    PROVE  /\ Current(b) \in 1..Total(b) /\ Current(b) = checked[b] + 1 /\ checked[b] \in Nat
           /\ Current(b) \notin unique[b] /\ Current(b) \notin todo[b]
           /\ CurrentKey(b) = KeyOf(b, Current(b)) /\ CurrentKey(b) \in BatchKeys
<1>1. /\ checked[b] \in Nat /\ checked[b] < Total(b) /\ Total(b) \in Nat
      /\ unique[b] \subseteq 1..checked[b] /\ todo[b] \subseteq unique[b]
  BY ItemsOf DEF BatchInv, Functional, CountsOf
<1>2. Current(b) \in 1..Total(b) /\ Current(b) = checked[b] + 1 /\ Current(b) \notin 1..checked[b]
  BY <1>1, NextIndex DEF Current
<1>3. Current(b) \notin unique[b] /\ Current(b) \notin todo[b]
  BY <1>1, <1>2
<1>4. KeyOf(b, Current(b)) \in BatchKeys
  BY <1>2, ItemsOf
<1> QED BY <1>1, <1>2, <1>3, <1>4 DEF CurrentKey

LEMMA UnmovedCounts ==
    ASSUME NEW b, CountsOf(b), Unmoved(b)
    PROVE  CountsOf(b)'
BY DEF CountsOf, Unmoved, Done

LEMMA MovedCounts ==
    ASSUME BatchInv, NEW b \in Batches,
           Passes(b) \/ Refuses(b) \/ Stores(b) \/ Turns(b) \/ Publishes(b)
    PROVE  CountsOf(b)'
<1>0. CountsOf(b) /\ checked[b] \in Nat /\ Total(b) \in Nat
  BY ItemsOf DEF BatchInv, Functional
<1>1. CASE Passes(b)
  <2>1. /\ Current(b) \in 1..Total(b) /\ Current(b) = checked[b] + 1 /\ Current(b) \notin unique[b]
        /\ Current(b) \notin todo[b]
    BY <1>1, CurrentOf DEF Passes
  <2>2. Done(b)' = Done(b)
    BY <1>1, <2>1 DEF Passes, Done
  <2>3. unique'[b] = unique[b] \cup {Current(b)} /\ todo'[b] = todo[b] \cup {Current(b)}
    BY <1>1 DEF Passes
  <2>4. unique[b] \subseteq 1..checked[b] /\ todo[b] \subseteq unique[b]
    BY <1>0 DEF CountsOf
  <2>5. unique'[b] \subseteq 1..Current(b) /\ todo'[b] \subseteq unique'[b]
    BY <1>0, <2>1, <2>3, <2>4, Onward
  <2>6. checked'[b] = Current(b) /\ (stage'[b] # "publishing" => Current(b) < Total(b))
    BY <1>0, <1>1, <2>1, NotLast DEF Passes
  <2>7. successful'[b] = successful[b] /\ failed'[b] = failed[b]
    BY <1>1 DEF Passes
  <2> QED BY <1>0, <2>1, <2>2, <2>5, <2>6, <2>7, NotLast DEF CountsOf
<1>2. CASE Refuses(b)
  <2>1. Current(b) \in 1..Total(b) /\ Current(b) = checked[b] + 1
    BY <1>2, CurrentOf DEF Refuses
  <2>2. Done(b)' = Done(b) /\ unique'[b] = unique[b] /\ todo'[b] = todo[b]
    BY <1>2 DEF Refuses, Done
  <2>3. unique[b] \subseteq 1..checked[b] /\ todo[b] \subseteq unique[b]
    BY <1>0 DEF CountsOf
  <2>4. unique[b] \subseteq 1..Current(b)
    BY <1>0, <2>1, <2>3, Onward
  <2>5. checked'[b] = Current(b) /\ (stage'[b] # "publishing" => Current(b) < Total(b))
    BY <1>0, <1>2, <2>1, NotLast DEF Refuses
  <2>6. successful'[b] = successful[b] /\ failed'[b] = failed[b]
    BY <1>2 DEF Refuses
  <2> QED BY <1>0, <2>1, <2>2, <2>3, <2>4, <2>5, <2>6, NotLast DEF CountsOf
<1>3. CASE Stores(b) \/ Turns(b)
  BY <1>0, <1>3 DEF Stores, Turns, CountsOf, Done
<1>4. ASSUME NEW chunk, NEW out, NEW sent, NEW lost, Leaves(b, chunk, out, sent, lost)
      PROVE  CountsOf(b)'
  <2>1. /\ Done(b)' = Done(b) \cup chunk
        /\ Cardinality(chunk) \in Nat /\ Cardinality(Done(b)) \in Nat
        /\ Cardinality(Done(b) \cup chunk) = Cardinality(Done(b)) + Cardinality(chunk)
    BY <1>4, DoneGrows, FiniteIndices DEF Leaves, Done
  <2>2. successful[b] \in Nat /\ failed[b] \in Nat
    BY DEF BatchInv, Functional
  <2>3. /\ successful'[b] = successful[b] + sent /\ sent \in Nat /\ sent <= Cardinality(chunk)
        /\ failed'[b] = failed[b] + lost /\ lost \in Nat /\ lost <= 2 * Cardinality(chunk)
    BY <1>4 DEF Leaves
  <2>4. /\ successful[b] <= Cardinality(Done(b)) /\ failed[b] <= 2 * Cardinality(Done(b))
    BY <1>0 DEF CountsOf
  <2>5. /\ successful'[b] <= Cardinality(Done(b)') /\ failed'[b] <= 2 * Cardinality(Done(b)')
    BY <2>1, <2>2, <2>3, <2>4
  <2> QED BY <1>0, <1>4, <2>5 DEF Leaves, CountsOf
<1> QED BY <1>1, <1>2, <1>3, <1>4 DEF Publishes

LEMMA IndexOf ==
    ASSUME BatchInv, NEW b \in Batches, NEW i,
           i \in unique[b] \/ i \in todo[b] \/ i \in 1..checked[b]
    PROVE  i \in Items(b) /\ KeyOf(b, i) \in BatchKeys
<1>1. /\ checked[b] \in Nat /\ checked[b] <= Total(b) /\ Total(b) \in Nat
      /\ unique[b] \subseteq 1..checked[b] /\ todo[b] \subseteq unique[b]
  BY ItemsOf DEF BatchInv, Functional, CountsOf
<1>2. i \in 1..checked[b]
  BY <1>1
<1>3. 1..checked[b] \subseteq 1..Total(b)
  BY <1>1
<1> QED BY <1>2, <1>3, ItemsOf

-----------------------------------------------------------------------------
(* Every step of the system is one of these for the batches *)

Moves(b) == Passes(b) \/ Refuses(b) \/ Stores(b) \/ Turns(b) \/ Publishes(b)

Lapses(k) ==
    /\ k \in seen /\ seen' = seen \ {k}
    /\ unsure' = unsure \cup {k}
    /\ UNCHANGED <<stage, checked, unique, todo, successful, failed, published, missed, broken>>

\* The requests of `dying` end with their process.
Die(dying) ==
    /\ \A b \in dying : Live(b) /\ stage'[b] = "gone" /\ todo'[b] = {}
    /\ \A b \in Batches \ dying : stage'[b] = stage[b] /\ todo'[b] = todo[b]
    /\ missed' = missed \cup UNION {{KeyOf(b, i) : i \in todo[b]} : b \in dying}
    /\ UNCHANGED <<checked, unique, successful, failed, seen, published, unsure, broken>>

Still == UNCHANGED <<stage, checked, unique, todo, successful, failed, seen, published, unsure,
                     missed, broken>>

Step ==
    \/ \E b \in Batches : Others(b) /\ Moves(b)
    \/ \E k \in BatchKeys : Lapses(k)
    \/ \E dying \in SUBSET Batches : Die(dying)
    \/ Still

LEMMA DieMoves ==
    ASSUME Functional, NEW r \in Replicas, BatchesDie(r)
    PROVE  Functional' /\ \E dying \in SUBSET Batches : Die(dying)
<1> DEFINE dying == {b \in Batches : Host[b] = r /\ Live(b)}
<1>1. /\ stage' = [b \in Batches |-> IF b \in dying THEN "gone" ELSE stage[b]]
      /\ missed' = missed \cup UNION {{KeyOf(b, i) : i \in todo[b]} : b \in dying}
      /\ todo' = [b \in Batches |-> IF b \in dying THEN {} ELSE todo[b]]
      /\ UNCHANGED <<checked, unique, successful, failed, seen, published, unsure, broken>>
  BY DEF BatchesDie
<1>2. dying \in SUBSET Batches /\ \A b \in dying : Live(b)
  OBVIOUS
<1> HIDE DEF dying
<1>3. /\ \A b \in Batches : stage'[b] = IF b \in dying THEN "gone" ELSE stage[b]
      /\ \A b \in Batches : todo'[b] = IF b \in dying THEN {} ELSE todo[b]
  BY <1>1
<1>4. stage' \in [Batches -> Stages]
  BY <1>1 DEF Functional, Stages
<1>5. todo' \in [Batches -> SUBSET Nat]
  BY <1>1 DEF Functional
<1>6. Functional'
  BY <1>1, <1>4, <1>5 DEF Functional
<1>7. Die(dying)
  BY <1>1, <1>2, <1>3 DEF Die
<1> QED BY <1>2, <1>6, <1>7

LEMMA StepMoves ==
    ASSUME BatchInv, [Next]_vars
    PROVE  Functional' /\ Step
<1>0. Functional
  BY DEF BatchInv
<1>1. CASE BatchNext
  <2>1. ASSUME NEW b \in Batches, Accept(b) \/ BatchStep(b)
        PROVE  Functional' /\ Others(b) /\ Moves(b)
    BY <1>0, <2>1, FiniteIndices, BatchMoves DEF Moves
  <2>2. ASSUME NEW k \in BatchKeys, Expire(k) PROVE Functional' /\ Lapses(k)
    BY <1>0, <2>2 DEF Expire, Functional, Lapses
  <2> QED BY <1>1, <2>1, <2>2 DEF BatchNext, Step
<1>2. CASE AnnouncementsOnly
  BY <1>0, <1>2 DEF AnnouncementsOnly, batchHistory, Functional, Step, Still
<1>3. ASSUME NEW r \in Replicas, Crash(r) PROVE Functional' /\ Step
  BY <1>0, <1>3, DieMoves DEF Crash, Step
<1>4. CASE UNCHANGED vars
  BY <1>0, <1>4 DEF vars, batchVars, Functional, Step, Still
<1> QED BY <1>1, <1>2, <1>3, <1>4 DEF Next

LEMMA NextSets ==
    ASSUME BatchInv, Step
    PROVE  Sets'
<1>0. Sets
  BY DEF BatchInv
<1>1. ASSUME NEW b \in Batches, Passes(b) PROVE Sets'
  <2>1. CurrentKey(b) \in BatchKeys
    BY <1>1, CurrentOf DEF Passes
  <2> QED BY <1>0, <1>1, <2>1 DEF Passes, Sets
<1>2. ASSUME NEW b \in Batches, Stores(b) PROVE Sets'
  <2>1. CurrentKey(b) \in BatchKeys
    BY <1>2, CurrentOf DEF Stores
  <2> QED BY <1>0, <1>2, <2>1 DEF Stores, Sets
<1>3. ASSUME NEW b \in Batches, Refuses(b) \/ Turns(b) PROVE Sets'
  BY <1>0, <1>3 DEF Refuses, Turns, Sets
<1>4. ASSUME NEW b \in Batches, NEW chunk, NEW out, NEW sent, NEW lost, Leaves(b, chunk, out, sent, lost)
      PROVE  Sets'
  <2>1. chunk \subseteq todo[b] /\ out \subseteq chunk
    BY <1>4 DEF Leaves
  <2>2. \A i \in chunk : i \in Items(b) /\ KeyOf(b, i) \in BatchKeys
    BY <2>1, IndexOf
  <2>3. {b} \X out \subseteq {b} \X Items(b)
    BY <2>1, <2>2
  <2>4. published' \subseteq UNION {{p} \X Items(p) : p \in Batches}
    BY <1>0, <1>4, <2>3 DEF Leaves, Sets
  <2>5. missed' \subseteq BatchKeys
    BY <1>0, <1>4, <2>2 DEF Leaves, Sets
  <2> QED BY <1>0, <1>4, <2>4, <2>5 DEF Leaves, Sets
<1>5. ASSUME NEW k \in BatchKeys, Lapses(k) PROVE Sets'
  BY <1>0, <1>5 DEF Lapses, Sets
<1>6. ASSUME NEW dying \in SUBSET Batches, Die(dying) PROVE Sets'
  <2>1. \A b \in dying : \A i \in todo[b] : KeyOf(b, i) \in BatchKeys
    BY IndexOf
  <2>2. missed' \subseteq BatchKeys
    BY <1>0, <1>6, <2>1 DEF Die, Sets
  <2> QED BY <1>0, <1>6, <2>2 DEF Die, Sets
<1>7. CASE Still
  BY <1>0, <1>7 DEF Still, Sets
<1> QED BY <1>1, <1>2, <1>3, <1>4, <1>5, <1>6, <1>7 DEF Step, Moves, Publishes

LEMMA DyingCounts ==
    ASSUME BatchInv, NEW dying \in SUBSET Batches, Die(dying), NEW b \in dying
    PROVE  CountsOf(b)' /\ Done(b) \subseteq Done(b)'
<1>1. /\ CountsOf(b) /\ stage'[b] = "gone" /\ todo'[b] = {} /\ b \in Batches
      /\ UNCHANGED <<checked, unique, successful, failed>>
  BY DEF BatchInv, Die
<1>2. Done(b)' = unique[b] /\ Done(b) \subseteq unique[b]
  BY <1>1 DEF Done
<1>3. /\ Cardinality(Done(b)) \in Nat /\ Cardinality(unique[b]) \in Nat
      /\ Cardinality(Done(b)) <= Cardinality(unique[b])
  BY <1>1, <1>2, FiniteIndices, FS_Subset
<1>4. successful[b] \in Nat /\ failed[b] \in Nat
  BY <1>1 DEF BatchInv, Functional
<1>5. successful[b] <= Cardinality(Done(b)) /\ failed[b] <= 2 * Cardinality(Done(b))
  BY <1>1 DEF CountsOf
<1>6. successful[b] <= Cardinality(unique[b]) /\ failed[b] <= 2 * Cardinality(unique[b])
  BY <1>3, <1>4, <1>5
<1> QED BY <1>1, <1>2, <1>6 DEF CountsOf

LEMMA NextBatchInv ==
    ASSUME BatchInv, [Next]_vars
    PROVE  BatchInv'
<1>1. Functional' /\ Step
  BY StepMoves
<1>2. Sets'
  BY <1>1, NextSets
<1>3. \A b \in Batches : CountsOf(b)
  BY DEF BatchInv
<1>4. ASSUME NEW b \in Batches PROVE CountsOf(b)'
  <2>1. ASSUME NEW p \in Batches, Others(p), Moves(p) PROVE CountsOf(b)'
    <3>1. CASE p = b
      BY <2>1, <3>1, MovedCounts DEF Moves
    <3>2. CASE p # b
      BY <1>3, <2>1, <3>2, UnmovedCounts DEF Others
    <3> QED BY <3>1, <3>2
  <2>2. ASSUME NEW k \in BatchKeys, Lapses(k) PROVE CountsOf(b)'
    BY <1>3, <2>2, UnmovedCounts DEF Lapses, Unmoved
  <2>3. ASSUME NEW dying \in SUBSET Batches, Die(dying) PROVE CountsOf(b)'
    <3>1. CASE b \in dying
      BY <2>3, <3>1, DyingCounts
    <3>2. CASE b \notin dying
      BY <1>3, <2>3, <3>2, UnmovedCounts DEF Die, Unmoved
    <3> QED BY <3>1, <3>2
  <2>4. CASE Still
    BY <1>3, <2>4, UnmovedCounts DEF Still, Unmoved
  <2> QED BY <1>1, <2>1, <2>2, <2>3, <2>4 DEF Step
<1> QED BY <1>1, <1>2, <1>4 DEF BatchInv

LEMMA InitBatchInv ==
    ASSUME Init
    PROVE  BatchInv
<1>1. BatchInit
  BY DEF Init
<1>2. Functional /\ Sets
  BY <1>1 DEF BatchInit, Functional, Sets, Stages
<1>3. ASSUME NEW b \in Batches PROVE CountsOf(b)
  <2>1. /\ stage[b] = "waiting" /\ checked[b] = 0 /\ unique[b] = {} /\ todo[b] = {}
        /\ successful[b] = 0 /\ failed[b] = 0 /\ Total(b) \in Nat \ {0}
    BY <1>1, ItemsOf DEF BatchInit
  <2>2. Cardinality(Done(b)) = 0
    BY <2>1, FS_EmptySet DEF Done
  <2> QED BY <2>1, <2>2 DEF CountsOf
<1> QED BY <1>2, <1>3 DEF BatchInv

-----------------------------------------------------------------------------
(* A key is published once *)

\* What was let through has a key that Redis or a doubt knows; only one of two
\* notifications with a key is, unless there is a doubt; and nobody else holds the key
\* that a request is about to store.
OnceInv ==
    /\ \A x \in published : x[2] \in Done(x[1])
    /\ \A b \in Batches : \A i \in unique[b] : KeyOf(b, i) \in seen \cup unsure
    /\ \A b \in Batches : stage[b] = "storing" /\ CurrentKey(b) \notin unsure =>
           CurrentKey(b) \notin seen /\ AtTheSameKey(b) = {}
    /\ \A b, q \in Batches : \A i \in unique[b], j \in unique[q] :
           KeyOf(b, i) = KeyOf(q, j) /\ (b # q \/ i # j) => KeyOf(b, i) \in unsure

LEMMA OnceImplies ==
    ASSUME BatchInv, OnceInv
    PROVE  PublishedOnce
<1>1. ASSUME NEW x \in published
      PROVE  x[1] \in Batches /\ x[2] \in unique[x[1]] /\ x = <<x[1], x[2]>>
  BY <1>1 DEF BatchInv, Sets, OnceInv, Done
<1>2. ASSUME NEW x \in published, NEW y \in published,
             KeyOf(x[1], x[2]) = KeyOf(y[1], y[2]), x # y
      PROVE  KeyOf(x[1], x[2]) \in unsure
  <2>1. x[1] # y[1] \/ x[2] # y[2]
    BY <1>1, <1>2
  <2> QED BY <1>1, <1>2, <2>1 DEF OnceInv
<1> QED BY <1>2 DEF PublishedOnce

\* Nothing that OnceInv speaks of gets worse for the other requests.
LEMMA OthersAtTheSameKey ==
    ASSUME NEW b \in Batches, Others(b), NEW q \in Batches \ {b},
           b \in AtTheSameKey(q)' => b \in AtTheSameKey(q)
    PROVE  /\ stage'[q] = stage[q] /\ CurrentKey(q)' = CurrentKey(q) /\ unique'[q] = unique[q]
           /\ Done(q)' = Done(q)
           /\ AtTheSameKey(q) = {} => AtTheSameKey(q)' = {}
<1>1. \A p \in Batches \ {b} : stage'[p] = stage[p] /\ CurrentKey(p)' = CurrentKey(p)
  BY DEF Others, Unmoved, CurrentKey, Current
<1>2. AtTheSameKey(q)' \subseteq AtTheSameKey(q)
  BY <1>1 DEF AtTheSameKey
<1> QED BY <1>1, <1>2 DEF Others, Unmoved, Done

LEMMA PassedOnce ==
    ASSUME BatchInv, OnceInv, NEW b \in Batches, Others(b), Passes(b)
    PROVE  OnceInv'
<1> DEFINE key == CurrentKey(b)
<1>1. /\ Current(b) \notin unique[b] /\ key = KeyOf(b, Current(b))
      /\ stage'[b] # "storing" /\ unique'[b] = unique[b] \cup {Current(b)}
      /\ todo'[b] = todo[b] \cup {Current(b)} /\ published' = published
      /\ unsure \subseteq unsure' /\ seen \subseteq seen' /\ seen' \subseteq seen \cup {key}
      /\ key \in unsure' \/ (key \in seen' /\ stage[b] = "storing")
  BY CurrentOf DEF Passes
<1>2. ASSUME key \notin unsure'
      PROVE  /\ \A q \in Batches : \A j \in unique[q] : KeyOf(q, j) # key
             /\ \A q \in Batches \ {b} : stage[q] = "storing" => CurrentKey(q) # key
  <2>1. stage[b] = "storing" /\ key \notin unsure
    BY <1>1, <1>2
  <2>2. key \notin seen /\ AtTheSameKey(b) = {}
    BY <2>1 DEF OnceInv
  <2> QED BY <2>1, <2>2 DEF OnceInv, AtTheSameKey
<1>3. \A q \in Batches \ {b} :
        /\ stage'[q] = stage[q] /\ CurrentKey(q)' = CurrentKey(q) /\ unique'[q] = unique[q]
        /\ Done(q)' = Done(q)
        /\ AtTheSameKey(q) = {} => AtTheSameKey(q)' = {}
  BY <1>1, OthersAtTheSameKey DEF AtTheSameKey
<1>4. Done(b)' = Done(b)
  BY <1>1, CurrentOf DEF Done, Passes
<1> HIDE DEF key
<1>5. \A x \in published' : x[2] \in Done(x[1])'
  BY <1>1, <1>3, <1>4 DEF OnceInv, BatchInv, Sets
<1>6. ASSUME NEW q \in Batches, NEW i \in unique'[q] PROVE KeyOf(q, i) \in seen' \cup unsure'
  <2>1. i \in unique[q] \/ (q = b /\ i = Current(b))
    BY <1>1, <1>3, <1>6
  <2> QED BY <1>1, <2>1 DEF OnceInv
<1>7. ASSUME NEW q \in Batches, stage'[q] = "storing", CurrentKey(q)' \notin unsure'
      PROVE  CurrentKey(q)' \notin seen' /\ AtTheSameKey(q)' = {}
  <2>1. q # b
    BY <1>1, <1>7
  <2>2. stage[q] = "storing" /\ CurrentKey(q)' = CurrentKey(q) /\ CurrentKey(q) \notin unsure
    BY <1>1, <1>3, <1>7, <2>1
  <2>3. CurrentKey(q) \notin seen /\ AtTheSameKey(q) = {}
    BY <2>2 DEF OnceInv
  <2>4. CurrentKey(q) # key
    BY <1>1, <1>2, <1>7, <2>1, <2>2
  <2> QED BY <1>1, <1>3, <2>1, <2>2, <2>3, <2>4
<1>8. ASSUME NEW p \in Batches, NEW q \in Batches, NEW i \in unique'[p], NEW j \in unique'[q],
             KeyOf(p, i) = KeyOf(q, j), p # q \/ i # j
      PROVE  KeyOf(p, i) \in unsure'
  <2>1. /\ i \in unique[p] \/ (p = b /\ i = Current(b))
        /\ j \in unique[q] \/ (q = b /\ j = Current(b))
    BY <1>1, <1>3, <1>8
  <2>2. CASE i \in unique[p] /\ j \in unique[q]
    BY <1>1, <1>8, <2>2 DEF OnceInv
  <2>3. CASE i \notin unique[p]
    BY <1>1, <1>2, <1>8, <2>1, <2>3
  <2>4. CASE j \notin unique[q]
    BY <1>1, <1>2, <1>8, <2>1, <2>4
  <2> QED BY <2>2, <2>3, <2>4
<1> QED BY <1>5, <1>6, <1>7, <1>8 DEF OnceInv

\* Where nothing is let through, stored or forgotten, it is enough to look at those that
\* are about to store a key.
LEMMA KeptOnce ==
    ASSUME OnceInv, UNCHANGED <<unique, seen>>, unsure \subseteq unsure',
           \A x \in published' : x[2] \in Done(x[1])',
           \A b \in Batches : stage'[b] = "storing" /\ CurrentKey(b)' \notin unsure' =>
               CurrentKey(b)' \notin seen /\ AtTheSameKey(b)' = {}
    PROVE  OnceInv'
BY DEF OnceInv

LEMMA StoredOnce ==
    ASSUME BatchInv, OnceInv, NEW b \in Batches, Others(b), Stores(b)
    PROVE  OnceInv'
<1>1. /\ CurrentKey(b) \notin seen /\ stage[b] = "looking up" /\ stage'[b] = "storing"
      /\ UNCHANGED <<checked, unique, todo, seen, published>> /\ unsure \subseteq unsure'
      /\ AtTheSameKey(b) = {} \/ CurrentKey(b) \in unsure'
  BY DEF Stores
<1>2. \A q \in Batches : CurrentKey(q)' = CurrentKey(q) /\ Done(q)' = Done(q)
  BY <1>1 DEF CurrentKey, Current, Done
<1>3. \A q \in Batches \ {b} : stage'[q] = stage[q]
  BY DEF Others, Unmoved
<1>4. \A x \in published' : x[2] \in Done(x[1])'
  BY <1>1 DEF OnceInv, Done
<1>5. ASSUME NEW q \in Batches, stage'[q] = "storing", CurrentKey(q)' \notin unsure'
      PROVE  CurrentKey(q)' \notin seen /\ AtTheSameKey(q)' = {}
  <2>1. CASE q = b
    <3>1. AtTheSameKey(b) = {}
      BY <1>1, <1>2, <1>5, <2>1
    <3>2. AtTheSameKey(b)' = AtTheSameKey(b)
      BY <1>2, <1>3 DEF AtTheSameKey
    <3> QED BY <1>1, <1>2, <2>1, <3>1, <3>2
  <2>2. CASE q # b
    <3>1. stage[q] = "storing" /\ CurrentKey(q) \notin unsure
      BY <1>1, <1>2, <1>3, <1>5, <2>2
    <3>2. CurrentKey(q) \notin seen /\ AtTheSameKey(q) = {}
      BY <3>1 DEF OnceInv
    <3>3. CurrentKey(q) # CurrentKey(b)
      <4>1. CASE CurrentKey(b) \in unsure'
        BY <1>2, <1>5, <4>1
      <4>2. CASE AtTheSameKey(b) = {}
        BY <2>2, <3>1, <4>2 DEF AtTheSameKey
      <4> QED BY <1>1, <4>1, <4>2
    <3>4. AtTheSameKey(q)' = {}
      BY <1>2, <1>3, <3>2, <3>3 DEF AtTheSameKey
    <3> QED BY <1>2, <3>2, <3>4
  <2> QED BY <2>1, <2>2
<1> QED BY <1>1, <1>4, <1>5, KeptOnce

LEMMA RefusedOnce ==
    ASSUME BatchInv, OnceInv, NEW b \in Batches, Others(b), Refuses(b) \/ Turns(b)
    PROVE  OnceInv'
<1>1. /\ UNCHANGED <<seen, published, unsure>>
      /\ stage[b] # "storing" /\ stage'[b] # "storing"
      /\ unique'[b] = unique[b] /\ todo'[b] = todo[b]
  BY DEF Refuses, Turns
<1>2. \A q \in Batches \ {b} :
        /\ stage'[q] = stage[q] /\ CurrentKey(q)' = CurrentKey(q) /\ unique'[q] = unique[q]
        /\ Done(q)' = Done(q)
        /\ AtTheSameKey(q) = {} => AtTheSameKey(q)' = {}
  BY <1>1, OthersAtTheSameKey DEF AtTheSameKey
<1>3. \A q \in Batches : unique'[q] = unique[q] /\ Done(q)' = Done(q)
  BY <1>1, <1>2 DEF Done
<1> QED BY <1>1, <1>2, <1>3 DEF OnceInv, BatchInv, Sets

LEMMA PublishedInDone ==
    ASSUME BatchInv, OnceInv, NEW b \in Batches, Others(b),
           NEW chunk, NEW out, NEW sent, NEW lost, Leaves(b, chunk, out, sent, lost)
    PROVE  OnceInv'
<1>1. /\ chunk \subseteq todo[b] /\ out \subseteq chunk /\ todo'[b] = todo[b] \ chunk
      /\ published' = published \cup ({b} \X out)
      /\ UNCHANGED <<stage, checked, unique, seen, unsure>>
  BY DEF Leaves
<1>2. Done(b) \subseteq Done(b)' /\ out \subseteq Done(b)'
  BY <1>1 DEF Done, BatchInv, CountsOf
<1>3. \A q \in Batches : Done(q) \subseteq Done(q)'
  BY <1>1, <1>2 DEF Done, Others, Unmoved
<1>4. \A x \in published' : x[2] \in Done(x[1])'
  BY <1>1, <1>2, <1>3 DEF OnceInv, BatchInv, Sets
<1>5. \A q \in Batches : CurrentKey(q)' = CurrentKey(q) /\ AtTheSameKey(q)' = AtTheSameKey(q)
  BY <1>1 DEF CurrentKey, Current, AtTheSameKey
<1>6. \A q \in Batches : stage'[q] = "storing" /\ CurrentKey(q)' \notin unsure' =>
          CurrentKey(q)' \notin seen /\ AtTheSameKey(q)' = {}
  BY <1>1, <1>5 DEF OnceInv
<1> QED BY <1>1, <1>4, <1>6, KeptOnce

LEMMA LapsedOnce ==
    ASSUME OnceInv, NEW k \in BatchKeys, Lapses(k)
    PROVE  OnceInv'
BY DEF Lapses, OnceInv, Done, CurrentKey, Current, AtTheSameKey

LEMMA DiedOnce ==
    ASSUME BatchInv, OnceInv, NEW dying \in SUBSET Batches, Die(dying)
    PROVE  OnceInv'
<1>1. /\ UNCHANGED <<checked, unique, seen, published, unsure>>
      /\ \A b \in Batches : stage'[b] = "storing" => stage[b] = "storing"
  BY DEF Die
<1>2. \A b \in Batches : CurrentKey(b)' = CurrentKey(b) /\ AtTheSameKey(b)' \subseteq AtTheSameKey(b)
  BY <1>1 DEF CurrentKey, Current, AtTheSameKey
<1>3. \A b \in Batches : Done(b) \subseteq Done(b)'
  <2> TAKE b \in Batches
  <2>1. CASE b \in dying
    BY <2>1, DyingCounts
  <2>2. CASE b \notin dying
    BY <2>2 DEF Die, Done
  <2> QED BY <2>1, <2>2
<1>4. \A x \in published' : x[2] \in Done(x[1])'
  BY <1>1, <1>3 DEF OnceInv, BatchInv, Sets
<1>5. \A b \in Batches : stage'[b] = "storing" /\ CurrentKey(b)' \notin unsure' =>
          CurrentKey(b)' \notin seen /\ AtTheSameKey(b)' = {}
  BY <1>1, <1>2 DEF OnceInv
<1> QED BY <1>1, <1>4, <1>5, KeptOnce

LEMMA NextOnceInv ==
    ASSUME BatchInv, OnceInv, [Next]_vars
    PROVE  OnceInv'
<1>1. Step
  BY StepMoves
<1>2. ASSUME NEW b \in Batches, Others(b), Moves(b) PROVE OnceInv'
  BY <1>2, PassedOnce, RefusedOnce, StoredOnce, PublishedInDone DEF Moves, Publishes
<1>3. CASE Still
  BY <1>3 DEF Still, OnceInv, Done, CurrentKey, Current, AtTheSameKey
<1> QED BY <1>1, <1>2, <1>3, LapsedOnce, DiedOnce DEF Step

-----------------------------------------------------------------------------
(* What is refused is covered *)

Covered(k) ==
    \/ k \in missed
    \/ \E x \in published : KeyOf(x[1], x[2]) = k
    \/ \E p \in Batches : \E j \in todo[p] : KeyOf(p, j) = k

\* What Redis has seen, and what was refused for it, is covered.
CoverInv ==
    /\ \A k \in seen : Covered(k)
    /\ \A b \in Batches : \A i \in 1..checked[b] \ unique[b] : Covered(KeyOf(b, i))

LEMMA CoverImplies ==
    ASSUME CoverInv
    PROVE  RefusedIsCovered
BY DEF CoverInv, RefusedIsCovered, Covered

LEMMA HistoryGrows ==
    ASSUME Step
    PROVE  missed \subseteq missed' /\ published \subseteq published'
<1>1. ASSUME NEW b \in Batches, Moves(b)
      PROVE  missed \subseteq missed' /\ published \subseteq published'
  <2>1. CASE Passes(b)
    BY <2>1 DEF Passes
  <2>2. CASE Refuses(b) \/ Stores(b) \/ Turns(b)
    BY <2>2 DEF Refuses, Stores, Turns
  <2>3. CASE Publishes(b)
    BY <2>3 DEF Publishes, Leaves
  <2> QED BY <1>1, <2>1, <2>2, <2>3 DEF Moves
<1>2. ASSUME NEW dying, Die(dying)
      PROVE  missed \subseteq missed' /\ published \subseteq published'
  BY <1>2 DEF Die
<1>3. ASSUME NEW k, Lapses(k)
      PROVE  missed \subseteq missed' /\ published \subseteq published'
  BY <1>3 DEF Lapses
<1>4. CASE Still
  BY <1>4 DEF Still
<1> QED BY <1>1, <1>2, <1>3, <1>4 DEF Step

\* What was to be published is published, missed, or still to be published.
LEMMA StaysCovered ==
    ASSUME Step, NEW k, Covered(k)
    PROVE  Covered(k)'
<1> SUFFICES ASSUME missed \subseteq missed', published \subseteq published',
                    NEW p \in Batches, NEW j \in todo[p], KeyOf(p, j) = k
             PROVE  Covered(k)'
  <2>1. missed \subseteq missed' /\ published \subseteq published'
    BY HistoryGrows
  <2> QED BY <2>1 DEF Covered
<1>1. ASSUME NEW b \in Batches, Others(b), Moves(b) PROVE Covered(k)'
  <2>1. CASE j \in todo'[p]
    BY <2>1 DEF Covered
  <2>2. CASE j \notin todo'[p]
    <3>1. p = b /\ Publishes(b)
      BY <1>1, <2>2 DEF Others, Unmoved, Moves, Passes, Refuses, Stores, Turns
    <3>2. PICK chunk, out, sent, lost : Leaves(b, chunk, out, sent, lost)
      BY <3>1 DEF Publishes
    <3>3. /\ todo'[b] = todo[b] \ chunk /\ published' = published \cup ({b} \X out)
          /\ missed' = missed \cup {KeyOf(b, i) : i \in chunk \ out}
      BY <3>2 DEF Leaves
    <3>4. j \in chunk
      BY <2>2, <3>1, <3>3
    <3>5. CASE j \in out
      <4>1. <<b, j>> \in published' /\ <<b, j>>[1] = b /\ <<b, j>>[2] = j
        BY <3>3, <3>5
      <4> QED BY <3>1, <4>1 DEF Covered
    <3>6. CASE j \notin out
      BY <3>1, <3>3, <3>4, <3>6 DEF Covered
    <3> QED BY <3>5, <3>6
  <2> QED BY <2>1, <2>2
<1>2. ASSUME NEW dying \in SUBSET Batches, Die(dying) PROVE Covered(k)'
  <2>1. CASE p \in dying
    BY <1>2, <2>1 DEF Die, Covered
  <2>2. CASE p \notin dying
    BY <1>2, <2>2 DEF Die, Covered
  <2> QED BY <2>1, <2>2
<1>3. CASE \/ \E q \in BatchKeys : Lapses(q)
           \/ Still
  BY <1>3 DEF Lapses, Still, Covered
<1> QED BY <1>1, <1>2, <1>3 DEF Step

\* A notification that goes on to the next is in the list of its request, or covered.
LEMMA AdvanceCovered ==
    ASSUME BatchInv, CoverInv, Step, NEW b \in Batches, Others(b), Passes(b) \/ Refuses(b)
    PROVE  CoverInv'
<1> PICK c : c = Current(b)
  OBVIOUS
<1>1. c = checked[b] + 1 /\ checked[b] \in Nat /\ CurrentKey(b) = KeyOf(b, c)
  BY CurrentOf DEF Passes, Refuses
<1>2. checked'[b] = c
  BY DEF Passes, Refuses
<1>3. 1..c = 1..checked[b] \cup {c}
  BY <1>1
<1>4. \A k \in seen : Covered(k)'
  BY StaysCovered DEF CoverInv
<1>5. \A q \in Batches : \A i \in 1..checked[q] \ unique[q] : Covered(KeyOf(q, i))'
  <2> TAKE q \in Batches
  <2> TAKE i \in 1..checked[q] \ unique[q]
  <2> DEFINE k == KeyOf(q, i)
  <2>1. Covered(k)
    BY DEF CoverInv
  <2> HIDE DEF k
  <2>2. Covered(k)'
    BY <2>1, StaysCovered
  <2> QED BY <2>2 DEF k, Covered
<1>6. CASE Passes(b)
  <2>1. /\ unique'[b] = unique[b] \cup {c} /\ c \in todo'[b]
        /\ seen' \subseteq seen \cup {CurrentKey(b)}
    BY <1>6 DEF Passes
  <2>2. Covered(KeyOf(b, c))'
    BY <1>1, <2>1 DEF Covered
  <2>3. \A k \in seen' : Covered(k)'
    BY <1>1, <1>4, <2>1, <2>2
  <2>4. \A q \in Batches : \A i \in 1..checked'[q] \ unique'[q] : Covered(KeyOf(q, i))'
    BY <1>2, <1>3, <1>5, <2>1 DEF Others, Unmoved
  <2> QED BY <2>3, <2>4 DEF CoverInv
<1>7. CASE Refuses(b)
  <2>1. CurrentKey(b) \in seen /\ unique'[b] = unique[b] /\ seen' = seen
    BY <1>7 DEF Refuses
  <2>2. Covered(KeyOf(b, c))'
    BY <1>1, <1>4, <2>1
  <2>3. \A q \in Batches : \A i \in 1..checked'[q] \ unique'[q] : Covered(KeyOf(q, i))'
    BY <1>2, <1>3, <1>5, <2>1, <2>2 DEF Others, Unmoved
  <2> QED BY <1>4, <2>1, <2>3 DEF CoverInv
<1> QED BY <1>6, <1>7

LEMMA NextCoverInv ==
    ASSUME BatchInv, CoverInv, [Next]_vars
    PROVE  CoverInv'
<1>1. Step
  BY StepMoves
<1>2. CASE \E b \in Batches : Others(b) /\ (Passes(b) \/ Refuses(b))
  BY <1>1, <1>2, AdvanceCovered
<1>3. CASE seen' \subseteq seen /\ \A b \in Batches : checked'[b] = checked[b] /\ unique'[b] = unique[b]
  <2>1. \A k \in seen' : Covered(k)'
    BY <1>1, <1>3, StaysCovered DEF CoverInv
  <2>2. ASSUME NEW b \in Batches, NEW i \in 1..checked'[b] \ unique'[b]
        PROVE  Covered(KeyOf(b, i))'
    <3> DEFINE k == KeyOf(b, i)
    <3>1. Covered(k)
      BY <1>3, <2>2 DEF CoverInv
    <3> HIDE DEF k
    <3>2. Covered(k)'
      BY <1>1, <3>1, StaysCovered
    <3> QED BY <3>2 DEF k, Covered
  <2> QED BY <2>1, <2>2 DEF CoverInv
<1>4. \/ \E b \in Batches : Others(b) /\ (Passes(b) \/ Refuses(b))
      \/ seen' \subseteq seen /\ \A b \in Batches : checked'[b] = checked[b] /\ unique'[b] = unique[b]
  <2>1. ASSUME NEW b \in Batches, Others(b), Stores(b) \/ Turns(b) \/ Publishes(b)
        PROVE  seen' \subseteq seen /\ \A q \in Batches : checked'[q] = checked[q] /\ unique'[q] = unique[q]
    BY <2>1 DEF Stores, Turns, Publishes, Leaves
  <2>2. CASE \/ \E k \in BatchKeys : Lapses(k)
             \/ \E dying \in SUBSET Batches : Die(dying)
             \/ Still
    BY <2>2 DEF Lapses, Die, Still
  <2> QED BY <1>1, <2>1, <2>2 DEF Step, Moves
<1> QED BY <1>2, <1>3, <1>4

-----------------------------------------------------------------------------
(* The counts of an answer are true *)

\* While nothing has failed all that is done has reached its queue, and the counts add
\* up to what is done unless a channel broke.
CountedOf(b) ==
    /\ failed[b] = 0 => \A i \in Done(b) : <<b, i>> \in published
    /\ b \notin broken => successful[b] + failed[b] = Cardinality(Done(b))
    /\ stage[b] = "answered" => todo[b] = {}

CountedInv == \A b \in Batches : stage[b] # "gone" => CountedOf(b)

LEMMA CountedImplies ==
    ASSUME CountedInv
    PROVE  AnswerIsHonest
<1> SUFFICES ASSUME NEW b \in Batches, stage[b] = "answered"
             PROVE  /\ failed[b] = 0 => \A i \in unique[b] : <<b, i>> \in published
                    /\ b \notin broken => successful[b] + failed[b] = Cardinality(unique[b])
  BY DEF AnswerIsHonest
<1>1. CountedOf(b) /\ todo[b] = {}
  BY DEF CountedInv, CountedOf
<1>2. Done(b) = unique[b]
  BY <1>1 DEF Done
<1> QED BY <1>1, <1>2 DEF CountedOf

LEMMA KeptCounted ==
    ASSUME NEW b, CountedOf(b), Done(b)' = Done(b), successful'[b] = successful[b],
           failed'[b] = failed[b], published \subseteq published', broken \subseteq broken',
           stage'[b] = "answered" => todo'[b] = {}
    PROVE  CountedOf(b)'
<1>1. failed'[b] = 0 => \A i \in Done(b)' : <<b, i>> \in published'
  BY DEF CountedOf
<1>2. b \notin broken' => successful'[b] + failed'[b] = Cardinality(Done(b)')
  BY DEF CountedOf
<1> QED BY <1>1, <1>2 DEF CountedOf

LEMMA LeavesCounted ==
    ASSUME BatchInv, NEW b \in Batches, CountedOf(b),
           NEW chunk, NEW out, NEW sent, NEW lost, Leaves(b, chunk, out, sent, lost)
    PROVE  CountedOf(b)'
<1>1. /\ stage'[b] = "publishing" /\ sent \in Nat /\ lost \in Nat
      /\ lost = 0 => out = chunk
      /\ b \notin broken' => sent + lost = Cardinality(chunk)
      /\ successful'[b] = successful[b] + sent /\ failed'[b] = failed[b] + lost
      /\ published' = published \cup ({b} \X out) /\ broken \subseteq broken'
  BY DEF Leaves
<1>2. /\ Done(b)' = Done(b) \cup chunk
      /\ Cardinality(chunk) \in Nat /\ Cardinality(Done(b)) \in Nat
      /\ Cardinality(Done(b) \cup chunk) = Cardinality(Done(b)) + Cardinality(chunk)
  BY DoneGrows, FiniteIndices DEF Leaves, Done
<1>3. successful[b] \in Nat /\ failed[b] \in Nat
  BY DEF BatchInv, Functional
<1>4. ASSUME failed'[b] = 0, NEW i \in Done(b)' PROVE <<b, i>> \in published'
  <2>1. failed[b] = 0 /\ lost = 0
    BY <1>1, <1>3, <1>4
  <2>2. i \in Done(b) \/ i \in out
    BY <1>1, <1>2, <1>4, <2>1
  <2> QED BY <1>1, <2>1, <2>2 DEF CountedOf
<1>5. ASSUME b \notin broken' PROVE successful'[b] + failed'[b] = Cardinality(Done(b)')
  <2>1. successful[b] + failed[b] = Cardinality(Done(b)) /\ sent + lost = Cardinality(chunk)
    BY <1>1, <1>5 DEF CountedOf
  <2> QED BY <1>1, <1>2, <1>3, <2>1
<1> QED BY <1>1, <1>4, <1>5 DEF CountedOf

LEMMA NextCountedInv ==
    ASSUME BatchInv, CountedInv, [Next]_vars
    PROVE  CountedInv'
<1>1. Step
  BY StepMoves
<1>2. published \subseteq published' /\ broken \subseteq broken'
  <2>1. ASSUME NEW b \in Batches, Moves(b) PROVE broken \subseteq broken'
    BY <2>1 DEF Moves, Passes, Refuses, Stores, Turns, Publishes, Leaves
  <2> QED BY <1>1, <2>1, HistoryGrows DEF Step, Die, Lapses, Still
<1> SUFFICES ASSUME NEW b \in Batches, stage'[b] # "gone" PROVE CountedOf(b)'
  BY DEF CountedInv
<1>3. CASE Unmoved(b) /\ stage[b] # "gone"
  <2>1. Done(b)' = Done(b) /\ CountedOf(b)
    BY <1>3 DEF Unmoved, Done, CountedInv
  <2> QED BY <1>2, <1>3, <2>1, KeptCounted DEF Unmoved, CountedOf
<1>4. CASE Moves(b)
  <2>1. stage[b] # "gone" /\ CountedOf(b)
    BY <1>4 DEF Moves, Passes, Refuses, Stores, Turns, Publishes, Leaves, CountedInv
  <2>2. CASE Passes(b)
    <3>1. Done(b)' = Done(b)
      BY <2>2, CurrentOf DEF Passes, Done
    <3> QED BY <1>2, <2>1, <2>2, <3>1, KeptCounted DEF Passes
  <2>3. CASE Refuses(b)
    <3>1. Done(b)' = Done(b) /\ successful'[b] = successful[b] /\ failed'[b] = failed[b]
          /\ stage'[b] # "answered"
      BY <2>3 DEF Refuses, Done
    <3> QED BY <1>2, <2>1, <3>1, KeptCounted
  <2>4. CASE Stores(b) \/ Turns(b)
    <3>1. Done(b)' = Done(b) /\ successful'[b] = successful[b] /\ failed'[b] = failed[b]
          /\ (stage'[b] = "answered" => todo'[b] = {})
      BY <2>4 DEF Stores, Turns, Done
    <3> QED BY <1>2, <2>1, <3>1, KeptCounted
  <2>5. CASE Publishes(b)
    BY <2>1, <2>5, LeavesCounted DEF Publishes
  <2> QED BY <1>4, <2>2, <2>3, <2>4, <2>5 DEF Moves
<1>5. Moves(b) \/ (Unmoved(b) /\ stage[b] # "gone")
  <2>1. ASSUME NEW p \in Batches, Others(p), Moves(p)
        PROVE  Moves(b) \/ (Unmoved(b) /\ stage[b] # "gone")
    BY <2>1 DEF Others, Unmoved
  <2>2. ASSUME NEW k, Lapses(k) PROVE Unmoved(b) /\ stage[b] # "gone"
    BY <2>2 DEF Lapses, Unmoved
  <2>3. ASSUME NEW dying, Die(dying) PROVE Unmoved(b) /\ stage[b] # "gone"
    BY <2>3 DEF Die, Unmoved
  <2>4. CASE Still
    BY <2>4 DEF Still, Unmoved
  <2> QED BY <1>1, <2>1, <2>2, <2>3, <2>4 DEF Step
<1> QED BY <1>3, <1>4, <1>5

LEMMA InitBatches ==
    ASSUME Init
    PROVE  OnceInv /\ CoverInv /\ CountedInv
<1>1. BatchInit
  BY DEF Init
<1>2. \A b \in Batches : unique[b] = {} /\ todo[b] = {} /\ checked[b] = 0 /\ stage[b] = "waiting"
                         /\ successful[b] = 0 /\ failed[b] = 0
  BY <1>1 DEF BatchInit
<1>3. published = {} /\ seen = {}
  BY <1>1 DEF BatchInit
<1>4. OnceInv
  BY <1>2, <1>3 DEF OnceInv
<1>5. CoverInv
  BY <1>2, <1>3 DEF CoverInv
<1>6. ASSUME NEW b \in Batches PROVE CountedOf(b)
  <2>1. Done(b) = {} /\ Cardinality(Done(b)) = 0
    BY <1>2, FS_EmptySet DEF Done
  <2> QED BY <1>2, <2>1 DEF CountedOf
<1> QED BY <1>4, <1>5, <1>6 DEF CountedInv

-----------------------------------------------------------------------------
(* What a step is to the announcements *)

\* A step of the batches, of a request for an announcement, of a run of the cron job, or
\* of a cancellation; or a crash.
CastCases ==
    \/ \E a \in Announcements, ok \in BOOLEAN : Create(a, ok)
    \/ \E a \in Announcements, ok \in BOOLEAN : Record(a, ok)
    \/ \E a \in Announcements, u \in Users, ok \in BOOLEAN : QueueFor(a, u, ok)
    \/ \E a \in Announcements : AnswerBroadcast(a)
    \/ \E a \in Announcements : BecomesDue(a)
    \/ \E a \in Announcements : ReadCancelled(a)
    \/ \E a \in Announcements, ok \in BOOLEAN : Cancel(a, ok)
    \/ \E c \in Crons, ok \in BOOLEAN : FindReady(c, ok)
    \/ \E c \in Crons, a \in Announcements, outcome \in {"found", "no roles", "failed"} :
           TakeNext(c, a, outcome)
    \/ \E c \in Crons : EndOfBatch(c) \/ RecordFound(c)
    \/ \E c \in Crons, ok \in BOOLEAN : Activate(c, ok)
    \/ \E c \in Crons, ok \in BOOLEAN : MarkFailed(c, ok)
    \/ \E r \in Replicas : Crash(r)
    \/ UNCHANGED castVars

LEMMA NextCases ==
    ASSUME [Next]_vars
    PROVE  CastCases
<1>1. CASE BatchNext /\ BatchesOnly
  BY <1>1 DEF BatchesOnly, CastCases
<1>2. ASSUME NEW a \in Announcements, CastStep(a) PROVE CastCases
  BY <1>2 DEF CastStep, CastCases
<1>3. ASSUME NEW c \in Crons, CronStep(c) PROVE CastCases
  BY <1>3 DEF CronStep, CastCases
<1>4. ASSUME NEW a \in Announcements,
             \/ \E ok \in BOOLEAN : Create(a, ok) \/ Cancel(a, ok)
             \/ BecomesDue(a) \/ ReadCancelled(a)
      PROVE  CastCases
  BY <1>4 DEF CastCases
<1>5. ASSUME NEW r \in Replicas, Crash(r) PROVE CastCases
  BY <1>5 DEF CastCases
<1>6. CASE UNCHANGED vars
  BY <1>6 DEF vars, CastCases
<1> QED BY <1>1, <1>2, <1>3, <1>4, <1>5, <1>6 DEF Next

-----------------------------------------------------------------------------
(* An answered broadcast is complete *)

Requests == {"none", "recording", "queueing", "answered", "failed", "gone"}

\* Only broadcasts that are not scheduled are recorded and queued, for their targets.
CastInv ==
    /\ request \in [Announcements -> Requests]
    /\ unserved \in [Announcements -> SUBSET Users]
    /\ messages \subseteq records
    /\ \A a \in Announcements :
         /\ InProgress(a) => a \notin Scheduled
         /\ request[a] = "recording" => unserved[a] = Target[a]
         /\ request[a] = "queueing" => unserved[a] \subseteq Target[a]
    /\ \A a \in Announcements \ Scheduled :
         /\ request[a] = "answered" => unserved[a] = {}
         /\ request[a] \in {"queueing", "answered"} => \A u \in Target[a] :
                <<a, u>> \in records /\ (u \in unserved[a] \/ <<a, u>> \in messages \cup unqueued)

LEMMA CastImplies ==
    ASSUME CastInv
    PROVE  BroadcastIsComplete
BY DEF CastInv, BroadcastIsComplete

LEMMA NextCastInv ==
    ASSUME CastInv, [Next]_vars
    PROVE  CastInv'
<1>0. CastCases
  BY NextCases
<1>t. \A a \in Announcements : Target[a] \subseteq Users
  BY BroadcastAssumption
<1>1. ASSUME NEW a \in Announcements, NEW ok \in BOOLEAN, Create(a, ok) PROVE CastInv'
  <2>1. request[a] = "none" /\ UNCHANGED <<records, messages, unqueued>>
    BY <1>1 DEF Create, castHistory
  <2>2. CASE ~ok
    BY <1>1, <2>1, <2>2 DEF Create, RequestAt, CastInv, Requests, InProgress
  <2>3. CASE ok /\ a \in Scheduled
    BY <1>1, <2>1, <2>3 DEF Create, RequestAt, CastInv, Requests, InProgress
  <2>4. CASE ok /\ a \notin Scheduled
    <3>1. /\ request' = [request EXCEPT ![a] = "recording"]
          /\ unserved' = [unserved EXCEPT ![a] = Target[a]]
      BY <1>1, <2>4 DEF Create, RequestAt
    <3> QED BY <1>t, <2>1, <2>4, <3>1 DEF CastInv, Requests, InProgress
  <2> QED BY <2>2, <2>3, <2>4
<1>2. ASSUME NEW a \in Announcements, NEW ok \in BOOLEAN, Record(a, ok) PROVE CastInv'
  <2>1. /\ request[a] = "recording" /\ UNCHANGED <<unserved, messages, unqueued>>
        /\ request' = [request EXCEPT ![a] = IF ok THEN "queueing" ELSE "failed"]
    BY <1>2 DEF Record, RequestAt, AfterRecording
  <2>2. PICK some \in SUBSET Target[a] : (ok => some = Target[a]) /\ records' = records \cup ({a} \X some)
    BY <1>2 DEF Record
  <2>3. CASE ok
    <3>1. \A u \in Target[a] : <<a, u>> \in records'
      BY <2>2, <2>3
    <3>2. request' = [request EXCEPT ![a] = "queueing"] /\ records \subseteq records'
      BY <2>1, <2>2, <2>3
    <3>3. unserved[a] = Target[a] /\ a \notin Scheduled
      BY <2>1 DEF CastInv, InProgress
    <3> QED BY <2>1, <3>1, <3>2, <3>3 DEF CastInv, Requests, InProgress
  <2>4. CASE ~ok
    <3>1. request' = [request EXCEPT ![a] = "failed"] /\ records \subseteq records'
      BY <2>1, <2>2, <2>4
    <3> QED BY <2>1, <3>1 DEF CastInv, Requests, InProgress
  <2> QED BY <2>3, <2>4
<1>3. ASSUME NEW a \in Announcements, NEW u \in Users, NEW ok \in BOOLEAN, QueueFor(a, u, ok)
      PROVE  CastInv'
  <2>1. /\ request[a] = "queueing" /\ u \in unserved[a] /\ UNCHANGED <<request, records>>
        /\ unserved' = [unserved EXCEPT ![a] = @ \ {u}]
        /\ messages \subseteq messages' /\ messages' \subseteq messages \cup {<<a, u>>}
        /\ unqueued \subseteq unqueued' /\ <<a, u>> \in messages' \cup unqueued'
    BY <1>3 DEF QueueFor
  <2>2. a \in Announcements \ Scheduled /\ u \in Target[a]
    BY <2>1 DEF CastInv, InProgress
  <2>3. <<a, u>> \in records
    BY <2>1, <2>2 DEF CastInv
  <2>4. \A b \in Announcements : unserved'[b] \subseteq unserved[b] /\ (b # a => unserved'[b] = unserved[b])
    BY <2>1 DEF CastInv
  <2>5. \A w \in Users \ {u} : w \in unserved[a] => w \in unserved'[a]
    BY <2>1 DEF CastInv
  <2>6. ASSUME NEW b \in Announcements \ Scheduled, request'[b] \in {"queueing", "answered"},
               NEW w \in Target[b]
        PROVE  <<b, w>> \in records' /\ (w \in unserved'[b] \/ <<b, w>> \in messages' \cup unqueued')
    <3>1. <<b, w>> \in records /\ (w \in unserved[b] \/ <<b, w>> \in messages \cup unqueued)
      BY <2>1, <2>6 DEF CastInv
    <3>2. w \in Users
      BY <1>t, <2>6
    <3> QED BY <2>1, <2>4, <2>5, <3>1, <3>2
  <2>7. unserved' \in [Announcements -> SUBSET Users]
    BY <2>1 DEF CastInv
  <2>8. messages' \subseteq records'
    BY <2>1, <2>3 DEF CastInv
  <2>9. \A b \in Announcements :
          /\ InProgress(b)' => b \notin Scheduled
          /\ request'[b] = "recording" => unserved'[b] = Target[b]
          /\ request'[b] = "queueing" => unserved'[b] \subseteq Target[b]
          /\ b \notin Scheduled /\ request'[b] = "answered" => unserved'[b] = {}
    BY <2>1, <2>4 DEF CastInv, InProgress
  <2> QED BY <2>1, <2>6, <2>7, <2>8, <2>9 DEF CastInv
<1>4. ASSUME NEW a \in Announcements, AnswerBroadcast(a) PROVE CastInv'
  <2>1. /\ request[a] = "queueing" /\ unserved[a] = {} /\ request' = [request EXCEPT ![a] = "answered"]
        /\ UNCHANGED <<unserved, records, messages, unqueued>>
    BY <1>4 DEF AnswerBroadcast, RequestAt, castHistory
  <2> QED BY <2>1 DEF CastInv, Requests, InProgress
<1>5. ASSUME NEW r \in Replicas, Crash(r) PROVE CastInv'
  <2> DEFINE dying == {a \in Announcements : Host[a] = r /\ InProgress(a)}
  <2>1. /\ request' = [a \in Announcements |-> IF a \in dying THEN "gone" ELSE request[a]]
        /\ unserved' = [a \in Announcements |-> IF a \in dying THEN {} ELSE unserved[a]]
        /\ UNCHANGED <<records, messages, unqueued>>
    BY <1>5 DEF Crash, castHistory
  <2> HIDE DEF dying
  <2>2. \A a \in Announcements :
          \/ request'[a] = "gone"
          \/ request'[a] = request[a] /\ unserved'[a] = unserved[a]
    BY <2>1
  <2>3. request' \in [Announcements -> Requests]
    BY <2>1 DEF CastInv, Requests
  <2>4. unserved' \in [Announcements -> SUBSET Users]
    BY <2>1 DEF CastInv
  <2> QED BY <2>1, <2>2, <2>3, <2>4 DEF CastInv, InProgress
<1>6. CASE UNCHANGED <<request, unserved, records, messages, unqueued>>
  BY <1>6 DEF CastInv, InProgress
<1>7. ASSUME NEW a, \/ BecomesDue(a) \/ ReadCancelled(a)
                    \/ \E ok \in BOOLEAN : Cancel(a, ok)
      PROVE  UNCHANGED <<request, unserved, records, messages, unqueued>>
  BY <1>7 DEF BecomesDue, ReadCancelled, Cancel, castRequest, castHistory
<1>8. ASSUME CronOnly PROVE UNCHANGED <<request, unserved, records, messages, unqueued>>
  BY <1>8 DEF CronOnly, castRequest, castHistory
<1>9. ASSUME NEW c,
             \/ EndOfBatch(c) \/ RecordFound(c)
             \/ \E ok \in BOOLEAN : FindReady(c, ok) \/ Activate(c, ok) \/ MarkFailed(c, ok)
             \/ \E a, outcome : TakeNext(c, a, outcome)
      PROVE  CronOnly
  BY <1>9 DEF FindReady, TakeNext, EndOfBatch, RecordFound, Activate, MarkFailed
<1>10. CASE UNCHANGED castVars
  BY <1>6, <1>10 DEF castVars
<1>11. CASE \E c \in Crons :
               \/ EndOfBatch(c) \/ RecordFound(c)
               \/ \E ok \in BOOLEAN : FindReady(c, ok) \/ Activate(c, ok) \/ MarkFailed(c, ok)
               \/ \E a, outcome : TakeNext(c, a, outcome)
  BY <1>6, <1>8, <1>9, <1>11
<1>12. CASE \E a \in Announcements : \/ BecomesDue(a) \/ ReadCancelled(a)
                                     \/ \E ok \in BOOLEAN : Cancel(a, ok)
  BY <1>6, <1>7, <1>12
<1> QED BY <1>0, <1>1, <1>2, <1>3, <1>4, <1>5, <1>10, <1>11, <1>12 DEF CastCases

-----------------------------------------------------------------------------
(* Types of the announcements *)

Runs == {"resting", "next", "recording", "activating", "failing"}

RunTypes ==
    /\ run \in [Crons -> Runs]
    /\ batch \in [Crons -> SUBSET Announcements]
    /\ current \in [Crons -> Announcements \cup {None}]
    /\ reached \in [Crons -> SUBSET Users]

CastTypes ==
    /\ status \in [Announcements -> Statuses]
    /\ due \subseteq Scheduled /\ cancelling \subseteq Announcements
    /\ RunTypes
    /\ \A h \in {records, messages, unqueued} : h \subseteq Announcements \X Users
    /\ raced \subseteq Announcements

LEMMA NextCastTypes ==
    ASSUME CastInv, CastTypes, [Next]_vars
    PROVE  CastTypes'
<1>0. CastCases
  BY NextCases
<1>t. /\ \A a \in Announcements : Target[a] \subseteq Users
      /\ \A a \in Announcements : ByRole[a] \subseteq Users /\ Named[a] \subseteq Users
      /\ Scheduled \subseteq Announcements
  BY BroadcastAssumption
<1>1. ASSUME NEW a \in Announcements, NEW ok \in BOOLEAN, Create(a, ok) PROVE CastTypes'
  <2>1. UNCHANGED <<due, castRun, cancelling, castHistory, raced>>
    BY <1>1 DEF Create
  <2>2. status' = status \/ (\E s \in {"scheduled", "pending"} : status' = [status EXCEPT ![a] = s])
    BY <1>1 DEF Create
  <2>3. status' \in [Announcements -> Statuses]
    BY <2>2 DEF CastTypes, Statuses
  <2> QED BY <2>1, <2>3 DEF CastTypes, castRun, castHistory, RunTypes
<1>2. ASSUME NEW a \in Announcements, NEW ok \in BOOLEAN, Record(a, ok) PROVE CastTypes'
  <2>1. PICK some \in SUBSET Target[a] : records' = records \cup ({a} \X some)
    BY <1>2 DEF Record
  <2>2. records' \subseteq Announcements \X Users
    BY <1>t, <2>1 DEF CastTypes
  <2> QED BY <1>2, <2>2 DEF Record, CastTypes, castRun, RunTypes
<1>3. ASSUME NEW a \in Announcements, NEW u \in Users, NEW ok \in BOOLEAN, QueueFor(a, u, ok)
      PROVE  CastTypes'
  <2>1. messages' \subseteq Announcements \X Users /\ unqueued' \subseteq Announcements \X Users
    BY <1>3 DEF QueueFor, CastTypes
  <2> QED BY <1>3, <2>1 DEF QueueFor, CastTypes, castRun, RunTypes
<1>4. ASSUME NEW a \in Announcements, AnswerBroadcast(a) PROVE CastTypes'
  BY <1>4 DEF AnswerBroadcast, CastTypes, castRun, castHistory, RunTypes
<1>5. ASSUME NEW a \in Announcements, BecomesDue(a) \/ ReadCancelled(a) PROVE CastTypes'
  BY <1>5 DEF BecomesDue, ReadCancelled, CastTypes, castRun, castHistory, RunTypes
<1>6. ASSUME NEW a \in Announcements, NEW ok \in BOOLEAN, Cancel(a, ok) PROVE CastTypes'
  <2>1. status' \in [Announcements -> Statuses]
    BY <1>6 DEF Cancel, CastTypes, Statuses
  <2> QED BY <1>6, <2>1 DEF Cancel, CastTypes, castRun, castHistory, RunTypes
<1>7. ASSUME NEW c \in Crons, NEW ok \in BOOLEAN, FindReady(c, ok) PROVE CastTypes'
  <2>1. Ready \in SUBSET Announcements
    BY <1>t DEF Ready, CastTypes
  <2>2. RunTypes'
    BY <1>7, <2>1 DEF FindReady, RunAt, CastTypes, RunTypes, Runs
  <2> QED BY <1>7, <2>2 DEF FindReady, CronOnly, castHistory, CastTypes
<1>8. ASSUME NEW c \in Crons, NEW a \in Announcements, NEW outcome, TakeNext(c, a, outcome)
      PROVE  CastTypes'
  <2> DEFINE who == CASE outcome = "found"    -> ByRole[a] \cup Named[a]
                      [] outcome = "no roles" -> Named[a]
                      [] OTHER                -> {}
  <2>1. /\ batch' = [batch EXCEPT ![c] = @ \ {a}] /\ current' = [current EXCEPT ![c] = a]
        /\ reached' = [reached EXCEPT ![c] = who]
        /\ run' = [run EXCEPT ![c] = IF outcome = "failed" THEN "failing" ELSE "recording"]
        /\ CronOnly /\ UNCHANGED status
    BY <1>8 DEF TakeNext, RunAt
  <2>2. who \in SUBSET Users
    BY <1>t
  <2> HIDE DEF who
  <2>3. RunTypes'
    BY <2>1, <2>2 DEF CastTypes, RunTypes, Runs
  <2> QED BY <2>1, <2>3 DEF CronOnly, castHistory, CastTypes
<1>9. ASSUME NEW c \in Crons, EndOfBatch(c) \/ RecordFound(c) PROVE CastTypes'
  <2>1. RunTypes'
    BY <1>9 DEF EndOfBatch, RecordFound, RunAt, CastTypes, RunTypes, Runs
  <2> QED BY <1>9, <2>1 DEF EndOfBatch, RecordFound, CronOnly, castHistory, CastTypes
<1>10. ASSUME NEW c \in Crons, NEW ok \in BOOLEAN, Activate(c, ok) PROVE CastTypes'
  <2>1. RunTypes'
    BY <1>10 DEF Activate, Processed, RunAt, CastTypes, RunTypes, Runs
  <2>2. status' \in [Announcements -> Statuses]
    BY <1>10 DEF Activate, CastTypes, Statuses
  <2> QED BY <1>10, <2>1, <2>2 DEF Activate, CronOnly, castHistory, CastTypes
<1>11. ASSUME NEW c \in Crons, NEW ok \in BOOLEAN, MarkFailed(c, ok) PROVE CastTypes'
  <2>1. RunTypes'
    BY <1>11 DEF MarkFailed, Processed, RunAt, CastTypes, RunTypes, Runs
  <2>2. status' \in [Announcements -> Statuses]
    BY <1>11 DEF MarkFailed, Failed, CastTypes, Statuses
  <2> QED BY <1>11, <2>1, <2>2 DEF MarkFailed, CronOnly, castHistory, CastTypes
<1>12. ASSUME NEW r \in Replicas, Crash(r) PROVE CastTypes'
  <2>1. /\ run' = [c \in Crons |-> IF Host[c] = r THEN "resting" ELSE run[c]]
        /\ batch' = [c \in Crons |-> IF Host[c] = r THEN {} ELSE batch[c]]
        /\ current' = [c \in Crons |-> IF Host[c] = r THEN None ELSE current[c]]
        /\ reached' = [c \in Crons |-> IF Host[c] = r THEN {} ELSE reached[c]]
        /\ UNCHANGED <<status, due, cancelling, castHistory, raced>>
    BY <1>12 DEF Crash
  <2>2. RunTypes'
    BY <2>1 DEF CastTypes, RunTypes, Runs
  <2> QED BY <2>1, <2>2 DEF castHistory, CastTypes
<1>13. CASE UNCHANGED castVars
  BY <1>13 DEF castVars, CastTypes, RunTypes
<1> QED BY <1>0, <1>1, <1>2, <1>3, <1>4, <1>5, <1>6, <1>7, <1>8, <1>9, <1>10, <1>11, <1>12, <1>13
        DEF CastCases

-----------------------------------------------------------------------------
(* What was cancelled stays so *)

\* No run has found what was cancelled, unless that was when it had it already.
CancelInv ==
    /\ \A a \in Announcements : status[a] # "none" => request[a] # "none"
    /\ \A a \in Announcements : Found(a) \/ a \in cancelling => status[a] # "none"
    /\ \A a \in Announcements : status[a] = "cancelled" /\ a \notin raced => ~Found(a)

CancelledStays ==
    \A a \in Announcements : status[a] = "cancelled" /\ a \notin raced => status'[a] = "cancelled"

\* A run that finds nothing which was cancelled finds nothing new that was.
LEMMA NotFoundAgain ==
    ASSUME CancelInv, UNCHANGED <<status, raced>>,
           \A a \in Announcements : request[a] # "none" => request'[a] # "none",
           \A a \in cancelling' : a \in cancelling \/ status[a] = "scheduled",
           \A a \in Announcements : Found(a)' => Found(a) \/ status[a] = "scheduled"
    PROVE  CancelInv' /\ CancelledStays
BY DEF CancelInv, CancelledStays

LEMMA NextCancelInv ==
    ASSUME CastInv, CastTypes, CancelInv, [Next]_vars
    PROVE  CancelInv' /\ CancelledStays
<1>0. CastCases
  BY NextCases
<1>1. ASSUME NEW a \in Announcements, NEW ok \in BOOLEAN, Create(a, ok)
      PROVE  CancelInv' /\ CancelledStays
  <2>1. request[a] = "none" /\ UNCHANGED <<batch, current, raced, cancelling>>
    BY <1>1 DEF Create, castRun
  <2>2. \A b \in Announcements \ {a} : status'[b] = status[b] /\ request'[b] = request[b]
    BY <1>1 DEF Create, RequestAt, CastInv, CastTypes
  <2>3. request'[a] # "none"
    BY <1>1 DEF Create, RequestAt, CastInv
  <2>4. status[a] = "none"
    BY <2>1 DEF CancelInv
  <2>5. status'[a] # "cancelled" /\ ~Found(a) /\ a \notin cancelling
    BY <1>1, <2>4 DEF Create, CastTypes, CancelInv
  <2> QED BY <2>1, <2>2, <2>3, <2>4, <2>5 DEF CancelInv, CancelledStays, Found
<1>2. ASSUME UNCHANGED <<status, batch, current, raced>>,
             \A a \in cancelling' : a \in cancelling \/ status[a] = "scheduled",
             \A a \in Announcements : request[a] # "none" => request'[a] # "none"
      PROVE  CancelInv' /\ CancelledStays
  BY <1>2, NotFoundAgain DEF Found
<1>3. ASSUME NEW a \in Announcements,
             \/ \E ok \in BOOLEAN : Record(a, ok) \/ \E u \in Users : QueueFor(a, u, ok)
             \/ AnswerBroadcast(a) \/ BecomesDue(a) \/ ReadCancelled(a)
      PROVE  CancelInv' /\ CancelledStays
  <2>1. UNCHANGED <<status, batch, current, raced>>
    BY <1>3 DEF Record, QueueFor, AnswerBroadcast, BecomesDue, ReadCancelled, castRun
  <2>2. \A b \in Announcements : request[b] # "none" => request'[b] # "none"
    BY <1>3 DEF Record, QueueFor, AnswerBroadcast, BecomesDue, ReadCancelled, castRequest, RequestAt,
                AfterRecording, CastInv
  <2>3. \A b \in cancelling' : b \in cancelling \/ status[b] = "scheduled"
    BY <1>3 DEF Record, QueueFor, AnswerBroadcast, BecomesDue, ReadCancelled
  <2> QED BY <1>2, <2>1, <2>2, <2>3
<1>4. ASSUME NEW a \in Announcements, NEW ok \in BOOLEAN, Cancel(a, ok)
      PROVE  CancelInv' /\ CancelledStays
  <2>1. UNCHANGED <<request, batch, current>> /\ a \in cancelling /\ cancelling' \subseteq cancelling
    BY <1>4 DEF Cancel, castRequest, castRun
  <2>2. CASE ok
    <3>1. status' = [status EXCEPT ![a] = "cancelled"]
          /\ raced' = IF Found(a) THEN raced \cup {a} ELSE raced
      BY <1>4, <2>2 DEF Cancel
    <3>2. \A b \in Announcements \ {a} : status'[b] = status[b]
      BY <3>1 DEF CastTypes
    <3>3. \A b : Found(b)' <=> Found(b)
      BY <2>1 DEF Found
    <3>4. status'[a] = "cancelled"
      BY <3>1 DEF CastTypes
    <3> QED BY <2>1, <3>1, <3>2, <3>3, <3>4 DEF CancelInv, CancelledStays
  <2>3. CASE ~ok
    <3>1. UNCHANGED <<status, raced>>
      BY <1>4, <2>3 DEF Cancel
    <3> QED BY <1>2, <2>1, <3>1
  <2> QED BY <2>2, <2>3
<1>5. ASSUME NEW c \in Crons, NEW ok \in BOOLEAN, FindReady(c, ok) PROVE CancelInv' /\ CancelledStays
  <2>1. UNCHANGED <<status, request, current, raced, cancelling>>
    BY <1>5 DEF FindReady, CronOnly, castRequest
  <2>2. batch' = batch \/ batch' = [batch EXCEPT ![c] = Ready]
    BY <1>5 DEF FindReady
  <2>3. \A a \in Announcements : Found(a)' => Found(a) \/ status[a] = "scheduled"
    BY <2>1, <2>2 DEF Found, Ready, CastTypes, RunTypes
  <2> QED BY <2>1, <2>3, NotFoundAgain
<1>6. ASSUME NEW c \in Crons, NEW a \in Announcements, NEW outcome, TakeNext(c, a, outcome)
      PROVE  CancelInv' /\ CancelledStays
  <2>1. /\ UNCHANGED <<status, request, raced, cancelling>> /\ a \in batch[c]
        /\ batch' = [batch EXCEPT ![c] = @ \ {a}] /\ current' = [current EXCEPT ![c] = a]
    BY <1>6 DEF TakeNext, CronOnly, castRequest
  <2>2. \A b \in Announcements : Found(b)' => Found(b)
    BY <2>1 DEF Found, CastTypes, RunTypes
  <2> QED BY <2>1, <2>2, NotFoundAgain
<1>7. ASSUME NEW c \in Crons, EndOfBatch(c) \/ RecordFound(c) PROVE CancelInv' /\ CancelledStays
  BY <1>2, <1>7 DEF EndOfBatch, RecordFound, CronOnly, castRequest
<1>8. ASSUME NEW c \in Crons, NEW ok \in BOOLEAN, Activate(c, ok) \/ MarkFailed(c, ok)
      PROVE  CancelInv' /\ CancelledStays
  <2>1. /\ UNCHANGED <<request, raced, cancelling>>
        /\ status' = status \/ (\E s \in {"active", "failed"} : status' = [status EXCEPT ![current[c]] = s])
        /\ current' = current \/ current' = [current EXCEPT ![c] = None]
        /\ batch' = batch \/ batch' = [batch EXCEPT ![c] = {}]
    BY <1>8 DEF Activate, MarkFailed, Failed, Processed, CronOnly, castRequest
  <2>2. \A a \in Announcements : Found(a)' => Found(a)
    BY <2>1, BroadcastAssumption DEF Found, CastTypes, RunTypes
  <2>3. \A a \in Announcements : status'[a] = status[a] \/ (current[c] = a /\ status'[a] \in {"active", "failed"})
    BY <2>1 DEF CastTypes
  <2>4. \A a \in Announcements : status'[a] # "none" => request[a] # "none"
    BY <2>3 DEF CancelInv, Found
  <2>5. \A a \in Announcements : current[c] = a => Found(a)
    BY DEF Found
  <2> QED BY <2>1, <2>2, <2>3, <2>4, <2>5 DEF CancelInv, CancelledStays
<1>9. ASSUME NEW r \in Replicas, Crash(r) PROVE CancelInv' /\ CancelledStays
  <2>1. /\ batch' = [c \in Crons |-> IF Host[c] = r THEN {} ELSE batch[c]]
        /\ current' = [c \in Crons |-> IF Host[c] = r THEN None ELSE current[c]]
        /\ UNCHANGED <<status, raced, cancelling>>
        /\ \A a \in Announcements : request'[a] = request[a] \/ request'[a] = "gone"
    BY <1>9 DEF Crash
  <2>2. \A a \in Announcements : Found(a)' => Found(a)
    BY <2>1, BroadcastAssumption DEF Found
  <2> QED BY <2>1, <2>2, NotFoundAgain
<1>10. CASE UNCHANGED castVars
  BY <1>2, <1>10 DEF castVars
<1> QED BY <1>0, <1>1, <1>3, <1>4, <1>5, <1>6, <1>7, <1>8, <1>9, <1>10 DEF CastCases

-----------------------------------------------------------------------------
(* Theorems *)

LEMMA NextFaults ==
    ASSUME faults \in 0..MaxFaults, [Next]_vars
    PROVE  faults' \in 0..MaxFaults
<1>1. Fault => faults' \in 0..MaxFaults
  BY BatchAssumption DEF Fault
<1>2. CASE BatchNext
  <2>1. ASSUME NEW b, \/ Accept(b) \/ NoChannel(b) \/ Answer(b)
                      \/ \E ok \in BOOLEAN : LookUp(b, ok)
                      \/ \E ok, executed \in BOOLEAN : StoreKey(b, ok, executed)
        PROVE  faults' = faults \/ Fault
    BY <2>1 DEF Accept, NoChannel, Answer, LookUp, StoreKey, Unless
  <2>2. ASSUME NEW b, NEW sent, NEW arrived, NEW closed, PublishChunk(b, sent, arrived, closed)
        PROVE  faults' = faults \/ Fault
    BY <2>2 DEF PublishChunk, Unless
  <2>3. ASSUME NEW k, Expire(k) PROVE faults' = faults
    BY <2>3 DEF Expire
  <2> QED BY <1>1, <1>2, <2>1, <2>2, <2>3 DEF BatchNext, BatchStep
<1>3. CASE faults' = faults \/ Fault
  BY <1>1, <1>3
<1>4. ASSUME NEW a \in Announcements,
             \/ \E ok \in BOOLEAN : Create(a, ok) \/ Cancel(a, ok) \/ Record(a, ok)
             \/ \E u \in Users, ok \in BOOLEAN : QueueFor(a, u, ok)
             \/ AnswerBroadcast(a) \/ BecomesDue(a) \/ ReadCancelled(a)
      PROVE  faults' = faults \/ Fault
  BY <1>4 DEF Create, Cancel, Record, QueueFor, AnswerBroadcast, BecomesDue, ReadCancelled, Unless
<1>5. ASSUME NEW c \in Crons, CronStep(c) PROVE faults' = faults \/ Fault
  BY <1>5 DEF CronStep, FindReady, TakeNext, EndOfBatch, RecordFound, Activate, MarkFailed, Unless
<1>6. ASSUME NEW r \in Replicas, Crash(r) PROVE Fault
  BY <1>6 DEF Crash
<1>7. CASE UNCHANGED vars
  BY <1>7 DEF vars, batchVars
<1> QED BY <1>2, <1>3, <1>4, <1>5, <1>6, <1>7 DEF Next, CastStep

Inv ==
    /\ BatchInv /\ OnceInv /\ CoverInv /\ CountedInv
    /\ CastInv /\ CastTypes /\ CancelInv
    /\ faults \in 0..MaxFaults

LEMMA InitInv ==
    ASSUME Init
    PROVE  Inv
<1>1. /\ status = [a \in Announcements |-> "none"] /\ request = [a \in Announcements |-> "none"]
      /\ unserved = [a \in Announcements |-> {}] /\ due = {} /\ cancelling = {}
      /\ run = [c \in Crons |-> "resting"] /\ batch = [c \in Crons |-> {}]
      /\ current = [c \in Crons |-> None] /\ reached = [c \in Crons |-> {}]
      /\ records = {} /\ messages = {} /\ unqueued = {} /\ raced = {}
  BY DEF Init
<1>2. CastInv
  BY <1>1 DEF CastInv, Requests, InProgress
<1>3. CastTypes
  BY <1>1 DEF CastTypes, RunTypes, Runs, Statuses
<1>4. CancelInv
  BY <1>1, BroadcastAssumption DEF CancelInv, Found
<1>5. faults \in 0..MaxFaults
  BY BatchAssumption DEF Init, BatchInit
<1> QED BY <1>2, <1>3, <1>4, <1>5, InitBatchInv, InitBatches DEF Inv

LEMMA NextInv ==
    ASSUME Inv, [Next]_vars
    PROVE  Inv' /\ CancelledStays
BY NextBatchInv, NextOnceInv, NextCoverInv, NextCountedInv, NextCastInv, NextCastTypes,
   NextCancelInv, NextFaults DEF Inv

LEMMA Reachable == Spec => []Inv
<1>1. Inv /\ [Next]_vars => Inv'
  BY NextInv
<1> QED BY <1>1, InitInv, PTL DEF Spec

LEMMA TypesFollow ==
    ASSUME Inv
    PROVE  TypeOK
<1>1. Functional /\ Sets /\ CastTypes /\ CastInv /\ faults \in 0..MaxFaults
  BY DEF Inv, BatchInv
<1>2. ASSUME NEW b \in Batches
      PROVE  /\ checked[b] \in 0..Total(b)
             /\ unique[b] \subseteq 1..checked[b] /\ todo[b] \subseteq unique[b]
             /\ successful[b] \in 0..Total(b) /\ failed[b] \in 0..(2 * Total(b))
  <2>1. CountsOf(b)
    BY DEF Inv, BatchInv
  <2>2. Total(b) \in Nat /\ Cardinality(Done(b)) \in Nat /\ Cardinality(Done(b)) <= Total(b)
    BY ItemsOf, FiniteIndices DEF Inv
  <2>3. checked[b] \in Nat /\ successful[b] \in Nat /\ failed[b] \in Nat
    BY <1>1 DEF Functional
  <2>4. successful[b] <= Cardinality(Done(b)) /\ failed[b] <= 2 * Cardinality(Done(b)) /\ checked[b] <= Total(b)
    BY <2>1 DEF CountsOf
  <2>5. checked[b] \in 0..Total(b) /\ successful[b] \in 0..Total(b) /\ failed[b] \in 0..(2 * Total(b))
    BY <2>2, <2>3, <2>4
  <2> QED BY <2>1, <2>5 DEF CountsOf
<1>3. BatchTypeOK
  BY <1>1, <1>2 DEF BatchTypeOK, Functional, Sets
<1> QED BY <1>1, <1>3 DEF TypeOK, CastTypes, RunTypes, Runs, CastInv, Requests

\* Types of the requests of administrators, with what the counts of a batch can reach.
THEOREM AdminTypes == Spec => []TypeOK
BY Reachable, TypesFollow, PTL

\* A notification reaches its queue twice only if its key expired, met an error of Redis,
\* or was looked up by two requests at once.
THEOREM KeysArePublishedOnce == Spec => []PublishedOnce
<1>1. Inv => PublishedOnce
  BY OnceImplies DEF Inv
<1> QED BY <1>1, Reachable, PTL

\* What is refused as a duplicate was published, is about to be, or shares the key of a
\* notification that was lost.
THEOREM RefusalsAreCovered == Spec => []RefusedIsCovered
<1>1. Inv => RefusedIsCovered
  BY CoverImplies DEF Inv
<1> QED BY <1>1, Reachable, PTL

\* An answer without failures means that all that was let through reached its queue, and
\* the counts add up unless a channel broke.
THEOREM AnswersAreHonest == Spec => []AnswerIsHonest
<1>1. Inv => AnswerIsHonest
  BY CountedImplies DEF Inv
<1> QED BY <1>1, Reachable, PTL

\* No user has a message without a record, and an answered broadcast left both for each
\* of its users, but for failed publications.
THEOREM BroadcastsAreComplete == Spec => []BroadcastIsComplete
<1>1. Inv => BroadcastIsComplete
  BY CastImplies DEF Inv
<1> QED BY <1>1, Reachable, PTL

\* A cancelled announcement stays cancelled unless a run of the cron job had found it.
THEOREM CancelledStaysCancelled == Spec => CancelIsFinal
<1>1. Inv /\ [Next]_vars => [CancelledStays]_vars
  BY NextInv
<1>2. CancelledStays <=> (\A a \in Announcements :
           status[a] = "cancelled" /\ a \notin raced => status'[a] = "cancelled")
  BY DEF CancelledStays
<1> QED BY <1>1, <1>2, Reachable, PTL DEF Spec, CancelIsFinal

=============================================================================
