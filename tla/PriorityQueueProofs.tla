------------------------- MODULE PriorityQueueProofs -------------------------
(***************************************************************************)
(* The priority queue keeps its type, loses no message, notifies nobody    *)
(* twice and dead-letters poison in time, for any number of replicas,      *)
(* workers, channels, keys, retries and faults.                            *)
(***************************************************************************)
EXTENDS PriorityQueue, FiniteSetTheorems, WellFoundedInduction, TLAPS

-----------------------------------------------------------------------------
(* Bags *)

LEMMA BagAdd ==
  ASSUME NEW B, IsABag(B), NEW e
  PROVE  IsABag(B (+) One(e)) /\ BagToSet(B (+) One(e)) = BagToSet(B) \cup {e}
  BY DEF IsABag, BagToSet, One, SetToBag, (+)

LEMMA BagTake ==
  ASSUME NEW B, IsABag(B), NEW e \in BagToSet(B)
  PROVE  /\ IsABag(B (-) One(e)) /\ BagToSet(B (-) One(e)) \subseteq BagToSet(B)
         /\ BagToSet(B) \ {e} \subseteq BagToSet(B (-) One(e))
<1> DEFINE C == [x \in DOMAIN B |-> IF x \in {e} THEN B[x] - 1 ELSE B[x]]
           D == {x \in DOMAIN C : C[x] > 0}
<1>1. B (-) One(e) = [x \in D |-> C[x]]
  BY DEF One, SetToBag, (-)
<1>2. \A x \in DOMAIN B : B[x] \in Nat /\ B[x] > 0
  BY DEF IsABag
<1>3. D \subseteq DOMAIN B /\ DOMAIN B \ {e} \subseteq D /\ \A x \in D : C[x] \in Nat /\ C[x] > 0
  BY <1>2
<1> HIDE DEF C, D
<1> QED BY <1>1, <1>3 DEF IsABag, BagToSet

LEMMA BagJoin ==
  ASSUME NEW B, IsABag(B), NEW C, IsABag(C)
  PROVE  IsABag(B (+) C) /\ BagToSet(B (+) C) = BagToSet(B) \cup BagToSet(C)
  BY DEF IsABag, BagToSet, (+)

LEMMA MessagesIs ==
  ASSUME NEW hs \in SUBSET Hands
  PROVE  IsABag(Messages(hs)) /\ BagToSet(Messages(hs)) = {hand[h].message : h \in hs}
<1>1. IsFiniteSet(Hands)
  <2>1. IsFiniteSet({"main", "retry"})
    <3>1. {"main", "retry"} = {"main"} \cup {"retry"}
      OBVIOUS
    <3>2. IsFiniteSet({"main"}) /\ IsFiniteSet({"retry"})
      BY FS_Singleton
    <3>3. IsFiniteSet({"main"} \cup {"retry"})
      BY <3>2, FS_Union, Zenon
    <3> QED BY <3>1, <3>3, Zenon
  <2>2. IsFiniteSet((Replicas \X Workers) \X {"main", "retry"})
    BY <2>1, PriorityAssumption, FS_Product
  <2> DEFINE flat == [p \in (Replicas \X Workers) \X {"main", "retry"} |-> <<p[1][1], p[1][2], p[2]>>]
  <2>3. \A h \in Hands : /\ <<<<h[1], h[2]>>, h[3]>> \in (Replicas \X Workers) \X {"main", "retry"}
                         /\ flat[<<<<h[1], h[2]>>, h[3]>>] = h
    BY DEF Hands
  <2>4. flat \in [(Replicas \X Workers) \X {"main", "retry"} -> Hands]
    BY DEF Hands
  <2> HIDE DEF flat
  <2>5. flat \in Surjection((Replicas \X Workers) \X {"main", "retry"}, Hands)
    BY <2>3, <2>4 DEF Surjection
  <2> QED BY <2>2, <2>5, FS_Surjection
<1>2. ASSUME NEW m \in {hand[h].message : h \in hs}
      PROVE  Messages(hs)[m] \in Nat /\ Messages(hs)[m] > 0
  <2> DEFINE of == {h \in hs : hand[h].message = m}
  <2>1. IsFiniteSet(of) /\ of # {}
    BY <1>1, FS_Subset
  <2>2. Cardinality(of) \in Nat /\ Cardinality(of) # 0
    BY <2>1, FS_CardinalityType, FS_EmptySet
  <2>3. Messages(hs)[m] = Cardinality(of)
    BY DEF Messages
  <2> QED BY <2>2, <2>3
<1>3. DOMAIN Messages(hs) = {hand[h].message : h \in hs}
  BY DEF Messages
<1>4. Messages(hs) = [m \in DOMAIN Messages(hs) |-> Messages(hs)[m]]
  BY DEF Messages
<1> QED BY <1>2, <1>3, <1>4 DEF IsABag, BagToSet

LEMMA FirstIs ==
  ASSUME NEW channels \in SUBSET Channels, channels # {}
  PROVE  First(channels) \in channels
<1> DEFINE Less == OpToRel(<, Nat)
<1>1. \A c, d \in Nat : c < d => <<c, d>> \in Less
  BY DEF OpToRel
<1>2. IsWellFoundedOn(Less, Nat)
  BY NatLessThanWellFounded
<1> HIDE DEF Less
<1>3. channels \subseteq Nat
  BY PriorityAssumption
<1>4. PICK c \in channels : \A d \in channels : ~(<<d, c>> \in Less)
  BY <1>2, <1>3, WFMin
<1>5. ASSUME NEW d \in channels PROVE c <= d
  <2>1. c \in Nat /\ d \in Nat
    BY <1>3
  <2>2. ~(d < c)
    BY <2>1, <1>1, <1>4
  <2> QED BY <2>1, <2>2
<1> QED BY <1>5 DEF First

-----------------------------------------------------------------------------
(* The inductive invariant *)

\* What is known of a message in hand: its count, what may be triggered, that Novu
\* has what it has taken, and that every channel that is neither to be triggered nor
\* to be recorded is answered.
HandOK(h) ==
    LET x == hand[h]
        k == x.message.key
    IN  Busy(h) =>
        /\ x.message.retries <= MaxRetries
        /\ k \in Poison => x.triggering = {} /\ x.storing = {}
        /\ x.moved => k \in Poison
        /\ x.taken => x.triggering # {} /\ sent[Call(h)] > 0
        /\ k \notin Poison => \A c \in Channels :
               \/ c \in x.triggering
               \/ c \in x.storing /\ sent[<<k, c>>] > 0
               \/ Answered(k, c)

\* The broker would deliver the key again, or has it unacknowledged and unmoved.
Entrusted(k) ==
    \/ Waiting(k)
    \/ \E h \in Hands : /\ Busy(h) /\ h[1] \notin deaf
                        /\ hand[h].message.key = k /\ ~hand[h].moved

PriorityInv ==
    /\ PriorityTypeOK
    /\ PoisonIsParkedInTime
    /\ \A h \in Hands : HandOK(h)
    /\ \A e \in outstanding : e[1] \notin Poison
    /\ \A k \in accepted : Entrusted(k) \/ Settled(k)

LEMMA WaitingIs ==
  \A k : Waiting(k) <=> \E m \in BagToSet(main) \cup BagToSet(retry) : m.key = k
  BY DEF Waiting

LEMMA TypeIs ==
  ASSUME PriorityTypeOK
  PROVE  /\ IsABag(main) /\ IsABag(retry) /\ IsABag(dlq)
         /\ BagToSet(main) \subseteq Message /\ BagToSet(retry) \subseteq Message
         /\ BagToSet(dlq) \subseteq Message
         /\ hand \in [Hands -> InHand \cup {Nothing}]
         /\ \A h \in Hands : Busy(h) => hand[h] \in InHand
         /\ \A h \in Hands : Busy(h) => hand[h].message \in Message
  BY DEF PriorityTypeOK, Busy, InHand

LEMMA HoldIs ==
  ASSUME PriorityTypeOK, NEW h \in Hands, NEW x \in InHand \cup {Nothing}, Hold(h, x)
  PROVE  /\ hand' \in [Hands -> InHand \cup {Nothing}]
         /\ hand'[h] = x /\ \A g \in Hands \ {h} : hand'[g] = hand[g]
  BY DEF PriorityTypeOK, Hold

\* What settles a channel or a key stays.
LEMMA AnsweredStays ==
  ASSUME PriorityTypeOK, \A e \in Calls : (sent[e] > 0 => sent'[e] > 0) /\ (stored[e] > 0 => stored'[e] > 0),
         refused \subseteq refused', parked \subseteq parked'
  PROVE  /\ \A k \in Keys, c \in Channels : Answered(k, c) => Answered(k, c)'
         /\ \A k \in Keys : Settled(k) => Settled(k)'
         /\ \A k \in accepted : Settled(k) => Settled(k)'
<1>1. \A k \in Keys, c \in Channels : Answered(k, c) => Answered(k, c)'
  BY DEF Answered, Calls
<1> QED BY <1>1 DEF Settled, PriorityTypeOK

\* A hand that keeps what it has is still in order.
LEMMA HandStays ==
  ASSUME PriorityTypeOK, NEW h \in Hands, HandOK(h), hand'[h] = hand[h],
         \A e \in Calls : (sent[e] > 0 => sent'[e] > 0) /\ (stored[e] > 0 => stored'[e] > 0),
         refused \subseteq refused', parked \subseteq parked'
  PROVE  HandOK(h)'
<1>1. CASE Busy(h)
  <2>1. hand[h] \in InHand
    BY <1>1, TypeIs
  <2>2. hand[h].message.key \in Keys
    BY <2>1 DEF InHand, Message
  <2>3. hand[h].triggering # {} => Call(h) \in Calls
    BY <2>1, <2>2, FirstIs DEF InHand, Call, Calls
  <2>4. \A c \in Channels : Answered(hand[h].message.key, c) => Answered(hand[h].message.key, c)'
    BY <2>2, AnsweredStays
  <2>5. \A c \in Channels : sent[<<hand[h].message.key, c>>] > 0
                            => sent'[<<hand[h].message.key, c>>] > 0
    BY <2>2 DEF Calls
  <2>6. Call(h)' = Call(h)
    BY DEF Call
  <2> QED BY <1>1, <2>3, <2>4, <2>5, <2>6 DEF HandOK, Busy
<1>2. CASE ~Busy(h)
  BY <1>2 DEF HandOK, Busy
<1> QED BY <1>1, <1>2

\* What is entrusted to the broker stays so while queues grow and hands keep still.
LEMMA EntrustedStays ==
  ASSUME NEW k, Entrusted(k), BagToSet(main) \subseteq BagToSet(main'),
         BagToSet(retry) \subseteq BagToSet(retry'), hand' = hand, deaf' = deaf
  PROVE  Entrusted(k)'
<1>1. CASE Waiting(k)
  BY <1>1 DEF Entrusted, Waiting
<1>2. CASE \E h \in Hands : Busy(h) /\ h[1] \notin deaf /\ hand[h].message.key = k /\ ~hand[h].moved
  BY <1>2 DEF Entrusted, Busy
<1> QED BY <1>1, <1>2 DEF Entrusted

LEMMA InvInit == PriorityInit => PriorityInv
<1> SUFFICES ASSUME PriorityInit PROVE PriorityInv
  OBVIOUS
<1>1. IsABag(EmptyBag) /\ BagToSet(EmptyBag) = {}
  BY DEF IsABag, BagToSet, EmptyBag, SetToBag
<1>2. \A h \in Hands : hand[h] = Nothing
  BY DEF PriorityInit
<1>3. PriorityTypeOK
  BY <1>1, PriorityAssumption DEF PriorityInit, PriorityTypeOK
<1>4. PoisonIsParkedInTime
  BY <1>1, PriorityAssumption DEF PriorityInit, PoisonIsParkedInTime, Calls
<1> QED BY <1>2, <1>3, <1>4 DEF PriorityInv, PriorityInit, HandOK, Busy

-----------------------------------------------------------------------------
(* The actions *)

LEMMA EnqueueKeeps ==
  ASSUME PriorityInv, NEW k \in Keys, EnqueueNotification(k), faults' \in 0..MaxFaults
  PROVE  PriorityInv'
<1> DEFINE m == [key |-> k, retries |-> 0]
<1>1. m \in Message /\ m.retries <= MaxRetries /\ m.key = k
  BY PriorityAssumption DEF Message
<1> HIDE DEF m
<1>2. IsABag(main') /\ BagToSet(main') = BagToSet(main) \cup {m}
  BY TypeIs, BagAdd DEF PriorityInv, EnqueueNotification, m
<1>3. /\ retry' = retry /\ dlq' = dlq /\ hand' = hand /\ deaf' = deaf /\ sent' = sent
      /\ outstanding' = outstanding /\ ambiguous' = ambiguous
      /\ stored' = stored /\ refused' = refused /\ parked' = parked /\ again' = again
      /\ accepted' = accepted \cup {k}
  BY DEF EnqueueNotification, deliveries, novu
<1>4. PriorityTypeOK'
  BY <1>1, <1>2, <1>3 DEF PriorityInv, PriorityTypeOK
<1>5. PoisonIsParkedInTime'
  BY <1>1, <1>2, <1>3 DEF PriorityInv, PoisonIsParkedInTime
<1>6. \A h \in Hands : HandOK(h)'
  BY <1>3, HandStays DEF PriorityInv
<1>7. ASSUME NEW j \in accepted' PROVE Entrusted(j)' \/ Settled(j)'
  <2>1. CASE j = k
    BY <2>1, <1>1, <1>2 DEF Entrusted, Waiting
  <2>2. CASE j \in accepted
    <3>1. Entrusted(j) \/ Settled(j)
      BY <2>2 DEF PriorityInv
    <3>2. Entrusted(j) => Entrusted(j)'
      BY <1>2, <1>3, EntrustedStays
    <3>3. Settled(j) => Settled(j)'
      BY <2>2, <1>3, AnsweredStays DEF PriorityInv
    <3> QED BY <3>1, <3>2, <3>3
  <2> QED BY <2>1, <2>2, <1>3
<1> QED BY <1>3, <1>4, <1>5, <1>6, <1>7 DEF PriorityInv

LEMMA TakeKeeps ==
  ASSUME PriorityInv, NEW h \in Hands, Take(h), faults' \in 0..MaxFaults
  PROVE  PriorityInv'
<1> DEFINE holding(m) == [message |-> m, triggering |-> IF m.key \in Poison THEN {} ELSE Channels,
                          taken |-> FALSE, storing |-> {}, moved |-> FALSE]
<1>1. PICK m \in BagToSet(Of(h)) :
        /\ main' = IF h[3] = "main" THEN main (-) One(m) ELSE main
        /\ retry' = IF h[3] = "retry" THEN retry (-) One(m) ELSE retry
        /\ Hold(h, holding(m))
  BY DEF Take
<1>2. /\ dlq' = dlq /\ deaf' = deaf /\ accepted' = accepted /\ sent' = sent /\ stored' = stored
      /\ outstanding' = outstanding /\ ambiguous' = ambiguous
      /\ refused' = refused /\ parked' = parked /\ again' = again
      /\ ~Busy(h) /\ h[1] \notin deaf
  BY DEF Take, deliveries, novu
<1>3. h[3] = "main" \/ h[3] = "retry"
  BY DEF Hands
<1>4. /\ IsABag(main') /\ BagToSet(main') \subseteq BagToSet(main)
      /\ BagToSet(main) \ {m} \subseteq BagToSet(main')
  BY <1>1, TypeIs, BagTake DEF PriorityInv, Of
<1>5. /\ IsABag(retry') /\ BagToSet(retry') \subseteq BagToSet(retry)
      /\ BagToSet(retry) \ {m} \subseteq BagToSet(retry')
  BY <1>1, <1>3, TypeIs, BagTake DEF PriorityInv, Of
<1>6. m \in Message /\ m.retries <= MaxRetries
  <2>1. m \in BagToSet(main) \cup BagToSet(retry)
    BY <1>1 DEF Of
  <2> QED BY <2>1, TypeIs DEF PriorityInv, PoisonIsParkedInTime
<1>7. /\ holding(m) \in InHand /\ holding(m).message = m /\ holding(m).moved = FALSE
      /\ holding(m).storing = {} /\ holding(m).taken = FALSE
      /\ m.key \in Poison => holding(m).triggering = {}
      /\ m.key \notin Poison => holding(m).triggering = Channels
  BY <1>6 DEF InHand
<1> HIDE DEF holding
<1>8. /\ hand' \in [Hands -> InHand \cup {Nothing}]
      /\ hand'[h] = holding(m) /\ \A g \in Hands \ {h} : hand'[g] = hand[g]
  BY <1>1, <1>7, HoldIs DEF PriorityInv
<1>9. PriorityTypeOK'
  BY <1>2, <1>4, <1>5, <1>8 DEF PriorityInv, PriorityTypeOK
<1>10. PoisonIsParkedInTime'
  BY <1>2, <1>4, <1>5 DEF PriorityInv, PoisonIsParkedInTime
<1>11. \A g \in Hands : HandOK(g)'
  <2>1. HandOK(h)'
    BY <1>6, <1>7, <1>8 DEF HandOK
  <2>2. \A g \in Hands \ {h} : HandOK(g)'
    BY <1>2, <1>8, HandStays DEF PriorityInv
  <2> QED BY <2>1, <2>2
<1>12. ASSUME NEW k \in accepted' PROVE Entrusted(k)' \/ Settled(k)'
  <2>1. Entrusted(k) \/ Settled(k)
    BY <1>2 DEF PriorityInv
  <2>2. CASE Settled(k)
    BY <2>2, <1>2, AnsweredStays DEF PriorityInv
  <2>3. CASE k = m.key
    <3>1. hand'[h] # Nothing
      BY <1>7, <1>8, PriorityAssumption
    <3> QED BY <2>3, <3>1, <1>2, <1>7, <1>8 DEF Entrusted, Busy
  <2>4. CASE Waiting(k) /\ k # m.key
    BY <2>4, <1>4, <1>5 DEF Entrusted, Waiting
  <2>5. ASSUME NEW g \in Hands, Busy(g), g[1] \notin deaf, hand[g].message.key = k, ~hand[g].moved
        PROVE  Entrusted(k)'
    <3>1. g # h
      BY <2>5, <1>2
    <3> QED BY <3>1, <2>5, <1>2, <1>8 DEF Entrusted, Busy
  <2> QED BY <2>1, <2>2, <2>3, <2>4, <2>5 DEF Entrusted
<1> QED BY <1>2, <1>9, <1>10, <1>11, <1>12 DEF PriorityInv

\* Work on a message in hand leaves it entrusted.
LEMMA TurnKeepsEntrusted ==
  ASSUME NEW k, Entrusted(k), NEW h \in Hands, Busy(h), hand'[h] # Nothing,
         hand'[h].message = hand[h].message, hand'[h].moved = hand[h].moved,
         \A g \in Hands \ {h} : hand'[g] = hand[g],
         main' = main, retry' = retry, deaf' = deaf
  PROVE  Entrusted(k)'
<1>1. CASE Waiting(k)
  BY <1>1 DEF Entrusted, Waiting
<1>2. ASSUME NEW g \in Hands, Busy(g), g[1] \notin deaf, hand[g].message.key = k, ~hand[g].moved
      PROVE  Entrusted(k)'
  BY <1>2 DEF Entrusted, Busy
<1> QED BY <1>1, <1>2 DEF Entrusted

\* A call under way is one of a message in hand that is not poison.
LEMMA CallIs ==
  ASSUME PriorityInv, NEW h \in Hands, Calling(h)
  PROVE  /\ hand[h] \in InHand /\ Call(h) = <<hand[h].message.key, First(hand[h].triggering)>>
         /\ hand[h].message.key \in Keys /\ hand[h].message.key \notin Poison
         /\ First(hand[h].triggering) \in hand[h].triggering
         /\ First(hand[h].triggering) \in Channels
         /\ Call(h) \in Calls /\ Call(h)[1] \notin Poison
<1>1. hand[h] \in InHand
  BY TypeIs DEF PriorityInv, Calling
<1>2. hand[h].message.key \in Keys /\ hand[h].message.key \notin Poison
  BY <1>1 DEF PriorityInv, HandOK, Calling, InHand, Message
<1>3. First(hand[h].triggering) \in hand[h].triggering
  BY <1>1, FirstIs DEF Calling, InHand
<1> QED BY <1>1, <1>2, <1>3 DEF Call, Calls, InHand

LEMMA AcceptKeeps ==
  ASSUME PriorityInv, NEW h \in Hands, NEW repeated \in BOOLEAN, NovuAccepts(h, repeated),
         faults' \in 0..MaxFaults
  PROVE  PriorityInv'
<1>0. PICK x, e : x = hand[h] /\ e = Call(h)
  OBVIOUS
<1> DEFINE w == [x EXCEPT !.taken = TRUE]
<1>1. /\ Calling(h) /\ Busy(h) /\ x.triggering # {}
      /\ sent' = [sent EXCEPT ![e] = More(@)]
      /\ ambiguous' \subseteq ambiguous \cup {e}
      /\ Hold(h, w)
  BY <1>0 DEF NovuAccepts, Calling
<1>2. /\ main' = main /\ retry' = retry /\ dlq' = dlq /\ deaf' = deaf /\ accepted' = accepted
      /\ outstanding' = outstanding /\ stored' = stored /\ refused' = refused
      /\ parked' = parked /\ again' = again
  BY DEF NovuAccepts, queues
<1>3. x \in InHand /\ e \in Calls /\ e[1] \notin Poison /\ x.message.key \in Keys
  BY <1>0, <1>1, CallIs
<1>4. /\ w \in InHand /\ w.message = x.message /\ w.moved = x.moved /\ w.taken = TRUE
      /\ w.triggering = x.triggering /\ w.storing = x.storing
  BY <1>3 DEF InHand
<1> HIDE DEF w
<1>5. /\ hand' \in [Hands -> InHand \cup {Nothing}]
      /\ hand'[h] = w /\ w # Nothing /\ \A g \in Hands \ {h} : hand'[g] = hand[g]
  BY <1>1, <1>4, HoldIs, PriorityAssumption DEF PriorityInv
<1>6. /\ sent' \in [Calls -> 0..2] /\ sent'[e] > 0
      /\ \A d \in Calls : sent[d] > 0 => sent'[d] > 0
      /\ \A d \in Calls \ {e} : sent'[d] = sent[d]
  BY <1>1, <1>3 DEF PriorityInv, PriorityTypeOK, More
<1>7. PriorityTypeOK'
  BY <1>1, <1>2, <1>3, <1>5, <1>6 DEF PriorityInv, PriorityTypeOK
<1>8. PoisonIsParkedInTime'
  <2>1. \A k \in Poison, c \in Channels : <<k, c>> \in Calls \ {e}
    BY <1>3, PriorityAssumption DEF Calls
  <2> QED BY <2>1, <1>2, <1>6 DEF PriorityInv, PoisonIsParkedInTime
<1>9. \A g \in Hands : HandOK(g)'
  <2>1. Call(h)' = e
    BY <1>0, <1>4, <1>5 DEF Call
  <2>2. \A d \in Channels : <<x.message.key, d>> \in Calls
    BY <1>3 DEF Calls
  <2>3. \A d \in Channels : Answered(x.message.key, d) => Answered(x.message.key, d)'
    BY <2>2, <1>2, <1>6 DEF Answered
  <2>4. HandOK(h)
    BY DEF PriorityInv
  <2>5. HandOK(h)'
    BY <2>1, <2>2, <2>3, <2>4, <1>0, <1>1, <1>4, <1>5, <1>6 DEF HandOK
  <2>6. \A g \in Hands \ {h} : HandOK(g)'
    BY <1>2, <1>5, <1>6, HandStays DEF PriorityInv
  <2> QED BY <2>5, <2>6
<1>10. ASSUME NEW j \in accepted' PROVE Entrusted(j)' \/ Settled(j)'
  <2>1. (Entrusted(j) \/ Settled(j)) /\ j \in Keys
    BY <1>2 DEF PriorityInv, PriorityTypeOK
  <2>2. Entrusted(j) => Entrusted(j)'
    BY <1>0, <1>1, <1>2, <1>4, <1>5, TurnKeepsEntrusted
  <2>3. Settled(j) => Settled(j)'
    BY <2>1, <1>2, <1>6, AnsweredStays DEF PriorityInv
  <2> QED BY <2>1, <2>2, <2>3
<1> QED BY <1>2, <1>7, <1>8, <1>9, <1>10 DEF PriorityInv

\* A call ends, answered or not, and the next channel follows.
LEMMA CallEndKeeps ==
  ASSUME PriorityInv, NEW h \in Hands, NEW answered \in BOOLEAN, Calling(h),
         answered => hand[h].taken,
         NEW w \in InHand, Hold(h, w), w.message = hand[h].message, w.moved = hand[h].moved,
         w.taken = FALSE, w.triggering = hand[h].triggering \ {First(hand[h].triggering)},
         w.storing = IF answered THEN hand[h].storing \cup {First(hand[h].triggering)}
                                 ELSE hand[h].storing,
         refused' = IF answered THEN refused ELSE refused \cup {Call(h)},
         outstanding' \subseteq outstanding \cup {Call(h)},
         ambiguous' \subseteq ambiguous \cup {Call(h)},
         UNCHANGED <<queues, deaf, accepted, sent, stored, parked, again>>,
         faults' \in 0..MaxFaults
  PROVE  PriorityInv'
<1>0. PICK x, c : x = hand[h] /\ c = First(x.triggering)
  OBVIOUS
<1> DEFINE k == x.message.key
<1>1. /\ x \in InHand /\ Call(h) = <<k, c>> /\ k \in Keys /\ k \notin Poison
      /\ c \in x.triggering /\ c \in Channels /\ <<k, c>> \in Calls
      /\ Busy(h)
  BY <1>0, CallIs DEF Calling
<1>2. /\ main' = main /\ retry' = retry /\ dlq' = dlq /\ deaf' = deaf /\ accepted' = accepted
      /\ sent' = sent /\ stored' = stored /\ parked' = parked /\ again' = again
      /\ refused \subseteq refused'
  BY DEF queues
<1>3. /\ hand' \in [Hands -> InHand \cup {Nothing}]
      /\ hand'[h] = w /\ w # Nothing /\ \A g \in Hands \ {h} : hand'[g] = hand[g]
  BY HoldIs, PriorityAssumption DEF PriorityInv
<1>4. PriorityTypeOK'
  BY <1>1, <1>2, <1>3 DEF PriorityInv, PriorityTypeOK
<1>5. PoisonIsParkedInTime'
  BY <1>2 DEF PriorityInv, PoisonIsParkedInTime
<1>6. \A e \in outstanding' : e[1] \notin Poison
  BY <1>1 DEF PriorityInv
<1>7. \A g \in Hands : HandOK(g)'
  <2>1. HandOK(h)
    BY DEF PriorityInv
  <2>2. ASSUME NEW d \in Channels
        PROVE  \/ d \in w.triggering \/ (d \in w.storing /\ sent'[<<k, d>>] > 0) \/ Answered(k, d)'
    <3>1. CASE d = c /\ answered
      BY <3>1, <2>1, <1>0, <1>1, <1>2 DEF HandOK
    <3>2. CASE d = c /\ ~answered
      BY <3>2, <1>1 DEF Answered
    <3>3. CASE d # c
      <4>1. d \in x.triggering \/ (d \in x.storing /\ sent[<<k, d>>] > 0) \/ Answered(k, d)
        BY <2>1, <1>0, <1>1 DEF HandOK
      <4>2. Answered(k, d) => Answered(k, d)'
        BY <1>2 DEF Answered
      <4> QED BY <4>1, <4>2, <3>3, <1>0, <1>2
    <3> QED BY <3>1, <3>2, <3>3
  <2>3. x.message.retries <= MaxRetries /\ (x.moved => k \in Poison)
    BY <2>1, <1>0, <1>1 DEF HandOK
  <2>4. HandOK(h)'
    BY <2>2, <2>3, <1>0, <1>1, <1>3 DEF HandOK
  <2>5. \A g \in Hands \ {h} : HandOK(g)'
    BY <1>2, <1>3, HandStays DEF PriorityInv
  <2> QED BY <2>4, <2>5
<1>8. ASSUME NEW j \in accepted' PROVE Entrusted(j)' \/ Settled(j)'
  <2>1. (Entrusted(j) \/ Settled(j)) /\ j \in Keys
    BY <1>2 DEF PriorityInv, PriorityTypeOK
  <2>2. Entrusted(j) => Entrusted(j)'
    BY <1>1, <1>2, <1>3, TurnKeepsEntrusted
  <2>3. Settled(j) => Settled(j)'
    BY <2>1, <1>2, AnsweredStays DEF PriorityInv
  <2> QED BY <2>1, <2>2, <2>3
<1> QED BY <1>4, <1>5, <1>6, <1>7, <1>8 DEF PriorityInv

LEMMA TriggeredKeeps ==
  ASSUME PriorityInv, NEW h \in Hands, Triggered(h), faults' \in 0..MaxFaults
  PROVE  PriorityInv'
<1>0. PICK x, c : x = hand[h] /\ c = First(x.triggering)
  OBVIOUS
<1> DEFINE w == [x EXCEPT !.triggering = @ \ {c}, !.taken = FALSE, !.storing = @ \cup {c}]
<1>1. Calling(h) /\ x.taken /\ Hold(h, w)
  BY <1>0 DEF Triggered
<1>2. x \in InHand /\ c \in Channels
  BY <1>0, <1>1, CallIs
<1>3. /\ w \in InHand /\ w.message = x.message /\ w.moved = x.moved /\ w.taken = FALSE
      /\ w.triggering = x.triggering \ {c} /\ w.storing = x.storing \cup {c}
  BY <1>2 DEF InHand
<1> HIDE DEF w
<1>4. UNCHANGED <<queues, deaf, accepted, outstanding, sent, ambiguous, stored, refused, parked, again>>
  BY DEF Triggered, deliveries, novu
<1> QED BY <1>0, <1>1, <1>3, <1>4, CallEndKeeps

LEMMA TriggerFailsKeeps ==
  ASSUME PriorityInv, NEW h \in Hands, NEW late \in BOOLEAN, TriggerFails(h, late),
         faults' \in 0..MaxFaults
  PROVE  PriorityInv'
<1>0. PICK x, c : x = hand[h] /\ c = First(x.triggering)
  OBVIOUS
<1> DEFINE w == [x EXCEPT !.triggering = @ \ {c}, !.taken = FALSE]
<1>1. Calling(h) /\ Hold(h, w)
  BY <1>0 DEF TriggerFails
<1>2. x \in InHand /\ c \in Channels
  BY <1>0, <1>1, CallIs
<1>3. /\ w \in InHand /\ w.message = x.message /\ w.moved = x.moved /\ w.taken = FALSE
      /\ w.triggering = x.triggering \ {c} /\ w.storing = x.storing
  BY <1>2 DEF InHand
<1> HIDE DEF w
<1>4. /\ UNCHANGED <<queues, deaf, accepted, sent, stored, parked, again>>
      /\ refused' = refused \cup {Call(h)}
      /\ outstanding' \subseteq outstanding \cup {Call(h)}
      /\ ambiguous' \subseteq ambiguous \cup {Call(h)}
  BY DEF TriggerFails
<1> QED BY <1>0, <1>1, <1>3, <1>4, CallEndKeeps

LEMMA LateKeeps ==
  ASSUME PriorityInv, NEW e \in Calls, LateRequest(e), faults' \in 0..MaxFaults
  PROVE  PriorityInv'
<1>1. /\ main' = main /\ retry' = retry /\ dlq' = dlq /\ hand' = hand /\ deaf' = deaf
      /\ outstanding' = outstanding /\ ambiguous' = ambiguous /\ accepted' = accepted
      /\ stored' = stored /\ refused' = refused /\ parked' = parked /\ again' = again
      /\ sent' = [sent EXCEPT ![e] = More(@)] /\ e \in outstanding
  BY DEF LateRequest, queues
<1>2. /\ sent' \in [Calls -> 0..2]
      /\ \A d \in Calls : sent[d] > 0 => sent'[d] > 0
      /\ \A d \in Calls \ {e} : sent'[d] = sent[d]
  BY <1>1 DEF PriorityInv, PriorityTypeOK, More
<1>3. PriorityTypeOK'
  BY <1>1, <1>2 DEF PriorityInv, PriorityTypeOK
<1>4. PoisonIsParkedInTime'
  <2>1. \A k \in Poison, c \in Channels : <<k, c>> \in Calls \ {e}
    BY <1>1, PriorityAssumption DEF PriorityInv, Calls
  <2> QED BY <2>1, <1>1, <1>2 DEF PriorityInv, PoisonIsParkedInTime
<1>5. \A g \in Hands : HandOK(g)'
  BY <1>1, <1>2, HandStays DEF PriorityInv
<1>6. ASSUME NEW j \in accepted' PROVE Entrusted(j)' \/ Settled(j)'
  <2>1. (Entrusted(j) \/ Settled(j)) /\ j \in Keys
    BY <1>1 DEF PriorityInv, PriorityTypeOK
  <2>2. Entrusted(j) => Entrusted(j)'
    BY <1>1, EntrustedStays
  <2>3. Settled(j) => Settled(j)'
    BY <2>1, <1>1, <1>2, AnsweredStays DEF PriorityInv
  <2> QED BY <2>1, <2>2, <2>3
<1> QED BY <1>1, <1>3, <1>4, <1>5, <1>6 DEF PriorityInv

LEMMA StoreKeeps ==
  ASSUME PriorityInv, NEW h \in Hands, NEW ok \in BOOLEAN, StoreRecord(h, ok), faults' \in 0..MaxFaults
  PROVE  PriorityInv'
<1>0. PICK x : x = hand[h]
  OBVIOUS
<1> DEFINE c == First(x.storing)
           k == x.message.key
           y == [x EXCEPT !.storing = @ \ {c}]
<1>1. /\ Busy(h) /\ x.triggering = {} /\ x.storing # {}
      /\ stored' = IF ok THEN [stored EXCEPT ![<<k, c>>] = More(@)] ELSE stored
      /\ refused' = IF ok THEN refused ELSE refused \cup {<<k, c>>}
      /\ Hold(h, y)
  BY <1>0 DEF StoreRecord
<1>2. /\ main' = main /\ retry' = retry /\ dlq' = dlq /\ deaf' = deaf /\ accepted' = accepted
      /\ sent' = sent /\ outstanding' = outstanding /\ ambiguous' = ambiguous
      /\ parked' = parked /\ again' = again
  BY DEF StoreRecord, queues, novu
<1>3. x \in InHand
  BY <1>0, <1>1, TypeIs DEF PriorityInv
<1>4. c \in x.storing /\ c \in Channels
  BY <1>1, <1>3, FirstIs DEF InHand
<1>5. k \in Keys /\ k \notin Poison /\ x.moved = FALSE /\ x.message.retries <= MaxRetries
  BY <1>0, <1>1, <1>3 DEF PriorityInv, HandOK, InHand, Message
<1>6. /\ y \in InHand /\ y.message = x.message /\ y.moved = x.moved
      /\ y.triggering = x.triggering /\ y.taken = x.taken /\ y.storing = x.storing \ {c}
  BY <1>3, <1>4 DEF InHand
<1> HIDE DEF y
<1>7. /\ hand' \in [Hands -> InHand \cup {Nothing}]
      /\ hand'[h] = y /\ y # Nothing /\ \A g \in Hands \ {h} : hand'[g] = hand[g]
  BY <1>1, <1>6, HoldIs, PriorityAssumption DEF PriorityInv
<1>8. /\ stored' \in [Calls -> 0..2] /\ refused' \subseteq Calls
      /\ \A e \in Calls : stored[e] > 0 => stored'[e] > 0
      /\ ok => stored'[<<k, c>>] > 0
  BY <1>1, <1>4, <1>5 DEF PriorityInv, PriorityTypeOK, Calls, More
<1>9. /\ refused \subseteq refused'
      /\ \A j \in Keys, d \in Channels : Answered(j, d) => Answered(j, d)'
      /\ \A j \in Keys : Settled(j) => Settled(j)'
  BY <1>1, <1>2, <1>8, AnsweredStays DEF PriorityInv
<1>10. PriorityTypeOK'
  BY <1>1, <1>2, <1>4, <1>5, <1>7, <1>8 DEF PriorityInv, PriorityTypeOK
<1>11. PoisonIsParkedInTime'
  BY <1>2 DEF PriorityInv, PoisonIsParkedInTime
<1>12. \A g \in Hands : HandOK(g)'
  <2>1. ASSUME NEW d \in Channels
        PROVE  (d \in y.storing /\ sent'[<<k, d>>] > 0) \/ Answered(k, d)'
    <3>1. (d \in x.storing /\ sent[<<k, d>>] > 0) \/ Answered(k, d)
      BY <1>0, <1>1, <1>5 DEF PriorityInv, HandOK
    <3>2. CASE Answered(k, d)
      BY <3>2, <1>5, <1>9
    <3>3. CASE d # c
      BY <3>1, <3>3, <1>2, <1>5, <1>6, <1>9
    <3>4. CASE d = c /\ ok /\ sent[<<k, d>>] > 0
      BY <3>4, <1>2, <1>8 DEF Answered
    <3>5. CASE d = c /\ ~ok
      BY <3>5, <1>1 DEF Answered
    <3> QED BY <3>1, <3>2, <3>3, <3>4, <3>5
  <2>2. x.taken = FALSE
    BY <1>0, <1>1, <1>3 DEF PriorityInv, HandOK, InHand
  <2>3. HandOK(h)'
    BY <2>1, <2>2, <1>5, <1>6, <1>7 DEF HandOK
  <2>4. \A g \in Hands \ {h} : HandOK(g)'
    BY <1>2, <1>7, <1>8, <1>9, HandStays DEF PriorityInv
  <2> QED BY <2>3, <2>4
<1>13. ASSUME NEW j \in accepted' PROVE Entrusted(j)' \/ Settled(j)'
  <2>1. Entrusted(j) \/ Settled(j)
    BY <1>2 DEF PriorityInv
  <2>2. Entrusted(j) => Entrusted(j)'
    BY <1>0, <1>1, <1>2, <1>6, <1>7, TurnKeepsEntrusted
  <2>3. j \in Keys
    BY <1>2 DEF PriorityInv, PriorityTypeOK
  <2> QED BY <2>1, <2>2, <2>3, <1>9
<1> QED BY <1>2, <1>10, <1>11, <1>12, <1>13 DEF PriorityInv

LEMMA HandleFailureKeeps ==
  ASSUME PriorityInv, NEW h \in Hands, HandleFailure(h), faults' \in 0..MaxFaults
  PROVE  PriorityInv'
<1>0. PICK x : x = hand[h]
  OBVIOUS
<1> DEFINE m == Again(x.message)
           y == [x EXCEPT !.moved = TRUE]
<1>1. /\ Busy(h) /\ x.triggering = {} /\ x.storing = {} /\ ~x.moved /\ x.message.key \in Poison
      /\ Hold(h, y)
      /\ retry' = IF MayRetry(m) THEN retry (+) One(m) ELSE retry
      /\ dlq' = IF MayRetry(m) THEN dlq ELSE dlq (+) One(m)
      /\ parked' = IF MayRetry(m) THEN parked ELSE parked \cup {m.key}
  BY <1>0 DEF HandleFailure, Fails, Done
<1>2. /\ main' = main /\ deaf' = deaf /\ accepted' = accepted /\ sent' = sent
      /\ outstanding' = outstanding /\ ambiguous' = ambiguous
      /\ outstanding' = outstanding /\ ambiguous' = ambiguous
      /\ stored' = stored /\ refused' = refused /\ again' = again
  BY DEF HandleFailure, deliveries, novu
<1>3. x \in InHand /\ x.message \in Message /\ x.message.retries <= MaxRetries
  BY <1>0, <1>1, TypeIs DEF PriorityInv, HandOK
<1>4. m \in Message /\ m.key = x.message.key /\ m.retries = x.message.retries + 1
  BY <1>3, PriorityAssumption DEF Again, Message
<1>5. /\ MayRetry(m) => m.retries <= MaxRetries
      /\ ~MayRetry(m) => m.retries = MaxRetries + 1
  BY <1>3, <1>4, PriorityAssumption DEF MayRetry, Message
<1> HIDE DEF m
<1>6. /\ y \in InHand /\ y.message = x.message /\ y.moved = TRUE /\ y.taken = x.taken
      /\ y.triggering = {} /\ y.storing = {}
  BY <1>1, <1>3 DEF InHand
<1> HIDE DEF y
<1>7. /\ hand' \in [Hands -> InHand \cup {Nothing}]
      /\ hand'[h] = y /\ y # Nothing /\ \A g \in Hands \ {h} : hand'[g] = hand[g]
  BY <1>1, <1>6, HoldIs, PriorityAssumption DEF PriorityInv
<1>8. /\ IsABag(retry')
      /\ BagToSet(retry') = IF MayRetry(m) THEN BagToSet(retry) \cup {m} ELSE BagToSet(retry)
  BY <1>1, TypeIs, BagAdd DEF PriorityInv
<1>9. /\ IsABag(dlq')
      /\ BagToSet(dlq') = IF MayRetry(m) THEN BagToSet(dlq) ELSE BagToSet(dlq) \cup {m}
  BY <1>1, TypeIs, BagAdd DEF PriorityInv
<1>10. m.key \in Keys
  BY <1>4 DEF Message
<1>11. PriorityTypeOK'
  BY <1>1, <1>2, <1>4, <1>7, <1>8, <1>9, <1>10 DEF PriorityInv, PriorityTypeOK
<1>12. PoisonIsParkedInTime'
  <2>1. \A n \in BagToSet(dlq') : n.retries = MaxRetries + 1 /\ n.key \in Poison
    BY <1>1, <1>4, <1>5, <1>9 DEF PriorityInv, PoisonIsParkedInTime
  <2>2. \A n \in BagToSet(main') \cup BagToSet(retry') : n.retries <= MaxRetries
    BY <1>2, <1>5, <1>8 DEF PriorityInv, PoisonIsParkedInTime
  <2> QED BY <2>1, <2>2, <1>2 DEF PriorityInv, PoisonIsParkedInTime
<1>13. \A g \in Hands : HandOK(g)'
  <2>0. x.taken = FALSE
    BY <1>0, <1>1, <1>3 DEF PriorityInv, HandOK, InHand
  <2>1. HandOK(h)'
    BY <2>0, <1>1, <1>3, <1>6, <1>7 DEF HandOK
  <2>2. \A g \in Hands \ {h} : HandOK(g)'
    BY <1>1, <1>2, <1>7, HandStays DEF PriorityInv
  <2> QED BY <2>1, <2>2
<1>14. ASSUME NEW k \in accepted' PROVE Entrusted(k)' \/ Settled(k)'
  <2>1. Entrusted(k) \/ Settled(k)
    BY <1>2 DEF PriorityInv
  <2>2. CASE Settled(k)
    BY <2>2, <1>1, <1>2, AnsweredStays DEF PriorityInv
  <2>3. CASE k = m.key
    <3>1. CASE MayRetry(m)
      BY <2>3, <3>1, <1>8 DEF Entrusted, Waiting
    <3>2. CASE ~MayRetry(m)
      BY <2>3, <3>2, <1>1 DEF Settled
    <3> QED BY <3>1, <3>2
  <2>4. CASE Waiting(k)
    BY <2>4, <1>2, <1>8 DEF Entrusted, Waiting
  <2>5. ASSUME NEW g \in Hands, Busy(g), g[1] \notin deaf, hand[g].message.key = k, ~hand[g].moved,
               k # m.key
        PROVE  Entrusted(k)'
    <3>1. g # h
      BY <2>5, <1>0, <1>4
    <3> QED BY <3>1, <2>5, <1>2, <1>7 DEF Entrusted, Busy
  <2> QED BY <2>1, <2>2, <2>3, <2>4, <2>5 DEF Entrusted
<1> QED BY <1>2, <1>11, <1>12, <1>13, <1>14 DEF PriorityInv

LEMMA AckKeeps ==
  ASSUME PriorityInv, NEW h \in Hands, AckMessage(h), faults' \in 0..MaxFaults
  PROVE  PriorityInv'
<1>1. Finished(h) /\ Hold(h, Nothing)
  BY DEF AckMessage
<1>2. /\ main' = main /\ retry' = retry /\ dlq' = dlq /\ deaf' = deaf /\ accepted' = accepted
      /\ sent' = sent /\ stored' = stored /\ refused' = refused /\ parked' = parked /\ again' = again
      /\ outstanding' = outstanding /\ ambiguous' = ambiguous
  BY DEF AckMessage, queues, deliveries, novu
<1>3. /\ hand' \in [Hands -> InHand \cup {Nothing}]
      /\ hand'[h] = Nothing /\ \A g \in Hands \ {h} : hand'[g] = hand[g]
  BY <1>1, HoldIs DEF PriorityInv
<1>4. PriorityTypeOK'
  BY <1>2, <1>3 DEF PriorityInv, PriorityTypeOK
<1>5. PoisonIsParkedInTime'
  BY <1>2 DEF PriorityInv, PoisonIsParkedInTime
<1>6. \A g \in Hands : HandOK(g)'
  <2>1. HandOK(h)'
    BY <1>3 DEF HandOK, Busy
  <2>2. \A g \in Hands \ {h} : HandOK(g)'
    BY <1>2, <1>3, HandStays DEF PriorityInv
  <2> QED BY <2>1, <2>2
<1>7. ASSUME NEW k \in accepted' PROVE Entrusted(k)' \/ Settled(k)'
  <2>1. Entrusted(k) \/ Settled(k)
    BY <1>2 DEF PriorityInv
  <2>2. CASE Settled(k)
    BY <2>2, <1>2, AnsweredStays DEF PriorityInv
  <2>3. CASE Waiting(k)
    BY <2>3, <1>2 DEF Entrusted, Waiting
  <2>4. ASSUME NEW g \in Hands, Busy(g), g[1] \notin deaf, hand[g].message.key = k, ~hand[g].moved
        PROVE  Entrusted(k)' \/ Settled(k)'
    <3>1. CASE g # h
      BY <3>1, <2>4, <1>2, <1>3 DEF Entrusted, Busy
    <3>2. CASE g = h
      <4>1. hand[h].triggering = {} /\ hand[h].storing = {} /\ k \notin Poison
        BY <3>2, <2>4, <1>1 DEF Finished, Fails, Done
      <4>2. \A c \in Channels : Answered(k, c)
        BY <4>1, <3>2, <2>4 DEF PriorityInv, HandOK
      <4>3. Settled(k)
        BY <4>1, <4>2 DEF Settled
      <4> QED BY <4>3, <1>2, AnsweredStays DEF PriorityInv
    <3> QED BY <3>1, <3>2
  <2> QED BY <2>1, <2>2, <2>3, <2>4 DEF Entrusted
<1> QED BY <1>2, <1>4, <1>5, <1>6, <1>7 DEF PriorityInv

LEMMA ExpireKeeps ==
  ASSUME PriorityInv, Expire, faults' \in 0..MaxFaults
  PROVE  PriorityInv'
<1>1. PICK m \in BagToSet(dlq) : dlq' = dlq (-) One(m)
  BY DEF Expire
<1>2. /\ main' = main /\ retry' = retry /\ hand' = hand /\ deaf' = deaf /\ accepted' = accepted
      /\ sent' = sent /\ stored' = stored /\ refused' = refused /\ parked' = parked /\ again' = again
      /\ outstanding' = outstanding /\ ambiguous' = ambiguous
  BY DEF Expire, deliveries, novu
<1>3. IsABag(dlq') /\ BagToSet(dlq') \subseteq BagToSet(dlq)
  BY <1>1, TypeIs, BagTake DEF PriorityInv
<1>4. PriorityTypeOK'
  BY <1>2, <1>3 DEF PriorityInv, PriorityTypeOK
<1>5. PoisonIsParkedInTime'
  BY <1>2, <1>3 DEF PriorityInv, PoisonIsParkedInTime
<1>6. \A g \in Hands : HandOK(g)'
  BY <1>2, HandStays DEF PriorityInv
<1>7. ASSUME NEW k \in accepted' PROVE Entrusted(k)' \/ Settled(k)'
  <2>1. Entrusted(k) => Entrusted(k)'
    BY <1>2, EntrustedStays
  <2>2. Settled(k) => Settled(k)'
    BY <1>2, AnsweredStays DEF PriorityInv
  <2> QED BY <2>1, <2>2, <1>2 DEF PriorityInv
<1> QED BY <1>2, <1>4, <1>5, <1>6, <1>7 DEF PriorityInv

\* What the broker puts back joins its queues, and has been there before.
LEMMA PutBackIs ==
  ASSUME PriorityInv, NEW r \in Replicas, PutBack(r)
  PROVE  /\ IsABag(main') /\ IsABag(retry') /\ again' \subseteq Keys
         /\ BagToSet(main) \subseteq BagToSet(main') /\ BagToSet(retry) \subseteq BagToSet(retry')
         /\ \A m \in BagToSet(main') \cup BagToSet(retry') : m \in Message /\ m.retries <= MaxRetries
         /\ r \notin deaf => \A h \in Hands : Busy(h) /\ h[1] = r =>
               hand[h].message \in BagToSet(main') \cup BagToSet(retry')
<1> DEFINE of(q) == {hand[h].message : h \in HandsOf(r, q)}
<1>1. \A m \in BagToSet(main) \cup BagToSet(retry) : m \in Message /\ m.retries <= MaxRetries
  BY TypeIs DEF PriorityInv, PoisonIsParkedInTime
<1>2. CASE r \in deaf
  BY <1>1, <1>2, TypeIs DEF PutBack, PriorityInv, PriorityTypeOK
<1>3. CASE r \notin deaf
  <2>1. \A q : HandsOf(r, q) \in SUBSET Hands
    BY DEF HandsOf
  <2>2. \A q : IsABag(Messages(HandsOf(r, q))) /\ BagToSet(Messages(HandsOf(r, q))) = of(q)
    BY <2>1, MessagesIs
  <2>3. \A q : \A m \in of(q) : m \in Message /\ m.retries <= MaxRetries
    BY TypeIs DEF HandsOf, PriorityInv, HandOK
  <2> HIDE DEF of
  <2>4. IsABag(main') /\ BagToSet(main') = BagToSet(main) \cup of("main")
    BY <1>3, <2>2, TypeIs, BagJoin DEF PutBack, PriorityInv
  <2>5. IsABag(retry') /\ BagToSet(retry') = BagToSet(retry) \cup of("retry")
    BY <1>3, <2>2, TypeIs, BagJoin DEF PutBack, PriorityInv
  <2>6. again' \subseteq Keys
    <3>1. \A q : \A h \in HandsOf(r, q) : hand[h].message.key \in Keys
      BY TypeIs DEF HandsOf, PriorityInv, Message
    <3> QED BY <3>1, <1>3 DEF PutBack, PriorityInv, PriorityTypeOK
  <2>7. ASSUME NEW h \in Hands, Busy(h), h[1] = r
        PROVE  hand[h].message \in of("main") \cup of("retry")
    <3>1. h \in HandsOf(r, "main") \/ h \in HandsOf(r, "retry")
      BY <2>7 DEF HandsOf, Hands
    <3> QED BY <3>1 DEF of
  <2> QED BY <1>1, <2>3, <2>4, <2>5, <2>6, <2>7
<1> QED BY <1>2, <1>3

LEMMA DisconnectKeeps ==
  ASSUME PriorityInv, NEW r \in Replicas, Disconnect(r)
  PROVE  PriorityInv'
<1>1. r \notin deaf /\ PutBack(r) /\ deaf' = deaf \cup {r}
  BY DEF Disconnect
<1>2. /\ dlq' = dlq /\ hand' = hand /\ accepted' = accepted
      /\ sent' = sent /\ stored' = stored /\ refused' = refused /\ parked' = parked
      /\ outstanding' = outstanding /\ ambiguous' = ambiguous
  BY DEF Disconnect, deliveries, novu
<1>3. /\ IsABag(main') /\ IsABag(retry') /\ again' \subseteq Keys
      /\ BagToSet(main) \subseteq BagToSet(main') /\ BagToSet(retry) \subseteq BagToSet(retry')
      /\ \A m \in BagToSet(main') \cup BagToSet(retry') : m \in Message /\ m.retries <= MaxRetries
      /\ \A h \in Hands : Busy(h) /\ h[1] = r =>
               hand[h].message \in BagToSet(main') \cup BagToSet(retry')
  BY <1>1, PutBackIs
<1>4. PriorityTypeOK'
  <2>1. faults' \in 0..MaxFaults
    BY PriorityAssumption DEF Disconnect, Fault, PriorityInv, PriorityTypeOK
  <2> QED BY <2>1, <1>1, <1>2, <1>3 DEF PriorityInv, PriorityTypeOK
<1>5. PoisonIsParkedInTime'
  BY <1>2, <1>3 DEF PriorityInv, PoisonIsParkedInTime
<1>6. \A g \in Hands : HandOK(g)'
  BY <1>2, HandStays DEF PriorityInv
<1>7. ASSUME NEW k \in accepted' PROVE Entrusted(k)' \/ Settled(k)'
  <2>1. Entrusted(k) \/ Settled(k)
    BY <1>2 DEF PriorityInv
  <2>2. CASE Settled(k)
    BY <2>2, <1>2, AnsweredStays DEF PriorityInv
  <2>3. CASE Waiting(k)
    BY <2>3, <1>3 DEF Entrusted, Waiting
  <2>4. ASSUME NEW g \in Hands, Busy(g), g[1] \notin deaf, hand[g].message.key = k, ~hand[g].moved
        PROVE  Entrusted(k)'
    <3>1. CASE g[1] = r
      BY <3>1, <2>4, <1>3 DEF Entrusted, Waiting
    <3>2. CASE g[1] # r
      BY <3>2, <2>4, <1>1, <1>2 DEF Entrusted, Busy
    <3> QED BY <3>1, <3>2
  <2> QED BY <2>1, <2>2, <2>3, <2>4 DEF Entrusted
<1> QED BY <1>2, <1>4, <1>5, <1>6, <1>7 DEF PriorityInv

LEMMA DiesKeeps ==
  ASSUME PriorityInv, NEW r \in Replicas, Dies(r), faults' \in 0..MaxFaults
  PROVE  PriorityInv'
<1>1. PutBack(r) /\ deaf' = deaf \ {r}
  BY DEF Dies
<1>2. /\ dlq' = dlq /\ accepted' = accepted
      /\ sent' = sent /\ stored' = stored /\ refused' = refused /\ parked' = parked
      /\ ambiguous' = ambiguous
      /\ outstanding' = outstanding \cup {Call(h) : h \in {g \in Hands : g[1] = r /\ Calling(g)}}
  BY DEF Dies
<1>3. /\ IsABag(main') /\ IsABag(retry') /\ again' \subseteq Keys
      /\ BagToSet(main) \subseteq BagToSet(main') /\ BagToSet(retry) \subseteq BagToSet(retry')
      /\ \A m \in BagToSet(main') \cup BagToSet(retry') : m \in Message /\ m.retries <= MaxRetries
      /\ r \notin deaf => \A h \in Hands : Busy(h) /\ h[1] = r =>
               hand[h].message \in BagToSet(main') \cup BagToSet(retry')
  BY <1>1, PutBackIs
<1>4. /\ hand' \in [Hands -> InHand \cup {Nothing}]
      /\ \A g \in Hands : g[1] = r => hand'[g] = Nothing
      /\ \A g \in Hands : g[1] # r => hand'[g] = hand[g]
  BY TypeIs DEF Dies, PriorityInv
<1>late. \A e \in outstanding' : e \in Calls /\ e[1] \notin Poison
  BY <1>2, CallIs DEF PriorityInv, PriorityTypeOK
<1>5. PriorityTypeOK'
  BY <1>1, <1>2, <1>3, <1>4, <1>late DEF PriorityInv, PriorityTypeOK
<1>6. PoisonIsParkedInTime'
  BY <1>2, <1>3 DEF PriorityInv, PoisonIsParkedInTime
<1>7. ASSUME NEW g \in Hands PROVE HandOK(g)'
  <2>1. CASE g[1] = r
    BY <2>1, <1>4 DEF HandOK, Busy
  <2>2. CASE g[1] # r
    BY <2>2, <1>2, <1>4, HandStays DEF PriorityInv
  <2> QED BY <2>1, <2>2
<1>8. ASSUME NEW k \in accepted' PROVE Entrusted(k)' \/ Settled(k)'
  <2>1. Entrusted(k) \/ Settled(k)
    BY <1>2 DEF PriorityInv
  <2>2. CASE Settled(k)
    BY <2>2, <1>2, AnsweredStays DEF PriorityInv
  <2>3. CASE Waiting(k)
    BY <2>3, <1>3 DEF Entrusted, Waiting
  <2>4. ASSUME NEW g \in Hands, Busy(g), g[1] \notin deaf, hand[g].message.key = k, ~hand[g].moved
        PROVE  Entrusted(k)'
    <3>1. CASE g[1] = r
      BY <3>1, <2>4, <1>3 DEF Entrusted, Waiting
    <3>2. CASE g[1] # r
      BY <3>2, <2>4, <1>1, <1>4 DEF Entrusted, Busy
    <3> QED BY <3>1, <3>2
  <2> QED BY <2>1, <2>2, <2>3, <2>4 DEF Entrusted
<1> QED BY <1>5, <1>6, <1>7, <1>8, <1>late DEF PriorityInv

-----------------------------------------------------------------------------
(* Every step, and the theorems *)

LEMMA InvStep == PriorityInv /\ [PriorityNext]_priorityVars => PriorityInv'
<1> SUFFICES ASSUME PriorityInv, [PriorityNext]_priorityVars PROVE PriorityInv'
  OBVIOUS
<1>1. faults \in 0..MaxFaults /\ (Fault => faults' \in 0..MaxFaults)
  BY PriorityAssumption DEF PriorityInv, PriorityTypeOK, Fault
<1>2. CASE \E k \in Keys \ accepted : EnqueueNotification(k) /\ UNCHANGED faults
  BY <1>1, <1>2, EnqueueKeeps
<1>3. ASSUME NEW h \in Hands, WorkerStep(h) PROVE PriorityInv'
  <2>1. CASE Take(h) /\ UNCHANGED faults
    BY <2>1, <1>1, TakeKeeps
  <2>2. CASE Triggered(h) /\ UNCHANGED faults
    BY <2>2, <1>1, TriggeredKeeps
  <2>3. CASE TriggerFails(h, FALSE) /\ UNCHANGED faults
    BY <2>3, <1>1, TriggerFailsKeeps
  <2>4. CASE StoreRecord(h, TRUE) /\ UNCHANGED faults
    BY <2>4, <1>1, StoreKeeps
  <2>5. CASE HandleFailure(h) /\ UNCHANGED faults
    BY <2>5, <1>1, HandleFailureKeeps
  <2>6. CASE AckMessage(h) /\ UNCHANGED faults
    BY <2>6, <1>1, AckKeeps
  <2>7. CASE TriggerFails(h, TRUE) /\ Fault
    BY <2>7, <1>1, TriggerFailsKeeps
  <2>8. CASE StoreRecord(h, FALSE) /\ Fault
    BY <2>8, <1>1, StoreKeeps
  <2>9. CASE AckThrows(h)
    <3>1. h[1] \in Replicas
      BY DEF Hands
    <3> QED BY <3>1, <2>9, <1>1, DiesKeeps DEF AckThrows
  <2> QED BY <1>3, <2>1, <2>2, <2>3, <2>4, <2>5, <2>6, <2>7, <2>8, <2>9 DEF WorkerStep
<1>4. CASE Expire /\ UNCHANGED faults
  BY <1>1, <1>4, ExpireKeeps
<1>5. ASSUME NEW r \in Replicas, Disconnect(r) \/ Crash(r) PROVE PriorityInv'
  BY <1>1, <1>5, DisconnectKeeps, DiesKeeps DEF Crash
<1>6. CASE NovuStep
  BY <1>1, <1>6, AcceptKeeps, LateKeeps DEF NovuStep
<1>7. CASE UNCHANGED priorityVars
  <2>1. /\ main' = main /\ retry' = retry /\ dlq' = dlq /\ hand' = hand /\ deaf' = deaf
        /\ accepted' = accepted /\ sent' = sent /\ stored' = stored /\ refused' = refused
        /\ parked' = parked /\ again' = again /\ faults' = faults
        /\ outstanding' = outstanding /\ ambiguous' = ambiguous
    BY <1>7 DEF priorityVars, queues, deliveries, novu
  <2>2. PriorityTypeOK' /\ PoisonIsParkedInTime'
    BY <2>1 DEF PriorityInv, PriorityTypeOK, PoisonIsParkedInTime
  <2>3. \A g \in Hands : HandOK(g)'
    BY <2>1, HandStays DEF PriorityInv
  <2>4. \A k \in accepted' : Entrusted(k)' \/ Settled(k)'
    BY <2>1, EntrustedStays, AnsweredStays DEF PriorityInv
  <2> QED BY <2>1, <2>2, <2>3, <2>4 DEF PriorityInv
<1> QED BY <1>2, <1>3, <1>4, <1>5, <1>6, <1>7 DEF PriorityNext

LEMMA InvHolds == PrioritySpec => []PriorityInv
BY InvInit, InvStep, PTL DEF PrioritySpec

\* Every variable keeps its type.
THEOREM PriorityTypes == PrioritySpec => []PriorityTypeOK
<1>1. PriorityInv => PriorityTypeOK
  BY DEF PriorityInv
<1> QED BY <1>1, InvHolds, PTL

\* handleMessageFailure dead-letters a message that always fails after its last
\* retry, never before, and such a message has reached nobody.
THEOREM PoisonIsParked == PrioritySpec => []PoisonIsParkedInTime
<1>1. PriorityInv => PoisonIsParkedInTime
  BY DEF PriorityInv
<1> QED BY <1>1, InvHolds, PTL

\* Whatever crashes or disconnects, a message that reached the main queue is in a
\* queue or in hand until it is answered on each channel or dead-lettered.
THEOREM NoMessageVanishes == PrioritySpec => []NothingVanishes
<1>1. ASSUME NEW k, Entrusted(k) PROVE Waiting(k) \/ Handled(k)
  BY <1>1 DEF Entrusted, Handled
<1>2. PriorityInv => NothingVanishes
  BY <1>1 DEF PriorityInv, NothingVanishes
<1> QED BY <1>2, InvHolds, PTL

-----------------------------------------------------------------------------
(* Nobody is notified twice *)

NumberOf(e, B) == IF BagIn(e, B) THEN B[e] ELSE 0

Has(h, k) == Busy(h) /\ hand[h].message.key = k

\* The workflow of the key's channel was accepted, leaving aside the calls that may
\* have sent twice, or recorded, so and so often.
Sent(k, c) == IF <<k, c>> \in ambiguous THEN 0 ELSE sent[<<k, c>>]
Stored(k, c) == stored[<<k, c>>]

\* Of a message that never went back to its queue there is one copy: it waits and
\* nothing has been sent, or one hand has it and sends what has not been sent.  What
\* may yet reach Novu of its calls is of those that may have sent twice.
OneCopy(k) ==
    /\ \A m \in Message : m.key = k =>
         /\ NumberOf(m, retry) = 0
         /\ NumberOf(m, main) # 0 => NumberOf(m, main) = 1 /\ m.retries = 0
    /\ Waiting(k) => /\ \A h \in Hands : ~Has(h, k)
                     /\ \A c \in Channels : Sent(k, c) = 0 /\ Stored(k, c) = 0
    /\ \A g, h \in Hands : Has(g, k) /\ Has(h, k) => g = h
    /\ k \notin accepted => /\ ~Waiting(k) /\ \A h \in Hands : ~Has(h, k)
                            /\ \A c \in Channels : Sent(k, c) = 0 /\ Stored(k, c) = 0

SendsOnce(k) ==
    /\ \A h \in Hands, c \in Channels : Has(h, k) =>
         /\ c \in hand[h].triggering => /\ Sent(k, c) # 0 => hand[h].taken /\ <<k, c>> = Call(h)
                                        /\ c \notin hand[h].storing
         /\ c \in hand[h].triggering \cup hand[h].storing => Stored(k, c) = 0
    /\ \A c \in Channels : /\ Sent(k, c) <= 1 /\ Stored(k, c) <= 1
                           /\ <<k, c>> \in outstanding => <<k, c>> \in ambiguous

OnceInv ==
    /\ \A k \in Keys \ (Poison \cup again) : OneCopy(k) /\ SendsOnce(k)
    /\ \A k \in Poison, c \in Channels : Stored(k, c) = 0
    /\ \A h \in Hands : Busy(h) /\ h[1] \in deaf => hand[h].message.key \in again

LEMMA Copies ==
  ASSUME NEW B, IsABag(B), NEW x
  PROVE  NumberOf(x, B) \in Nat /\ (NumberOf(x, B) # 0 <=> x \in BagToSet(B))
  BY DEF IsABag, BagToSet, NumberOf, BagIn

LEMMA CopiesAdd ==
  ASSUME NEW B, IsABag(B), NEW e, NEW x
  PROVE  NumberOf(x, B (+) One(e)) = NumberOf(x, B) + (IF x = e THEN 1 ELSE 0)
  BY DEF IsABag, BagToSet, NumberOf, BagIn, One, SetToBag, (+)

LEMMA CopiesTake ==
  ASSUME NEW B, IsABag(B), NEW e \in BagToSet(B), NEW x
  PROVE  NumberOf(x, B (-) One(e)) = NumberOf(x, B) - (IF x = e THEN 1 ELSE 0)
<1> DEFINE C == [y \in DOMAIN B |-> IF y \in {e} THEN B[y] - 1 ELSE B[y]]
           D == {y \in DOMAIN C : C[y] > 0}
<1>1. B (-) One(e) = [y \in D |-> C[y]]
  BY DEF One, SetToBag, (-)
<1>2. \A y \in DOMAIN B : B[y] \in Nat /\ B[y] > 0
  BY DEF IsABag
<1>3. \A y : y \in D <=> y \in DOMAIN B /\ (IF y = e THEN B[y] - 1 ELSE B[y]) > 0
  OBVIOUS
<1>4. \A y \in D : C[y] = IF y = e THEN B[y] - 1 ELSE B[y]
  OBVIOUS
<1> HIDE DEF C, D
<1>5. NumberOf(x, B (-) One(e)) = IF x \in D THEN C[x] ELSE 0
  BY <1>1 DEF NumberOf, BagIn, BagToSet
<1>6. CASE x \in DOMAIN B
  BY <1>2, <1>3, <1>4, <1>5, <1>6 DEF NumberOf, BagIn, BagToSet
<1>7. CASE x \notin DOMAIN B
  BY <1>3, <1>5, <1>7 DEF NumberOf, BagIn, BagToSet
<1> QED BY <1>6, <1>7

LEMMA CopiesJoin ==
  ASSUME NEW B, IsABag(B), NEW C, NEW x, x \notin BagToSet(C)
  PROVE  NumberOf(x, B (+) C) = NumberOf(x, B)
  BY DEF IsABag, BagToSet, NumberOf, BagIn, (+)

LEMMA NotWaiting ==
  ASSUME PriorityTypeOK, NEW k
  PROVE  Waiting(k) <=> \E m \in Message : /\ m.key = k
                                           /\ NumberOf(m, main) # 0 \/ NumberOf(m, retry) # 0
<1>1. \A m : /\ NumberOf(m, main) # 0 <=> m \in BagToSet(main)
             /\ NumberOf(m, retry) # 0 <=> m \in BagToSet(retry)
  BY Copies DEF PriorityTypeOK
<1> QED BY <1>1, WaitingIs DEF PriorityTypeOK

\* The step leaves alone what concerns k, or lets it go.
Untouched(k) ==
    /\ \A m \in Message : m.key = k => /\ NumberOf(m, main') = NumberOf(m, main)
                                       /\ NumberOf(m, retry') = NumberOf(m, retry)
    /\ \A h \in Hands : Has(h, k)' => Has(h, k) /\ hand'[h] = hand[h]
    /\ \A c \in Channels : /\ Sent(k, c)' = Sent(k, c) /\ Stored(k, c)' = Stored(k, c)
                           /\ <<k, c>> \in outstanding' => <<k, c>> \in outstanding
                           /\ <<k, c>> \in ambiguous => <<k, c>> \in ambiguous'
    /\ k \in accepted => k \in accepted'

LEMMA UntouchedKeeps ==
  ASSUME PriorityTypeOK, PriorityTypeOK', NEW k, OneCopy(k), SendsOnce(k), Untouched(k)
  PROVE  OneCopy(k)' /\ SendsOnce(k)'
<1>1. Waiting(k) <=> \E m \in Message : /\ m.key = k
                                        /\ NumberOf(m, main) # 0 \/ NumberOf(m, retry) # 0
  BY NotWaiting
<1>2. Waiting(k)' <=> \E m \in Message : /\ m.key = k
                                         /\ NumberOf(m, main') # 0 \/ NumberOf(m, retry') # 0
  <2>1. \A m : /\ NumberOf(m, main') # 0 <=> m \in BagToSet(main')
               /\ NumberOf(m, retry') # 0 <=> m \in BagToSet(retry')
    BY Copies DEF PriorityTypeOK
  <2> QED BY <2>1 DEF Waiting, PriorityTypeOK
<1>3. Waiting(k)' => Waiting(k)
  BY <1>1, <1>2 DEF Untouched
<1>4. OneCopy(k)'
  BY <1>3 DEF OneCopy, Untouched
<1>5. \A h \in Hands : Has(h, k)' => Call(h)' = Call(h)
  BY DEF Untouched, Call
<1>6. SendsOnce(k)'
  BY <1>5 DEF SendsOnce, Untouched
<1> QED BY <1>4, <1>6

LEMMA EnqueueOnce ==
  ASSUME PriorityTypeOK, PriorityTypeOK', NEW j \in Keys \ accepted, EnqueueNotification(j),
         NEW k \in Keys, OneCopy(k), SendsOnce(k)
  PROVE  OneCopy(k)' /\ SendsOnce(k)'
<1> DEFINE m == [key |-> j, retries |-> 0]
<1>1. /\ retry' = retry /\ hand' = hand /\ sent' = sent /\ stored' = stored
      /\ outstanding' = outstanding /\ ambiguous' = ambiguous
      /\ accepted' = accepted \cup {j}
  BY DEF EnqueueNotification, deliveries, novu
<1>2. \A n : NumberOf(n, main') = NumberOf(n, main) + (IF n = m THEN 1 ELSE 0)
  BY CopiesAdd DEF EnqueueNotification, PriorityTypeOK
<1>3. m.key = j /\ m.retries = 0
  OBVIOUS
<1> HIDE DEF m
<1>4. CASE k # j
  <2>1. Untouched(k)
    <3>1. \A n \in Message : NumberOf(n, main) \in Nat
      BY Copies DEF PriorityTypeOK
    <3> QED BY <1>1, <1>2, <1>3, <1>4, <3>1 DEF Untouched, Has, Busy, Sent, Stored
  <2> QED BY <2>1, UntouchedKeeps
<1>5. CASE k = j
  <2>1. \A h \in Hands : ~Has(h, k)'
    BY <1>1, <1>5 DEF OneCopy, Has, Busy
  <2>2. \A c \in Channels : Sent(k, c)' = 0 /\ Stored(k, c)' = 0
    BY <1>1, <1>5 DEF OneCopy, Sent, Stored
  <2>3. \A n \in Message : n.key = k => NumberOf(n, main) = 0 /\ NumberOf(n, retry) = 0
    BY <1>5, NotWaiting DEF OneCopy
  <2>4. \A n \in Message : n.key = k =>
          /\ NumberOf(n, retry') = 0
          /\ NumberOf(n, main') # 0 => NumberOf(n, main') = 1 /\ n.retries = 0
    BY <1>1, <1>2, <1>3, <2>3
  <2> QED BY <1>1, <1>5, <2>1, <2>2, <2>4 DEF OneCopy, SendsOnce
<1> QED BY <1>4, <1>5

LEMMA TakeOnce ==
  ASSUME PriorityTypeOK, PriorityTypeOK', NEW h \in Hands, Take(h),
         NEW k \in Keys \ Poison, OneCopy(k), SendsOnce(k)
  PROVE  OneCopy(k)' /\ SendsOnce(k)'
<1> DEFINE holding(m) == [message |-> m, triggering |-> IF m.key \in Poison THEN {} ELSE Channels,
                          taken |-> FALSE, storing |-> {}, moved |-> FALSE]
<1>1. PICK m \in BagToSet(Of(h)) :
        /\ main' = IF h[3] = "main" THEN main (-) One(m) ELSE main
        /\ retry' = IF h[3] = "retry" THEN retry (-) One(m) ELSE retry
        /\ Hold(h, holding(m))
  BY DEF Take
<1>2. /\ ~Busy(h) /\ sent' = sent /\ stored' = stored /\ accepted' = accepted
      /\ outstanding' = outstanding /\ ambiguous' = ambiguous
  BY DEF Take, deliveries, novu
<1>3. h[3] = "main" \/ h[3] = "retry"
  BY DEF Hands
<1>4. IsABag(main) /\ IsABag(retry) /\ m \in Message
  BY <1>1, TypeIs DEF Of
<1>5. \A n : NumberOf(n, main) \in Nat /\ NumberOf(n, retry) \in Nat
  BY <1>4, Copies
<1>6. \A n : /\ NumberOf(n, main') =
                  NumberOf(n, main) - (IF n = m /\ h[3] = "main" THEN 1 ELSE 0)
             /\ NumberOf(n, retry') =
                  NumberOf(n, retry) - (IF n = m /\ h[3] = "retry" THEN 1 ELSE 0)
  BY <1>1, <1>3, <1>4, <1>5, CopiesTake DEF Of
<1>7. holding(m).message = m /\ holding(m).storing = {} /\ holding(m) \in InHand
  BY <1>4 DEF InHand
<1> HIDE DEF holding
<1>8. hand'[h] = holding(m) /\ \A g \in Hands \ {h} : hand'[g] = hand[g]
  BY <1>1, <1>7, HoldIs
<1>9. \A g \in Hands \ {h} : Has(g, k)' <=> Has(g, k)
  BY <1>8 DEF Has, Busy
<1>10. CASE m.key # k
  <2>1. ~Has(h, k)'
    BY <1>7, <1>8, <1>10 DEF Has
  <2>2. Untouched(k)
    BY <1>2, <1>5, <1>6, <1>8, <1>9, <1>10, <2>1 DEF Untouched, Sent, Stored
  <2> QED BY <2>2, UntouchedKeeps
<1>11. CASE m.key = k
  <2>1. h[3] = "main" /\ NumberOf(m, main) = 1 /\ m.retries = 0
    BY <1>1, <1>3, <1>4, <1>11, Copies DEF OneCopy, Of
  <2>2. \A n \in Message : n.key = k /\ n.retries = 0 => n = m
    BY <1>4, <1>11, <2>1 DEF Message
  <2>3. \A n \in Message : n.key = k => NumberOf(n, main') = 0 /\ NumberOf(n, retry') = 0
    BY <1>4, <1>5, <1>6, <1>11, <2>1, <2>2 DEF OneCopy
  <2>4. ~Waiting(k)'
    <3>1. \A n : /\ NumberOf(n, main') # 0 <=> n \in BagToSet(main')
                 /\ NumberOf(n, retry') # 0 <=> n \in BagToSet(retry')
      BY Copies DEF PriorityTypeOK
    <3> QED BY <2>3, <3>1 DEF Waiting, PriorityTypeOK
  <2>5. Waiting(k) /\ k \in accepted
    <3>1. Waiting(k)
      BY <1>4, <1>11, <2>1, NotWaiting
    <3> QED BY <3>1 DEF OneCopy
  <2>6. /\ \A g \in Hands \ {h} : ~Has(g, k)'
        /\ \A c \in Channels : Sent(k, c)' = 0 /\ Stored(k, c)' = 0
    BY <1>2, <1>9, <2>5 DEF OneCopy, Sent, Stored
  <2>7. OneCopy(k)'
    BY <1>2, <2>3, <2>4, <2>5, <2>6 DEF OneCopy
  <2>8. SendsOnce(k)'
    BY <1>2, <1>7, <1>8, <2>6 DEF SendsOnce
  <2> QED BY <2>7, <2>8
<1> QED BY <1>10, <1>11

\* A step of one hand on a message of another key does not touch k.
LEMMA OtherKey ==
  ASSUME PriorityTypeOK, NEW h \in Hands, NEW x, hand' = [hand EXCEPT ![h] = x],
         x = Nothing \/ x.message = hand[h].message, Busy(h),
         NEW k, x # Nothing => hand[h].message.key # k
  PROVE  \A g \in Hands : Has(g, k)' => Has(g, k) /\ hand'[g] = hand[g]
<1>1. /\ hand'[h] = x /\ \A g \in Hands \ {h} : hand'[g] = hand[g]
  BY DEF PriorityTypeOK
<1>2. ~Has(h, k)'
  BY <1>1 DEF Has, Busy
<1> QED BY <1>1, <1>2 DEF Has, Busy

\* While a hand works on a message of which there is one copy, it alone concerns k.
LEMMA TurnOnce ==
  ASSUME PriorityTypeOK, NEW h \in Hands, NEW w \in InHand, Hold(h, w), Busy(h),
         w.message = hand[h].message, main' = main, retry' = retry, accepted' = accepted,
         NEW k, hand[h].message.key = k, OneCopy(k)
  PROVE  /\ Has(h, k) /\ OneCopy(k)'
         /\ hand'[h] = w /\ \A g \in Hands \ {h} : ~Has(g, k)'
<1>1. hand'[h] = w /\ w # Nothing /\ \A g \in Hands \ {h} : hand'[g] = hand[g]
  BY HoldIs, PriorityAssumption
<1>2. Has(h, k) /\ Has(h, k)'
  BY <1>1 DEF Has, Busy
<1>3. /\ ~Waiting(k) /\ k \in accepted
      /\ \A g \in Hands \ {h} : ~Has(g, k)
  BY <1>2 DEF OneCopy
<1>4. ~Waiting(k)'
  BY <1>3 DEF Waiting
<1>5. \A g \in Hands \ {h} : ~Has(g, k)'
  BY <1>1, <1>3 DEF Has, Busy
<1>6. OneCopy(k)'
  BY <1>3, <1>4, <1>5 DEF OneCopy
<1> QED BY <1>1, <1>2, <1>5, <1>6

LEMMA AcceptOnce ==
  ASSUME PriorityInv, PriorityTypeOK', NEW h \in Hands, NEW repeated \in BOOLEAN,
         NovuAccepts(h, repeated), NEW k \in Keys, OneCopy(k), SendsOnce(k)
  PROVE  OneCopy(k)' /\ SendsOnce(k)'
<1>0. PICK x, c : x = hand[h] /\ c = First(x.triggering)
  OBVIOUS
<1> DEFINE w == [x EXCEPT !.taken = TRUE]
           e == <<x.message.key, c>>
<1>1. /\ Calling(h) /\ Busy(h) /\ x.taken = repeated /\ Hold(h, w)
      /\ sent' = [sent EXCEPT ![e] = More(@)]
      /\ ambiguous' = IF repeated THEN ambiguous \cup {e} ELSE ambiguous
  BY <1>0 DEF NovuAccepts, Calling, Call
<1>2. /\ main' = main /\ retry' = retry /\ accepted' = accepted /\ stored' = stored
      /\ outstanding' = outstanding
  BY DEF NovuAccepts, queues
<1>3. x \in InHand /\ e \in Calls /\ e = Call(h) /\ c \in x.triggering /\ c \in Channels
  BY <1>0, <1>1, CallIs
<1>4. /\ w \in InHand /\ w.message = x.message /\ w.taken = TRUE
      /\ w.triggering = x.triggering /\ w.storing = x.storing
  BY <1>3 DEF InHand
<1> HIDE DEF w
<1>5. PriorityTypeOK
  BY DEF PriorityInv
<1>6. /\ \A d \in Calls \ {e} : sent'[d] = sent[d] /\ (d \in ambiguous' <=> d \in ambiguous)
      /\ sent'[e] = More(sent[e])
  BY <1>1, <1>3, <1>5 DEF PriorityTypeOK
<1>7. CASE x.message.key # k
  <2>1. \A g \in Hands : Has(g, k)' => Has(g, k) /\ hand'[g] = hand[g]
    BY <1>0, <1>1, <1>4, <1>5, <1>7, OtherKey DEF Hold
  <2>2. \A d \in Channels : <<k, d>> \in Calls \ {e}
    BY <1>7 DEF Calls
  <2>3. \A d \in Channels : Sent(k, d)' = Sent(k, d) /\ Stored(k, d)' = Stored(k, d)
    BY <2>2, <1>2, <1>6 DEF Sent, Stored
  <2>4. Untouched(k)
    BY <1>2, <1>6, <2>1, <2>2, <2>3 DEF Untouched
  <2> QED BY <2>4, <1>5, UntouchedKeeps
<1>8. CASE x.message.key = k
  <2>1. Has(h, k) /\ OneCopy(k)' /\ hand'[h] = w /\ \A g \in Hands \ {h} : ~Has(g, k)'
    BY <1>0, <1>1, <1>2, <1>4, <1>5, <1>8, TurnOnce
  <2>2. Call(h)' = e
    BY <2>1, <1>0, <1>4 DEF Call
  <2>3. \A d \in Channels \ {c} : <<k, d>> \in Calls \ {e}
    BY <1>8 DEF Calls
  <2>4. \A d \in Channels \ {c} : Sent(k, d)' = Sent(k, d) /\ Sent(k, d) <= 1
    BY <2>3, <1>6 DEF Sent, SendsOnce
  <2>5. Sent(k, c)' <= 1
    <3>1. CASE e \in ambiguous'
      BY <3>1, <1>8 DEF Sent
    <3>2. CASE e \notin ambiguous'
      <4>1. ~x.taken /\ e \notin ambiguous
        BY <3>2, <1>1
      <4>2. sent[e] = 0
        BY <4>1, <2>1, <1>0, <1>3, <1>8 DEF SendsOnce, Sent
      <4> QED BY <3>2, <4>2, <1>6, <1>8 DEF Sent, More
    <3> QED BY <3>1, <3>2
  <2>6. ASSUME NEW d \in Channels, d \in w.triggering
        PROVE  (Sent(k, d)' # 0 => w.taken /\ <<k, d>> = e) /\ d \notin w.storing
    BY <2>1, <2>3, <2>4, <2>6, <1>0, <1>3, <1>4, <1>8 DEF SendsOnce
  <2>7. \A d \in Channels : Stored(k, d)' = Stored(k, d)
    BY <1>2 DEF Stored
  <2>8. \A d \in Channels : <<k, d>> \in outstanding' => <<k, d>> \in ambiguous'
    BY <1>1, <1>2 DEF SendsOnce
  <2>9. /\ \A d \in Channels : d \in w.triggering \cup w.storing => Stored(k, d)' = 0
        /\ \A d \in Channels : Stored(k, d)' <= 1
    BY <2>1, <2>7, <1>0, <1>4 DEF SendsOnce
  <2>10. SendsOnce(k)'
    BY <2>1, <2>2, <2>4, <2>5, <2>6, <2>8, <2>9 DEF SendsOnce
  <2> QED BY <2>1, <2>10
<1> QED BY <1>7, <1>8

LEMMA CallEndOnce ==
  ASSUME PriorityInv, PriorityTypeOK', NEW h \in Hands, Calling(h),
         NEW w \in InHand, Hold(h, w), w.message = hand[h].message,
         w.triggering = hand[h].triggering \ {First(hand[h].triggering)},
         w.storing \subseteq hand[h].storing \cup {First(hand[h].triggering)},
         \/ outstanding' = outstanding /\ ambiguous' = ambiguous
         \/ outstanding' \subseteq outstanding \cup {Call(h)} /\ ambiguous' = ambiguous \cup {Call(h)},
         UNCHANGED <<queues, accepted, sent, stored>>,
         NEW k \in Keys, OneCopy(k), SendsOnce(k)
  PROVE  OneCopy(k)' /\ SendsOnce(k)'
<1>0. PICK x, c : x = hand[h] /\ c = First(x.triggering)
  OBVIOUS
<1>1. PriorityTypeOK /\ Busy(h) /\ main' = main /\ retry' = retry /\ x \in InHand
      /\ c \in x.triggering /\ c \in Channels /\ Call(h) = <<x.message.key, c>>
  BY <1>0, CallIs DEF PriorityInv, queues, Calling
<1>2. \A e : e # Call(h) => (e \in ambiguous' <=> e \in ambiguous) /\ (e \in outstanding' => e \in outstanding)
  OBVIOUS
<1>3. CASE x.message.key # k
  <2>1. \A g \in Hands : Has(g, k)' => Has(g, k) /\ hand'[g] = hand[g]
    BY <1>0, <1>1, <1>3, OtherKey DEF Hold
  <2>2. \A d : <<k, d>> # Call(h)
    BY <1>1, <1>3
  <2>3. Untouched(k)
    BY <1>1, <1>2, <2>1, <2>2 DEF Untouched, Sent, Stored
  <2> QED BY <2>3, <1>1, UntouchedKeeps
<1>4. CASE x.message.key = k
  <2>1. Has(h, k) /\ OneCopy(k)' /\ hand'[h] = w /\ \A g \in Hands \ {h} : ~Has(g, k)'
    BY <1>0, <1>1, <1>4, TurnOnce
  <2>2. \A d \in Channels : Stored(k, d)' = Stored(k, d)
    BY DEF Stored
  <2>3. \A d \in Channels : Sent(k, d)' = 0 \/ Sent(k, d)' = Sent(k, d)
    BY DEF Sent
  <2>4. \A d \in Channels : <<k, d>> \in outstanding' => <<k, d>> \in ambiguous'
    BY DEF SendsOnce
  <2>5. ASSUME NEW d \in Channels
        PROVE  /\ d \in w.triggering => Sent(k, d)' = 0 /\ d \notin w.storing
               /\ d \in w.triggering \cup w.storing => Stored(k, d)' = 0
    <3>1. d \in x.triggering => /\ Sent(k, d) # 0 => <<k, d>> = Call(h)
                                /\ d \notin x.storing
      BY <2>1, <1>0 DEF SendsOnce
    <3>2. d \in x.triggering \cup x.storing => Stored(k, d) = 0
      BY <2>1, <1>0 DEF SendsOnce
    <3>3. d \in w.triggering => d \in x.triggering /\ d # c /\ <<k, d>> # Call(h)
      BY <1>0, <1>1
    <3>4. d \in w.storing => d \in x.storing \/ d = c
      BY <1>0
    <3> QED BY <3>1, <3>2, <3>3, <3>4, <2>2, <2>3, <1>1
  <2>6. \A d \in Channels : Sent(k, d)' <= 1 /\ Stored(k, d)' <= 1
    <3>1. \A d \in Channels : Sent(k, d) <= 1 /\ Stored(k, d) <= 1
      BY DEF SendsOnce
    <3>2. 0 <= 1
      OBVIOUS
    <3> QED BY <3>1, <3>2, <2>2, <2>3
  <2>7. SendsOnce(k)'
    BY <2>1, <2>4, <2>5, <2>6 DEF SendsOnce
  <2> QED BY <2>1, <2>7
<1> QED BY <1>3, <1>4

LEMMA TriggerOnce ==
  ASSUME PriorityInv, PriorityTypeOK', NEW h \in Hands,
         Triggered(h) \/ TriggerFails(h, TRUE) \/ TriggerFails(h, FALSE),
         NEW k \in Keys, OneCopy(k), SendsOnce(k)
  PROVE  OneCopy(k)' /\ SendsOnce(k)'
<1>0. PICK x, c : x = hand[h] /\ c = First(x.triggering)
  OBVIOUS
<1> DEFINE y == [x EXCEPT !.triggering = @ \ {c}, !.taken = FALSE]
           z == [x EXCEPT !.triggering = @ \ {c}, !.taken = FALSE, !.storing = @ \cup {c}]
<1>1. Calling(h) /\ (Hold(h, z) \/ Hold(h, y)) /\ UNCHANGED <<queues, accepted, sent, stored>>
  BY <1>0 DEF Triggered, TriggerFails, deliveries, novu
<1>2. x \in InHand /\ c \in Channels
  BY <1>0, <1>1, CallIs
<1>3. /\ y \in InHand /\ y.message = x.message
      /\ y.triggering = x.triggering \ {c} /\ y.storing = x.storing
  BY <1>2 DEF InHand
<1>4. /\ z \in InHand /\ z.message = x.message
      /\ z.triggering = x.triggering \ {c} /\ z.storing = x.storing \cup {c}
  BY <1>2 DEF InHand
<1> HIDE DEF y, z
<1>5. \/ outstanding' = outstanding /\ ambiguous' = ambiguous
      \/ outstanding' \subseteq outstanding \cup {Call(h)} /\ ambiguous' = ambiguous \cup {Call(h)}
  BY DEF Triggered, TriggerFails, deliveries, novu
<1>6. PICK w \in InHand : /\ Hold(h, w) /\ w.message = x.message
                          /\ w.triggering = x.triggering \ {c} /\ w.storing \subseteq x.storing \cup {c}
  BY <1>1, <1>3, <1>4
<1> QED BY <1>0, <1>1, <1>5, <1>6, CallEndOnce

LEMMA LateOnce ==
  ASSUME PriorityTypeOK, PriorityTypeOK', NEW e \in Calls, LateRequest(e),
         NEW k \in Keys, OneCopy(k), SendsOnce(k)
  PROVE  OneCopy(k)' /\ SendsOnce(k)'
<1>1. /\ main' = main /\ retry' = retry /\ hand' = hand /\ accepted' = accepted
      /\ outstanding' = outstanding /\ ambiguous' = ambiguous /\ stored' = stored
      /\ e \in outstanding
  BY DEF LateRequest, queues
<1>2. \A d \in Calls \ {e} : sent'[d] = sent[d]
  BY DEF LateRequest, PriorityTypeOK
<1>3. \A c \in Channels : Sent(k, c)' = Sent(k, c)
  <2> SUFFICES ASSUME NEW c \in Channels PROVE Sent(k, c)' = Sent(k, c)
    OBVIOUS
  <2>1. <<k, c>> \in Calls
    BY DEF Calls
  <2>2. <<k, c>> = e => e \in ambiguous
    BY <1>1 DEF SendsOnce
  <2> QED BY <2>1, <2>2, <1>1, <1>2 DEF Sent
<1>4. Untouched(k)
  BY <1>1, <1>3 DEF Untouched, Has, Busy, Stored
<1> QED BY <1>4, UntouchedKeeps

LEMMA StoreOnce ==
  ASSUME PriorityTypeOK, PriorityTypeOK', NEW h \in Hands, NEW ok \in BOOLEAN,
         StoreRecord(h, ok), NEW k \in Keys, OneCopy(k), SendsOnce(k)
  PROVE  OneCopy(k)' /\ SendsOnce(k)'
<1>0. PICK x : x = hand[h]
  OBVIOUS
<1> DEFINE c == First(x.storing)
           y == [x EXCEPT !.storing = @ \ {c}]
           e == <<x.message.key, c>>
<1>1. /\ Busy(h) /\ x.triggering = {} /\ x.storing # {}
      /\ stored' = IF ok THEN [stored EXCEPT ![e] = More(@)] ELSE stored
      /\ Hold(h, y)
  BY <1>0 DEF StoreRecord
<1>2. /\ main' = main /\ retry' = retry /\ accepted' = accepted /\ sent' = sent
      /\ outstanding' = outstanding /\ ambiguous' = ambiguous
  BY DEF StoreRecord, queues, novu
<1>3. x \in InHand
  BY <1>0, <1>1, TypeIs
<1>4. c \in x.storing /\ c \in Channels
  BY <1>1, <1>3, FirstIs DEF InHand
<1>5. /\ y \in InHand /\ y.message = x.message
      /\ y.triggering = x.triggering /\ y.storing = x.storing \ {c}
  BY <1>3, <1>4 DEF InHand
<1> HIDE DEF y
<1>6. /\ e \in Calls /\ \A a \in Calls \ {e} : stored'[a] = stored[a]
      /\ stored'[e] = IF ok THEN More(stored[e]) ELSE stored[e]
  BY <1>0, <1>1, <1>3, <1>4 DEF PriorityTypeOK, Calls, InHand, Message
<1>7. hand'[h] = y /\ y # Nothing /\ \A g \in Hands \ {h} : hand'[g] = hand[g]
  BY <1>1, <1>5, HoldIs, PriorityAssumption
<1>8. CASE x.message.key # k
  <2>1. \A g \in Hands : Has(g, k)' => Has(g, k) /\ hand'[g] = hand[g]
    BY <1>0, <1>1, <1>5, <1>8, OtherKey DEF Hold
  <2>2. \A d \in Channels : Sent(k, d)' = Sent(k, d) /\ Stored(k, d)' = Stored(k, d)
    <3>1. \A d \in Channels : <<k, d>> \in Calls \ {e}
      BY <1>8 DEF Calls
    <3> QED BY <1>2, <1>6, <3>1 DEF Sent, Stored
  <2>3. Untouched(k)
    BY <1>2, <2>1, <2>2 DEF Untouched
  <2> QED BY <2>3, UntouchedKeeps
<1>9. CASE x.message.key = k
  <2>1. Has(h, k) /\ Has(h, k)'
    BY <1>0, <1>1, <1>5, <1>7, <1>9 DEF Has, Busy
  <2>2. /\ ~Waiting(k) /\ k \in accepted
        /\ \A g \in Hands \ {h} : ~Has(g, k)
    BY <2>1 DEF OneCopy
  <2>3. ~Waiting(k)'
    BY <1>2, <2>2 DEF Waiting
  <2>4. \A g \in Hands \ {h} : ~Has(g, k)'
    BY <1>7, <2>2 DEF Has, Busy
  <2>5. OneCopy(k)'
    BY <1>2, <2>2, <2>3, <2>4 DEF OneCopy
  <2>6. \A d \in Channels : /\ Sent(k, d)' = Sent(k, d)
                            /\ Stored(k, d)' = IF ok /\ d = c THEN More(Stored(k, d))
                                                              ELSE Stored(k, d)
    <3>1. \A d \in Channels \ {c} : <<k, d>> \in Calls \ {e}
      BY <1>9 DEF Calls
    <3> QED BY <3>1, <1>2, <1>4, <1>6, <1>9 DEF Sent, Stored
  <2>8. /\ Stored(k, c) = 0
        /\ \A d \in Channels : d \in x.storing => Stored(k, d) = 0
        /\ \A d \in Channels : Sent(k, d) <= 1 /\ Stored(k, d) <= 1
    BY <1>0, <1>4, <2>1 DEF SendsOnce
  <2>9. \A d \in Channels :
          /\ d \notin y.triggering
          /\ d \in y.storing => Stored(k, d)' = 0
          /\ Sent(k, d)' <= 1 /\ Stored(k, d)' <= 1
    <3> HIDE DEF c
    <3> QED BY <1>1, <1>4, <1>5, <2>6, <2>8 DEF More
  <2>10. SendsOnce(k)'
    BY <1>2, <1>7, <2>4, <2>9 DEF SendsOnce
  <2> QED BY <2>5, <2>10
<1> QED BY <1>8, <1>9

LEMMA HandleFailureOnce ==
  ASSUME PriorityTypeOK, PriorityTypeOK', NEW h \in Hands, HandleFailure(h),
         NEW k \in Keys \ Poison, OneCopy(k), SendsOnce(k)
  PROVE  OneCopy(k)' /\ SendsOnce(k)'
<1> DEFINE m == Again(hand[h].message)
           x == [hand[h] EXCEPT !.moved = TRUE]
<1>1. /\ Busy(h) /\ hand[h].message.key \in Poison /\ Hold(h, x)
      /\ main' = main /\ accepted' = accepted /\ sent' = sent /\ stored' = stored
      /\ outstanding' = outstanding /\ ambiguous' = ambiguous
      /\ retry' = retry \/ retry' = retry (+) One(m)
  BY DEF HandleFailure, Fails, Done, deliveries, novu
<1>2. hand[h] \in InHand /\ hand[h].message \in Message
  BY <1>1, TypeIs
<1>3. m.key # k /\ x.message = hand[h].message
  BY <1>1, <1>2 DEF Again, Message, InHand
<1> HIDE DEF m, x
<1>4. \A n : n.key = k => NumberOf(n, retry') = NumberOf(n, retry)
  <2>1. \A n : NumberOf(n, retry) \in Nat
    BY Copies DEF PriorityTypeOK
  <2>2. IsABag(retry)
    BY DEF PriorityTypeOK
  <2>3. ASSUME NEW n, n.key = k PROVE NumberOf(n, retry') = NumberOf(n, retry)
    <3>1. n # m
      BY <1>3, <2>3
    <3>2. retry' = retry (+) One(m) => NumberOf(n, retry') = NumberOf(n, retry) + 0
      BY <2>2, <3>1, CopiesAdd
    <3> QED BY <1>1, <2>1, <3>2
  <2> QED BY <2>3
<1>5. \A g \in Hands : Has(g, k)' => Has(g, k) /\ hand'[g] = hand[g]
  BY <1>1, <1>3, OtherKey DEF Hold
<1>6. Untouched(k)
  BY <1>1, <1>4, <1>5 DEF Untouched, Sent, Stored
<1> QED BY <1>6, UntouchedKeeps

\* Steps that leave the queues and what was sent alone, and may end a message.
LEMMA EndOnce ==
  ASSUME PriorityTypeOK, PriorityTypeOK',
         UNCHANGED <<main, retry, accepted, novu, stored>>,
         \A h \in Hands : hand'[h] = hand[h] \/ hand'[h] = Nothing,
         NEW k, OneCopy(k), SendsOnce(k)
  PROVE  OneCopy(k)' /\ SendsOnce(k)'
<1>1. Untouched(k)
  BY DEF Untouched, Has, Busy, Sent, Stored, novu
<1> QED BY <1>1, UntouchedKeeps

\* What goes back to its queue is not k, which would have gone back again.
LEMMA PutBackOnce ==
  ASSUME PriorityTypeOK, PriorityTypeOK', NEW r \in Replicas, PutBack(r),
         UNCHANGED <<accepted, sent, ambiguous, stored>>,
         \A h \in Hands : hand'[h] = hand[h] \/ hand'[h] = Nothing,
         NEW k \in Keys \ again', OneCopy(k), SendsOnce(k),
         \A c \in Channels : <<k, c>> \in outstanding' => <<k, c>> \in outstanding
  PROVE  OneCopy(k)' /\ SendsOnce(k)'
<1>1. CASE r \in deaf
  <2>1. Untouched(k)
    BY <1>1 DEF PutBack, Untouched, Has, Busy, Sent, Stored
  <2> QED BY <2>1, UntouchedKeeps
<1>2. CASE r \notin deaf
  <2>1. \A q \in {"main", "retry"} : \A h \in HandsOf(r, q) : hand[h].message.key # k
    BY <1>2 DEF PutBack
  <2>2. \A q \in {"main", "retry"} : \A n \in BagToSet(Messages(HandsOf(r, q))) : n.key # k
    BY <2>1 DEF Messages, BagToSet
  <2>3. IsABag(main) /\ IsABag(retry)
    BY DEF PriorityTypeOK
  <2>4. ASSUME NEW n \in Message, n.key = k
        PROVE  NumberOf(n, main') = NumberOf(n, main) /\ NumberOf(n, retry') = NumberOf(n, retry)
    BY <1>2, <2>2, <2>3, <2>4, CopiesJoin DEF PutBack
  <2>5. Untouched(k)
    BY <2>4 DEF Untouched, Has, Busy, Sent, Stored
  <2> QED BY <2>5, UntouchedKeeps
<1> QED BY <1>1, <1>2

LEMMA OnceInit == PriorityInit => OnceInv
<1> SUFFICES ASSUME PriorityInit PROVE OnceInv
  OBVIOUS
<1>1. \A x : NumberOf(x, EmptyBag) = 0 /\ x \notin BagToSet(EmptyBag)
  BY DEF NumberOf, BagIn, BagToSet, EmptyBag, SetToBag
<1>2. \A k : \A h \in Hands : ~Has(h, k)
  BY DEF PriorityInit, Has, Busy
<1>3. \A k : ~Waiting(k)
  BY <1>1 DEF PriorityInit, Waiting
<1>4. \A k \in Keys, c \in Channels : Sent(k, c) = 0 /\ Stored(k, c) = 0
  BY DEF PriorityInit, Sent, Stored, Calls
<1>5. \A m : NumberOf(m, main) = 0 /\ NumberOf(m, retry) = 0
  BY <1>1 DEF PriorityInit
<1>6. Poison \subseteq Keys /\ outstanding = {} /\ deaf = {}
  BY PriorityAssumption DEF PriorityInit
<1> QED BY <1>2, <1>3, <1>4, <1>5, <1>6 DEF OnceInv, OneCopy, SendsOnce

\* again only grows, so what is still not in it was not in it before.
LEMMA AgainGrows == [PriorityNext]_priorityVars => again \subseteq again'
<1> SUFFICES ASSUME PriorityNext PROVE again \subseteq again'
  BY DEF priorityVars
<1>1. \A r : PutBack(r) => again \subseteq again'
  BY DEF PutBack
<1>2. ASSUME NEW h \in Hands, WorkerStep(h) PROVE again \subseteq again'
  BY <1>1, <1>2 DEF WorkerStep, Take, Triggered, TriggerFails, StoreRecord, HandleFailure,
                    AckMessage, AckThrows, Dies
<1>3. NovuStep => again \subseteq again'
  BY DEF NovuStep, NovuAccepts, LateRequest
<1> QED BY <1>1, <1>2, <1>3 DEF PriorityNext, EnqueueNotification, Expire, Disconnect, Crash, Dies

\* Poison is never triggered, so nothing of it is recorded.
LEMMA PoisonIsNotStored ==
  ASSUME PriorityInv, [PriorityNext]_priorityVars, NEW k \in Poison, NEW c \in Channels,
         Stored(k, c) = 0
  PROVE  Stored(k, c)' = 0
<1>1. ASSUME NEW h \in Hands, NEW ok \in BOOLEAN, StoreRecord(h, ok) PROVE Stored(k, c)' = 0
  <2>1. PICK d : stored' = stored \/ stored' = [stored EXCEPT ![<<hand[h].message.key, d>>] = More(@)]
    BY <1>1 DEF StoreRecord
  <2>2. hand[h].message.key # k
    BY <1>1 DEF StoreRecord, PriorityInv, HandOK
  <2>3. <<k, c>> \in Calls /\ stored \in [Calls -> 0..2]
    BY PriorityAssumption DEF PriorityInv, PriorityTypeOK, Calls
  <2> QED BY <2>1, <2>2, <2>3 DEF Stored
<1>2. ASSUME stored' = stored PROVE Stored(k, c)' = 0
  BY <1>2 DEF Stored
<1>3. ASSUME NEW h \in Hands, WorkerStep(h) PROVE Stored(k, c)' = 0
  BY <1>1, <1>2, <1>3 DEF WorkerStep, Take, Triggered, TriggerFails, HandleFailure, AckMessage,
                          AckThrows, Dies, deliveries
<1>4. NovuStep => stored' = stored
  BY DEF NovuStep, NovuAccepts, LateRequest
<1> QED BY <1>2, <1>3, <1>4 DEF PriorityNext, EnqueueNotification, Expire, Disconnect, Crash, Dies,
                          deliveries, priorityVars

\* What a replica without a connection has in hand went back to its queue.
LEMMA DeafHandsAreBack ==
  ASSUME PriorityInv, [PriorityNext]_priorityVars,
         \A h \in Hands : Busy(h) /\ h[1] \in deaf => hand[h].message.key \in again
  PROVE  \A h \in Hands : (Busy(h) /\ h[1] \in deaf => hand[h].message.key \in again)'
<1>1. again \subseteq again'
  BY AgainGrows
<1> SUFFICES ASSUME NEW g \in Hands, Busy(g)', g[1] \in deaf'
             PROVE  hand'[g].message.key \in again'
  OBVIOUS
<1>2. ASSUME deaf' \subseteq deaf, Busy(g), hand'[g].message = hand[g].message
      PROVE  hand'[g].message.key \in again'
  BY <1>1, <1>2
<1>3. ASSUME NEW h \in Hands, NEW x, Hold(h, x), deaf' = deaf,
             h[1] \in deaf => Busy(h) /\ (x # Nothing => x.message = hand[h].message)
      PROVE  hand'[g].message.key \in again'
  <2>1. hand'[h] = x /\ \A f \in Hands \ {h} : hand'[f] = hand[f]
    BY <1>3 DEF Hold, PriorityInv, PriorityTypeOK
  <2>2. Busy(g) /\ hand'[g].message = hand[g].message
    BY <1>3, <2>1 DEF Busy
  <2> QED BY <1>2, <1>3, <2>2
<1>4. ASSUME NEW r \in Replicas, Dies(r) PROVE hand'[g].message.key \in again'
  BY <1>2, <1>4, TypeIs DEF Dies, Busy, PriorityInv
<1>5. ASSUME NEW r \in Replicas, Disconnect(r) PROVE hand'[g].message.key \in again'
  <2>1. r \notin deaf /\ PutBack(r) /\ deaf' = deaf \cup {r} /\ hand' = hand
    BY <1>5 DEF Disconnect
  <2>2. CASE g[1] = r
    <3>1. g \in HandsOf(r, "main") \cup HandsOf(r, "retry")
      BY <2>1, <2>2 DEF HandsOf, Hands, Busy
    <3> QED BY <2>1, <3>1 DEF PutBack
  <2> QED BY <1>1, <2>1, <2>2 DEF Busy
<1>6. ASSUME NEW h \in Hands, WorkerStep(h) PROVE hand'[g].message.key \in again'
  <2>0. Busy(h) => hand[h] \in InHand
    BY TypeIs DEF PriorityInv
  <2>1. CASE Take(h)
    BY <1>3, <2>1 DEF Take
  <2>2. CASE Triggered(h)
    <3>1. PICK c : /\ Busy(h) /\ deaf' = deaf
                   /\ Hold(h, [hand[h] EXCEPT !.triggering = @ \ {c}, !.taken = FALSE,
                                              !.storing = @ \cup {c}])
      BY <2>2 DEF Triggered, Calling
    <3> QED BY <3>1, <2>0, <1>3 DEF InHand
  <2>3. ASSUME NEW late \in BOOLEAN, TriggerFails(h, late) PROVE hand'[g].message.key \in again'
    <3>1. PICK c : /\ Busy(h) /\ deaf' = deaf
                   /\ Hold(h, [hand[h] EXCEPT !.triggering = @ \ {c}, !.taken = FALSE])
      BY <2>3 DEF TriggerFails, Calling
    <3> QED BY <3>1, <2>0, <1>3 DEF InHand
  <2>4. ASSUME NEW ok \in BOOLEAN, StoreRecord(h, ok) PROVE hand'[g].message.key \in again'
    <3>1. PICK c : Busy(h) /\ deaf' = deaf /\ Hold(h, [hand[h] EXCEPT !.storing = @ \ {c}])
      BY <2>4 DEF StoreRecord
    <3> QED BY <3>1, <2>0, <1>3 DEF InHand
  <2>5. CASE HandleFailure(h)
    <3>1. Busy(h) /\ deaf' = deaf /\ Hold(h, [hand[h] EXCEPT !.moved = TRUE])
      BY <2>5 DEF HandleFailure, Fails, Done
    <3> QED BY <3>1, <2>0, <1>3 DEF InHand
  <2>6. CASE AckMessage(h)
    BY <1>3, <2>6 DEF AckMessage, Finished, Done
  <2>7. CASE AckThrows(h)
    <3>1. h[1] \in Replicas
      BY DEF Hands
    <3> QED BY <1>4, <2>7, <3>1 DEF AckThrows
  <2> QED BY <1>6, <2>1, <2>2, <2>3, <2>4, <2>5, <2>6, <2>7 DEF WorkerStep
<1>7. CASE NovuStep
  <2>1. ASSUME NEW h \in Hands, NEW repeated \in BOOLEAN, NovuAccepts(h, repeated)
        PROVE  hand'[g].message.key \in again'
    <3>1. Busy(h) /\ deaf' = deaf /\ Hold(h, [hand[h] EXCEPT !.taken = TRUE])
      BY <2>1 DEF NovuAccepts, Calling
    <3>2. hand[h] \in InHand
      BY <3>1, TypeIs DEF PriorityInv
    <3> QED BY <3>1, <3>2, <1>3 DEF InHand
  <2>2. ASSUME NEW e, LateRequest(e) PROVE hand'[g].message.key \in again'
    BY <1>2, <2>2 DEF LateRequest, Busy
  <2> QED BY <1>7, <2>1, <2>2 DEF NovuStep
<1>8. CASE (\E k \in Keys : EnqueueNotification(k)) \/ Expire \/ UNCHANGED priorityVars
  BY <1>2, <1>8 DEF EnqueueNotification, Expire, priorityVars, Busy
<1> QED BY <1>4, <1>5, <1>6, <1>7, <1>8 DEF PriorityNext, Crash

LEMMA OnceStep ==
  ASSUME PriorityInv, OnceInv, [PriorityNext]_priorityVars
  PROVE  OnceInv'
<1>1. PriorityTypeOK /\ PriorityTypeOK' /\ again \subseteq again'
  BY InvStep, AgainGrows DEF PriorityInv
<1>2. \A k \in Poison, c \in Channels : Stored(k, c)' = 0
  BY PoisonIsNotStored DEF OnceInv
<1>3. ASSUME NEW k \in Keys \ (Poison \cup again')
      PROVE  OneCopy(k)' /\ SendsOnce(k)'
  <2>1. OneCopy(k) /\ SendsOnce(k) /\ PriorityInv
    BY <1>1 DEF OnceInv
  <2>2. ASSUME NEW j \in Keys \ accepted, EnqueueNotification(j)
        PROVE  OneCopy(k)' /\ SendsOnce(k)'
    BY <1>1, <2>1, <2>2, EnqueueOnce
  <2>3. ASSUME NEW r \in Replicas, Dies(r)
        PROVE  OneCopy(k)' /\ SendsOnce(k)'
    <3>1. /\ PutBack(r) /\ UNCHANGED <<accepted, sent, ambiguous, stored>>
          /\ \A h \in Hands : hand'[h] = hand[h] \/ hand'[h] = Nothing
          /\ outstanding' = outstanding \cup {Call(h) : h \in {g \in Hands : g[1] = r /\ Calling(g)}}
      BY <2>3 DEF Dies
    <3>2. ASSUME NEW h \in Hands, h[1] = r, Calling(h) PROVE hand[h].message.key # k
      <4>1. CASE r \in deaf
        BY <4>1, <3>2, <1>1 DEF OnceInv, Calling
      <4>2. CASE r \notin deaf
        <5>1. h \in HandsOf(r, "main") \cup HandsOf(r, "retry")
          BY <3>2 DEF HandsOf, Hands, Calling
        <5> QED BY <3>1, <4>2, <5>1 DEF PutBack
      <4> QED BY <4>1, <4>2
    <3>3. \A c \in Channels : <<k, c>> \in outstanding' => <<k, c>> \in outstanding
      BY <3>1, <3>2 DEF Call
    <3> QED BY <1>1, <2>1, <3>1, <3>3, PutBackOnce
  <2>4. ASSUME NEW r \in Replicas, Disconnect(r)
        PROVE  OneCopy(k)' /\ SendsOnce(k)'
    <3>1. PutBack(r) /\ UNCHANGED <<hand, accepted, outstanding, sent, ambiguous, stored>>
      BY <2>4 DEF Disconnect, deliveries, novu
    <3> QED BY <1>1, <2>1, <3>1, PutBackOnce
  <2>5. ASSUME NEW h \in Hands, WorkerStep(h)
        PROVE  OneCopy(k)' /\ SendsOnce(k)'
    <3>1. CASE Take(h)
      BY <1>1, <2>1, <3>1, TakeOnce
    <3>2. CASE Triggered(h) \/ TriggerFails(h, TRUE) \/ TriggerFails(h, FALSE)
      BY <1>1, <2>1, <3>2, TriggerOnce
    <3>3. ASSUME NEW ok \in BOOLEAN, StoreRecord(h, ok) PROVE OneCopy(k)' /\ SendsOnce(k)'
      BY <1>1, <2>1, <3>3, StoreOnce
    <3>4. CASE HandleFailure(h)
      BY <1>1, <2>1, <3>4, HandleFailureOnce
    <3>5. CASE AckMessage(h)
      <4>1. /\ UNCHANGED <<main, retry, accepted, novu, stored>>
            /\ \A g \in Hands : hand'[g] = hand[g] \/ hand'[g] = Nothing
        BY <1>1, <3>5 DEF AckMessage, Hold, queues, deliveries, PriorityTypeOK
      <4> QED BY <1>1, <2>1, <4>1, EndOnce
    <3>6. CASE AckThrows(h)
      <4>1. h[1] \in Replicas
        BY DEF Hands
      <4> QED BY <2>3, <3>6, <4>1 DEF AckThrows
    <3> QED BY <2>5, <3>1, <3>2, <3>3, <3>4, <3>5, <3>6 DEF WorkerStep
  <2>6. CASE Expire \/ UNCHANGED priorityVars
    <3>1. UNCHANGED <<main, retry, hand, accepted, novu, stored>>
      BY <2>6 DEF Expire, deliveries, priorityVars, queues
    <3> QED BY <1>1, <2>1, <3>1, EndOnce
  <2>7. CASE NovuStep
    BY <1>1, <2>1, <2>7, AcceptOnce, LateOnce DEF NovuStep
  <2> QED BY <2>2, <2>3, <2>4, <2>5, <2>6, <2>7 DEF PriorityNext, Crash
<1>4. \A h \in Hands : (Busy(h) /\ h[1] \in deaf => hand[h].message.key \in again)'
  BY DeafHandsAreBack DEF OnceInv
<1> QED BY <1>2, <1>3, <1>4 DEF OnceInv

\* Whatever crashes, disconnects and overtakes, Novu accepts the workflow of a channel
\* once, unless the message went back to its queue in hand, a lost reply made the loop
\* send again or the call was given up; and the user has one record of it, unless the
\* message went back.
THEOREM NobodyIsNotifiedTwice == PrioritySpec => []TwiceOnlyIfAgain
<1>1. PriorityInv /\ OnceInv => TwiceOnlyIfAgain
  <2> SUFFICES ASSUME PriorityInv, OnceInv, NEW k \in Keys \ again, NEW c \in Channels
               PROVE  /\ sent[<<k, c>>] > 1 => <<k, c>> \in ambiguous
                      /\ stored[<<k, c>>] <= 1
    BY DEF TwiceOnlyIfAgain
  <2>1. sent[<<k, c>>] \in 0..2
    BY DEF PriorityInv, PriorityTypeOK, Calls
  <2>2. CASE k \in Poison
    BY <2>2 DEF OnceInv, Stored, PriorityInv, PoisonIsParkedInTime
  <2>3. CASE k \notin Poison
    BY <2>1, <2>3 DEF OnceInv, SendsOnce, Sent, Stored
  <2> QED BY <2>2, <2>3
<1>2. PriorityInit => PriorityInv /\ OnceInv
  BY InvInit, OnceInit
<1>3. PriorityInv /\ OnceInv /\ [PriorityNext]_priorityVars => PriorityInv' /\ OnceInv'
  BY InvStep, OnceStep
<1> QED BY <1>1, <1>2, <1>3, PTL DEF PrioritySpec
=============================================================================
