------------------------ MODULE SubscriberQueueProofs ------------------------
(***************************************************************************)
(* The subscriber queue keeps its type and its order, Novu never goes back *)
(* from a later task of a user to an earlier one, and every step of the    *)
(* queue is a step of SubscriberTasks, for any number of replicas, users,  *)
(* tasks and faults.                                                       *)
(***************************************************************************)
EXTENDS SubscriberQueue, SequenceTheorems, TLAPS

Ascending(q) == \A i, j \in DOMAIN q : i < j => q[i].task < q[j].task

-----------------------------------------------------------------------------
(* The operations on queues *)

LEMMA Bounds == /\ Concurrency \in Nat \ {0} /\ MaxRetries \in Nat \ {0}
                /\ BreakAfter \in Nat \ {0} /\ MaxTasks \in Nat
  BY QueueAssumption

LEMMA EntryIs == \A e \in Entry : /\ e.task \in Int /\ e.task \in Tasks
                                 /\ e.attempts \in Int /\ e.attempts \in 0..(MaxRetries - 1)
  BY Bounds DEF Entry, Tasks

LEMMA QueueIs ==
  ASSUME NEW q \in Seq(Entry)
  PROVE  /\ DOMAIN q = 1..Len(q) /\ Len(q) \in Nat
         /\ \A i \in DOMAIN q : q[i] \in Entry /\ q[i].task \in Int /\ i \in Int
  BY EntryIs

LEMMA RemoveAtIs ==
  ASSUME NEW S, NEW s \in Seq(S), NEW at \in 1..Len(s)
  PROVE  /\ RemoveAt(s, at) \in Seq(S)
         /\ Len(RemoveAt(s, at)) = Len(s) - 1
         /\ \A i \in 1..(Len(s) - 1) : RemoveAt(s, at)[i] = IF i < at THEN s[i] ELSE s[i + 1]
<1> DEFINE before == SubSeq(s, 1, at - 1)
           after == SubSeq(s, at + 1, Len(s))
<1>1. before \in Seq(S) /\ Len(before) = at - 1 /\ \A i \in 1..(at - 1) : before[i] = s[i]
  OBVIOUS
<1>2. /\ after \in Seq(S) /\ Len(after) = Len(s) - at
      /\ \A i \in 1..(Len(s) - at) : after[i] = s[at + i]
  OBVIOUS
<1>3. RemoveAt(s, at) = before \o after
  BY DEF RemoveAt
<1> HIDE DEF before, after
<1>4. /\ Len(before \o after) = Len(before) + Len(after) /\ before \o after \in Seq(S)
      /\ \A i \in 1..(Len(before) + Len(after)) : (before \o after)[i] =
              IF i <= Len(before) THEN before[i] ELSE after[i - Len(before)]
  BY <1>1, <1>2, ConcatProperties
<1>5. Len(before \o after) = Len(s) - 1
  BY <1>1, <1>2, <1>4
<1>6. ASSUME NEW i \in 1..(Len(s) - 1)
      PROVE  (before \o after)[i] = IF i < at THEN s[i] ELSE s[i + 1]
  <2>1. (before \o after)[i] = IF i <= at - 1 THEN before[i] ELSE after[i - (at - 1)]
    BY <1>1, <1>2, <1>4
  <2>2. CASE i < at
    BY <2>1, <2>2, <1>1
  <2>3. CASE ~(i < at)
    <3>1. i - (at - 1) \in 1..(Len(s) - at) /\ at + (i - (at - 1)) = i + 1
      BY <2>3
    <3>2. after[i - (at - 1)] = s[at + (i - (at - 1))]
      BY <1>2, <3>1
    <3>3. ~(i <= at - 1)
      BY <2>3
    <3> HIDE DEF after, before
    <3> QED BY <2>1, <2>3, <3>1, <3>2, <3>3
  <2> QED BY <2>2, <2>3
<1> QED BY <1>3, <1>4, <1>5, <1>6

LEMMA AppendKeeps ==
  ASSUME NEW q \in Seq(Entry), NEW e \in Entry
  PROVE  /\ Append(q, e) \in Seq(Entry)
         /\ TasksOf(Append(q, e)) = TasksOf(q) \cup {e.task}
         /\ Ascending(q) /\ (\A t \in TasksOf(q) : t < e.task) => Ascending(Append(q, e))
<1> DEFINE a == Append(q, e)
<1>1. /\ a \in Seq(Entry) /\ DOMAIN a = 1..(Len(q) + 1) /\ DOMAIN q = 1..Len(q)
      /\ a[Len(q) + 1] = e /\ \A i \in 1..Len(q) : a[i] = q[i]
  OBVIOUS
<1>2. TasksOf(a) = TasksOf(q) \cup {e.task}
  BY <1>1 DEF TasksOf
<1>3. ASSUME Ascending(q), \A t \in TasksOf(q) : t < e.task PROVE Ascending(a)
  BY <1>1, <1>3 DEF Ascending, TasksOf
<1> QED BY <1>1, <1>2, <1>3

LEMMA WithoutKeeps ==
  ASSUME NEW q \in Seq(Entry), NEW t \in Tasks
  PROVE  /\ Without(q, t) \in Seq(Entry)
         /\ TasksOf(Without(q, t)) \subseteq TasksOf(q)
         /\ TasksOf(q) \subseteq TasksOf(Without(q, t)) \cup {t}
         /\ Ascending(q) => Ascending(Without(q, t))
         /\ \A i \in DOMAIN q : q[i].task # t =>
               \E j \in DOMAIN Without(q, t) : j <= i /\ Without(q, t)[j].task = q[i].task
<1> DEFINE w == Without(q, t)
<1>1. CASE t \notin TasksOf(q)
  <2>1. w = q
    BY <1>1 DEF Without
  <2> QED BY <2>1, <1>1
<1>2. CASE t \in TasksOf(q)
  <2> DEFINE at == CHOOSE i \in DOMAIN q : q[i].task = t
  <2>1. at \in DOMAIN q /\ q[at].task = t
    BY <1>2 DEF TasksOf
  <2>2. w = RemoveAt(q, at)
    BY <1>2 DEF Without
  <2>3. at \in 1..Len(q)
    BY <2>1
  <2> HIDE DEF at, w
  <2>4. /\ w \in Seq(Entry) /\ DOMAIN w = 1..(Len(q) - 1) /\ DOMAIN q = 1..Len(q)
        /\ \A i \in 1..(Len(q) - 1) : w[i] = IF i < at THEN q[i] ELSE q[i + 1]
    <3> DEFINE v == RemoveAt(q, at)
    <3>1. /\ v \in Seq(Entry) /\ Len(v) = Len(q) - 1
          /\ \A i \in 1..(Len(q) - 1) : v[i] = IF i < at THEN q[i] ELSE q[i + 1]
      BY <2>3, RemoveAtIs
    <3> HIDE DEF v
    <3>2. DOMAIN v = 1..(Len(q) - 1) /\ DOMAIN q = 1..Len(q)
      BY <3>1
    <3>3. w = v
      BY <2>2 DEF v
    <3> QED BY <3>1, <3>2, <3>3
  <2>5. \A i \in DOMAIN q : q[i].task # t => \E j \in DOMAIN w : j <= i /\ w[j].task = q[i].task
    <3> TAKE i \in DOMAIN q
    <3> HAVE q[i].task # t
    <3>1. CASE i < at
      BY <3>1, <2>3, <2>4
    <3>2. CASE i > at
      <4>1. i - 1 \in DOMAIN w /\ w[i - 1] = q[i] /\ i - 1 <= i
        BY <3>2, <2>3, <2>4
      <4> QED BY <4>1
    <3> QED BY <3>1, <3>2, <2>1, <2>3, <2>4
  <2> DEFINE from(j) == IF j < at THEN j ELSE j + 1
  <2>6. \A j \in DOMAIN w : from(j) \in DOMAIN q /\ w[j] = q[from(j)]
    BY <2>3, <2>4, QueueIs
  <2>7. \A i, j \in DOMAIN w : i < j => from(i) < from(j)
    BY <2>3, <2>4, QueueIs
  <2> HIDE DEF from
  <2>8. TasksOf(w) \subseteq TasksOf(q)
    BY <2>6 DEF TasksOf
  <2>9. TasksOf(q) \subseteq TasksOf(w) \cup {t}
    BY <2>5 DEF TasksOf
  <2>10. Ascending(q) => Ascending(w)
    BY <2>6, <2>7 DEF Ascending
  <2> QED BY <2>4, <2>5, <2>8, <2>9, <2>10 DEF w
<1> QED BY <1>1, <1>2

LEMMA RetriedKeeps ==
  ASSUME NEW q \in Seq(Entry), NEW t \in TasksOf(q), Ascending(q), ~LastTry(q, t)
  PROVE  /\ Retried(q, t) \in Seq(Entry)
         /\ TasksOf(Retried(q, t)) = TasksOf(q)
         /\ Ascending(Retried(q, t))
         /\ \A i \in DOMAIN q : i \in DOMAIN Retried(q, t) /\ Retried(q, t)[i].task = q[i].task
<1> DEFINE x == Retried(q, t)
           at == CHOOSE i \in DOMAIN q : q[i].task = t
<1>1. at \in DOMAIN q /\ q[at].task = t
  BY DEF TasksOf
<1>2. Attempts(q, t) = q[at].attempts
  BY DEF Attempts
<1> HIDE DEF at
<1>3. DOMAIN q = 1..Len(q) /\ Len(q) \in Nat /\ \A i \in DOMAIN q : q[i] \in Entry
  OBVIOUS
<1>4. \A i \in DOMAIN q : q[i].task = t => i = at
  BY <1>1, QueueIs DEF Ascending
<1>5. DOMAIN x = 1..Len(q) /\ \A i \in DOMAIN q : x[i].task = q[i].task
  BY <1>3 DEF Retried
<1>6. \A i \in DOMAIN q : x[i] \in Entry
  <2> TAKE i \in DOMAIN q
  <2>1. CASE i = at
    <3>1. q[at].attempts + 1 \in 0..(MaxRetries - 1) /\ t \in Tasks
      BY <1>1, <1>2, <1>3, Bounds, EntryIs DEF LastTry
    <3>2. x[i] = [task |-> t, attempts |-> q[at].attempts + 1]
      BY <2>1, <1>1 DEF Retried
    <3> QED BY <3>1, <3>2 DEF Entry
  <2>2. CASE i # at
    BY <2>2, <1>3, <1>4 DEF Retried
  <2> QED BY <2>1, <2>2
<1>7. x = [i \in 1..Len(q) |-> x[i]]
  BY <1>3 DEF Retried
<1> HIDE DEF x
<1>8. x \in Seq(Entry)
  BY <1>3, <1>5, <1>6, <1>7
<1>9. TasksOf(x) = TasksOf(q) /\ Ascending(x)
  BY <1>3, <1>5 DEF TasksOf, Ascending
<1> QED BY <1>3, <1>5, <1>8, <1>9 DEF x

\* What is left when the first tasks were taken away.
LEMMA RestKeeps ==
  ASSUME NEW q \in Seq(Entry)
  PROVE  LET rest == SubSeq(q, Concurrency + 1, Len(q))
         IN  /\ rest \in Seq(Entry)
             /\ TasksOf(rest) \subseteq TasksOf(q)
             /\ TasksOf(q) \subseteq TasksOf(rest) \cup FirstTasks(q)
             /\ Ascending(q) => Ascending(rest)
<1> DEFINE rest == SubSeq(q, Concurrency + 1, Len(q))
<1>0. DOMAIN q = 1..Len(q) /\ Len(q) \in Nat /\ Concurrency \in Nat
  BY Bounds, QueueIs
<1>1. CASE Len(q) <= Concurrency
  <2>1. rest = <<>>
    BY <1>0, <1>1
  <2>2. TasksOf(q) \subseteq FirstTasks(q)
    BY <1>0, <1>1 DEF TasksOf, FirstTasks
  <2>3. TasksOf(<<>>) = {} /\ Ascending(<<>>) /\ <<>> \in Seq(Entry)
    BY DEF TasksOf, Ascending
  <2> HIDE DEF rest
  <2> QED BY <2>1, <2>2, <2>3 DEF rest
<1>2. CASE Len(q) > Concurrency
  <2>1. /\ rest \in Seq(Entry) /\ DOMAIN rest = 1..(Len(q) - Concurrency)
        /\ \A i \in 1..(Len(q) - Concurrency) : rest[i] = q[Concurrency + i]
    BY <1>0, <1>2
  <2> HIDE DEF rest
  <2> DEFINE from(j) == Concurrency + j
  <2>a. \A j \in DOMAIN rest : from(j) \in DOMAIN q /\ rest[j] = q[from(j)]
    BY <1>0, <1>2, <2>1
  <2>b. \A i, j \in DOMAIN rest : i < j => from(i) < from(j)
    BY <1>0, <1>2, <2>1
  <2> HIDE DEF from
  <2>2. TasksOf(rest) \subseteq TasksOf(q)
    BY <2>a DEF TasksOf
  <2>3. ASSUME NEW i \in DOMAIN q PROVE q[i].task \in TasksOf(rest) \cup FirstTasks(q)
    <3>1. CASE i <= Concurrency
      BY <3>1 DEF FirstTasks
    <3>2. CASE i > Concurrency
      <4>1. i - Concurrency \in DOMAIN rest /\ rest[i - Concurrency] = q[i]
        BY <3>2, <1>0, <2>1
      <4> QED BY <4>1 DEF TasksOf
    <3> QED BY <3>1, <3>2, <1>0
  <2>4. TasksOf(q) \subseteq TasksOf(rest) \cup FirstTasks(q)
    BY <2>3 DEF TasksOf
  <2>5. Ascending(q) => Ascending(rest)
    BY <2>a, <2>b DEF Ascending
  <2> QED BY <2>1, <2>2, <2>4, <2>5 DEF rest
<1> QED BY <1>0, <1>1, <1>2

-----------------------------------------------------------------------------
(* The inductive invariant *)

Settled == done \cup dropped \cup exposed

\* Where the next restore of r's tasks will come from, once r has written.
NextBackup(r) == IF writes[r] = <<>> THEN Backed ELSE TasksOf(writes[r][Len(writes[r])])

Known == Held \cup Settled \subseteq DOMAIN log

InOrder ==
    /\ \A r \in Replicas : Ascending(queue[r])
    /\ \A r \in Replicas : \A i \in DOMAIN writes[r] : Ascending(writes[r][i])
    /\ backup # Nil => Ascending(backup)

\* The tasks under way are among the first of the queue.
UnderWay ==
    \A r \in Replicas, t \in Tasks : running[r][t] # "none" =>
        /\ r \in restored
        /\ \E i \in DOMAIN queue[r] : i <= Concurrency /\ queue[r][i].task = t

BeforeRestore == \A r \in Replicas \ restored : TasksOf(queue[r]) \subseteq exposed

WrittenIsServed == \A r \in Replicas : Unwritten(r) \subseteq TasksOf(queue[r]) \cup Settled

ServedIsWritten == \A r \in Replicas : TasksOf(queue[r]) \subseteq NextBackup(r) \cup Settled

\* A replica that is alone serves what it has backed up.
AloneServesAll ==
    \A r \in restored : Replicas = {r} => Backed \subseteq TasksOf(queue[r]) \cup Settled

KeptInv ==
    /\ Known /\ InOrder /\ BeforeRestore
    /\ WrittenIsServed /\ ServedIsWritten /\ AloneServesAll

QueueInv == QueueTypeOK /\ UnderWay /\ KeptInv

LEMMA HeldIs ==
  \A t : t \in Held <=> \/ t \in Backed
                        \/ \E r \in Replicas : t \in TasksOf(queue[r]) \/ t \in Unwritten(r)
  BY DEF Held

\* What a step does that only takes the tasks of S, settled by then, off a queue.
Sheds(r, S) ==
    /\ queue'[r] \in Seq(Entry) /\ queue' = [queue EXCEPT ![r] = queue'[r]]
    /\ Ascending(queue'[r])
    /\ TasksOf(queue'[r]) \subseteq TasksOf(queue[r])
    /\ TasksOf(queue[r]) \subseteq TasksOf(queue'[r]) \cup S
    /\ UNCHANGED <<restored, writes, backup, log>>
    /\ exposed' = exposed /\ done \subseteq done' /\ dropped \subseteq dropped'
    /\ S \subseteq Settled' /\ Settled' \subseteq Settled \cup TasksOf(queue[r])

LEMMA ShedsHeld ==
  ASSUME QueueTypeOK, NEW r \in Replicas, NEW S, Sheds(r, S)
  PROVE  Held' \subseteq Held /\ Held \subseteq Held' \cup S
<1>1. /\ Backed' = Backed /\ \A p \in Replicas : Unwritten(p)' = Unwritten(p)
      /\ \A p \in Replicas \ {r} : queue'[p] = queue[p]
  BY DEF Sheds, Backed, Unwritten, QueueTypeOK
<1>2. \A t : t \in Held' <=> \/ t \in Backed'
                          \/ \E p \in Replicas : t \in TasksOf(queue'[p]) \/ t \in Unwritten(p)'
  BY DEF Held
<1> QED BY <1>1, <1>2, HeldIs DEF Sheds

LEMMA ShedsKeeps ==
  ASSUME QueueTypeOK, KeptInv, NEW r \in Replicas, NEW S, Sheds(r, S)
  PROVE  KeptInv'
<1>1. /\ Backed' = Backed /\ \A p \in Replicas : Unwritten(p)' = Unwritten(p)
      /\ \A p \in Replicas : NextBackup(p)' = NextBackup(p)
      /\ \A p \in Replicas \ {r} : queue'[p] = queue[p]
      /\ restored' = restored /\ exposed' = exposed
      /\ Settled \subseteq Settled' /\ S \subseteq Settled'
  BY DEF Sheds, Backed, Unwritten, NextBackup, QueueTypeOK, Settled
<1>2. TasksOf(queue'[r]) \subseteq TasksOf(queue[r]) /\ TasksOf(queue[r]) \subseteq TasksOf(queue'[r]) \cup S
  BY DEF Sheds
<1>3. Known'
  <2>1. TasksOf(queue[r]) \subseteq DOMAIN log
    BY HeldIs DEF KeptInv, Known
  <2> QED BY <2>1, ShedsHeld DEF Sheds, KeptInv, Known
<1>4. InOrder'
  BY <1>1 DEF Sheds, KeptInv, InOrder
<1>5. BeforeRestore'
  BY <1>1, <1>2 DEF KeptInv, BeforeRestore
<1>6. WrittenIsServed'
  BY <1>1, <1>2 DEF KeptInv, WrittenIsServed
<1>7. ServedIsWritten'
  BY <1>1, <1>2 DEF KeptInv, ServedIsWritten
<1>8. AloneServesAll'
  BY <1>1, <1>2 DEF KeptInv, AloneServesAll
<1> QED BY <1>3, <1>4, <1>5, <1>6, <1>7, <1>8 DEF KeptInv

-----------------------------------------------------------------------------
(* The end of a try *)

LEMMA UnderWayIsServed ==
  ASSUME QueueInv, NEW r \in Replicas, NEW t \in Tasks, running[r][t] # "none"
  PROVE  t \in TasksOf(queue[r]) /\ t \in Held /\ r \in restored
<1>1. t \in TasksOf(queue[r]) /\ r \in restored
  BY DEF QueueInv, UnderWay, TasksOf
<1> QED BY <1>1, HeldIs

\* The part of the type that the end of a try may disturb.
TryTypeOK ==
    /\ queue \in [Replicas -> Seq(Entry)]
    /\ running \in [Replicas -> [Tasks -> Points]]
    /\ failures \in [Replicas -> 0..BreakAfter]
    /\ paused \subseteq Replicas
    /\ done \subseteq Tasks /\ dropped \subseteq Tasks

LEMMA GoKeeps ==
  ASSUME QueueTypeOK, NEW r \in Replicas, NEW t \in Tasks, NEW point \in Points, Go(r, t, point)
  PROVE  /\ running' \in [Replicas -> [Tasks -> Points]]
         /\ \A p \in Replicas, x \in Tasks :
                running'[p][x] = IF p = r /\ x = t THEN point ELSE running[p][x]
  BY DEF QueueTypeOK, Go

\* The task of an ended try is taken off the queue, done or dropped.
LEMMA RemovalKeeps ==
  ASSUME QueueInv, NEW r \in Replicas, NEW t \in Tasks, running[r][t] # "none",
         WithQueue(r, Without(queue[r], t)), Go(r, t, "none"),
         UNCHANGED <<restored, writes, backup, log, exposed>>,
         \/ done' = done \cup {t} /\ dropped' = dropped
         \/ done' = done /\ dropped' = dropped \cup {t}
  PROVE  /\ Sheds(r, {t}) /\ UnderWay'
         /\ queue' \in [Replicas -> Seq(Entry)] /\ running' \in [Replicas -> [Tasks -> Points]]
         /\ done' \subseteq Tasks /\ dropped' \subseteq Tasks
<1> DEFINE q == queue[r]
           w == Without(q, t)
<1>1. QueueTypeOK /\ q \in Seq(Entry) /\ Ascending(q) /\ t \in TasksOf(q)
  BY UnderWayIsServed DEF QueueInv, QueueTypeOK, KeptInv, InOrder
<1>2. /\ w \in Seq(Entry) /\ TasksOf(w) \subseteq TasksOf(q) /\ TasksOf(q) \subseteq TasksOf(w) \cup {t}
      /\ Ascending(w)
      /\ \A i \in DOMAIN q : q[i].task # t =>
              \E j \in DOMAIN w : j <= i /\ w[j].task = q[i].task
  BY <1>1, WithoutKeeps
<1>3. queue' = [queue EXCEPT ![r] = w] /\ queue \in [Replicas -> Seq(Entry)]
  BY <1>1 DEF WithQueue, QueueTypeOK
<1> HIDE DEF w
<1>4. queue'[r] = w /\ \A p \in Replicas \ {r} : queue'[p] = queue[p]
  BY <1>3
<1>5. Sheds(r, {t})
  BY <1>1, <1>2, <1>3, <1>4 DEF Sheds, Settled
<1>6. /\ running' \in [Replicas -> [Tasks -> Points]]
      /\ \A p \in Replicas, x \in Tasks :
             running'[p][x] = IF p = r /\ x = t THEN "none" ELSE running[p][x]
  BY <1>1, GoKeeps DEF Points
<1>7. UnderWay'
  <2> SUFFICES ASSUME NEW p \in Replicas, NEW x \in Tasks, running'[p][x] # "none"
               PROVE  /\ p \in restored'
                      /\ \E i \in DOMAIN queue'[p] : i <= Concurrency /\ queue'[p][i].task = x
    BY DEF UnderWay
  <2>1. running[p][x] # "none" /\ ~(p = r /\ x = t)
    BY <1>6
  <2>2. PICK i \in DOMAIN queue[p] : i <= Concurrency /\ queue[p][i].task = x
    BY <2>1 DEF QueueInv, UnderWay
  <2>3. p \in restored'
    BY <2>1 DEF QueueInv, UnderWay
  <2>4. CASE p = r
    <3>1. PICK j \in DOMAIN w : j <= i /\ w[j].task = x
      BY <2>1, <2>2, <2>4, <1>2
    <3>2. j <= Concurrency
      BY <3>1, <2>2, <2>4, <1>1, <1>2, QueueIs, Bounds
    <3> QED BY <3>1, <3>2, <2>3, <2>4, <1>4
  <2>5. CASE p # r
    BY <2>2, <2>3, <2>5, <1>4
  <2> QED BY <2>4, <2>5
<1>8. queue' \in [Replicas -> Seq(Entry)] /\ done' \subseteq Tasks /\ dropped' \subseteq Tasks
  BY <1>1, <1>2, <1>3 DEF QueueTypeOK
<1> QED BY <1>5, <1>6, <1>7, <1>8

LEMMA CompleteKeeps ==
  ASSUME QueueInv, NEW r \in Replicas, NEW t \in Tasks, running[r][t] # "none",
         Complete(r, t), UNCHANGED <<restored, writes, backup, log, exposed>>
  PROVE  /\ Sheds(r, {t}) /\ UnderWay' /\ TryTypeOK'
         /\ done' = done \cup {t} /\ dropped' = dropped
<1>1. /\ WithQueue(r, Without(queue[r], t)) /\ Go(r, t, "none")
      /\ done' = done \cup {t} /\ dropped' = dropped /\ paused' = paused
      /\ failures' = [failures EXCEPT ![r] = 0]
  BY DEF Complete
<1>2. /\ Sheds(r, {t}) /\ UnderWay'
      /\ queue' \in [Replicas -> Seq(Entry)] /\ running' \in [Replicas -> [Tasks -> Points]]
      /\ done' \subseteq Tasks /\ dropped' \subseteq Tasks
  BY <1>1, RemovalKeeps
<1>3. failures' \in [Replicas -> 0..BreakAfter] /\ paused' \subseteq Replicas
  <2>1. 0 \in 0..BreakAfter
    BY Bounds
  <2> QED BY <2>1, <1>1 DEF QueueInv, QueueTypeOK
<1> QED BY <1>1, <1>2, <1>3 DEF TryTypeOK

\* A failed try leaves the task in its place or, if it was the last, drops it.
LEMMA FailKeeps ==
  ASSUME QueueInv, NEW r \in Replicas, NEW t \in Tasks, running[r][t] # "none",
         Fail(r, t), UNCHANGED <<restored, writes, backup, log, exposed>>
  PROVE  \E S \in SUBSET {t} :
            /\ Sheds(r, S) /\ UnderWay' /\ TryTypeOK'
            /\ done' = done /\ dropped' = dropped \cup S
<1> DEFINE q == queue[r]
           last == LastTry(q, t)
           w == IF last THEN Without(q, t) ELSE Retried(q, t)
           S == IF last THEN {t} ELSE {}
<1>1. QueueTypeOK /\ q \in Seq(Entry) /\ Ascending(q) /\ t \in TasksOf(q)
  BY UnderWayIsServed DEF QueueInv, QueueTypeOK, KeptInv, InOrder
<1>2. /\ w \in Seq(Entry) /\ TasksOf(w) \subseteq TasksOf(q) /\ TasksOf(q) \subseteq TasksOf(w) \cup S
      /\ Ascending(w)
      /\ \A i \in DOMAIN q : q[i].task # t =>
              \E j \in DOMAIN w : j <= i /\ w[j].task = q[i].task
  <2>1. CASE last
    BY <2>1, <1>1, WithoutKeeps
  <2>2. CASE ~last
    <3>1. /\ Retried(q, t) \in Seq(Entry) /\ TasksOf(Retried(q, t)) = TasksOf(q)
          /\ Ascending(Retried(q, t))
          /\ \A i \in DOMAIN q : i \in DOMAIN Retried(q, t) /\ Retried(q, t)[i].task = q[i].task
      BY <2>2, <1>1, RetriedKeeps
    <3>2. \A i \in DOMAIN q : i <= i
      BY <1>1, QueueIs
    <3> QED BY <3>1, <3>2, <2>2
  <2> QED BY <2>1, <2>2
<1>3. /\ queue' = [queue EXCEPT ![r] = w] /\ queue \in [Replicas -> Seq(Entry)]
      /\ done' = done /\ dropped' = dropped \cup S
      /\ Go(r, t, "none")
  BY <1>1 DEF Fail, WithQueue, QueueTypeOK
<1>4. failures' \in [Replicas -> 0..BreakAfter] /\ paused' \subseteq Replicas
  <2>1. failures[r] \in 0..BreakAfter /\ BreakAfter \in Nat \ {0}
    BY <1>1, Bounds DEF QueueTypeOK
  <2>2. (IF failures[r] + 1 >= BreakAfter THEN BreakAfter ELSE failures[r] + 1) \in 0..BreakAfter
    BY <2>1
  <2> QED BY <1>1, <2>2 DEF Fail, QueueTypeOK
<1>5. t \in Tasks /\ S \subseteq {t}
  OBVIOUS
<1> HIDE DEF w, S, last
<1>6. queue'[r] = w /\ \A p \in Replicas \ {r} : queue'[p] = queue[p]
  BY <1>3
<1>7. Sheds(r, S)
  BY <1>1, <1>2, <1>3, <1>5, <1>6 DEF Sheds, Settled
<1>8. /\ running' \in [Replicas -> [Tasks -> Points]]
      /\ \A p \in Replicas, x \in Tasks :
             running'[p][x] = IF p = r /\ x = t THEN "none" ELSE running[p][x]
  BY <1>1, <1>3, GoKeeps DEF Points
<1>9. UnderWay'
  <2> SUFFICES ASSUME NEW p \in Replicas, NEW x \in Tasks, running'[p][x] # "none"
               PROVE  /\ p \in restored'
                      /\ \E i \in DOMAIN queue'[p] : i <= Concurrency /\ queue'[p][i].task = x
    BY DEF UnderWay
  <2>1. running[p][x] # "none" /\ ~(p = r /\ x = t)
    BY <1>8
  <2>2. PICK i \in DOMAIN queue[p] : i <= Concurrency /\ queue[p][i].task = x
    BY <2>1 DEF QueueInv, UnderWay
  <2>3. p \in restored'
    BY <2>1 DEF QueueInv, UnderWay
  <2>4. CASE p = r
    <3>1. PICK j \in DOMAIN w : j <= i /\ w[j].task = x
      BY <2>1, <2>2, <2>4, <1>2
    <3>2. j <= Concurrency
      BY <3>1, <2>2, <2>4, <1>1, <1>2, QueueIs, Bounds
    <3> QED BY <3>1, <3>2, <2>3, <2>4, <1>6
  <2>5. CASE p # r
    BY <2>2, <2>3, <2>5, <1>6
  <2> QED BY <2>4, <2>5
<1>10. TryTypeOK'
  BY <1>1, <1>2, <1>3, <1>4, <1>5, <1>6, <1>8 DEF TryTypeOK, QueueTypeOK
<1> QED BY <1>3, <1>5, <1>7, <1>9, <1>10

-----------------------------------------------------------------------------
(* The steps of the queue *)

AStep == [Promise!TasksNext]_<<log, Held, done, dropped \cup exposed>>

LEMMA SettledIsKnown ==
  ASSUME QueueInv
  PROVE  /\ done \subseteq DOMAIN log /\ dropped \subseteq DOMAIN log /\ exposed \subseteq DOMAIN log
         /\ Held \subseteq DOMAIN log /\ DOMAIN log = 1..Len(log) /\ Len(log) \in Nat
  BY DEF QueueInv, QueueTypeOK, KeptInv, Known, Settled

LEMMA OwnerIs ==
  ASSUME QueueTypeOK, NEW t \in DOMAIN log
  PROVE  log[t] \in Request /\ Owner(t) \in Users
<1>1. log[t] \in Request
  BY DEF QueueTypeOK
<1> QED BY <1>1 DEF Request, Owner

LEMMA TasksOfIs ==
  ASSUME NEW q \in Seq(Entry)
  PROVE  TasksOf(q) \subseteq Tasks
  BY QueueIs, EntryIs DEF TasksOf

LEMMA BackedIs ==
  ASSUME QueueTypeOK
  PROVE  Backed \subseteq Tasks
  BY TasksOfIs DEF QueueTypeOK, Backed

\* A step that leaves queues, backup and history alone.
LEMMA CallKeeps ==
  ASSUME QueueInv,
         UNCHANGED <<restored, queue, writes, backup, log, done, dropped, exposed>>
  PROVE  KeptInv' /\ AStep
<1>1. /\ Held' = Held /\ Settled' = Settled /\ Backed' = Backed
      /\ \A r \in Replicas : Unwritten(r)' = Unwritten(r) /\ NextBackup(r)' = NextBackup(r)
  BY DEF Held, Settled, Backed, Unwritten, NextBackup
<1>2. KeptInv'
  BY <1>1 DEF QueueInv, KeptInv, Known, InOrder, BeforeRestore, WrittenIsServed,
              ServedIsWritten, AloneServesAll
<1> QED BY <1>1, <1>2 DEF AStep

\* A step that takes dropped tasks off a queue, or none.
LEMMA DropKeeps ==
  ASSUME QueueInv, NEW r \in Replicas, NEW S, Sheds(r, S),
         done' = done, dropped' = dropped \cup S
  PROVE  KeptInv' /\ AStep
<1>1. KeptInv'
  BY ShedsKeeps DEF QueueInv
<1>2. Held' \subseteq Held /\ Held \subseteq Held' \cup S
  BY ShedsHeld DEF QueueInv
<1>3. (dropped \cup exposed)' \subseteq DOMAIN log /\ exposed' = exposed /\ log' = log
  BY <1>1 DEF KeptInv, Known, Settled, Sheds
<1>4. Promise!LetGo
  BY <1>2, <1>3 DEF Promise!LetGo
<1> QED BY <1>1, <1>4 DEF AStep, Promise!TasksNext

LEMMA DoneKeeps ==
  ASSUME QueueInv, NEW r \in Replicas, NEW t \in Tasks, t \in Held, Sheds(r, {t}),
         done' = done \cup {t}, dropped' = dropped
  PROVE  KeptInv' /\ AStep
<1>1. KeptInv'
  BY ShedsKeeps DEF QueueInv
<1>2. Held' \subseteq Held /\ Held \subseteq Held' \cup {t}
  BY ShedsHeld DEF QueueInv
<1>3. Held' \in {Held, Held \ {t}} /\ exposed' = exposed /\ log' = log
  BY <1>2 DEF Sheds
<1>4. Promise!Finish(t)
  BY <1>3 DEF Promise!Finish
<1>5. t \in Promise!Tasks
  BY DEF Promise!Tasks, Tasks
<1> QED BY <1>1, <1>4, <1>5 DEF AStep, Promise!TasksNext

LEMMA StartBatchStep ==
  ASSUME QueueInv, NEW r \in Replicas, StartBatch(r)
  PROVE  QueueInv' /\ AStep
<1> DEFINE batch == FirstTasks(queue[r]) \ InFlight(r)
<1>1. QueueTypeOK /\ UnderWay
  BY DEF QueueInv
<1>2. /\ UNCHANGED <<restored, queue, writes, backup, log, done, dropped, exposed>>
      /\ UNCHANGED <<failures, paused, late, subscriber, faults>>
      /\ r \in restored
      /\ running' = [running EXCEPT ![r] = [t \in Tasks |-> IF t \in batch THEN "calling" ELSE @[t]]]
      /\ disturbed' = disturbed \cup Together(FirstTasks(queue[r]) \ InFlight(r))
  BY DEF StartBatch, MayStart, redis, novuSide
<1>3. \A p \in Replicas, x \in Tasks :
          running'[p][x] = IF p = r /\ x \in batch THEN "calling" ELSE running[p][x]
  BY <1>1, <1>2 DEF QueueTypeOK
<1>4. \A x \in batch : \E i \in DOMAIN queue[r] : i <= Concurrency /\ queue[r][i].task = x
  BY DEF FirstTasks
<1>5. UnderWay'
  BY <1>1, <1>2, <1>3, <1>4 DEF UnderWay
<1>6. Together(FirstTasks(queue[r]) \ InFlight(r)) \subseteq Users
  <2>1. \A x \in batch : x \in DOMAIN log
    <3>1. batch \subseteq TasksOf(queue[r])
      BY <1>4 DEF TasksOf
    <3> QED BY <3>1, HeldIs, SettledIsKnown
  <2> QED BY <1>1, <2>1, OwnerIs DEF Together
<1>7. QueueTypeOK'
  <2>1. running' \in [Replicas -> [Tasks -> Points]]
    BY <1>1, <1>2 DEF QueueTypeOK, Points
  <2> QED BY <2>1, <1>1, <1>2, <1>6 DEF QueueTypeOK
<1> QED BY <1>2, <1>5, <1>7, CallKeeps DEF QueueInv

LEMMA BatchRefusedStep ==
  ASSUME QueueInv, NEW r \in Replicas, BatchRefused(r)
  PROVE  QueueInv' /\ AStep
<1> DEFINE q == queue[r]
           rest == SubSeq(q, Concurrency + 1, Len(q))
           batch == FirstTasks(q)
<1>1. QueueTypeOK /\ UnderWay /\ q \in Seq(Entry) /\ Ascending(q)
  BY DEF QueueInv, QueueTypeOK, KeptInv, InOrder
<1>2. /\ queue' = [queue EXCEPT ![r] = rest] /\ dropped' = dropped \cup batch
      /\ UNCHANGED <<restored, running, failures, paused, writes, backup, late, subscriber>>
      /\ UNCHANGED <<log, done, exposed, disturbed, faults>>
      /\ InFlight(r) = {}
  BY DEF BatchRefused, MayStart, WithQueue, redis, novuSide
<1>3. /\ rest \in Seq(Entry) /\ Ascending(rest)
      /\ TasksOf(rest) \subseteq TasksOf(q) /\ TasksOf(q) \subseteq TasksOf(rest) \cup batch
  BY <1>1, RestKeeps
<1>4. batch \subseteq TasksOf(q) /\ TasksOf(q) \subseteq Tasks
  BY <1>1, QueueIs, EntryIs DEF FirstTasks, TasksOf
<1> HIDE DEF rest, batch
<1>5. queue'[r] = rest /\ \A p \in Replicas \ {r} : queue'[p] = queue[p]
  BY <1>1, <1>2 DEF QueueTypeOK
<1>6. Sheds(r, batch)
  BY <1>1, <1>2, <1>3, <1>4, <1>5 DEF Sheds, Settled
<1>7. UnderWay'
  <2>1. \A x \in Tasks : running[r][x] = "none"
    BY <1>2 DEF InFlight
  <2> QED BY <2>1, <1>1, <1>2, <1>5 DEF UnderWay
<1>8. QueueTypeOK'
  BY <1>1, <1>2, <1>3, <1>4 DEF QueueTypeOK
<1> QED BY <1>2, <1>6, <1>7, <1>8, DropKeeps DEF QueueInv

LEMMA ClosePauseStep ==
  ASSUME QueueInv, NEW r \in Replicas, ClosePause(r)
  PROVE  QueueInv' /\ AStep
<1>1. /\ UNCHANGED <<restored, queue, writes, backup, log, done, dropped, exposed>>
      /\ UNCHANGED <<running, late, subscriber, disturbed, faults>>
      /\ paused' = paused \ {r} /\ failures' = [failures EXCEPT ![r] = 0]
  BY DEF ClosePause, redis, novuSide, queueHistory
<1>2. UnderWay'
  BY <1>1 DEF QueueInv, UnderWay
<1>3. failures' \in [Replicas -> 0..BreakAfter]
  <2>1. 0 \in 0..BreakAfter
    BY Bounds
  <2> QED BY <2>1, <1>1 DEF QueueInv, QueueTypeOK
<1>4. QueueTypeOK'
  BY <1>1, <1>3 DEF QueueInv, QueueTypeOK
<1> QED BY <1>1, <1>2, <1>4, CallKeeps DEF QueueInv

LEMMA AppliedIs ==
  ASSUME QueueTypeOK, NEW t \in Tasks
  PROVE  AppliedTo(t) \in [Users -> 0..MaxTasks]
<1>1. t \in 0..MaxTasks
  BY DEF Tasks
<1> QED BY <1>1 DEF QueueTypeOK, AppliedTo

LEMMA NovuAppliesStep ==
  ASSUME QueueInv, NEW r \in Replicas, NEW t \in Tasks, NovuApplies(r, t)
  PROVE  QueueInv' /\ AStep
<1>1. /\ UNCHANGED <<restored, queue, writes, backup, log, done, dropped, exposed>>
      /\ UNCHANGED <<failures, paused, late, disturbed, faults>>
      /\ running[r][t] # "none" /\ Go(r, t, "accepted") /\ subscriber' = AppliedTo(t)
  BY DEF NovuApplies, redis, queueHistory
<1>2. /\ running' \in [Replicas -> [Tasks -> Points]]
      /\ \A p \in Replicas, x \in Tasks :
             running'[p][x] = IF p = r /\ x = t THEN "accepted" ELSE running[p][x]
  BY <1>1, GoKeeps DEF QueueInv, Points
<1>3. UnderWay'
  BY <1>1, <1>2 DEF QueueInv, UnderWay
<1>4. subscriber' \in [Users -> 0..MaxTasks]
  BY <1>1, AppliedIs DEF QueueInv
<1>5. QueueTypeOK'
  BY <1>1, <1>2, <1>4 DEF QueueInv, QueueTypeOK
<1> QED BY <1>1, <1>3, <1>5, CallKeeps DEF QueueInv

LEMMA LateRequestStep ==
  ASSUME QueueInv, NEW t \in Tasks, LateRequest(t)
  PROVE  QueueInv' /\ AStep
<1>1. /\ UNCHANGED <<restored, queue, writes, backup, log, done, dropped, exposed>>
      /\ UNCHANGED <<running, failures, paused, disturbed, faults>>
      /\ late' = late \ {t} /\ subscriber' = AppliedTo(t)
  BY DEF LateRequest, memory, redis, queueHistory
<1>2. UnderWay'
  BY <1>1 DEF QueueInv, UnderWay
<1>3. subscriber' \in [Users -> 0..MaxTasks]
  BY <1>1, AppliedIs DEF QueueInv
<1>4. QueueTypeOK'
  BY <1>1, <1>3 DEF QueueInv, QueueTypeOK
<1> QED BY <1>1, <1>2, <1>4, CallKeeps DEF QueueInv

\* The answer of a call that was not given up.
LEMMA AnswerStep ==
  ASSUME QueueInv, NEW r \in Replicas, NEW t \in Tasks, running[r][t] # "none",
         Complete(r, t) \/ Fail(r, t),
         UNCHANGED <<restored, redis, novuSide, log, exposed, disturbed, faults>>
  PROVE  QueueInv' /\ AStep
<1>1. /\ UNCHANGED <<restored, writes, backup, log, exposed>>
      /\ UNCHANGED <<late, subscriber, disturbed, faults>>
  BY DEF redis, novuSide
<1>2. TryTypeOK' => QueueTypeOK'
  BY <1>1 DEF TryTypeOK, QueueInv, QueueTypeOK
<1>3. CASE Complete(r, t)
  <2>1. Sheds(r, {t}) /\ UnderWay' /\ TryTypeOK' /\ done' = done \cup {t} /\ dropped' = dropped
    BY <1>1, <1>3, CompleteKeeps
  <2>2. t \in Held
    BY UnderWayIsServed
  <2> QED BY <1>2, <2>1, <2>2, DoneKeeps DEF QueueInv
<1>4. CASE Fail(r, t)
  <2>1. PICK S \in SUBSET {t} :
            /\ Sheds(r, S) /\ UnderWay' /\ TryTypeOK'
            /\ done' = done /\ dropped' = dropped \cup S
    BY <1>1, <1>4, FailKeeps
  <2> QED BY <1>2, <2>1, DropKeeps DEF QueueInv
<1> QED BY <1>3, <1>4

LEMMA DeliveredStep ==
  ASSUME QueueInv, NEW r \in Replicas, NEW t \in Tasks, Delivered(r, t)
  PROVE  QueueInv' /\ AStep
<1>1. /\ running[r][t] # "none"
      /\ UNCHANGED <<restored, redis, novuSide, log, exposed, disturbed, faults>>
  BY DEF Delivered
<1>2. CASE Complete(r, t)
  BY <1>1, <1>2, AnswerStep
<1>3. CASE Go(r, t, "recording") /\ UNCHANGED <<queue, failures, paused, done, dropped>>
  <2>1. /\ UNCHANGED <<restored, queue, writes, backup, log, done, dropped, exposed>>
        /\ UNCHANGED <<failures, paused, late, subscriber, disturbed, faults>>
    BY <1>1, <1>3 DEF redis, novuSide
  <2>2. /\ running' \in [Replicas -> [Tasks -> Points]]
        /\ \A p \in Replicas, x \in Tasks :
               running'[p][x] = IF p = r /\ x = t THEN "recording" ELSE running[p][x]
    BY <1>3, GoKeeps DEF QueueInv, Points
  <2>3. UnderWay'
    BY <1>1, <2>1, <2>2 DEF QueueInv, UnderWay
  <2>4. QueueTypeOK'
    BY <2>1, <2>2 DEF QueueInv, QueueTypeOK
  <2> QED BY <2>1, <2>3, <2>4, CallKeeps DEF QueueInv
<1> QED BY <1>2, <1>3 DEF Delivered

LEMMA TimesOutStep ==
  ASSUME QueueInv, NEW r \in Replicas, NEW t \in Tasks, TimesOut(r, t)
  PROVE  QueueInv' /\ AStep
<1>1. /\ running[r][t] # "none"
      /\ WithQueue(r, Without(queue[r], t)) /\ Go(r, t, "none")
      /\ UNCHANGED <<restored, failures, paused, writes, backup, log, exposed>>
      /\ subscriber' = subscriber /\ done' = done /\ dropped' = dropped \cup {t}
      /\ faults' = faults + 1 /\ late' = late \cup {t} /\ disturbed' = disturbed \cup {Owner(t)}
  BY DEF TimesOut, redis
<1>2. /\ Sheds(r, {t}) /\ UnderWay'
      /\ queue' \in [Replicas -> Seq(Entry)] /\ running' \in [Replicas -> [Tasks -> Points]]
      /\ done' \subseteq Tasks /\ dropped' \subseteq Tasks
  BY <1>1, RemovalKeeps
<1>3. Owner(t) \in Users
  BY <1>1, UnderWayIsServed, SettledIsKnown, OwnerIs DEF QueueInv
<1>4. QueueTypeOK'
  BY <1>1, <1>2, <1>3 DEF QueueInv, QueueTypeOK
<1> QED BY <1>1, <1>2, <1>4, DropKeeps DEF QueueInv

LEMMA EnqueueStep ==
  ASSUME QueueInv, NEW r \in Replicas, NEW request \in Request, Enqueue(r, request)
  PROVE  QueueInv' /\ AStep
<1> DEFINE t == Len(log) + 1
           e == [task |-> t, attempts |-> 0]
           q == Append(queue[r], e)
           w == Append(writes[r], q)
<1>1. /\ QueueTypeOK /\ queue[r] \in Seq(Entry) /\ Ascending(queue[r])
      /\ writes[r] \in Seq(Seq(Entry)) /\ log \in Seq(Request)
  BY DEF QueueInv, QueueTypeOK, KeptInv, InOrder
<1>2. /\ t \in Tasks /\ queue' = [queue EXCEPT ![r] = q] /\ writes' = [writes EXCEPT ![r] = w]
      /\ log' = Append(log, request)
      /\ exposed' = IF r \in restored THEN exposed ELSE exposed \cup {t}
      /\ disturbed' = disturbed \cup ({request.user} \cap ServedElsewhere(r))
      /\ UNCHANGED <<restored, running, failures, paused, backup, late, subscriber>>
      /\ UNCHANGED <<done, dropped, faults>>
  BY <1>1 DEF Enqueue, WithQueue, Snapshot, novuSide, QueueTypeOK
<1>3. e \in Entry /\ e.task = t
  BY <1>2, Bounds DEF Entry
<1>4. /\ log' \in Seq(Request) /\ DOMAIN log' = DOMAIN log \cup {t} /\ Len(log) \in Nat
      /\ DOMAIN log = 1..Len(log)
  BY <1>1, <1>2
<1>5. \A x \in TasksOf(queue[r]) : x < t
  <2>1. TasksOf(queue[r]) \subseteq DOMAIN log
    BY HeldIs, SettledIsKnown
  <2> QED BY <2>1, <1>4
<1>6. q \in Seq(Entry) /\ TasksOf(q) = TasksOf(queue[r]) \cup {t} /\ Ascending(q)
  BY <1>1, <1>3, <1>5, AppendKeeps
<1>7. \A i \in DOMAIN queue[r] : i \in DOMAIN q /\ q[i] = queue[r][i]
  BY <1>1, <1>3
<1> HIDE DEF q, e
<1>8. /\ w \in Seq(Seq(Entry)) /\ w # <<>> /\ DOMAIN w = DOMAIN writes[r] \cup {Len(writes[r]) + 1}
      /\ w[Len(w)] = q /\ w[Len(writes[r]) + 1] = q
      /\ \A i \in DOMAIN writes[r] : w[i] = writes[r][i]
  <2>1. /\ w \in Seq(Seq(Entry)) /\ Len(w) = Len(writes[r]) + 1 /\ w[Len(writes[r]) + 1] = q
        /\ \A i \in 1..Len(writes[r]) : w[i] = writes[r][i]
    BY <1>1, <1>6, AppendProperties
  <2>2. DOMAIN w = 1..Len(w) /\ DOMAIN writes[r] = 1..Len(writes[r]) /\ Len(writes[r]) \in Nat
    BY <1>1, <2>1
  <2>3. w # <<>>
    BY <2>1, <2>2
  <2> QED BY <2>1, <2>2, <2>3
<1> HIDE DEF w
<1>9. /\ queue'[r] = q /\ \A p \in Replicas \ {r} : queue'[p] = queue[p]
      /\ writes'[r] = w /\ \A p \in Replicas \ {r} : writes'[p] = writes[p]
  BY <1>1, <1>2 DEF QueueTypeOK
<1>10. /\ Unwritten(r)' = Unwritten(r) \cup TasksOf(q) /\ NextBackup(r)' = TasksOf(q)
       /\ \A p \in Replicas \ {r} : Unwritten(p)' = Unwritten(p) /\ NextBackup(p)' = NextBackup(p)
       /\ Backed' = Backed
  <2>1. Unwritten(r)' = UNION {TasksOf(w[i]) : i \in DOMAIN w}
    BY <1>9 DEF Unwritten
  <2>2. Unwritten(r)' = Unwritten(r) \cup TasksOf(q)
    BY <2>1, <1>8 DEF Unwritten
  <2>3. Backed' = Backed
    BY <1>2 DEF Backed
  <2> QED BY <2>2, <2>3, <1>8, <1>9 DEF Unwritten, NextBackup
<1>11. Held' = Held \cup {t}
  <2>1. \A x : x \in Held' <=> \/ x \in Backed'
                          \/ \E p \in Replicas : x \in TasksOf(queue'[p]) \/ x \in Unwritten(p)'
    BY DEF Held
  <2> QED BY <2>1, <1>6, <1>9, <1>10, HeldIs
<1>12. KeptInv'
  <2>1. Settled' \subseteq Settled \cup {t} /\ Settled \subseteq Settled' /\ exposed \subseteq exposed'
    BY <1>2 DEF Settled
  <2>2. Known'
    BY <1>4, <1>11, <2>1 DEF QueueInv, KeptInv, Known
  <2>3. InOrder'
    BY <1>2, <1>6, <1>8, <1>9 DEF QueueInv, KeptInv, InOrder
  <2>4. BeforeRestore'
    BY <1>2, <1>6, <1>9, <2>1 DEF QueueInv, KeptInv, BeforeRestore
  <2>5. WrittenIsServed'
    BY <1>6, <1>9, <1>10, <2>1 DEF QueueInv, KeptInv, WrittenIsServed
  <2>6. ServedIsWritten'
    BY <1>6, <1>9, <1>10, <2>1 DEF QueueInv, KeptInv, ServedIsWritten
  <2>7. AloneServesAll'
    BY <1>2, <1>6, <1>9, <1>10, <2>1 DEF QueueInv, KeptInv, AloneServesAll
  <2> QED BY <2>2, <2>3, <2>4, <2>5, <2>6, <2>7 DEF KeptInv
<1>13. UnderWay'
  BY <1>2, <1>7, <1>9 DEF QueueInv, UnderWay
<1>14. QueueTypeOK'
  <2>1. disturbed' \subseteq Users
    BY <1>1, <1>2 DEF QueueTypeOK, Request
  <2> QED BY <2>1, <1>1, <1>2, <1>4, <1>6, <1>8 DEF QueueTypeOK
<1>15. Promise!Enqueue(request)
  BY <1>2, <1>11 DEF Promise!Enqueue, Promise!Tasks, Tasks
<1>16. request \in Promise!Request
  BY DEF Promise!Request, Request
<1> QED BY <1>12, <1>13, <1>14, <1>15, <1>16 DEF QueueInv, AStep, Promise!TasksNext

LEMMA WriteIs ==
  ASSUME QueueTypeOK, NEW r \in Replicas, writes[r] # <<>>,
         writes' = [writes EXCEPT ![r] = Tail(@)]
  PROVE  LET q == Head(writes[r])
             last == writes[r][Len(writes[r])]
         IN  /\ q \in Seq(Entry) /\ \E i \in DOMAIN writes[r] : q = writes[r][i]
             /\ writes' \in [Replicas -> Seq(Seq(Entry))]
             /\ \A p \in Replicas \ {r} : writes'[p] = writes[p] /\ Unwritten(p)' = Unwritten(p)
             /\ Unwritten(r)' \subseteq Unwritten(r) /\ TasksOf(q) \subseteq Unwritten(r)
             /\ Unwritten(r) \subseteq Unwritten(r)' \cup TasksOf(q)
             /\ writes'[r] = <<>> => q = last
             /\ writes'[r] # <<>> => writes'[r][Len(writes'[r])] = last
             /\ \A i \in DOMAIN writes'[r] : \E j \in DOMAIN writes[r] : writes'[r][i] = writes[r][j]
<1> DEFINE w == writes[r]
           v == Tail(w)
           q == Head(w)
<1>1. w \in Seq(Seq(Entry)) /\ w # <<>> /\ writes \in [Replicas -> Seq(Seq(Entry))]
  BY DEF QueueTypeOK
<1>2. /\ q \in Seq(Entry) /\ v \in Seq(Seq(Entry)) /\ Len(v) = Len(w) - 1
      /\ \A i \in 1..Len(v) : v[i] = w[i + 1]
      /\ Len(w) \in Nat \ {0} /\ DOMAIN w = 1..Len(w) /\ DOMAIN v = 1..Len(v) /\ q = w[1]
  BY <1>1, HeadTailProperties
<1>3. writes' \in [Replicas -> Seq(Seq(Entry))] /\ writes'[r] = v
      /\ \A p \in Replicas \ {r} : writes'[p] = writes[p]
  BY <1>1, <1>2
<1> HIDE DEF v, q
<1>4. \A p \in Replicas \ {r} : Unwritten(p)' = Unwritten(p)
  BY <1>3 DEF Unwritten
<1>5. Unwritten(r)' = UNION {TasksOf(v[i]) : i \in DOMAIN v}
      /\ Unwritten(r) = UNION {TasksOf(w[i]) : i \in DOMAIN w}
  BY <1>3 DEF Unwritten
<1>6. \A i \in DOMAIN v : i + 1 \in DOMAIN w /\ v[i] = w[i + 1]
  <2> SUFFICES ASSUME NEW i \in DOMAIN v PROVE i + 1 \in DOMAIN w /\ v[i] = w[i + 1]
    OBVIOUS
  <2>1. i \in 1..Len(v) /\ v[i] = w[i + 1]
    BY <1>2
  <2>2. i + 1 \in 1..Len(w)
    BY <1>2, <2>1
  <2> QED BY <1>2, <2>1, <2>2
<1>7. \A i \in DOMAIN w : i = 1 \/ (i - 1 \in DOMAIN v /\ v[i - 1] = w[i])
  <2> SUFFICES ASSUME NEW i \in DOMAIN w, i # 1 PROVE i - 1 \in DOMAIN v /\ v[i - 1] = w[i]
    OBVIOUS
  <2>1. i \in 1..Len(w)
    BY <1>2
  <2>2. i - 1 \in 1..Len(v) /\ (i - 1) + 1 = i
    BY <1>2, <2>1
  <2>3. v[i - 1] = w[(i - 1) + 1]
    BY <1>2, <2>2
  <2> QED BY <1>2, <2>2, <2>3
<1>8. 1 \in DOMAIN w
  BY <1>2
<1>9. /\ Unwritten(r)' \subseteq Unwritten(r) /\ TasksOf(q) \subseteq Unwritten(r)
      /\ Unwritten(r) \subseteq Unwritten(r)' \cup TasksOf(q)
  <2>1. Unwritten(r)' \subseteq Unwritten(r)
    BY <1>5, <1>6
  <2>2. TasksOf(q) \subseteq Unwritten(r)
    BY <1>2, <1>5, <1>8
  <2>3. Unwritten(r) \subseteq Unwritten(r)' \cup TasksOf(q)
    BY <1>2, <1>5, <1>7
  <2> QED BY <2>1, <2>2, <2>3
<1>10. v = <<>> => q = w[Len(w)]
  <2> SUFFICES ASSUME v = <<>> PROVE Len(w) = 1
    BY <1>2
  <2> QED BY <1>2
<1>11. v # <<>> => v[Len(v)] = w[Len(w)]
  <2> SUFFICES ASSUME v # <<>> PROVE Len(v) \in 1..Len(v)
    BY <1>2
  <2> QED BY <1>2
<1> QED BY <1>2, <1>3, <1>4, <1>6, <1>8, <1>9, <1>10, <1>11 DEF q

LEMMA WriteBackupStep ==
  ASSUME QueueInv, NEW r \in Replicas, NEW ok \in BOOLEAN, WriteBackup(r, ok)
  PROVE  QueueInv' /\ AStep
<1> DEFINE q == Head(writes[r])
           last == writes[r][Len(writes[r])]
           replaced == IF Replicas = {r} THEN {} ELSE Backed \ TasksOf(q)
<1>1. QueueTypeOK /\ UnderWay /\ KeptInv
  BY DEF QueueInv
<1>2. /\ r \in restored /\ writes[r] # <<>> /\ writes' = [writes EXCEPT ![r] = Tail(@)]
      /\ faults' = IF ok THEN faults ELSE faults + 1
      /\ backup' = IF ok THEN q ELSE backup
      /\ exposed' = exposed \cup (IF ok THEN replaced ELSE TasksOf(q))
      /\ UNCHANGED <<restored, queue, running, failures, paused, late, subscriber>>
      /\ UNCHANGED <<log, done, dropped, disturbed>>
  BY DEF WriteBackup, memory, novuSide
<1>3. /\ q \in Seq(Entry) /\ \E i \in DOMAIN writes[r] : q = writes[r][i]
      /\ writes' \in [Replicas -> Seq(Seq(Entry))]
      /\ \A p \in Replicas \ {r} : writes'[p] = writes[p] /\ Unwritten(p)' = Unwritten(p)
      /\ Unwritten(r)' \subseteq Unwritten(r) /\ TasksOf(q) \subseteq Unwritten(r)
      /\ Unwritten(r) \subseteq Unwritten(r)' \cup TasksOf(q)
      /\ writes'[r] = <<>> => q = last
      /\ writes'[r] # <<>> => writes'[r][Len(writes'[r])] = last
      /\ \A i \in DOMAIN writes'[r] : \E j \in DOMAIN writes[r] : writes'[r][i] = writes[r][j]
  BY <1>1, <1>2, WriteIs
<1> HIDE DEF q, last
<1>4. /\ ok => Backed' = TasksOf(q)
      /\ ~ok => Backed' = Backed
  BY <1>2, <1>3, QueueAssumption DEF Backed
<1>5. /\ TasksOf(q) \subseteq TasksOf(queue[r]) \cup Settled /\ TasksOf(q) \subseteq Held
      /\ Backed \subseteq Held /\ Held \subseteq DOMAIN log /\ Settled \subseteq DOMAIN log
  BY <1>1, <1>3, HeldIs DEF KeptInv, WrittenIsServed, Known
<1>6. exposed \subseteq exposed' /\ Settled \subseteq Settled' /\ Settled' \subseteq DOMAIN log
  BY <1>2, <1>5 DEF Settled
<1>7. \A x : x \in Held' <=> \/ x \in Backed'
                        \/ \E p \in Replicas : x \in TasksOf(queue[p]) \/ x \in Unwritten(p)'
  BY <1>2 DEF Held
<1>8. \A p \in Replicas : Unwritten(p)' \subseteq Unwritten(p)
  BY <1>3
<1>9. Held' \subseteq Held
  BY <1>4, <1>5, <1>7, <1>8, HeldIs
<1>10. Held \subseteq Held' \cup Settled'
  <2> SUFFICES ASSUME NEW x \in Held, x \notin Settled' PROVE x \in Held'
    OBVIOUS
  <2>1. x \notin Settled /\ x \notin exposed'
    BY <1>6 DEF Settled
  <2>2. CASE x \in Backed
    <3>1. CASE ~ok
      BY <3>1, <2>2, <1>4, <1>7
    <3>2. CASE ok /\ x \in TasksOf(q)
      BY <3>2, <1>4, <1>7
    <3>3. CASE ok /\ x \notin TasksOf(q)
      <4>1. Replicas = {r}
        BY <3>3, <2>1, <2>2, <1>2
      <4>2. x \in TasksOf(queue[r])
        BY <4>1, <2>1, <2>2, <1>1, <1>2 DEF KeptInv, AloneServesAll
      <4> QED BY <4>2, <1>7
    <3> QED BY <3>1, <3>2, <3>3
  <2>3. CASE \E p \in Replicas : x \in TasksOf(queue[p])
    BY <2>3, <1>7
  <2>4. CASE \E p \in Replicas : x \in Unwritten(p)
    <3>1. PICK p \in Replicas : x \in Unwritten(p)
      BY <2>4
    <3>2. x \in Unwritten(p)' \/ x \in TasksOf(q)
      BY <3>1, <1>3
    <3>3. x \in TasksOf(q) => ok
      BY <2>1, <1>2
    <3> QED BY <3>2, <3>3, <1>4, <1>7
  <2> QED BY <2>2, <2>3, <2>4, HeldIs
<1>11. Known'
  BY <1>2, <1>5, <1>6, <1>9 DEF Known
<1>12. InOrder'
  <2>1. Ascending(q)
    BY <1>1, <1>3 DEF KeptInv, InOrder
  <2>2. \A p \in Replicas : \A i \in DOMAIN writes'[p] : Ascending(writes'[p][i])
    BY <1>1, <1>3 DEF KeptInv, InOrder
  <2> QED BY <2>1, <2>2, <1>1, <1>2 DEF KeptInv, InOrder
<1>13. BeforeRestore'
  BY <1>1, <1>2, <1>6 DEF KeptInv, BeforeRestore
<1>14. WrittenIsServed'
  BY <1>1, <1>2, <1>6, <1>8 DEF KeptInv, WrittenIsServed
<1>15. ServedIsWritten'
  <2> SUFFICES ASSUME NEW p \in Replicas, NEW x \in TasksOf(queue[p]), x \notin Settled'
               PROVE  x \in NextBackup(p)'
    BY <1>2 DEF ServedIsWritten
  <2>1. x \in NextBackup(p) /\ x \notin exposed'
    BY <1>1, <1>6 DEF KeptInv, ServedIsWritten, Settled
  <2>2. CASE p = r
    <3>1. x \in TasksOf(last)
      BY <2>1, <2>2, <1>2 DEF NextBackup, last
    <3>2. CASE writes'[r] # <<>>
      BY <3>1, <3>2, <2>2, <1>3 DEF NextBackup
    <3>3. CASE writes'[r] = <<>>
      <4>1. x \in TasksOf(q)
        BY <3>1, <3>3, <1>3
      <4>2. ok
        BY <4>1, <2>1, <1>2
      <4> QED BY <4>1, <4>2, <3>3, <2>2, <1>4 DEF NextBackup
    <3> QED BY <3>2, <3>3
  <2>3. CASE p # r
    <3>1. writes'[p] = writes[p] /\ Replicas # {r}
      BY <2>3, <1>3
    <3>2. CASE writes[p] # <<>>
      BY <3>1, <3>2, <2>1 DEF NextBackup
    <3>3. CASE writes[p] = <<>>
      <4>1. x \in Backed
        BY <3>3, <2>1 DEF NextBackup
      <4>2. x \in Backed'
        BY <4>1, <3>1, <2>1, <1>2, <1>4
      <4> QED BY <4>2, <3>1, <3>3 DEF NextBackup
    <3> QED BY <3>2, <3>3
  <2> QED BY <2>2, <2>3
<1>16. AloneServesAll'
  <2> SUFFICES ASSUME NEW p \in restored, Replicas = {p}
               PROVE  Backed' \subseteq TasksOf(queue[p]) \cup Settled'
    BY <1>2 DEF AloneServesAll
  <2>1. p = r
    OBVIOUS
  <2>2. Backed \subseteq TasksOf(queue[r]) \cup Settled
    BY <2>1, <1>1, <1>2 DEF KeptInv, AloneServesAll
  <2> QED BY <2>1, <2>2, <1>4, <1>5, <1>6
<1>17. QueueTypeOK'
  <2>1. exposed' \subseteq Tasks
    <3>1. Backed \subseteq Tasks /\ TasksOf(q) \subseteq Tasks
      BY <1>1, <1>3, BackedIs, TasksOfIs
    <3>2. exposed' \subseteq exposed \cup Backed \cup TasksOf(q)
      BY <1>2
    <3> QED BY <3>1, <3>2, <1>1 DEF QueueTypeOK
  <2>2. faults' \in Nat /\ backup' \in Seq(Entry) \cup {Nil}
    BY <1>1, <1>2, <1>3 DEF QueueTypeOK
  <2> QED BY <2>1, <2>2, <1>1, <1>2, <1>3 DEF QueueTypeOK
<1>18. UnderWay'
  BY <1>1, <1>2 DEF UnderWay
<1>19. Promise!LetGo
  <2>1. (dropped \cup exposed)' \subseteq DOMAIN log /\ dropped \cup exposed \subseteq (dropped \cup exposed)'
    BY <1>2, <1>6 DEF Settled
  <2>2. Held \ Held' \subseteq done \cup (dropped \cup exposed)'
    BY <1>2, <1>10 DEF Settled
  <2> QED BY <2>1, <2>2, <1>2, <1>9 DEF Promise!LetGo
<1> QED BY <1>11, <1>12, <1>13, <1>14, <1>15, <1>16, <1>17, <1>18, <1>19
        DEF QueueInv, KeptInv, AStep, Promise!TasksNext

\* What a restore finds, be it under the key or, with an error or without a key, in
\* the queue as it was.
LEMMA RestoreStep ==
  ASSUME QueueInv, NEW r \in Replicas, NEW ok \in BOOLEAN, Restore(r, ok)
  PROVE  QueueInv' /\ AStep
<1> DEFINE found == IF ok /\ backup # Nil THEN backup ELSE queue[r]
           undoing == {Owner(t) : t \in {x \in TasksOf(found) : x < subscriber[Owner(x)]}}
           elsewhere == ServedElsewhere(r) \cap {Owner(t) : t \in TasksOf(found)}
<1>1. QueueTypeOK /\ UnderWay /\ KeptInv
  BY DEF QueueInv
<1>2. /\ r \notin restored /\ restored' = restored \cup {r}
      /\ queue' = [queue EXCEPT ![r] = found]
      /\ disturbed' = disturbed \cup undoing \cup elsewhere
      /\ exposed' = IF ~ok \/ writes[r] # <<>> THEN exposed \cup Backed ELSE exposed
      /\ faults' = IF ok THEN faults ELSE faults + 1
      /\ UNCHANGED <<running, failures, paused, writes, backup, late, subscriber>>
      /\ UNCHANGED <<log, done, dropped>>
  BY DEF Restore, WithQueue, redis, novuSide
<1>3. /\ found \in Seq(Entry) /\ Ascending(found)
      /\ ok /\ backup # Nil => TasksOf(found) = Backed
      /\ ~(ok /\ backup # Nil) => found = queue[r]
  BY <1>1 DEF QueueTypeOK, KeptInv, InOrder, Backed
<1>4. Backed \subseteq Tasks /\ TasksOf(found) \subseteq Tasks
  BY <1>1, <1>3, BackedIs, TasksOfIs
<1>5. undoing \cup elsewhere \subseteq Users
  <2>1. TasksOf(found) \subseteq DOMAIN log
    BY <1>3, HeldIs, SettledIsKnown
  <2> QED BY <2>1, <1>1, OwnerIs
<1> HIDE DEF found, undoing, elsewhere
<1>6. queue'[r] = found /\ \A p \in Replicas \ {r} : queue'[p] = queue[p]
  BY <1>1, <1>2 DEF QueueTypeOK
<1>7. /\ Backed' = Backed /\ \A p \in Replicas : Unwritten(p)' = Unwritten(p)
      /\ \A p \in Replicas : NextBackup(p)' = NextBackup(p)
  BY <1>2 DEF Backed, Unwritten, NextBackup
<1>8. exposed \subseteq exposed' /\ Settled \subseteq Settled' /\ exposed' \subseteq exposed \cup Backed
  BY <1>2 DEF Settled
<1>9. TasksOf(queue[r]) \subseteq exposed /\ TasksOf(queue[r]) \subseteq Settled
  BY <1>1, <1>2 DEF KeptInv, BeforeRestore, Settled
<1>10. \A x : x \in Held' <=> \/ x \in Backed'
                         \/ \E p \in Replicas : x \in TasksOf(queue'[p]) \/ x \in Unwritten(p)'
  BY DEF Held
<1>11. Held' \subseteq Held /\ Held \subseteq Held' \cup exposed
  BY <1>3, <1>6, <1>7, <1>9, <1>10, HeldIs
<1>12. Backed \subseteq DOMAIN log /\ Settled' \subseteq DOMAIN log
  BY <1>1, <1>2, <1>8, HeldIs DEF KeptInv, Known, Settled
<1>13. Known'
  BY <1>1, <1>2, <1>11, <1>12 DEF KeptInv, Known
<1>14. InOrder'
  BY <1>1, <1>2, <1>3, <1>6 DEF KeptInv, InOrder
<1>15. BeforeRestore'
  BY <1>1, <1>2, <1>6, <1>8 DEF KeptInv, BeforeRestore
<1>16. WrittenIsServed'
  <2>1. \A p \in Replicas : TasksOf(queue[p]) \subseteq TasksOf(queue'[p]) \cup Settled
    BY <1>6, <1>9
  <2> QED BY <2>1, <1>1, <1>7, <1>8 DEF KeptInv, WrittenIsServed
<1>17. ServedIsWritten'
  <2>1. TasksOf(found) \subseteq NextBackup(r) \cup Settled'
    <3>1. CASE found = queue[r]
      BY <3>1, <1>8, <1>9
    <3>2. CASE found # queue[r] /\ writes[r] = <<>>
      BY <3>2, <1>3 DEF NextBackup
    <3>3. CASE found # queue[r] /\ writes[r] # <<>>
      BY <3>3, <1>2, <1>3 DEF Settled
    <3> QED BY <3>1, <3>2, <3>3
  <2> QED BY <2>1, <1>1, <1>6, <1>7, <1>8 DEF KeptInv, ServedIsWritten
<1>18. AloneServesAll'
  <2> SUFFICES ASSUME NEW p \in restored', Replicas = {p}
               PROVE  Backed' \subseteq TasksOf(queue'[p]) \cup Settled'
    BY DEF AloneServesAll
  <2>1. p = r
    OBVIOUS
  <2>2. CASE ok /\ backup # Nil
    BY <2>1, <2>2, <1>3, <1>6, <1>7
  <2>3. CASE backup = Nil
    BY <2>3, <1>7 DEF Backed
  <2>4. CASE ~ok
    BY <2>4, <1>2, <1>7 DEF Settled
  <2> QED BY <2>2, <2>3, <2>4
<1>19. QueueTypeOK'
  BY <1>1, <1>2, <1>3, <1>4, <1>5 DEF QueueTypeOK
<1>20. UnderWay'
  <2> SUFFICES ASSUME NEW p \in Replicas, NEW x \in Tasks, running'[p][x] # "none"
               PROVE  /\ p \in restored'
                      /\ \E i \in DOMAIN queue'[p] : i <= Concurrency /\ queue'[p][i].task = x
    BY DEF UnderWay
  <2>1. p \in restored /\ \E i \in DOMAIN queue[p] : i <= Concurrency /\ queue[p][i].task = x
    BY <1>1, <1>2 DEF UnderWay
  <2> QED BY <2>1, <1>2, <1>6
<1>21. Promise!LetGo
  <2>1. (dropped \cup exposed)' \subseteq DOMAIN log /\ dropped \cup exposed \subseteq (dropped \cup exposed)'
    BY <1>2, <1>8, <1>12 DEF Settled
  <2>2. Held \ Held' \subseteq done \cup (dropped \cup exposed)'
    BY <1>8, <1>11
  <2> QED BY <2>1, <2>2, <1>2, <1>11 DEF Promise!LetGo
<1> QED BY <1>13, <1>14, <1>15, <1>16, <1>17, <1>18, <1>19, <1>20, <1>21
        DEF QueueInv, KeptInv, AStep, Promise!TasksNext

LEMMA CrashStep ==
  ASSUME QueueInv, NEW r \in Replicas, Crash(r)
  PROVE  QueueInv' /\ AStep
<1> DEFINE calling == {t \in Tasks : running[r][t] = "calling"}
<1>1. QueueTypeOK /\ UnderWay /\ KeptInv
  BY DEF QueueInv
<1>2. /\ restored' = restored \ {r} /\ queue' = [queue EXCEPT ![r] = <<>>]
      /\ running' = [running EXCEPT ![r] = [t \in Tasks |-> "none"]]
      /\ failures' = [failures EXCEPT ![r] = 0] /\ paused' = paused \ {r}
      /\ writes' = [writes EXCEPT ![r] = <<>>]
      /\ late' = late \cup calling
      /\ exposed' = exposed \cup (Unwritten(r) \ Backed)
      /\ disturbed' = disturbed \cup {Owner(t) : t \in calling}
      /\ faults' = faults + 1
      /\ UNCHANGED <<backup, subscriber, log, done, dropped>>
  BY DEF Crash, QueueDies, WithQueue
<1>3. {Owner(t) : t \in calling} \subseteq Users
  <2>1. \A t \in calling : t \in DOMAIN log
    BY UnderWayIsServed, SettledIsKnown
  <2> QED BY <2>1, <1>1, OwnerIs
<1> HIDE DEF calling
<1>4. /\ queue'[r] = <<>> /\ \A p \in Replicas \ {r} : queue'[p] = queue[p]
      /\ writes'[r] = <<>> /\ \A p \in Replicas \ {r} : writes'[p] = writes[p]
      /\ \A x \in Tasks : running'[r][x] = "none"
      /\ \A p \in Replicas \ {r} : running'[p] = running[p]
  BY <1>1, <1>2 DEF QueueTypeOK
<1>5. /\ Backed' = Backed
      /\ Unwritten(r)' = {} /\ \A p \in Replicas \ {r} : Unwritten(p)' = Unwritten(p)
      /\ \A p \in Replicas \ {r} : NextBackup(p)' = NextBackup(p)
  BY <1>2, <1>4 DEF Backed, Unwritten, NextBackup
<1>6. TasksOf(queue'[r]) = {} /\ Ascending(queue'[r])
  BY <1>4 DEF TasksOf, Ascending
<1>7. exposed \subseteq exposed' /\ Settled \subseteq Settled' /\ exposed' \subseteq exposed \cup Unwritten(r)
  BY <1>2 DEF Settled
<1>8. TasksOf(queue[r]) \subseteq Backed \cup Unwritten(r) \cup Settled
  <2>1. NextBackup(r) \subseteq Backed \cup Unwritten(r)
    <3>1. CASE writes[r] = <<>>
      BY <3>1 DEF NextBackup
    <3>2. CASE writes[r] # <<>>
      <4>1. Len(writes[r]) \in DOMAIN writes[r]
        BY <3>2, <1>1 DEF QueueTypeOK
      <4> QED BY <3>2, <4>1 DEF NextBackup, Unwritten
    <3> QED BY <3>1, <3>2
  <2> QED BY <2>1, <1>1 DEF KeptInv, ServedIsWritten
<1>9. \A x : x \in Held' <=> \/ x \in Backed'
                        \/ \E p \in Replicas : x \in TasksOf(queue'[p]) \/ x \in Unwritten(p)'
  BY DEF Held
<1>10. Held' \subseteq Held
  BY <1>4, <1>5, <1>6, <1>9, HeldIs
<1>11. Held \subseteq Held' \cup Settled'
  <2> SUFFICES ASSUME NEW x \in Held, x \notin Settled' PROVE x \in Held'
    OBVIOUS
  <2>1. x \notin Settled /\ x \notin exposed'
    BY <1>7 DEF Settled
  <2>2. x \in Backed \cup Unwritten(r) => x \in Backed
    BY <2>1, <1>2
  <2>3. x \in TasksOf(queue[r]) => x \in Backed
    BY <2>1, <2>2, <1>8
  <2> QED BY <2>2, <2>3, <1>4, <1>5, <1>9, HeldIs
<1>12. Unwritten(r) \subseteq DOMAIN log /\ Settled' \subseteq DOMAIN log
  BY <1>1, <1>2, <1>7, HeldIs DEF KeptInv, Known, Settled
<1>13. Known'
  BY <1>1, <1>2, <1>10, <1>12 DEF KeptInv, Known
<1>14. InOrder'
  BY <1>1, <1>2, <1>4, <1>6 DEF KeptInv, InOrder
<1>15. BeforeRestore'
  BY <1>1, <1>2, <1>4, <1>6, <1>7 DEF KeptInv, BeforeRestore
<1>16. WrittenIsServed'
  BY <1>1, <1>4, <1>5, <1>7 DEF KeptInv, WrittenIsServed
<1>17. ServedIsWritten'
  BY <1>1, <1>4, <1>5, <1>6, <1>7 DEF KeptInv, ServedIsWritten
<1>18. AloneServesAll'
  BY <1>1, <1>2, <1>4, <1>5, <1>7 DEF KeptInv, AloneServesAll
<1>19. QueueTypeOK'
  <2>1. Unwritten(r) \subseteq Tasks
    BY <1>1, TasksOfIs DEF Unwritten, QueueTypeOK
  <2>2. failures' \in [Replicas -> 0..BreakAfter]
    <3>1. 0 \in 0..BreakAfter
      BY Bounds
    <3> QED BY <3>1, <1>1, <1>2 DEF QueueTypeOK
  <2>3. running' \in [Replicas -> [Tasks -> Points]]
    BY <1>1, <1>2 DEF QueueTypeOK, Points
  <2>4. late' \subseteq Tasks
    BY <1>1, <1>2 DEF QueueTypeOK, calling
  <2>5. exposed' \subseteq Tasks /\ disturbed' \subseteq Users /\ faults' \in Nat
    BY <2>1, <1>1, <1>2, <1>3 DEF QueueTypeOK
  <2>6. queue' \in [Replicas -> Seq(Entry)] /\ writes' \in [Replicas -> Seq(Seq(Entry))]
    BY <1>1, <1>2 DEF QueueTypeOK
  <2> QED BY <2>2, <2>3, <2>4, <2>5, <2>6, <1>1, <1>2 DEF QueueTypeOK
<1>20. UnderWay'
  BY <1>1, <1>2, <1>4 DEF UnderWay
<1>21. Promise!LetGo
  <2>1. (dropped \cup exposed)' \subseteq DOMAIN log /\ dropped \cup exposed \subseteq (dropped \cup exposed)'
    BY <1>2, <1>7, <1>12 DEF Settled
  <2>2. Held \ Held' \subseteq done \cup (dropped \cup exposed)'
    BY <1>2, <1>11 DEF Settled
  <2> QED BY <2>1, <2>2, <1>2, <1>10 DEF Promise!LetGo
<1> QED BY <1>13, <1>14, <1>15, <1>16, <1>17, <1>18, <1>19, <1>20, <1>21
        DEF QueueInv, KeptInv, AStep, Promise!TasksNext

-----------------------------------------------------------------------------
(* The theorems *)

LEMMA QueueInitInv == QueueInit => QueueInv /\ Promise!TasksInit
<1> SUFFICES ASSUME QueueInit PROVE QueueInv /\ Promise!TasksInit
  OBVIOUS
<1>1. /\ \A r \in Replicas : queue[r] = <<>> /\ writes[r] = <<>> /\ \A t \in Tasks : running[r][t] = "none"
      /\ backup = Nil /\ restored = {} /\ log = <<>>
      /\ done = {} /\ dropped = {} /\ exposed = {}
  BY DEF QueueInit
<1>2. TasksOf(<<>>) = {} /\ Ascending(<<>>)
  BY DEF TasksOf, Ascending
<1>3. \A r \in Replicas : Unwritten(r) = {} /\ NextBackup(r) = {} /\ TasksOf(queue[r]) = {}
  BY <1>1, <1>2 DEF Unwritten, NextBackup, Backed
<1>4. Held = {}
  BY <1>1, <1>3 DEF Held, Backed
<1>5. KeptInv
  BY <1>1, <1>2, <1>3, <1>4 DEF KeptInv, Known, InOrder, BeforeRestore, WrittenIsServed,
                                ServedIsWritten, AloneServesAll, Settled
<1>6. UnderWay
  BY <1>1 DEF UnderWay
<1>7. QueueTypeOK
  <2>1. 0 \in 0..BreakAfter /\ 0 \in 0..MaxTasks
    BY Bounds
  <2> QED BY <2>1 DEF QueueInit, QueueTypeOK, Points
<1>8. Promise!TasksInit
  BY <1>1, <1>4 DEF Promise!TasksInit
<1> QED BY <1>5, <1>6, <1>7, <1>8 DEF QueueInv

LEMMA QueueNextInv == QueueInv /\ [QueueNext]_queueVars => QueueInv' /\ AStep
<1> SUFFICES ASSUME QueueInv, [QueueNext]_queueVars PROVE QueueInv' /\ AStep
  OBVIOUS
<1>1. ASSUME NEW r \in Replicas, ProcessorStep(r) \/ ClosePause(r) \/ Crash(r)
      PROVE  QueueInv' /\ AStep
  BY <1>1, StartBatchStep, BatchRefusedStep, ClosePauseStep, CrashStep DEF ProcessorStep
<1>2. ASSUME NEW r \in Replicas, NEW t \in Tasks, NovuStep(r, t)
      PROVE  QueueInv' /\ AStep
  <2>1. CASE Rejected(r, t)
    BY <2>1, AnswerStep DEF Rejected
  <2> QED BY <1>2, <2>1, NovuAppliesStep, DeliveredStep, TimesOutStep DEF NovuStep
<1>3. ASSUME NEW r \in Replicas, NEW t \in Tasks, NEW ok \in BOOLEAN, Recorded(r, t, ok)
      PROVE  QueueInv' /\ AStep
  BY <1>3, AnswerStep DEF Recorded
<1>4. ASSUME NEW r \in Replicas, NEW ok \in BOOLEAN, WriteBackup(r, ok) \/ Restore(r, ok)
      PROVE  QueueInv' /\ AStep
  BY <1>4, WriteBackupStep, RestoreStep
<1>5. ASSUME NEW t \in Tasks, LateRequest(t) PROVE QueueInv' /\ AStep
  BY <1>5, LateRequestStep
<1>6. CASE Arrive
  <2>1. PICK r \in Replicas : Enqueue(r, Arrivals[Len(log) + 1])
    BY <1>6 DEF Arrive
  <2>2. Arrivals[Len(log) + 1] \in Request
    <3>1. Len(log) + 1 \in 1..Len(Arrivals)
      BY <1>6, SettledIsKnown, QueueAssumption DEF Arrive
    <3> QED BY <3>1, QueueAssumption
  <2> QED BY <2>1, <2>2, EnqueueStep
<1>7. CASE UNCHANGED queueVars
  <2>1. /\ UNCHANGED <<restored, queue, writes, backup, log, done, dropped, exposed>>
        /\ UNCHANGED <<running, failures, paused, late, subscriber, disturbed, faults>>
    BY <1>7 DEF queueVars
  <2>2. QueueTypeOK' /\ UnderWay'
    BY <2>1 DEF QueueInv, QueueTypeOK, UnderWay
  <2> QED BY <2>1, <2>2, CallKeeps DEF QueueInv
<1>8. CASE QueueNext
  BY <1>8, <1>1, <1>2, <1>3, <1>4, <1>5, <1>6 DEF QueueNext, QueueStep
<1> QED BY <1>7, <1>8

LEMMA InvGivesOrder == QueueInv => BoundedOvertaking
<1> SUFFICES ASSUME QueueInv PROVE BoundedOvertaking
  OBVIOUS
<1>1. \A r \in Replicas : Ascending(queue[r])
  BY DEF QueueInv, KeptInv, InOrder
<1>2. UnderWay
  BY DEF QueueInv
<1> QED BY <1>1, <1>2 DEF BoundedOvertaking, Ascending, UnderWay

\* The subscriber queue keeps its type, for any number of replicas, users and faults.
THEOREM QueueTypes == QueueSpec => []QueueTypeOK
<1>1. QueueInv => QueueTypeOK
  BY DEF QueueInv
<1> QED BY QueueInitInv, QueueNextInv, <1>1, PTL DEF QueueSpec

\* The queue of every replica keeps the order of arrival through retries, refusals,
\* crashes and restores, and only its first CONCURRENCY tasks are ever under way.
THEOREM QueueKeepsOrder == QueueSpec => []BoundedOvertaking
<1> QED BY QueueInitInv, QueueNextInv, InvGivesOrder, PTL DEF QueueSpec

\* Every step of the queue is a step of SubscriberTasks or changes nothing of it:
\* whatever crashes, fails and overlaps, a task is let go only when it is done,
\* dropped or exposed by one of the named faults.
THEOREM QueueKeepsItsPromise ==
  QueueSpec => Promise!TasksInit /\ [][Promise!TasksNext]_<<log, Held, done, dropped \cup exposed>>
<1>1. QueueInit => QueueInv /\ Promise!TasksInit
  BY QueueInitInv
<1>2. QueueInv /\ [QueueNext]_queueVars =>
        QueueInv' /\ [Promise!TasksNext]_<<log, Held, done, dropped \cup exposed>>
  BY QueueNextInv DEF AStep
<1> QED BY <1>1, <1>2, PTL DEF QueueSpec

\* A step of SubscriberTasks that enqueues, finishes or lets go loses no task.
LEMMA PromiseKeepsTasks ==
  ASSUME log \in Seq(Request), Promise!NoTaskVanishes, AStep
  PROVE  Promise!NoTaskVanishes'
<1>0. DOMAIN log = 1..Len(log) /\ Len(log) \in Nat
  OBVIOUS
<1> USE DEF Promise!NoTaskVanishes
<1>1. ASSUME NEW request, Promise!Enqueue(request) PROVE Promise!NoTaskVanishes'
  <2>1. log' = Append(log, request)
    BY <1>1 DEF Promise!Enqueue
  <2>2. DOMAIN log' = DOMAIN log \cup {Len(log) + 1}
    BY <1>0, <2>1
  <2>3. /\ Held' = Held \cup {Len(log) + 1} /\ done' = done
        /\ dropped' \cup exposed' \in {dropped \cup exposed,
                                       dropped \cup exposed \cup {Len(log) + 1}}
    BY <1>1 DEF Promise!Enqueue
  <2> QED BY <2>2, <2>3
<1>2. ASSUME NEW t, Promise!Finish(t) PROVE Promise!NoTaskVanishes'
  BY <1>2 DEF Promise!Finish
<1>3. CASE Promise!LetGo
  BY <1>3 DEF Promise!LetGo
<1>4. CASE UNCHANGED <<log, Held, done, dropped \cup exposed>>
  BY <1>4
<1> QED BY <1>1, <1>2, <1>3, <1>4 DEF AStep, Promise!TasksNext

\* Whoever enqueues a task finds it in some queue, in the backup or on its way there,
\* done, dropped or exposed ever after, through any crash, failed write and restore.
THEOREM NoQueuedTaskVanishes == QueueSpec => []Promise!NoTaskVanishes
<1>1. QueueInit => QueueInv /\ Promise!NoTaskVanishes
  BY QueueInitInv DEF Promise!TasksInit, Promise!NoTaskVanishes
<1>2. QueueInv => log \in Seq(Request)
  BY DEF QueueInv, QueueTypeOK
<1>3. QueueInv /\ Promise!NoTaskVanishes /\ [QueueNext]_queueVars =>
        QueueInv' /\ Promise!NoTaskVanishes'
  BY <1>2, QueueNextInv, PromiseKeepsTasks
<1> QED BY <1>1, <1>3, PTL DEF QueueSpec

-----------------------------------------------------------------------------
(* Novu never goes back *)

\* Of a user who is not disturbed, no queued task is older than the one Novu applied
\* last, one replica alone has tasks, and the oldest of them runs before the others.
NotBackInv ==
    /\ \A u \in Users : subscriber[u] <= Len(log)
    /\ \A t \in late : t \in DOMAIN log /\ Owner(t) \in disturbed
    /\ \A r \in Replicas : \A x \in TasksOf(queue[r]) : Owner(x) \notin disturbed =>
         /\ subscriber[Owner(x)] <= x
         /\ \A p \in Replicas \ {r} : \A y \in TasksOf(queue[p]) : Owner(y) # Owner(x)
         /\ \A t \in Tasks : running[r][t] # "none" /\ Owner(t) = Owner(x) => t <= x

Forward == \A u \in Users : u \in disturbed' \/ subscriber'[u] >= subscriber[u]

LEMMA SubscriberIs ==
  ASSUME QueueTypeOK, NEW u \in Users
  PROVE  subscriber[u] \in Nat
BY Bounds DEF QueueTypeOK

LEMMA QueuedIs ==
  ASSUME QueueInv, NEW r \in Replicas, NEW x \in TasksOf(queue[r])
  PROVE  /\ x \in DOMAIN log /\ x \in Tasks /\ x \in Nat /\ x <= Len(log)
         /\ Owner(x) \in Users
<1>1. x \in DOMAIN log /\ DOMAIN log = 1..Len(log) /\ Len(log) \in Nat
  BY SettledIsKnown, HeldIs
<1>2. x \in Tasks
  BY TasksOfIs DEF QueueInv, QueueTypeOK
<1> QED BY <1>1, <1>2, OwnerIs DEF QueueInv

\* A step that starts, queues and applies nothing.
LEMMA NothingNewKeeps ==
  ASSUME QueueInv, NotBackInv, UNCHANGED <<log, subscriber>>, disturbed \subseteq disturbed',
         \A r \in Replicas : TasksOf(queue'[r]) \subseteq TasksOf(queue[r]),
         \A r \in Replicas, t \in Tasks : running'[r][t] # "none" => running[r][t] # "none",
         \A t \in late' : t \in late \/ (t \in DOMAIN log /\ Owner(t) \in disturbed')
  PROVE  NotBackInv' /\ Forward
<1>1. \A t : Owner(t)' = Owner(t)
  BY DEF Owner
<1>2. \A u \in Users : subscriber'[u] <= Len(log') /\ subscriber'[u] >= subscriber[u]
  BY SubscriberIs DEF NotBackInv, QueueInv
<1>3. \A t \in late' : t \in DOMAIN log' /\ Owner(t)' \in disturbed'
  BY <1>1 DEF NotBackInv
<1>4. ASSUME NEW r \in Replicas, NEW x \in TasksOf(queue'[r]), Owner(x) \notin disturbed'
      PROVE  /\ subscriber'[Owner(x)] <= x
             /\ \A p \in Replicas \ {r} : \A y \in TasksOf(queue'[p]) : Owner(y) # Owner(x)
             /\ \A t \in Tasks : running'[r][t] # "none" /\ Owner(t) = Owner(x) => t <= x
  <2>1. x \in TasksOf(queue[r]) /\ Owner(x) \notin disturbed
    BY <1>4
  <2> QED BY <2>1 DEF NotBackInv
<1> QED BY <1>1, <1>2, <1>3, <1>4 DEF NotBackInv, Forward

LEMMA ShedsNothingNew ==
  ASSUME QueueInv, NEW r \in Replicas, NEW S, Sheds(r, S)
  PROVE  \A p \in Replicas : TasksOf(queue'[p]) \subseteq TasksOf(queue[p])
BY DEF Sheds, QueueInv, QueueTypeOK

\* The end of a try leaves the others as they are.
LEMMA TryNothingNew ==
  ASSUME QueueInv, NEW r \in Replicas, NEW t \in Tasks, running[r][t] # "none",
         \/ Complete(r, t) \/ Fail(r, t)
         \/ TimesOut(r, t),
         UNCHANGED <<restored, writes, backup, log, exposed>>
  PROVE  /\ \A p \in Replicas : TasksOf(queue'[p]) \subseteq TasksOf(queue[p])
         /\ \A p \in Replicas, x \in Tasks : running'[p][x] # "none" => running[p][x] # "none"
<1>1. \E S : Sheds(r, S)
  <2>1. CASE TimesOut(r, t)
    <3>1. /\ WithQueue(r, Without(queue[r], t)) /\ Go(r, t, "none")
          /\ done' = done /\ dropped' = dropped \cup {t}
      BY <2>1 DEF TimesOut
    <3> QED BY <3>1, RemovalKeeps
  <2> QED BY <2>1, CompleteKeeps, FailKeeps
<1>2. Go(r, t, "none")
  BY DEF Complete, Fail, TimesOut
<1>3. \A p \in Replicas, x \in Tasks :
          running'[p][x] = IF p = r /\ x = t THEN "none" ELSE running[p][x]
  BY <1>2, GoKeeps DEF QueueInv, Points
<1> QED BY <1>1, <1>3, ShedsNothingNew

LEMMA CallNotBack ==
  ASSUME QueueInv, NotBackInv, NEW r \in Replicas, NEW t \in Tasks,
         \/ Delivered(r, t) \/ Rejected(r, t) \/ TimesOut(r, t)
         \/ \E ok \in BOOLEAN : Recorded(r, t, ok)
  PROVE  NotBackInv' /\ Forward
<1>1. /\ running[r][t] # "none" /\ UNCHANGED <<restored, writes, backup, log, exposed, subscriber>>
      /\ disturbed \subseteq disturbed'
      /\ late' = late \/ (late' = late \cup {t} /\ Owner(t) \in disturbed')
      /\ \/ Complete(r, t) \/ Fail(r, t) \/ TimesOut(r, t)
         \/ Go(r, t, "recording") /\ UNCHANGED queue
  BY DEF Delivered, Rejected, TimesOut, Recorded, redis, novuSide
<1>2. t \in DOMAIN log
  BY <1>1, UnderWayIsServed, SettledIsKnown
<1>3. /\ \A p \in Replicas : TasksOf(queue'[p]) \subseteq TasksOf(queue[p])
      /\ \A p \in Replicas, x \in Tasks : running'[p][x] # "none" => running[p][x] # "none"
  <2>1. CASE Complete(r, t) \/ Fail(r, t) \/ TimesOut(r, t)
    BY <1>1, <2>1, TryNothingNew
  <2>2. CASE Go(r, t, "recording") /\ UNCHANGED queue
    BY <1>1, <2>2, GoKeeps DEF QueueInv, Points
  <2> QED BY <1>1, <2>1, <2>2
<1>4. \A x \in late' : x \in late \/ (x \in DOMAIN log /\ Owner(x) \in disturbed')
  BY <1>1, <1>2
<1> QED BY <1>1, <1>3, <1>4, NothingNewKeeps

LEMMA QuietNotBack ==
  ASSUME QueueInv, NotBackInv, NEW r \in Replicas,
         \/ BatchRefused(r) \/ ClosePause(r)
         \/ \E ok \in BOOLEAN : WriteBackup(r, ok)
  PROVE  NotBackInv' /\ Forward
<1>1. /\ UNCHANGED <<running, late, subscriber, log, disturbed>>
      /\ \/ UNCHANGED queue
         \/ queue' = [queue EXCEPT ![r] = SubSeq(queue[r], Concurrency + 1, Len(queue[r]))]
  BY DEF BatchRefused, ClosePause, WriteBackup, WithQueue, memory, redis, novuSide, queueHistory
<1>2. TasksOf(SubSeq(queue[r], Concurrency + 1, Len(queue[r]))) \subseteq TasksOf(queue[r])
  BY RestKeeps DEF QueueInv, QueueTypeOK
<1>3. \A p \in Replicas : TasksOf(queue'[p]) \subseteq TasksOf(queue[p])
  BY <1>1, <1>2 DEF QueueInv, QueueTypeOK
<1> QED BY <1>1, <1>3, NothingNewKeeps

LEMMA CrashNotBack ==
  ASSUME QueueInv, NotBackInv, NEW r \in Replicas, Crash(r)
  PROVE  NotBackInv' /\ Forward
<1> DEFINE calling == {t \in Tasks : running[r][t] = "calling"}
<1>1. /\ queue' = [queue EXCEPT ![r] = <<>>]
      /\ running' = [running EXCEPT ![r] = [t \in Tasks |-> "none"]]
      /\ late' = late \cup calling /\ disturbed' = disturbed \cup {Owner(t) : t \in calling}
      /\ UNCHANGED <<subscriber, log>>
  BY DEF Crash, QueueDies, WithQueue
<1>2. \A t \in calling : t \in DOMAIN log
  BY UnderWayIsServed, SettledIsKnown
<1>3. TasksOf(<<>>) = {}
  BY DEF TasksOf
<1> HIDE DEF calling
<1>4. \A p \in Replicas : TasksOf(queue'[p]) \subseteq TasksOf(queue[p])
  BY <1>1, <1>3 DEF QueueInv, QueueTypeOK
<1>5. \A p \in Replicas, t \in Tasks : running'[p][t] # "none" => running[p][t] # "none"
  BY <1>1 DEF QueueInv, QueueTypeOK
<1>6. \A t \in late' : t \in late \/ (t \in DOMAIN log /\ Owner(t) \in disturbed')
  BY <1>1, <1>2
<1> QED BY <1>1, <1>4, <1>5, <1>6, NothingNewKeeps

\* Two tasks of a user in one batch disturb the user: otherwise only the oldest starts.
LEMMA StartBatchNotBack ==
  ASSUME QueueInv, NotBackInv, NEW r \in Replicas, StartBatch(r)
  PROVE  NotBackInv' /\ Forward
<1> DEFINE q == queue[r]
           batch == FirstTasks(q) \ InFlight(r)
<1>1. /\ UNCHANGED <<queue, late, subscriber, log>> /\ InFlight(r) = {}
      /\ running' = [running EXCEPT ![r] = [t \in Tasks |-> IF t \in batch THEN "calling" ELSE @[t]]]
      /\ disturbed' = disturbed \cup Together(batch)
  BY DEF StartBatch, MayStart, redis, novuSide
<1>2. batch = FirstTasks(q) /\ \A t \in Tasks : running[r][t] = "none"
  BY <1>1 DEF InFlight
<1>3. /\ \A t \in Tasks : running'[r][t] # "none" => t \in batch
      /\ \A p \in Replicas \ {r} : running'[p] = running[p]
  BY <1>1, <1>2 DEF QueueInv, QueueTypeOK
<1>4. \A t : Owner(t)' = Owner(t)
  BY <1>1 DEF Owner
<1>5. \A u \in Users : subscriber'[u] <= Len(log') /\ subscriber'[u] >= subscriber[u]
  BY <1>1, SubscriberIs DEF NotBackInv, QueueInv
<1>6. \A t \in late' : t \in DOMAIN log' /\ Owner(t)' \in disturbed'
  BY <1>1, <1>4 DEF NotBackInv
<1>7. ASSUME NEW x \in TasksOf(q), Owner(x) \notin disturbed',
             NEW t \in Tasks, running'[r][t] # "none", Owner(t) = Owner(x)
      PROVE  t <= x
  <2>1. /\ q \in Seq(Entry) /\ Ascending(q) /\ x \in Nat /\ t \in Int
    BY QueuedIs DEF QueueInv, QueueTypeOK, KeptInv, InOrder, Tasks
  <2>2. PICK i \in DOMAIN q : i <= Concurrency /\ q[i].task = t
    BY <1>2, <1>3, <1>7 DEF FirstTasks
  <2>3. PICK j \in DOMAIN q : q[j].task = x
    BY DEF TasksOf
  <2>4. i \in Int /\ j \in Int /\ Concurrency \in Int
    BY <2>1, QueueIs, Bounds
  <2>5. ASSUME x < t PROVE FALSE
    <3>1. ~(i < j) /\ i # j
      BY <2>1, <2>2, <2>3, <2>5 DEF Ascending
    <3>2. j <= Concurrency
      BY <2>2, <2>4, <3>1
    <3>3. x \in batch /\ t \in batch /\ x # t
      BY <1>2, <1>3, <1>7, <2>1, <2>3, <2>5, <3>2 DEF FirstTasks
    <3>4. Owner(x) \in Together(batch)
      BY <1>7, <3>3 DEF Together
    <3> QED BY <1>1, <1>7, <3>4
  <2> QED BY <2>1, <2>5
<1> HIDE DEF batch
<1>8. ASSUME NEW p \in Replicas, NEW x \in TasksOf(queue'[p]), Owner(x) \notin disturbed'
      PROVE  /\ subscriber'[Owner(x)] <= x
             /\ \A z \in Replicas \ {p} : \A y \in TasksOf(queue'[z]) : Owner(y) # Owner(x)
             /\ \A t \in Tasks : running'[p][t] # "none" /\ Owner(t) = Owner(x) => t <= x
  <2>1. x \in TasksOf(queue[p]) /\ Owner(x) \notin disturbed
    BY <1>1, <1>8
  <2>2. ASSUME NEW t \in Tasks, running'[p][t] # "none", Owner(t) = Owner(x) PROVE t <= x
    <3>1. CASE p = r
      BY <1>7, <1>8, <2>1, <2>2, <3>1
    <3>2. CASE p # r
      BY <1>3, <2>1, <2>2, <3>2 DEF NotBackInv
    <3> QED BY <3>1, <3>2
  <2> QED BY <1>1, <2>1, <2>2 DEF NotBackInv
<1> QED BY <1>4, <1>5, <1>6, <1>8 DEF NotBackInv, Forward

\* What Novu applies is the oldest task of its user, if the user is not disturbed.
LEMMA NovuAppliesNotBack ==
  ASSUME QueueInv, NotBackInv, NEW r \in Replicas, NEW t \in Tasks, NovuApplies(r, t)
  PROVE  NotBackInv' /\ Forward
<1>1. /\ UNCHANGED <<queue, late, log, disturbed>> /\ running[r][t] # "none"
      /\ subscriber' = AppliedTo(t) /\ Go(r, t, "accepted")
  BY DEF NovuApplies, redis, queueHistory
<1>2. \A p \in Replicas, x \in Tasks : running'[p][x] # "none" => running[p][x] # "none"
  BY <1>1, GoKeeps DEF QueueInv, Points
<1>3. t \in TasksOf(queue[r])
  BY <1>1, UnderWayIsServed
<1>4. t \in Nat /\ t <= Len(log) /\ Owner(t) \in Users /\ Len(log) \in Nat
  BY <1>3, QueuedIs, SettledIsKnown
<1>5. CASE Kind(t) = "delete"
  <2>1. subscriber' = subscriber
    BY <1>1, <1>5 DEF AppliedTo
  <2> QED BY <1>1, <1>2, <2>1, NothingNewKeeps
<1>6. CASE Kind(t) # "delete"
  <2>1. \A u \in Users : subscriber'[u] = IF u = Owner(t) THEN t ELSE subscriber[u]
    BY <1>1, <1>6 DEF AppliedTo, QueueInv, QueueTypeOK
  <2>2. \A x : Owner(x)' = Owner(x)
    BY <1>1 DEF Owner
  <2>3. \A u \in Users : u \in disturbed' \/ subscriber'[u] >= subscriber[u]
    <3>1. Owner(t) \in disturbed \/ subscriber[Owner(t)] <= t
      BY <1>3 DEF NotBackInv
    <3> QED BY <1>1, <1>4, <2>1, <3>1, SubscriberIs DEF QueueInv
  <2>4. \A u \in Users : subscriber'[u] <= Len(log')
    BY <1>1, <1>4, <2>1 DEF NotBackInv
  <2>5. ASSUME NEW p \in Replicas, NEW x \in TasksOf(queue[p]), Owner(x) \notin disturbed
        PROVE  subscriber'[Owner(x)] <= x
    <3>1. CASE Owner(x) # Owner(t)
      BY <2>1, <2>5, <3>1, QueuedIs DEF NotBackInv
    <3>2. CASE Owner(x) = Owner(t)
      <4>1. p = r
        BY <1>3, <2>5, <3>2 DEF NotBackInv
      <4>2. t <= x
        BY <1>1, <2>5, <3>2, <4>1 DEF NotBackInv
      <4> QED BY <1>4, <2>1, <3>2, <4>2
    <3> QED BY <3>1, <3>2
  <2>6. \A x \in late' : x \in DOMAIN log' /\ Owner(x)' \in disturbed'
    BY <1>1, <2>2 DEF NotBackInv
  <2>7. ASSUME NEW p \in Replicas, NEW x \in TasksOf(queue[p]), Owner(x) \notin disturbed
        PROVE  /\ \A z \in Replicas \ {p} : \A y \in TasksOf(queue[z]) : Owner(y) # Owner(x)
               /\ \A y \in Tasks : running'[p][y] # "none" /\ Owner(y) = Owner(x) => y <= x
    BY <1>2, <2>7 DEF NotBackInv
  <2> QED BY <1>1, <2>2, <2>3, <2>4, <2>5, <2>6, <2>7 DEF NotBackInv, Forward
<1> QED BY <1>5, <1>6

\* Whoever's call was given up is disturbed.
LEMMA LateRequestNotBack ==
  ASSUME QueueInv, NotBackInv, NEW t \in Tasks, LateRequest(t)
  PROVE  NotBackInv' /\ Forward
<1>1. /\ t \in late /\ late' = late \ {t} /\ UNCHANGED <<queue, running, log, disturbed>>
      /\ subscriber' = AppliedTo(t)
  BY DEF LateRequest, memory, redis, queueHistory
<1>2. t \in DOMAIN log /\ Owner(t) \in disturbed /\ Owner(t) \in Users
  BY <1>1, OwnerIs DEF NotBackInv, QueueInv
<1>3. t \in Nat /\ t <= Len(log) /\ Len(log) \in Nat
  BY <1>2, SettledIsKnown
<1>4. \A u \in Users : subscriber'[u] = subscriber[u] \/ (u = Owner(t) /\ subscriber'[u] = t)
  BY <1>1 DEF AppliedTo, QueueInv, QueueTypeOK
<1>5. \A x : Owner(x)' = Owner(x)
  BY <1>1 DEF Owner
<1>6. \A u \in Users : subscriber'[u] <= Len(log') /\ (u \in disturbed' \/ subscriber'[u] >= subscriber[u])
  BY <1>1, <1>2, <1>3, <1>4, SubscriberIs DEF NotBackInv, QueueInv
<1>7. ASSUME NEW p \in Replicas, NEW x \in TasksOf(queue[p]), Owner(x) \notin disturbed
      PROVE  /\ subscriber'[Owner(x)] <= x
             /\ \A z \in Replicas \ {p} : \A y \in TasksOf(queue[z]) : Owner(y) # Owner(x)
             /\ \A y \in Tasks : running[p][y] # "none" /\ Owner(y) = Owner(x) => y <= x
  <2>1. subscriber'[Owner(x)] = subscriber[Owner(x)]
    BY <1>2, <1>4, <1>7, QueuedIs
  <2> QED BY <1>7, <2>1 DEF NotBackInv
<1>8. \A x \in late' : x \in DOMAIN log' /\ Owner(x)' \in disturbed'
  BY <1>1, <1>5 DEF NotBackInv
<1> QED BY <1>1, <1>5, <1>6, <1>7, <1>8 DEF NotBackInv, Forward

\* A restore that would undo something, or serves what another replica serves, disturbs.
LEMMA RestoreNotBack ==
  ASSUME QueueInv, NotBackInv, NEW r \in Replicas, NEW ok \in BOOLEAN, Restore(r, ok)
  PROVE  NotBackInv' /\ Forward
<1> DEFINE found == IF ok /\ backup # Nil THEN backup ELSE queue[r]
           undoing == {Owner(t) : t \in {x \in TasksOf(found) : x < subscriber[Owner(x)]}}
           elsewhere == ServedElsewhere(r) \cap {Owner(t) : t \in TasksOf(found)}
<1>1. /\ r \notin restored /\ queue' = [queue EXCEPT ![r] = found]
      /\ disturbed' = disturbed \cup undoing \cup elsewhere
      /\ UNCHANGED <<running, late, subscriber, log>>
  BY DEF Restore, WithQueue, redis, novuSide
<1>2. /\ queue'[r] = found /\ \A p \in Replicas \ {r} : queue'[p] = queue[p]
      /\ \A t \in Tasks : running[r][t] = "none"
  BY <1>1 DEF QueueInv, QueueTypeOK, UnderWay
<1>3. TasksOf(found) \subseteq DOMAIN log /\ DOMAIN log = 1..Len(log) /\ Len(log) \in Nat
  BY SettledIsKnown, HeldIs DEF Backed
<1>4. \A t : Owner(t)' = Owner(t)
  BY <1>1 DEF Owner
<1>5. ASSUME NEW x \in TasksOf(found), Owner(x) \notin disturbed'
      PROVE  /\ subscriber[Owner(x)] <= x
             /\ \A p \in Replicas \ {r} : \A y \in TasksOf(queue[p]) : Owner(y) # Owner(x)
  <2>1. ~(x < subscriber[Owner(x)])
    BY <1>1, <1>5
  <2>2. x \in Nat /\ subscriber[Owner(x)] \in Nat
    BY <1>3, <1>5, OwnerIs, SubscriberIs DEF QueueInv
  <2>3. Owner(x) \notin ServedElsewhere(r)
    BY <1>1, <1>5
  <2> QED BY <2>1, <2>2, <2>3 DEF ServedElsewhere
<1>6. ASSUME NEW p \in Replicas \ {r}, NEW x \in TasksOf(queue[p]), Owner(x) \notin disturbed'
      PROVE  \A y \in TasksOf(found) : Owner(y) # Owner(x)
  BY <1>1, <1>6 DEF ServedElsewhere
<1> HIDE DEF found, undoing, elsewhere
<1>7. ASSUME NEW p \in Replicas, NEW x \in TasksOf(queue'[p]), Owner(x) \notin disturbed'
      PROVE  /\ subscriber'[Owner(x)] <= x
             /\ \A z \in Replicas \ {p} : \A y \in TasksOf(queue'[z]) : Owner(y) # Owner(x)
             /\ \A t \in Tasks : running'[p][t] # "none" /\ Owner(t) = Owner(x) => t <= x
  <2>1. CASE p = r
    BY <1>1, <1>2, <1>5, <1>7, <2>1
  <2>2. CASE p # r
    <3>1. x \in TasksOf(queue[p]) /\ Owner(x) \notin disturbed
      BY <1>1, <1>2, <1>7, <2>2
    <3>2. \A y \in TasksOf(queue'[r]) : Owner(y) # Owner(x)
      BY <1>2, <1>6, <1>7, <2>2, <3>1
    <3> QED BY <1>1, <1>2, <3>1, <3>2 DEF NotBackInv
  <2> QED BY <2>1, <2>2
<1>8. \A u \in Users : subscriber'[u] <= Len(log') /\ subscriber'[u] >= subscriber[u]
  BY <1>1, SubscriberIs DEF NotBackInv, QueueInv
<1>9. \A t \in late' : t \in DOMAIN log' /\ Owner(t)' \in disturbed'
  BY <1>1, <1>4 DEF NotBackInv
<1> QED BY <1>4, <1>7, <1>8, <1>9 DEF NotBackInv, Forward

\* A new task is younger than all; a second replica that gets one disturbs.
LEMMA EnqueueNotBack ==
  ASSUME QueueInv, NotBackInv, NEW r \in Replicas, NEW request \in Request, Enqueue(r, request)
  PROVE  NotBackInv' /\ Forward
<1> PICK t : t = Len(log) + 1
  OBVIOUS
<1> DEFINE e == [task |-> t, attempts |-> 0]
           u == request.user
<1>1. /\ queue' = [queue EXCEPT ![r] = Append(queue[r], e)] /\ t \in Tasks
      /\ log' = Append(log, request) /\ disturbed' = disturbed \cup ({u} \cap ServedElsewhere(r))
      /\ UNCHANGED <<running, late, subscriber>>
  BY DEF Enqueue, WithQueue, novuSide
<1>2. log \in Seq(Request) /\ Len(log) \in Nat /\ DOMAIN log = 1..Len(log) /\ t \in Nat
  BY SettledIsKnown DEF QueueInv, QueueTypeOK
<1>3. /\ Len(log') = t /\ DOMAIN log' = 1..t /\ log'[t] = request
      /\ \A x \in DOMAIN log : log'[x] = log[x]
  BY <1>1, <1>2
<1>4. Owner(t)' = u /\ \A x \in DOMAIN log : Owner(x)' = Owner(x)
  BY <1>3 DEF Owner
<1>5. e \in Entry
  <2>1. 0 \in 0..(MaxRetries - 1)
    BY Bounds
  <2> QED BY <1>1, <2>1 DEF Entry
<1>6. /\ TasksOf(queue'[r]) = TasksOf(queue[r]) \cup {t}
      /\ \A p \in Replicas \ {r} : queue'[p] = queue[p]
  <2>1. e.task = t
    OBVIOUS
  <2> HIDE DEF e
  <2> QED BY <1>1, <1>5, <2>1, AppendKeeps DEF QueueInv, QueueTypeOK
<1>7. \A p \in Replicas : \A x \in TasksOf(queue[p]) : x \in DOMAIN log /\ x < t
  BY <1>2, QueuedIs
<1>8. \A p \in Replicas, x \in Tasks : running[p][x] # "none" => x \in DOMAIN log
  BY UnderWayIsServed, SettledIsKnown
<1>9. u \in disturbed' \/ \A p \in Replicas \ {r} : \A y \in TasksOf(queue[p]) : Owner(y) # u
  BY <1>1 DEF ServedElsewhere
<1>10. u \in Users
  BY DEF Request
<1> HIDE DEF e, u
<1>11. \A w \in Users : subscriber'[w] <= Len(log') /\ subscriber'[w] >= subscriber[w] /\ subscriber'[w] <= t
  BY <1>1, <1>2, <1>3, SubscriberIs DEF NotBackInv, QueueInv
<1>12. \A x \in late' : x \in DOMAIN log' /\ Owner(x)' \in disturbed'
  BY <1>1, <1>2, <1>3, <1>4 DEF NotBackInv
<1>13. ASSUME NEW p \in Replicas, NEW x \in TasksOf(queue'[p]), Owner(x)' \notin disturbed'
       PROVE  /\ subscriber'[Owner(x)'] <= x
              /\ \A z \in Replicas \ {p} : \A y \in TasksOf(queue'[z]) : Owner(y)' # Owner(x)'
              /\ \A y \in Tasks : running'[p][y] # "none" /\ Owner(y)' = Owner(x)' => y <= x
  <2>1. CASE x = t
    <3>1. p = r /\ Owner(x)' = u
      BY <1>4, <1>6, <1>7, <1>13, <1>2, <2>1
    <3>2. \A z \in Replicas \ {r} : \A y \in TasksOf(queue'[z]) : Owner(y)' # u
      BY <1>4, <1>6, <1>7, <1>9, <1>13, <3>1
    <3>3. \A y \in Tasks : running'[p][y] # "none" => y <= t
      BY <1>1, <1>2, <1>8
    <3> QED BY <1>10, <1>11, <2>1, <3>1, <3>2, <3>3
  <2>2. CASE x # t
    <3>1. x \in TasksOf(queue[p]) /\ x \in DOMAIN log /\ Owner(x)' = Owner(x) /\ Owner(x) \notin disturbed
      BY <1>1, <1>4, <1>6, <1>7, <1>13, <2>2
    <3>2. \A z \in Replicas \ {p} : \A y \in TasksOf(queue'[z]) : Owner(y)' # Owner(x)
      <4> SUFFICES ASSUME NEW z \in Replicas \ {p}, NEW y \in TasksOf(queue'[z]) PROVE Owner(y)' # Owner(x)
        OBVIOUS
      <4>1. CASE y \in TasksOf(queue[z])
        BY <1>4, <1>7, <3>1, <4>1 DEF NotBackInv
      <4>2. CASE y \notin TasksOf(queue[z])
        <5>1. y = t /\ z = r
          BY <1>6, <4>2
        <5> QED BY <1>4, <1>9, <1>13, <3>1, <5>1
      <4> QED BY <4>1, <4>2
    <3>3. \A y \in Tasks : running'[p][y] # "none" /\ Owner(y)' = Owner(x) => y <= x
      BY <1>1, <1>4, <1>8, <3>1 DEF NotBackInv
    <3>4. subscriber'[Owner(x)] <= x
      BY <1>1, <3>1 DEF NotBackInv
    <3> QED BY <3>1, <3>2, <3>3, <3>4
  <2> QED BY <2>1, <2>2
<1> QED BY <1>11, <1>12, <1>13 DEF NotBackInv, Forward

LEMMA NotBackInit == QueueInit => NotBackInv
<1> SUFFICES ASSUME QueueInit PROVE NotBackInv
  OBVIOUS
<1>1. /\ \A u \in Users : subscriber[u] = 0
      /\ \A r \in Replicas : queue[r] = <<>>
      /\ late = {} /\ Len(log) = 0
  BY DEF QueueInit
<1>2. TasksOf(<<>>) = {}
  BY DEF TasksOf
<1> QED BY <1>1, <1>2 DEF NotBackInv

LEMMA NotBackNext == QueueInv /\ NotBackInv /\ [QueueNext]_queueVars => NotBackInv' /\ Forward
<1> SUFFICES ASSUME QueueInv, NotBackInv, [QueueNext]_queueVars PROVE NotBackInv' /\ Forward
  OBVIOUS
<1>1. ASSUME NEW r \in Replicas, ProcessorStep(r) \/ ClosePause(r) \/ Crash(r)
      PROVE  NotBackInv' /\ Forward
  BY <1>1, StartBatchNotBack, QuietNotBack, CrashNotBack DEF ProcessorStep
<1>2. ASSUME NEW r \in Replicas, NEW t \in Tasks,
             NovuStep(r, t) \/ \E ok \in BOOLEAN : Recorded(r, t, ok)
      PROVE  NotBackInv' /\ Forward
  BY <1>2, NovuAppliesNotBack, CallNotBack DEF NovuStep
<1>3. ASSUME NEW r \in Replicas, NEW ok \in BOOLEAN, WriteBackup(r, ok) \/ Restore(r, ok)
      PROVE  NotBackInv' /\ Forward
  BY <1>3, QuietNotBack, RestoreNotBack
<1>4. CASE Arrive
  <2>1. PICK r \in Replicas : Enqueue(r, Arrivals[Len(log) + 1])
    BY <1>4 DEF Arrive
  <2>2. Arrivals[Len(log) + 1] \in Request
    <3>1. Len(log) + 1 \in 1..Len(Arrivals)
      BY <1>4, SettledIsKnown, QueueAssumption DEF Arrive
    <3> QED BY <3>1, QueueAssumption
  <2> QED BY <2>1, <2>2, EnqueueNotBack
<1>5. CASE UNCHANGED queueVars
  <2>1. UNCHANGED <<queue, running, late, subscriber, log, disturbed>>
    BY <1>5 DEF queueVars
  <2> QED BY <2>1, NothingNewKeeps
<1>6. CASE QueueNext
  BY <1>6, <1>1, <1>2, <1>3, <1>4, LateRequestNotBack DEF QueueNext, QueueStep
<1> QED BY <1>5, <1>6

\* Novu never goes back from a later task of a user to an earlier one, through any
\* failures, retries, crashes and restores, unless a named cause disturbed the user.
THEOREM NovuNeverGoesBack == QueueSpec => NeverBackwards
<1>1. QueueInit => QueueInv /\ NotBackInv
  BY QueueInitInv, NotBackInit
<1>2. QueueInv /\ NotBackInv /\ [QueueNext]_queueVars =>
        QueueInv' /\ NotBackInv' /\ [Forward]_queueVars
  BY QueueNextInv, NotBackNext
<1>3. Forward <=> \A u \in Users : u \in disturbed' \/ subscriber'[u] >= subscriber[u]
  BY DEF Forward
<1> QED BY <1>1, <1>2, <1>3, PTL DEF QueueSpec, NeverBackwards

=============================================================================
