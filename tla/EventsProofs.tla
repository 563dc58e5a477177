---------------------------- MODULE EventsProofs ----------------------------
(***************************************************************************)
(* What the handlers of events leave behind, for any number of replicas,   *)
(* users, events and faults: an acknowledged update has a task for Novu,   *)
(* an acknowledged change is in the document, an acknowledged publication  *)
(* has a message for each user it is meant for and no user has two.        *)
(***************************************************************************)
EXTENDS NotificationEvents, SequenceTheorems, TLAPS

-----------------------------------------------------------------------------
(* Types *)

\* Each point of a handler belongs to one kind of event.
HandOK ==
    \A r \in Replicas :
        /\ At(r, "idle") <=> delivered[r] = 0
        /\ At(r, "saving") => Handles(r, {"created"})
        /\ point[r] \in {"updating", "updated"} => Handles(r, {"updated"})
        /\ point[r] \in {"reading preferences", "saving notification", "queueing"} =>
             Handles(r, {"content"})
        /\ At(r, "queueing") => copy[r] > 0

TypeInv == TypeOK /\ HandOK

\* The attempts of a handler are counted whichever way it goes on.
GoesOn(r, p) == Goto(r, p) /\ UNCHANGED attempts

LEMMA Turns ==
    ASSUME ConsumerTypeOK, NEW r \in Replicas, NEW p \in ConsumerPoints,
           GoesOn(r, p) \/ Succeed(r) \/ FailAttempt(r)
    PROVE  /\ point' \in [Replicas -> ConsumerPoints] /\ attempts' \in [Replicas -> 0..MaxAttempts]
           /\ \A q \in Replicas \ {r} : point'[q] = point[q]
           /\ GoesOn(r, p) => point'[r] = p
           /\ Succeed(r) => point'[r] = "acking"
           /\ FailAttempt(r) => point'[r] \in {"handling", "burying"}
<1>1. PICK q \in ConsumerPoints :
          /\ point' = [point EXCEPT ![r] = q]
          /\ GoesOn(r, p) => q = p
          /\ Succeed(r) => q = "acking"
          /\ FailAttempt(r) => q \in {"handling", "burying"}
  <2>1. CASE GoesOn(r, p)
    <3>1. point' = [point EXCEPT ![r] = p]
      BY <2>1 DEF GoesOn, Goto
    <3>2. Succeed(r) => p = "acking"
      BY <3>1 DEF Succeed, Goto, ConsumerTypeOK
    <3>3. FailAttempt(r) => p \in {"handling", "burying"}
      BY <3>1 DEF FailAttempt, Goto, ConsumerTypeOK
    <3> QED BY <3>1, <3>2, <3>3
  <2>2. CASE Succeed(r) /\ ~GoesOn(r, p)
    <3>1. point' = [point EXCEPT ![r] = "acking"] /\ "acking" \in ConsumerPoints
      BY <2>2 DEF Succeed, Goto, ConsumerPoints
    <3>2. ~FailAttempt(r)
      BY <3>1 DEF FailAttempt, Goto, ConsumerTypeOK
    <3> QED BY <2>2, <3>1, <3>2
  <2>3. CASE FailAttempt(r) /\ ~GoesOn(r, p) /\ ~Succeed(r)
    BY <2>3 DEF FailAttempt, Goto, ConsumerPoints
  <2> QED BY <2>1, <2>2, <2>3
<1>2. attempts' \in [Replicas -> 0..MaxAttempts]
  BY ConsumerAssumption DEF GoesOn, Succeed, FailAttempt, ConsumerTypeOK
<1> QED BY <1>1, <1>2 DEF ConsumerTypeOK

\* Where a handler may stand with the event it has in hand.
Stands(r, p) ==
    /\ delivered[r] # 0 /\ p # "idle"
    /\ p = "saving" => Handles(r, {"created"})
    /\ p \in {"updating", "updated"} => Handles(r, {"updated"})
    /\ p \in {"reading preferences", "saving notification", "queueing"} => Handles(r, {"content"})

\* A step of the handler of r, as the rest of the consumer sees it.
HandlerMoves(r) ==
    /\ HandlerOnly
    /\ point' \in [Replicas -> ConsumerPoints] /\ attempts' \in [Replicas -> 0..MaxAttempts]
    /\ \A q \in Replicas \ {r} : point'[q] = point[q]
    /\ Stands(r, point'[r])

LEMMA InHandOK ==
    ASSUME TypeInv, NEW r \in Replicas, delivered[r] # 0
    PROVE  delivered[r] \in Events /\ InHand(r) \in Users
BY UserAssumption DEF TypeInv, TypeOK, UserTypeOK, ConsumerTypeOK, InHand

LEMMA UserHandlerMoves ==
    ASSUME TypeInv, NEW r \in Replicas, UserHandlerStep(r)
    PROVE  HandlerMoves(r)
<1> USE DEF TypeInv
<1>0. ConsumerTypeOK /\ {"saving", "updating", "updated", "handling", "burying", "acking"}
                           \subseteq ConsumerPoints
  BY UserAssumption DEF TypeOK, UserTypeOK, ConsumerPoints
<1>1. CASE FindForCreate(r)
  <2>1. GoesOn(r, "saving") \/ Succeed(r)
    BY <1>1 DEF FindForCreate, GoesOn
  <2> QED BY <1>0, <1>1, <2>1, Turns DEF FindForCreate, HandlerMoves, Stands, Handles
<1>2. CASE FindForUpdate(r)
  <2>1. GoesOn(r, "updating") \/ Succeed(r)
    BY <1>2 DEF FindForUpdate, GoesOn
  <2> QED BY <1>0, <1>2, <2>1, Turns DEF FindForUpdate, HandlerMoves, Stands, Handles
<1>3. CASE FindFails(r)
  BY <1>0, <1>3, Turns DEF FindFails, HandlerMoves, Stands, Handles
<1>4. CASE SaveUser(r)
  <2>1. Handles(r, {"created"})
    BY <1>4 DEF SaveUser, HandOK
  <2> QED BY <1>0, <1>4, <2>1, Turns DEF SaveUser, HandlerMoves, Stands, Handles
<1>5. ASSUME NEW outcome \in {"ok", "rejected", "unanswered"}, UpdateUser(r, outcome)
      PROVE  HandlerMoves(r)
  <2>1. \/ GoesOn(r, "updated") /\ At(r, "updating")
        \/ Succeed(r) \/ FailAttempt(r)
    BY <1>5 DEF UpdateUser, GoesOn
  <2>2. /\ At(r, "updating") => Handles(r, {"updated"})
        /\ delivered[r] # 0 /\ HandlerOnly
    BY <1>5 DEF UpdateUser, HandOK, At, Handles
  <2> QED BY <1>0, <2>1, <2>2, Turns DEF HandlerMoves, Stands, Handles
<1>6. CASE EnqueueUpdate(r) \/ NothingForNovu(r)
  BY <1>0, <1>6, Turns DEF EnqueueUpdate, NothingForNovu, HandlerMoves, Stands, HandOK, At, Handles
<1> QED BY <1>1, <1>2, <1>3, <1>4, <1>5, <1>6 DEF UserHandlerStep

LEMMA ContentMoves ==
    ASSUME TypeInv, NEW r \in Replicas, ContentStep(r)
    PROVE  HandlerMoves(r)
<1> USE DEF TypeInv, ContentOnly
<1>0. ConsumerTypeOK /\ {"reading preferences", "saving notification", "queueing", "handling",
                         "burying", "acking"} \subseteq ConsumerPoints
  BY ContentAssumption DEF TypeOK, UserTypeOK, ConsumerPoints
<1>1. ASSUME NEW ok \in BOOLEAN, FindUsers(r, ok) PROVE HandlerMoves(r)
  <2>1. GoesOn(r, "reading preferences") \/ Succeed(r)
    BY <1>1 DEF FindUsers, GoesOn
  <2>2. Handles(r, {"content"}) /\ HandlerOnly
    BY <1>1 DEF FindUsers
  <2> QED BY <1>0, <2>1, <2>2, Turns DEF HandlerMoves, Stands, Handles
<1>2. CASE PreferencesFail(r) \/ FilterUsers(r)
  <2>1. GoesOn(r, "saving notification") \/ Succeed(r) \/ FailAttempt(r)
    BY <1>2 DEF PreferencesFail, FilterUsers, GoesOn
  <2>2. Handles(r, {"content"}) /\ HandlerOnly
    BY <1>2 DEF PreferencesFail, FilterUsers, HandOK, At
  <2> QED BY <1>0, <2>1, <2>2, Turns DEF HandlerMoves, Stands, Handles
<1>3. ASSUME NEW ok \in BOOLEAN, SaveNotification(r, ok) PROVE HandlerMoves(r)
  <2>1. GoesOn(r, "queueing") \/ FailAttempt(r)
    BY <1>3 DEF SaveNotification, GoesOn
  <2>2. Handles(r, {"content"}) /\ HandlerOnly
    BY <1>3 DEF SaveNotification, HandOK, At
  <2> QED BY <1>0, <2>1, <2>2, Turns DEF HandlerMoves, Stands, Handles
<1>4. ASSUME NEW u \in Users, NEW ok \in BOOLEAN, QueueForUser(r, u, ok) PROVE HandlerMoves(r)
  <2>1. Succeed(r) \/ UNCHANGED <<point, attempts>>
    BY <1>4 DEF QueueForUser, AfterUser
  <2>2. Handles(r, {"content"}) /\ HandlerOnly /\ At(r, "queueing")
    BY <1>4 DEF QueueForUser, HandOK, At
  <2>3. CASE Succeed(r)
    BY <1>0, <2>3, <2>2, Turns DEF HandlerMoves, Stands, Handles
  <2>4. CASE UNCHANGED <<point, attempts>>
    BY <1>0, <2>4, <2>2 DEF HandlerMoves, Stands, Handles, At, ConsumerTypeOK
  <2> QED BY <2>1, <2>3, <2>4
<1> QED BY <1>1, <1>2, <1>3, <1>4 DEF ContentStep

LEMMA TasksKeepTypes ==
    ASSUME Queue!TasksTypeOK,
           \/ \E request \in Queue!Request : Queue!Enqueue(request)
           \/ \E t \in Queue!Tasks : Queue!Finish(t)
           \/ Queue!LetGo
           \/ UNCHANGED tasks
    PROVE  Queue!TasksTypeOK'
<1>1. CASE UNCHANGED tasks
  BY <1>1 DEF tasks, Queue!TasksTypeOK
<1>2. CASE Queue!LetGo
  BY <1>2 DEF Queue!LetGo, Queue!TasksTypeOK
<1>3. ASSUME NEW t \in Queue!Tasks, Queue!Finish(t) PROVE Queue!TasksTypeOK'
  BY <1>3 DEF Queue!Finish, Queue!TasksTypeOK
<1>4. ASSUME NEW request \in Queue!Request, Queue!Enqueue(request) PROVE Queue!TasksTypeOK'
  <2>1. log \in Seq(Queue!Request) /\ log' = Append(log, request)
    BY <1>4 DEF Queue!Enqueue, Queue!TasksTypeOK
  <2>2. /\ log' \in Seq(Queue!Request) /\ Len(log) \in Nat
        /\ DOMAIN log = 1..Len(log) /\ DOMAIN log' = 1..(Len(log) + 1)
    BY <2>1, AppendProperties, LenProperties
  <2>3. DOMAIN log' = DOMAIN log \cup {Len(log) + 1}
    BY <2>2
  <2> QED BY <1>4, <2>2, <2>3 DEF Queue!Enqueue, Queue!TasksTypeOK
<1> QED BY <1>1, <1>2, <1>3, <1>4

\* An event that is written to a document leaves a document.
LEMMA DocumentTypes ==
    ASSUME UserTypeOK
    PROVE  \A u \in Users, e \in Events : Written(u, e) \in [Seeded -> Document]
<1>1. doc \in [Seeded -> Document]
  BY DEF UserTypeOK
<1>2. ASSUME NEW u \in Users, NEW e \in Events PROVE Written(u, e) \in [Seeded -> Document]
  <2> DEFINE d == [doc[u] EXCEPT !.data = e, !.active = @ /\ Kind[e] # "deleted"]
  <2>1. CASE ~Exists(u)
    BY <1>1, <2>1 DEF Written
  <2>2. CASE Exists(u)
    <3>1. u \in Seeded /\ doc[u] \in Document
      BY <1>1, <2>2 DEF Exists
    <3>2. d \in Document
      BY <3>1 DEF Document
    <3>3. Written(u, e) = [doc EXCEPT ![u] = d]
      BY <1>1, <2>2, <3>1 DEF Written, Document
    <3> QED BY <1>1, <3>1, <3>2, <3>3
  <2> QED BY <2>1, <2>2
<1> QED BY <1>2

\* What is enqueued stays enqueued, and each task keeps the event it comes from.
CauseGrows == \A t \in DOMAIN cause : t \in DOMAIN cause' /\ cause'[t] = cause[t]

LEMMA EnqueueGrows ==
    ASSUME UserTypeOK, NEW request \in Queue!Request, Queue!Enqueue(request),
           NEW e \in Events, cause' = Append(cause, e)
    PROVE  /\ cause' \in Seq(Events) /\ Len(cause') = Len(log')
           /\ CauseGrows /\ \E t \in DOMAIN cause' : cause'[t] = e
<1>1. log \in Seq(Queue!Request) /\ log' = Append(log, request) /\ cause \in Seq(Events)
  BY DEF Queue!Enqueue, Queue!TasksTypeOK, UserTypeOK
<1>2. /\ Len(log') = Len(log) + 1 /\ Len(cause') = Len(cause) + 1
      /\ cause' \in Seq(Events)
      /\ Len(cause) \in Nat /\ DOMAIN cause = 1..Len(cause)
      /\ DOMAIN cause' = 1..(Len(cause) + 1) /\ cause'[Len(cause) + 1] = e
      /\ \A i \in 1..Len(cause) : cause'[i] = cause[i]
  BY <1>1, AppendProperties, LenProperties
<1>3. Len(cause) + 1 \in DOMAIN cause' /\ DOMAIN cause \subseteq DOMAIN cause'
  BY <1>2
<1> QED BY <1>2, <1>3 DEF CauseGrows, UserTypeOK

\* A step of a handler enqueues the task of its update, or none.
LEMMA HandlerTasks ==
    ASSUME TypeInv, NEW r \in Replicas, UserHandlerStep(r)
    PROVE  \/ NoTask
           \/ /\ EnqueueUpdate(r) /\ delivered[r] \in Events
              /\ \E request \in Queue!Request : Queue!Enqueue(request)
              /\ cause' = Append(cause, delivered[r])
<1>1. NoTask \/ EnqueueUpdate(r)
  BY DEF UserHandlerStep, FindForCreate, FindForUpdate, FindFails, SaveUser, UpdateUser, NothingForNovu
<1>2. ASSUME EnqueueUpdate(r)
      PROVE  /\ delivered[r] \in Events /\ cause' = Append(cause, delivered[r])
             /\ \E request \in Queue!Request : Queue!Enqueue(request)
  <2>1. delivered[r] \in Events /\ InHand(r) \in Users
    BY <1>2, InHandOK DEF EnqueueUpdate, TypeInv, HandOK, At, Handles
  <2> QED BY <1>2, <2>1 DEF EnqueueUpdate, Queue!Request
<1> QED BY <1>1, <1>2

LEMMA UserHandlerTypes ==
    ASSUME TypeInv, NEW r \in Replicas, UserHandlerStep(r)
    PROVE  UserTypeOK'
<1>1. HandlerMoves(r) /\ ConsumerTypeOK'
  BY UserHandlerMoves DEF HandlerMoves, HandlerOnly, consumerHistory, TypeInv, TypeOK, UserTypeOK,
                          ConsumerTypeOK
<1>2. delivered[r] # 0
  BY <1>1 DEF HandlerMoves, Stands
<1>3. delivered[r] \in Events /\ InHand(r) \in Users
  BY <1>2, InHandOK
<1>4. UserTypeOK
  BY DEF TypeInv, TypeOK
<1>5. faults' \in Nat
  BY <1>4 DEF UserTypeOK, UserHandlerStep, FindForCreate, FindForUpdate, FindFails, SaveUser,
              UpdateUser, EnqueueUpdate, NothingForNovu, Outcome, Fault
<1>6. Queue!TasksTypeOK' /\ cause' \in Seq(Events) /\ Len(cause') = Len(log')
  BY <1>4, HandlerTasks, TasksKeepTypes, EnqueueGrows DEF UserTypeOK, NoTask, tasks
<1>7. doc' \in [Seeded -> Document]
  <2>1. doc' = doc \/ doc' = Written(InHand(r), delivered[r])
    BY DEF UserHandlerStep, FindForCreate, FindForUpdate, FindFails, SaveUser, UpdateUser,
           EnqueueUpdate, NothingForNovu
  <2> QED BY <1>3, <1>4, <2>1, DocumentTypes DEF UserTypeOK
<1>8. contended' \subseteq Users
  BY <1>1, <1>4 DEF HandlerMoves, HandlerOnly, UserTypeOK
<1> QED BY <1>1, <1>5, <1>6, <1>7, <1>8 DEF UserTypeOK

\* Steps of the consumer itself.
LEMMA ConsumerTypes ==
    ASSUME TypeInv, NEW r \in Replicas,
           \/ Receive(r) \/ Start(r) \/ Acknowledge(r) \/ Disconnect(r) \/ Dies(r)
    PROVE  ConsumerTypeOK' /\ contended' \subseteq Users
<1>0. ConsumerTypeOK /\ contended \subseteq Users
      /\ {"idle", "handling", "burying", "acking"} \subseteq ConsumerPoints
      /\ 0 \in 0..MaxAttempts
  BY ConsumerAssumption DEF TypeInv, TypeOK, UserTypeOK, ConsumerPoints
<1>1. CASE Receive(r)
  <2>1. PICK e \in Events : Deliver(r, e)
    BY <1>1 DEF Receive
  <2>2. ConsumerTypeOK'
    BY <1>0, <2>1, ConsumerAssumption DEF Deliver, ConsumerTypeOK, Goto
  <2>3. \A f \in Events \cup {0} : About(f) \subseteq Users
    BY UserAssumption DEF About
  <2>4. contended' \subseteq contended \cup UNION {About(f) : f \in Events \cup {0}}
    BY <1>0, <1>1 DEF Receive, ConsumerTypeOK
  <2> QED BY <1>0, <1>1, <2>2, <2>3, <2>4 DEF Receive, Rest
<1>2. CASE Start(r)
  BY <1>0, <1>2 DEF Start, Register, Rest, ConsumerTypeOK, progress, consumerHistory
<1>3. CASE Acknowledge(r)
  <2>1. delivered[r] \in Events
    BY <1>0, <1>3 DEF Acknowledge, Bury, Ack, TypeInv, HandOK, At, ConsumerTypeOK
  <2>2. ConsumerTypeOK'
    <3>1. CASE Bury(r)
      BY <1>0, <3>1, <2>1 DEF Bury, ConsumerTypeOK, Goto
    <3>2. CASE Ack(r)
      BY <1>0, <3>2, <2>1 DEF Ack, ConsumerTypeOK, Goto
    <3> QED BY <1>3, <3>1, <3>2 DEF Acknowledge
  <2> QED BY <1>0, <1>3, <2>2 DEF Acknowledge, Rest
<1>4. CASE Disconnect(r)
  BY <1>0, <1>4 DEF Disconnect, LoseConnection, Requeued, Rest, ConsumerTypeOK, progress,
                    consumerHistory
<1>5. CASE Dies(r)
  <2>1. ConsumerDies(r)
    BY <1>5 DEF Dies
  <2>2. ConsumerTypeOK'
    BY <1>0, <2>1 DEF ConsumerDies, Requeued, ConsumerTypeOK, Goto, consumerHistory
  <2> QED BY <1>0, <1>5, <2>2 DEF Dies
<1> QED BY <1>1, <1>2, <1>3, <1>4, <1>5

LEMMA UserTypes ==
    ASSUME TypeInv, UserNext
    PROVE  UserTypeOK'
<1>0. UserTypeOK
  BY DEF TypeInv, TypeOK
<1>1. ASSUME NEW r \in Replicas, UserHandlerStep(r) PROVE UserTypeOK'
  BY <1>1, UserHandlerTypes
<1>2. ASSUME NEW r \in Replicas,
             Receive(r) \/ Start(r) \/ Acknowledge(r) \/ Disconnect(r) \/ Crash(r) \/ DiesDeaf(r)
      PROVE  UserTypeOK'
  <2>1. ConsumerTypeOK' /\ contended' \subseteq Users
    BY <1>2, ConsumerTypes DEF Crash, DiesDeaf
  <2>2. UNCHANGED <<tasks, cause, doc>> /\ log' = log
    BY <1>2 DEF Receive, Start, Acknowledge, Disconnect, Crash, DiesDeaf, Dies, Rest, NoTask, tasks
  <2>3. faults' \in Nat
    BY <1>0, <1>2 DEF Receive, Start, Acknowledge, Disconnect, Crash, DiesDeaf, Fault, UserTypeOK
  <2> QED BY <1>0, <2>1, <2>2, <2>3, TasksKeepTypes DEF UserTypeOK
<1>3. CASE TaskSettles
  <2>1. Queue!TasksTypeOK'
    BY <1>0, <1>3, TasksKeepTypes DEF TaskSettles, UserTypeOK
  <2>2. log' = log
    BY <1>3 DEF TaskSettles, Queue!Finish, Queue!LetGo
  <2> QED BY <1>0, <1>3, <2>1, <2>2 DEF TaskSettles, UserTypeOK, ConsumerTypeOK, consumerVars
<1> QED BY <1>1, <1>2, <1>3 DEF UserNext, UserConsumerStep

LEMMA MaxCopiesIsNat == MaxCopies \in Nat
BY ContentAssumption

LEMMA MaxSwitchesIsNat == MaxSwitches \in Nat
BY ContentAssumption

LEMMA FollowsTypes ==
    ASSUME TypeInv, UserTypeOK', Follows
    PROVE  /\ TypeOK'
           /\ \A r \in Replicas : delivered'[r] # 0 => todo'[r] = todo[r] /\ copy'[r] = copy[r]
<1>1. 0 \in 0..MaxCopies
  BY MaxCopiesIsNat
<1>2. /\ todo' \in [Replicas -> SUBSET Users] /\ copy' \in [Replicas -> 0..MaxCopies]
      /\ \A r \in Replicas : delivered'[r] # 0 => todo'[r] = todo[r] /\ copy'[r] = copy[r]
  BY <1>1 DEF TypeInv, TypeOK, Follows
<1>3. redelivered' \subseteq Events
  BY DEF TypeInv, TypeOK, Follows, UserTypeOK, ConsumerTypeOK
<1> QED BY <1>2, <1>3 DEF TypeInv, TypeOK, Follows, switchVars

LEMMA ContentTypes ==
    ASSUME TypeInv, NEW r \in Replicas, ContentStep(r)
    PROVE  TypeOK'
<1>1. HandlerMoves(r)
  BY ContentMoves
<1>2. delivered[r] \in Events
  BY <1>1, InHandOK DEF HandlerMoves, Stands
<1>3. UserTypeOK /\ TypeOK
  BY DEF TypeInv, TypeOK
<1>4. UNCHANGED <<tasks, cause, doc, switchVars, redelivered>> /\ faults' \in Nat
  <2>1. ContentOnly /\ (UNCHANGED faults \/ Fault)
    BY DEF ContentStep, FindUsers, PreferencesFail, FilterUsers, SaveNotification, QueueForUser, Unless
  <2>2. faults \in Nat
    BY <1>3 DEF UserTypeOK
  <2> QED BY <2>1, <2>2 DEF ContentOnly, NoTask, Fault
<1>5. UserTypeOK'
  <2>1. ConsumerTypeOK'
    BY <1>1, <1>3 DEF HandlerMoves, HandlerOnly, consumerHistory, UserTypeOK, ConsumerTypeOK
  <2> QED BY <1>1, <1>3, <1>4, <2>1, TasksKeepTypes DEF UserTypeOK, HandlerMoves, HandlerOnly, tasks
<1> USE DEF switchVars
<1>6. ASSUME NEW ok \in BOOLEAN, FindUsers(r, ok) PROVE TypeOK'
  <2> DEFINE users == IF ok THEN Named[delivered[r]] \cup LookedUp(delivered[r])
                            ELSE Named[delivered[r]]
  <2>1. users \subseteq Users
    <3>1. DOMAIN doc \subseteq Users
      BY <1>3, UserAssumption DEF UserTypeOK
    <3> QED BY <1>2, <3>1, ContentAssumption DEF LookedUp, Everyone
  <2>2. todo' = [todo EXCEPT ![r] = users] /\ UNCHANGED <<copy, copies, messages, unqueued>>
    BY <1>6 DEF FindUsers
  <2>3. found' \subseteq found
    BY <1>6 DEF FindUsers
  <2> HIDE DEF users
  <2> QED BY <1>2, <1>3, <1>4, <1>5, <2>1, <2>2, <2>3 DEF TypeOK
<1>7. CASE PreferencesFail(r)
  BY <1>3, <1>4, <1>5, <1>7 DEF PreferencesFail, TypeOK
<1>8. ASSUME NEW ok \in BOOLEAN, SaveNotification(r, ok) PROVE TypeOK'
  <2>1. copies[delivered[r]] + 1 \in 0..MaxCopies
    <3>1. copies \in [Events -> 0..MaxCopies] /\ copies[delivered[r]] < MaxCopies
      BY <1>3, <1>8 DEF SaveNotification, TypeOK
    <3>2. MaxCopies \in Nat
      BY MaxCopiesIsNat
    <3>3. copies[delivered[r]] \in 0..MaxCopies
      BY <1>2, <3>1
    <3> QED BY <3>1, <3>2, <3>3
  <2>2. \/ UNCHANGED <<copy, copies>>
        \/ /\ copies' = [copies EXCEPT ![delivered[r]] = @ + 1]
           /\ copy' = [copy EXCEPT ![r] = copies[delivered[r]] + 1]
    BY <1>8 DEF SaveNotification
  <2>3. copy' \in [Replicas -> 0..MaxCopies] /\ copies' \in [Events -> 0..MaxCopies]
    BY <1>2, <1>3, <2>1, <2>2 DEF TypeOK
  <2> QED BY <1>3, <1>4, <1>5, <1>8, <2>3 DEF SaveNotification, TypeOK
<1>9. ASSUME NEW u \in Users, NEW ok \in BOOLEAN, QueueForUser(r, u, ok) PROVE TypeOK'
  <2>1. copy[r] \in 1..MaxCopies
    <3>1. copy[r] \in 0..MaxCopies /\ copy[r] > 0
      BY <1>3, <1>9 DEF QueueForUser, TypeInv, HandOK, TypeOK
    <3> QED BY <3>1, MaxCopiesIsNat
  <2>2. [event |-> delivered[r], copy |-> copy[r], user |-> u] \in Message
    BY <1>2, <2>1 DEF Message
  <2>3. todo' \in [Replicas -> SUBSET Users]
    BY <1>3, <1>9 DEF QueueForUser, Left, TypeOK
  <2>4. messages' \subseteq Message /\ unqueued' \subseteq Events \X Users
    BY <1>2, <1>3, <1>9, <2>2 DEF QueueForUser, TypeOK
  <2> QED BY <1>3, <1>4, <1>5, <1>9, <2>3, <2>4 DEF QueueForUser, TypeOK
<1>10. CASE FilterUsers(r)
  <2>1. Willing(r) \subseteq Users
    BY <1>3 DEF Willing, TypeOK
  <2>2. todo' = [todo EXCEPT ![r] = Willing(r)] /\ UNCHANGED <<copy, copies, messages, unqueued>>
    BY <1>10 DEF FilterUsers
  <2>3. found' \subseteq found \cup ({delivered[r]} \X Willing(r))
    BY <1>10 DEF FilterUsers
  <2> QED BY <1>2, <1>3, <1>4, <1>5, <2>1, <2>2, <2>3 DEF TypeOK
<1> QED BY <1>6, <1>7, <1>8, <1>9, <1>10 DEF ContentStep

LEMMA SwitchTypes ==
    ASSUME TypeInv, NEW u \in Users, Switch(u)
    PROVE  TypeInv' /\ UNCHANGED <<userVars, messages, found, unqueued, redelivered>>
<1>1. UNCHANGED <<userVars, todo, copy, copies, messages, found, unqueued, redelivered>>
  BY DEF Switch
<1>2. UserTypeOK'
  BY <1>1 DEF TypeInv, TypeOK, UserTypeOK, ConsumerTypeOK, Queue!TasksTypeOK, userVars, consumerVars, tasks
<1>3. switches' \in 0..MaxSwitches
  BY MaxSwitchesIsNat DEF Switch, TypeInv, TypeOK
<1>4. muted' \subseteq everMuted' /\ everMuted' \subseteq Users
  BY DEF Switch, TypeInv, TypeOK
<1>5. HandOK'
  BY <1>1 DEF TypeInv, HandOK, At, Handles, userVars, consumerVars
<1> QED BY <1>1, <1>2, <1>3, <1>4, <1>5 DEF TypeInv, TypeOK

LEMMA HandlerKeepsHandOK ==
    ASSUME TypeInv, NEW r \in Replicas, HandlerMoves(r),
           \A q \in Replicas \ {r} : copy'[q] = copy[q],
           point'[r] = "queueing" => copy'[r] > 0
    PROVE  HandOK'
BY DEF TypeInv, HandOK, HandlerMoves, HandlerOnly, Stands, Handles, At

LEMMA NextHandOK ==
    ASSUME TypeInv, TypeOK', Next
    PROVE  HandOK'
<1>0. TypeOK /\ UserTypeOK /\ ConsumerTypeOK /\ HandOK
  BY DEF TypeInv, TypeOK, UserTypeOK
<1>1. ASSUME NEW r \in Replicas, ContentStep(r) PROVE HandOK'
  <2>1. HandlerMoves(r)
    BY <1>1, ContentMoves
  <2>2. \A q \in Replicas \ {r} : copy'[q] = copy[q]
    BY <1>0, <1>1 DEF ContentStep, FindUsers, PreferencesFail, FilterUsers, SaveNotification,
                      QueueForUser, TypeOK
  <2>3. point'[r] = "queueing" => copy'[r] > 0
    <3>1. ASSUME NEW ok \in BOOLEAN, FindUsers(r, ok) PROVE point'[r] # "queueing"
      BY <1>0, <3>1 DEF FindUsers, Succeed, Goto, ConsumerTypeOK
    <3>2. PreferencesFail(r) \/ FilterUsers(r) => point'[r] # "queueing"
      BY <1>0 DEF PreferencesFail, FilterUsers, FailAttempt, Succeed, Goto, ConsumerTypeOK
    <3>3. ASSUME NEW ok \in BOOLEAN, SaveNotification(r, ok), point'[r] = "queueing"
          PROVE  copy'[r] > 0
      <4>1. ok /\ copy' = [copy EXCEPT ![r] = copies[delivered[r]] + 1]
        BY <1>0, <3>3 DEF SaveNotification, FailAttempt, Goto, ConsumerTypeOK
      <4>2. delivered[r] \in Events
        BY <2>1, InHandOK DEF HandlerMoves, Stands
      <4>3. copies[delivered[r]] \in 0..MaxCopies
        BY <1>0, <4>2 DEF TypeOK
      <4>4. copy'[r] = copies[delivered[r]] + 1
        BY <1>0, <4>1 DEF TypeOK
      <4> QED BY <4>3, <4>4, MaxCopiesIsNat
    <3>4. ASSUME NEW u \in Users, NEW ok \in BOOLEAN, QueueForUser(r, u, ok)
          PROVE  copy'[r] > 0
      BY <1>0, <3>4 DEF QueueForUser, HandOK
    <3> QED BY <1>1, <3>1, <3>2, <3>3, <3>4 DEF ContentStep
  <2> QED BY <2>1, <2>2, <2>3, HandlerKeepsHandOK
<1>2. ASSUME UserNext, Follows PROVE HandOK'
  <2>1. \A q \in Replicas : delivered'[q] # 0 => copy'[q] = copy[q]
    BY <1>2, FollowsTypes DEF TypeOK
  <2>2. ASSUME NEW r \in Replicas, UserHandlerStep(r) PROVE HandOK'
    <3>1. HandlerMoves(r)
      BY <2>2, UserHandlerMoves
    <3>2. point'[r] # "queueing"
      BY <1>0, <2>2 DEF UserHandlerStep, FindForCreate, FindForUpdate, FindFails, SaveUser, UpdateUser,
                 EnqueueUpdate, NothingForNovu, Succeed, FailAttempt, Goto, ConsumerTypeOK
    <3> QED BY <1>0, <2>1, <3>1, <3>2 DEF HandOK, HandlerMoves, HandlerOnly, Stands, Handles, At
  <2>3. ASSUME NEW r \in Replicas, Receive(r) PROVE HandOK'
    <3>1. PICK e \in Events : Deliver(r, e)
      BY <2>3 DEF Receive
    <3>2. /\ \A q \in Replicas \ {r} : point'[q] = point[q] /\ delivered'[q] = delivered[q]
          /\ point'[r] \in {"burying", "handling", "acking"} /\ delivered'[r] = e /\ e # 0
      BY <1>0, <3>1, ConsumerAssumption DEF Deliver, Goto, ConsumerTypeOK
    <3> QED BY <1>0, <2>1, <3>2 DEF HandOK, Handles, At
  <2>4. ASSUME NEW r \in Replicas, Start(r) \/ Disconnect(r) PROVE HandOK'
    BY <1>0, <2>1, <2>4 DEF Start, Register, Disconnect, LoseConnection, progress, HandOK, Handles, At
  <2>5. ASSUME NEW r \in Replicas, Acknowledge(r) \/ Dies(r) PROVE HandOK'
    <3>1. /\ \A q \in Replicas \ {r} : point'[q] = point[q] /\ delivered'[q] = delivered[q]
          /\ \/ delivered'[r] = delivered[r] /\ point[r] = "burying" /\ point'[r] = "acking"
             \/ delivered'[r] = 0 /\ point'[r] = "idle"
      BY <1>0, <2>5 DEF Acknowledge, Bury, Ack, Dies, ConsumerDies, Goto, At, ConsumerTypeOK
    <3> QED BY <1>0, <2>1, <3>1 DEF HandOK, Handles, At
  <2>6. CASE TaskSettles
    BY <1>0, <2>1, <2>6 DEF TaskSettles, consumerVars, HandOK, Handles, At
  <2> QED BY <1>2, <2>2, <2>3, <2>4, <2>5, <2>6 DEF UserNext, UserConsumerStep, Crash, DiesDeaf
<1> QED BY <1>1, <1>2, SwitchTypes DEF Next, TypeInv

LEMMA InitTypeInv == Init => TypeInv
<1> SUFFICES ASSUME Init PROVE TypeInv
  OBVIOUS
<1>1. ConsumerTypeOK
  BY ConsumerAssumption DEF Init, UserInit, ConsumerInit, ConsumerTypeOK, ConsumerPoints
<1>2. Queue!TasksTypeOK
  BY DEF Init, UserInit, Queue!TasksInit, Queue!TasksTypeOK
<1>3. doc \in [Seeded -> Document]
  BY DEF Init, UserInit, Known, Document
<1>4. UserTypeOK
  BY <1>1, <1>2, <1>3 DEF Init, UserInit, Queue!TasksInit, UserTypeOK
<1>5. 0 \in 0..MaxCopies /\ 0 \in 0..MaxSwitches
  BY MaxCopiesIsNat, MaxSwitchesIsNat
<1>6. TypeOK
  BY <1>4, <1>5, ContentAssumption DEF Init, TypeOK
<1>7. HandOK
  BY DEF Init, UserInit, ConsumerInit, HandOK, At
<1> QED BY <1>6, <1>7 DEF TypeInv

LEMMA NextTypeInv == TypeInv /\ [Next]_vars => TypeInv'
<1>1. ASSUME TypeInv, UserNext, Follows PROVE TypeOK'
  BY <1>1, UserTypes, FollowsTypes
<1>2. ASSUME TypeInv, NEW r \in Replicas, ContentStep(r) PROVE TypeOK'
  BY <1>2, ContentTypes
<1>3. ASSUME TypeInv, UNCHANGED vars PROVE TypeInv'
  BY <1>3 DEF TypeInv, TypeOK, UserTypeOK, ConsumerTypeOK, Queue!TasksTypeOK, HandOK, At, Handles,
              vars, userVars, contentVars, switchVars, consumerVars, tasks
<1> QED BY <1>1, <1>2, <1>3, SwitchTypes, NextHandOK DEF Next, TypeInv

\* The consumer, the users and the notifications keep their types through every
\* interleaving of handlers, crashes and lost connections.
THEOREM EventTypes == Spec => []TypeOK
<1>1. TypeInv => TypeOK
  BY DEF TypeInv
<1> QED BY <1>1, InitTypeInv, NextTypeInv, PTL DEF Spec

-----------------------------------------------------------------------------
(* Who can acknowledge a message *)

Holds(r, e) == delivered[r] = e /\ r \notin deaf

\* There is one copy of a message that can be acknowledged: it waits, or a replica that
\* is connected has it in hand.  What a deaf replica has in hand was put back.
Owned ==
    /\ \A e \in Events :
         /\ e \in ready => e \notin acked /\ \A r \in Replicas : ~Holds(r, e)
         /\ \A r \in Replicas : Holds(r, e) => e \notin acked
         /\ \A r, q \in Replicas : Holds(r, e) /\ Holds(q, e) => r = q
    /\ \A r \in deaf : delivered[r] # 0 => delivered[r] \in redelivered

Quiet == UNCHANGED <<ready, delivered, deaf, acked, contended>>

\* The users whom an event finds in hand elsewhere.
Meets(r, e) == About(e) \cap UNION {About(delivered[p]) : p \in Replicas \ {r}}

\* What a step is to the broker.
LEMMA BrokerView ==
    ASSUME TypeInv, [Next]_vars
    PROVE  /\ redelivered' = redelivered \cup (ready' \ ready)
           /\ \/ Quiet
              \/ /\ doc' = doc
                 /\ \E r \in Replicas :
                      \/ \E e \in Events : Deliver(r, e) /\ contended' = contended \cup Meets(r, e)
                      \/ (Ack(r) \/ LoseConnection(r) \/ ConsumerDies(r)) /\ contended' = contended
<1>1. CASE UNCHANGED vars
  BY <1>1 DEF vars, userVars, contentVars, consumerVars, Quiet
<1>2. ASSUME NEW r \in Replicas, ContentStep(r) PROVE Quiet /\ redelivered' = redelivered
  <2>1. ContentOnly
    BY <1>2 DEF ContentStep, FindUsers, PreferencesFail, FilterUsers, SaveNotification, QueueForUser
  <2> QED BY <2>1 DEF ContentOnly, HandlerOnly, consumerHistory, Quiet
<1>3. CASE UserNext /\ Follows
  <2>1. redelivered' = redelivered \cup (ready' \ ready)
    BY <1>3 DEF Follows
  <2>2. ASSUME NEW r \in Replicas, UserHandlerStep(r) PROVE Quiet
    BY <2>2, UserHandlerMoves DEF HandlerMoves, HandlerOnly, consumerHistory, Quiet
  <2>3. ASSUME NEW r \in Replicas, Start(r) PROVE Quiet
    BY <2>3 DEF Start, Register, progress, consumerHistory, Quiet
  <2>4. ASSUME NEW r \in Replicas, Acknowledge(r)
        PROVE  Quiet \/ (Ack(r) /\ UNCHANGED <<doc, contended>>)
    BY <2>4 DEF Acknowledge, Bury, Quiet, Rest
  <2>5. ASSUME TaskSettles PROVE Quiet
    BY <2>5 DEF TaskSettles, consumerVars, Quiet
  <2>6. ASSUME NEW r \in Replicas, Receive(r)
        PROVE  doc' = doc /\ \E e \in Events : Deliver(r, e) /\ contended' = contended \cup Meets(r, e)
    BY <2>6 DEF Receive, Rest, Meets
  <2>7. ASSUME NEW r \in Replicas, Disconnect(r) \/ Crash(r) \/ DiesDeaf(r)
        PROVE  (LoseConnection(r) \/ ConsumerDies(r)) /\ UNCHANGED <<doc, contended>>
    BY <2>7 DEF Disconnect, Crash, DiesDeaf, Dies, Rest
  <2>8. \/ TaskSettles
        \/ \E r \in Replicas : \/ Start(r) \/ Receive(r) \/ Acknowledge(r) \/ UserHandlerStep(r)
                               \/ Disconnect(r) \/ Crash(r) \/ DiesDeaf(r)
    BY <1>3 DEF UserNext, UserConsumerStep
  <2> QED BY <2>1, <2>2, <2>3, <2>4, <2>5, <2>6, <2>7, <2>8
<1>4. Quiet /\ redelivered' = redelivered => redelivered' = redelivered \cup (ready' \ ready)
  BY DEF Quiet
<1>5. ASSUME NEW u \in Users, Switch(u) PROVE Quiet /\ redelivered' = redelivered
  BY <1>5, SwitchTypes DEF userVars, consumerVars, Quiet
<1> QED BY <1>1, <1>2, <1>3, <1>4, <1>5 DEF Next

LEMMA NextOwned ==
    ASSUME TypeInv, Owned, [Next]_vars
    PROVE  Owned'
<1>0. ConsumerTypeOK /\ redelivered' = redelivered \cup (ready' \ ready)
  BY BrokerView DEF TypeInv, TypeOK, UserTypeOK
<1>1. CASE Quiet
  BY <1>0, <1>1 DEF Quiet, Owned, Holds
<1>2. ASSUME NEW r \in Replicas, NEW e \in Events, Deliver(r, e) PROVE Owned'
  <2>1. /\ e \in ready /\ ready' = ready \ {e} /\ delivered[r] = 0 /\ r \notin deaf
        /\ delivered'[r] = e /\ \A q \in Replicas \ {r} : delivered'[q] = delivered[q]
        /\ UNCHANGED <<deaf, acked>>
    BY <1>0, <1>2 DEF Deliver, ConsumerTypeOK
  <2>2. \A q \in Replicas, f \in Events : Holds(q, f)' <=> Holds(q, f) \/ (q = r /\ f = e)
    BY <2>1, ConsumerAssumption DEF Holds
  <2>3. \A q \in deaf : delivered'[q] = delivered[q]
    BY <1>0, <2>1 DEF ConsumerTypeOK
  <2> QED BY <1>0, <2>1, <2>2, <2>3 DEF Owned
<1>3. ASSUME NEW r \in Replicas, Ack(r) PROVE Owned'
  <2>1. /\ r \notin deaf /\ acked' = acked \cup {delivered[r]} /\ UNCHANGED <<ready, deaf>>
        /\ delivered'[r] = 0 /\ \A q \in Replicas \ {r} : delivered'[q] = delivered[q]
    BY <1>0, <1>3 DEF Ack, ConsumerTypeOK
  <2>2. delivered[r] # 0
    BY <1>3 DEF Ack, At, TypeInv, HandOK
  <2> QED BY <1>0, <2>1, <2>2, ConsumerAssumption DEF Owned, Holds, ConsumerTypeOK
<1>4. ASSUME NEW r \in Replicas, LoseConnection(r) PROVE Owned'
  <2>1. /\ r \notin deaf /\ deaf' = deaf \cup {r} /\ UNCHANGED <<delivered, acked>>
        /\ ready' = ready \cup ({delivered[r]} \ {0})
    BY <1>4 DEF LoseConnection, Requeued, progress, consumerHistory
  <2>2. delivered[r] # 0 => delivered[r] \in Events /\ delivered[r] \notin ready
    BY <1>0, <2>1 DEF Owned, Holds, ConsumerTypeOK
  <2> QED BY <1>0, <2>1, <2>2, ConsumerAssumption DEF Owned, Holds
<1>5. ASSUME NEW r \in Replicas, ConsumerDies(r) PROVE Owned'
  <2>1. /\ deaf' = deaf \ {r} /\ acked' = acked
        /\ ready' = IF r \in deaf THEN ready ELSE ready \cup ({delivered[r]} \ {0})
        /\ delivered'[r] = 0 /\ \A q \in Replicas \ {r} : delivered'[q] = delivered[q]
    BY <1>0, <1>5 DEF ConsumerDies, Requeued, consumerHistory, ConsumerTypeOK
  <2> QED BY <1>0, <2>1, ConsumerAssumption DEF Owned, Holds, ConsumerTypeOK
<1> QED BY <1>1, <1>2, <1>3, <1>4, <1>5, BrokerView

-----------------------------------------------------------------------------
(* The document never goes back *)

\* Events of a user who is not contended are taken up in their order: what is in the
\* document is not later than what is in hand, and that is not later than what waits.
InOrder(u) ==
    /\ \A r, q \in Replicas : u \in About(delivered[r]) \cap About(delivered[q]) => r = q
    /\ \A r \in Replicas : u \in About(delivered[r]) =>
         /\ doc[u].data <= delivered[r]
         /\ \A e \in ready : u \in About(e) => delivered[r] <= e
    /\ \A e \in ready : u \in About(e) => doc[u].data <= e

OrderInv == \A u \in Seeded \ contended : InOrder(u)

\* Who writes to a document has an event of its user in hand and writes its number.
Writes(u) ==
    /\ Quiet
    /\ \E r \in Replicas : u \in About(delivered[r]) /\ doc'[u].data = delivered[r]

LEMMA DocumentChanges ==
    ASSUME TypeInv, [Next]_vars, NEW u \in Seeded
    PROVE  doc'[u].data = doc[u].data \/ Writes(u)
<1>0. doc \in [Seeded -> Document] /\ Seeded \subseteq Users
  BY UserAssumption DEF TypeInv, TypeOK, UserTypeOK
<1>1. ASSUME NEW r \in Replicas, UserHandlerStep(r), doc' # doc
      PROVE  \/ doc'[u] = doc[u]
             \/ Writes(u)
  <2>1. HandlerMoves(r) /\ Quiet /\ delivered[r] # 0
    BY <1>1, UserHandlerMoves DEF HandlerMoves, HandlerOnly, consumerHistory, Quiet, Stands
  <2>2. InHand(r) \in Users /\ delivered[r] \in Events
    BY <2>1, InHandOK
  <2>3. InHand(r) \in About(delivered[r]) /\ doc' = Written(InHand(r), delivered[r])
    <3>1. PICK outcome \in {"ok", "rejected", "unanswered"} : UpdateUser(r, outcome)
      BY <1>1 DEF UserHandlerStep, FindForCreate, FindForUpdate, FindFails, SaveUser, EnqueueUpdate,
                  NothingForNovu
    <3>2. Handles(r, Changes) /\ doc' = Written(InHand(r), delivered[r])
      BY <1>1, <3>1 DEF UpdateUser, TypeInv, HandOK, At, Handles, Changes
    <3>3. Handles(r, Changes) => InHand(r) \in About(delivered[r])
      BY <2>1 DEF Handles, Changes, About, InHand
    <3> QED BY <3>2, <3>3
  <2>4. CASE u # InHand(r)
    BY <1>0, <2>2, <2>3, <2>4 DEF Written, Exists
  <2>5. CASE u = InHand(r)
    <3>1. doc'[u].data = delivered[r]
      BY <1>0, <1>1, <2>2, <2>3, <2>5 DEF Written, Exists, Document
    <3> QED BY <2>1, <2>3, <2>5, <3>1 DEF Writes
  <2> QED BY <2>4, <2>5
<1>2. TaskSettles => doc' = doc
  BY DEF TaskSettles
<1>3. ASSUME NEW r \in Replicas, ContentStep(r) PROVE doc' = doc
  BY <1>3 DEF ContentStep, FindUsers, PreferencesFail, FilterUsers, SaveNotification, QueueForUser,
              ContentOnly
<1>4. ASSUME NEW r \in Replicas, Start(r) \/ Receive(r) \/ Acknowledge(r) \/ Disconnect(r) \/ Dies(r)
      PROVE  doc' = doc
  BY <1>4 DEF Start, Receive, Acknowledge, Disconnect, Dies, Rest
<1>5. UNCHANGED vars => doc' = doc
  BY DEF vars, userVars
<1>6. ASSUME NEW v \in Users, Switch(v) PROVE doc' = doc
  BY <1>6 DEF Switch, userVars
<1> QED BY <1>1, <1>2, <1>3, <1>4, <1>5, <1>6 DEF Next, UserNext, UserConsumerStep, Crash, DiesDeaf

LEMMA AboutUsers ==
    /\ About(0) = {}
    /\ \A e \in Events : About(e) \subseteq Users
BY UserAssumption DEF About

LEMMA DataIsNat ==
    ASSUME TypeInv
    PROVE  \A u \in Seeded : doc[u].data \in Nat
<1>1. doc \in [Seeded -> Document] /\ Events \cup {0} \subseteq Nat
  BY ConsumerAssumption DEF TypeInv, TypeOK, UserTypeOK
<1> QED BY <1>1 DEF Document

LEMMA NextOrder ==
    ASSUME TypeInv, OrderInv, [Next]_vars
    PROVE  OrderInv'
<1>0. /\ ConsumerTypeOK /\ doc \in [Seeded -> Document] /\ Events \cup {0} \subseteq Nat
      /\ contended \subseteq contended'
  BY BrokerView, ConsumerAssumption DEF TypeInv, TypeOK, UserTypeOK, Quiet
<1> SUFFICES ASSUME NEW u \in Seeded \ contended' PROVE InOrder(u)'
  BY DEF OrderInv
<1>1. InOrder(u) /\ doc[u].data \in Nat
  BY <1>0 DEF OrderInv, Document
<1>2. CASE Writes(u)
  BY <1>0, <1>1, <1>2 DEF Writes, Quiet, InOrder, ConsumerTypeOK
<1>3. CASE doc'[u].data = doc[u].data
  <2>1. CASE Quiet
    BY <1>1, <1>3, <2>1 DEF Quiet, InOrder
  <2>2. ASSUME NEW r \in Replicas, NEW e \in Events, Deliver(r, e), contended' = contended \cup Meets(r, e)
        PROVE  InOrder(u)'
    <3>1. /\ e \in ready /\ ready' = ready \ {e} /\ \A f \in ready : e <= f
          /\ delivered'[r] = e /\ \A q \in Replicas \ {r} : delivered'[q] = delivered[q]
      BY <1>0, <2>2 DEF Deliver, ConsumerTypeOK
    <3>2. u \in About(e) => \A q \in Replicas \ {r} : u \notin About(delivered[q])
      BY <2>2 DEF Meets
    <3> QED BY <1>1, <1>3, <3>1, <3>2 DEF InOrder
  <2>3. ASSUME NEW r \in Replicas, Ack(r) \/ LoseConnection(r) \/ ConsumerDies(r)
        PROVE  InOrder(u)'
    <3>1. /\ ready' \subseteq ready \cup {delivered[r]}
          /\ \A q \in Replicas \ {r} : delivered'[q] = delivered[q]
          /\ delivered'[r] \in {delivered[r], 0}
      BY <1>0, <2>3 DEF Ack, LoseConnection, ConsumerDies, Requeued, progress, ConsumerTypeOK
    <3>2. delivered[r] \in Nat
      BY <1>0 DEF ConsumerTypeOK
    <3> QED BY <1>1, <1>3, <3>1, <3>2, AboutUsers DEF InOrder
  <2> QED BY <2>1, <2>2, <2>3, BrokerView
<1> QED BY <1>2, <1>3, DocumentChanges

LEMMA InitOrder == Init => OrderInv
<1> SUFFICES ASSUME Init, NEW u \in Seeded PROVE InOrder(u)
  BY DEF OrderInv
<1>1. doc[u].data = 0 /\ ready \subseteq Nat /\ \A r \in Replicas : delivered[r] = 0
  BY ConsumerAssumption DEF Init, UserInit, ConsumerInit, Known
<1>2. ASSUME NEW e \in ready PROVE doc[u].data <= e
  <2>1. e \in Nat
    BY <1>1
  <2>2. 0 <= e
    BY <2>1
  <2> QED BY <1>1, <2>2
<1>3. \A r \in Replicas : About(delivered[r]) = {}
  BY <1>1, AboutUsers
<1>4. \A r \in Replicas : u \notin About(delivered[r])
  BY <1>3
<1> QED BY <1>2, <1>4 DEF InOrder

\* However often events are redelivered and to whichever replica, a document never goes
\* back to what an earlier event said, unless two replicas had the user in hand.
THEOREM DocumentsNeverGoBack == Spec => DocumentNeverBackwards
<1>1. TypeInv /\ OrderInv /\ [Next]_vars =>
        [\A u \in DOMAIN doc : doc'[u].data >= doc[u].data \/ u \in contended]_userVars
  <2> SUFFICES ASSUME TypeInv, OrderInv, [Next]_vars, NEW u \in Seeded \ contended
               PROVE  doc'[u].data >= doc[u].data
    BY DEF TypeInv, TypeOK, UserTypeOK
  <2>1. InOrder(u)
    BY DEF OrderInv
  <2> QED BY <2>1, DataIsNat, DocumentChanges DEF Writes, InOrder
<1>2. TypeInv /\ OrderInv /\ [Next]_vars => OrderInv'
  BY NextOrder
<1> QED BY <1>1, <1>2, InitTypeInv, NextTypeInv, InitOrder, PTL DEF Spec, DocumentNeverBackwards

-----------------------------------------------------------------------------
(* What a step is to one replica and to the histories *)

Same(q) == delivered'[q] = delivered[q] /\ point'[q] = point[q] /\ todo'[q] = todo[q]

LEMMA ContentSteps ==
    ASSUME TypeInv, NEW r \in Replicas, ContentStep(r)
    PROVE  /\ ContentOnly
           /\ \A q \in Replicas \ {r} : todo'[q] = todo[q]
           /\ messages \subseteq messages' /\ unqueued \subseteq unqueued'
<1> USE DEF ContentOnly
<1>0. todo \in [Replicas -> SUBSET Users]
  BY DEF TypeInv, TypeOK
<1>1. ASSUME NEW ok \in BOOLEAN, FindUsers(r, ok)
      PROVE  /\ ContentOnly /\ \A q \in Replicas \ {r} : todo'[q] = todo[q]
             /\ UNCHANGED <<messages, unqueued>>
  <2>1. ContentOnly /\ (\E S : todo' = [todo EXCEPT ![r] = S])
    BY <1>1 DEF FindUsers
  <2>2. UNCHANGED <<messages, unqueued>>
    BY <1>1 DEF FindUsers
  <2> QED BY <1>0, <2>1, <2>2
<1>2. CASE PreferencesFail(r) \/ FilterUsers(r)
  <2>1. PreferencesFail(r) => ContentOnly /\ UNCHANGED <<todo, messages, unqueued>>
    BY DEF PreferencesFail
  <2>2. FilterUsers(r) => /\ ContentOnly /\ todo' = [todo EXCEPT ![r] = Willing(r)]
                         /\ UNCHANGED <<messages, unqueued>>
    BY DEF FilterUsers
  <2> QED BY <1>0, <1>2, <2>1, <2>2
<1>3. ASSUME NEW ok \in BOOLEAN, SaveNotification(r, ok)
      PROVE  ContentOnly /\ UNCHANGED <<todo, messages, unqueued>>
  BY <1>3 DEF SaveNotification
<1>4. ASSUME NEW u \in Users, NEW ok \in BOOLEAN, QueueForUser(r, u, ok)
      PROVE  /\ ContentOnly /\ \A q \in Replicas \ {r} : todo'[q] = todo[q]
             /\ messages \subseteq messages' /\ unqueued \subseteq unqueued'
  BY <1>0, <1>4 DEF QueueForUser
<1> QED BY <1>1, <1>2, <1>3, <1>4 DEF ContentStep

\* A replica that has a message in hand after a step kept it, went on with it or received it.
LEMMA Moves ==
    ASSUME TypeInv, [Next]_vars, NEW q \in Replicas, delivered'[q] # 0
    PROVE  \/ Same(q)
           \/ UserHandlerStep(q) /\ Follows
           \/ ContentStep(q)
           \/ \E e \in Events : Deliver(q, e) /\ delivered'[q] = e
           \/ Bury(q) /\ delivered' = delivered /\ point'[q] = "acking"
<1>0. ConsumerTypeOK
  BY DEF TypeInv, TypeOK, UserTypeOK
<1>1. CASE UNCHANGED vars
  BY <1>1 DEF vars, userVars, contentVars, consumerVars, Same
<1>2. ASSUME NEW r \in Replicas \ {q}, ContentStep(r) PROVE Same(q)
  <2>1. HandlerMoves(r)
    BY <1>2, ContentMoves
  <2>2. todo'[q] = todo[q]
    BY <1>2, ContentSteps
  <2> QED BY <2>1, <2>2 DEF HandlerMoves, HandlerOnly, Same
<1>3. ASSUME UserNext, Follows
      PROVE  \/ Same(q)
             \/ UserHandlerStep(q)
             \/ \E e \in Events : Deliver(q, e) /\ delivered'[q] = e
             \/ Bury(q) /\ delivered' = delivered /\ point'[q] = "acking"
  <2>1. todo'[q] = todo[q]
    BY <1>3 DEF Follows
  <2>2. ASSUME NEW r \in Replicas \ {q}, UserHandlerStep(r) PROVE Same(q)
    BY <2>1, <2>2, UserHandlerMoves DEF HandlerMoves, HandlerOnly, Same
  <2>3. CASE TaskSettles \/ \E r \in Replicas : Start(r) \/ Disconnect(r)
    BY <2>1, <2>3 DEF TaskSettles, consumerVars, Start, Register, Disconnect, LoseConnection, progress, Same
  <2>4. ASSUME NEW r \in Replicas, Receive(r) \/ Acknowledge(r) \/ Dies(r)
        PROVE  \/ Same(q)
               \/ \E e \in Events : Deliver(q, e) /\ delivered'[q] = e
               \/ Bury(q) /\ delivered' = delivered /\ point'[q] = "acking"
    <3>1. CASE Receive(r)
      <4>1. PICK e \in Events : Deliver(r, e)
        BY <3>1 DEF Receive
      <4>2. /\ delivered'[r] = e
            /\ r # q => delivered'[q] = delivered[q] /\ point'[q] = point[q]
        BY <1>0, <4>1 DEF Deliver, Goto, ConsumerTypeOK
      <4> QED BY <2>1, <4>1, <4>2 DEF Same
    <3>2. CASE Acknowledge(r)
      BY <1>0, <2>1, <3>2 DEF Acknowledge, Bury, Ack, Goto, Same, ConsumerTypeOK
    <3>3. CASE Dies(r)
      BY <1>0, <2>1, <3>3 DEF Dies, ConsumerDies, Goto, Same, ConsumerTypeOK
    <3> QED BY <2>4, <3>1, <3>2, <3>3
  <2>5. \/ TaskSettles
        \/ \E r \in Replicas : \/ Start(r) \/ Receive(r) \/ Acknowledge(r) \/ UserHandlerStep(r)
                               \/ Disconnect(r) \/ Dies(r)
    BY <1>3 DEF UserNext, UserConsumerStep, Crash, DiesDeaf
  <2> QED BY <2>2, <2>3, <2>4, <2>5
<1>4. ASSUME NEW u \in Users, Switch(u) PROVE Same(q)
  BY <1>4 DEF Switch, userVars, consumerVars, Same
<1> QED BY <1>1, <1>2, <1>3, <1>4 DEF Next

\* Histories only grow, and only messages in hand are acknowledged.
LEMMA Histories ==
    ASSUME TypeInv, [Next]_vars
    PROVE  /\ early \subseteq early' /\ buried \subseteq buried' /\ contended \subseteq contended'
           /\ messages \subseteq messages' /\ unqueued \subseteq unqueued'
           /\ everMuted \subseteq everMuted'
           /\ acked' = acked \/ \E r \in Replicas : Ack(r) /\ acked' = acked \cup {delivered[r]}
<1> USE DEF switchVars
<1>1. CASE UNCHANGED vars
  BY <1>1 DEF vars, userVars, contentVars, consumerVars
<1>2. ASSUME NEW r \in Replicas, ContentStep(r)
      PROVE  /\ UNCHANGED <<early, buried, contended, acked, everMuted>>
             /\ messages \subseteq messages' /\ unqueued \subseteq unqueued'
  BY <1>2, ContentSteps DEF ContentOnly, HandlerOnly, consumerHistory
<1>3. ASSUME NEW r \in Replicas, UserHandlerStep(r) PROVE UNCHANGED <<early, buried, contended, acked>>
  BY <1>3, UserHandlerMoves DEF HandlerMoves, HandlerOnly, consumerHistory
<1>4. ASSUME NEW r \in Replicas, Start(r) \/ Receive(r) \/ Disconnect(r) \/ Dies(r)
      PROVE  /\ early \subseteq early' /\ contended \subseteq contended'
             /\ UNCHANGED <<buried, acked>>
  BY <1>4 DEF Start, Register, Receive, Deliver, Disconnect, LoseConnection, Dies, ConsumerDies,
              consumerHistory
<1>5. ASSUME NEW r \in Replicas, Acknowledge(r)
      PROVE  /\ UNCHANGED <<early, contended>> /\ buried \subseteq buried'
             /\ acked' = acked \/ (Ack(r) /\ acked' = acked \cup {delivered[r]})
  BY <1>5 DEF Acknowledge, Bury, Ack
<1>6. TaskSettles => UNCHANGED <<early, buried, contended, acked>>
  BY DEF TaskSettles, consumerVars
<1>7. Follows => UNCHANGED <<messages, unqueued, everMuted>>
  BY DEF Follows
<1>8. ASSUME NEW u \in Users, Switch(u)
      PROVE  UNCHANGED <<early, buried, contended, acked, messages, unqueued>> /\ everMuted \subseteq everMuted'
  BY <1>8 DEF Switch, userVars, consumerVars
<1> QED BY <1>1, <1>2, <1>3, <1>4, <1>5, <1>6, <1>7, <1>8
        DEF Next, UserNext, UserConsumerStep, Crash, DiesDeaf

-----------------------------------------------------------------------------
(* An acknowledged update has left its task *)

Enqueued(e) == \E t \in DOMAIN cause : cause[t] = e

\* The task comes before the acknowledgement.
TaskInv ==
    /\ AckedUpdateIsEnqueued
    /\ \A r \in Replicas : At(r, "acking") /\ Due(delivered[r]) => Enqueued(delivered[r])

LEMMA EnqueuedStays ==
    ASSUME TypeInv, [Next]_vars
    PROVE  /\ CauseGrows
           /\ \A e \in Events : Enqueued(e) => Enqueued(e)'
<1>1. ASSUME NEW r \in Replicas, UserHandlerStep(r) PROVE CauseGrows
  <2>1. UserTypeOK
    BY DEF TypeInv, TypeOK
  <2> QED BY <1>1, <2>1, HandlerTasks, EnqueueGrows DEF NoTask, CauseGrows
<1>2. cause' = cause => CauseGrows
  BY DEF CauseGrows
<1>3. ASSUME NEW r \in Replicas, ContentStep(r) PROVE cause' = cause
  BY <1>3, ContentSteps DEF ContentOnly, NoTask
<1>4. ASSUME NEW r \in Replicas, Start(r) \/ Receive(r) \/ Acknowledge(r) \/ Disconnect(r) \/ Dies(r)
      PROVE  cause' = cause
  BY <1>4 DEF Start, Receive, Acknowledge, Disconnect, Dies, Rest, NoTask
<1>5. TaskSettles \/ UNCHANGED vars \/ (\E u \in Users : Switch(u)) => cause' = cause
  BY DEF TaskSettles, vars, userVars, Switch
<1>6. CauseGrows
  BY <1>1, <1>2, <1>3, <1>4, <1>5 DEF Next, UserNext, UserConsumerStep, Crash, DiesDeaf
<1> QED BY <1>6 DEF CauseGrows, Enqueued

LEMMA DueBefore ==
    ASSUME TypeInv, TypeInv', [Next]_vars, NEW e \in Events, Due(e)'
    PROVE  Due(e)
<1>1. DOMAIN doc' = DOMAIN doc
  BY DEF TypeInv, TypeOK, UserTypeOK
<1> QED BY <1>1, Histories DEF Due, Exists

\* A handler of an update that Novu is to hear of returns only after it enqueued the task.
LEMMA UpdateMoves ==
    ASSUME TypeInv, NEW r \in Replicas, UserHandlerStep(r), Due(delivered[r]), point'[r] = "acking"
    PROVE  Enqueued(delivered[r])'
<1>0. /\ point \in [Replicas -> ConsumerPoints] /\ Kind[delivered[r]] = "updated"
      /\ delivered[r] \in ForNovu /\ Exists(InHand(r)) /\ UserTypeOK
  BY DEF TypeInv, TypeOK, UserTypeOK, ConsumerTypeOK, Due, InHand
<1>1. ~FailAttempt(r)
  BY <1>0 DEF FailAttempt, Goto
<1>2. ~FindForCreate(r) /\ ~SaveUser(r) /\ ~FindFails(r) /\ ~NothingForNovu(r)
  BY <1>0, <1>1 DEF FindForCreate, SaveUser, FindFails, NothingForNovu, Handles
<1>3. ~FindForUpdate(r)
  BY <1>0 DEF FindForUpdate, Goto
<1>4. ASSUME NEW outcome \in {"ok", "rejected", "unanswered"}, UpdateUser(r, outcome) PROVE FALSE
  <2>1. At(r, "updating")
    BY <1>0, <1>4 DEF UpdateUser, Handles
  <2>2. outcome = "ok"
    BY <1>1, <1>4 DEF UpdateUser
  <2>3. Goto(r, "updated")
    BY <1>0, <1>4, <2>1, <2>2 DEF UpdateUser
  <2> QED BY <1>0, <2>3 DEF Goto
<1>5. CASE EnqueueUpdate(r)
  <2>1. delivered' = delivered
    BY <1>5 DEF EnqueueUpdate, HandlerOnly
  <2>2. ~NoTask
    <3>1. cause' = Append(cause, delivered[r]) /\ cause \in Seq(Events) /\ delivered[r] \in Events
      BY <1>0, <1>5, InHandOK DEF EnqueueUpdate, UserTypeOK, TypeInv, HandOK, At, Handles
    <3>2. Len(cause') = Len(cause) + 1 /\ Len(cause) \in Nat
      BY <3>1, AppendProperties, LenProperties
    <3> QED BY <3>2 DEF NoTask
  <2> QED BY <1>0, <2>1, <2>2, HandlerTasks, EnqueueGrows DEF Enqueued
<1> QED BY <1>2, <1>3, <1>4, <1>5 DEF UserHandlerStep

LEMMA NextTaskInv ==
    ASSUME TypeInv, TypeInv', TaskInv, [Next]_vars
    PROVE  TaskInv'
<1>1. ASSUME NEW r \in Replicas, point'[r] = "acking", Due(delivered[r])'
      PROVE  Enqueued(delivered[r])'
  <2>0. delivered'[r] # 0 /\ delivered'[r] \in Events
    BY <1>1 DEF TypeInv, HandOK, At, TypeOK, UserTypeOK, ConsumerTypeOK
  <2> DEFINE e == delivered'[r]
  <2>1. Due(e)
    BY <1>1, <2>0, DueBefore DEF Due, Exists
  <2>2. CASE Same(r)
    BY <1>1, <2>0, <2>1, <2>2, EnqueuedStays DEF Same, TaskInv, At, Enqueued
  <2>3. CASE UserHandlerStep(r)
    <3>1. delivered' = delivered
      BY <2>3, UserHandlerMoves DEF HandlerMoves, HandlerOnly
    <3> QED BY <1>1, <2>1, <2>3, <3>1, UpdateMoves DEF Enqueued
  <2>4. ~ContentStep(r)
    BY <2>1, ContentMoves DEF HandlerMoves, HandlerOnly, ContentStep, FindUsers, PreferencesFail,
       FilterUsers, SaveNotification, QueueForUser, TypeInv, HandOK, At, Handles, Due
  <2>5. ASSUME NEW f \in Events, Deliver(r, f), delivered'[r] = f PROVE FALSE
    <3>1. f \in early'
      BY <1>1, <2>5 DEF Deliver, Goto, TypeInv, TypeOK, UserTypeOK, ConsumerTypeOK
    <3> QED BY <1>1, <2>5, <3>1 DEF Due
  <2>6. ASSUME Bury(r), delivered' = delivered PROVE FALSE
    BY <1>1, <2>6 DEF Bury, Due
  <2> QED BY <2>0, <2>2, <2>3, <2>4, <2>5, <2>6, Moves
<1>2. ASSUME NEW e \in acked', Due(e)' PROVE Enqueued(e)'
  <2>0. e \in Events
    BY DEF TypeInv, TypeOK, UserTypeOK, ConsumerTypeOK
  <2>1. Due(e)
    BY <1>2, <2>0, DueBefore
  <2>2. Enqueued(e)
    <3>1. CASE e \in acked
      BY <2>1, <3>1 DEF TaskInv, AckedUpdateIsEnqueued, Enqueued
    <3>2. ASSUME NEW r \in Replicas, Ack(r), e = delivered[r] PROVE Enqueued(e)
      BY <2>1, <3>2 DEF Ack, TaskInv
    <3> QED BY <3>1, <3>2, Histories
  <2> QED BY <2>0, <2>2, EnqueuedStays
<1> QED BY <1>1, <1>2 DEF TaskInv, AckedUpdateIsEnqueued, Enqueued, At

\* Whichever call of the handler fails, wherever a process dies and however often the
\* event is redelivered: an acknowledged update has left a task for Novu.
THEOREM AcknowledgedUpdatesAreEnqueued == Spec => []AckedUpdateIsEnqueued
<1>1. Init => TaskInv
  BY DEF Init, UserInit, ConsumerInit, TaskInv, AckedUpdateIsEnqueued, At
<1>2. TypeInv /\ TypeInv' /\ TaskInv /\ [Next]_vars => TaskInv'
  BY NextTaskInv
<1>3. TaskInv => AckedUpdateIsEnqueued
  BY DEF TaskInv
<1> QED BY <1>1, <1>2, <1>3, InitTypeInv, NextTypeInv, PTL DEF Spec

-----------------------------------------------------------------------------
(* One message of an event for each user *)

\* A user whose message is queued is no longer to do, and the event is not delivered
\* again unless it was put back.
Once ==
    \A m \in messages : m.event \notin redelivered =>
        /\ m.event \notin ready
        /\ \A r \in Replicas : delivered[r] = m.event =>
             At(r, "acking") \/ (At(r, "queueing") /\ m.user \notin todo[r])

LEMMA HandlersAt ==
    ASSUME TypeInv, NEW r \in Replicas
    PROVE  /\ UserHandlerStep(r) =>
                /\ point[r] \in {"handling", "saving", "updating", "updated"}
                /\ ~Handles(r, {"content"})
           /\ ContentStep(r) =>
                \/ /\ point[r] \in {"handling", "reading preferences", "saving notification"}
                   /\ UNCHANGED <<messages, unqueued>>
                \/ \E u \in Users, ok \in BOOLEAN : QueueForUser(r, u, ok)
<1>1. ASSUME UserHandlerStep(r)
      PROVE  /\ point[r] \in {"handling", "saving", "updating", "updated"}
             /\ ~Handles(r, {"content"})
  BY <1>1 DEF UserHandlerStep, FindForCreate, FindForUpdate, FindFails, SaveUser, UpdateUser,
              EnqueueUpdate, NothingForNovu, At, TypeInv, HandOK, Handles
<1>2. ASSUME NEW ok \in BOOLEAN, FindUsers(r, ok) \/ SaveNotification(r, ok)
      PROVE  point[r] \in {"handling", "saving notification"} /\ UNCHANGED <<messages, unqueued>>
  BY <1>2 DEF FindUsers, SaveNotification, At
<1>3. PreferencesFail(r) \/ FilterUsers(r) => At(r, "reading preferences") /\ UNCHANGED <<messages, unqueued>>
  BY DEF PreferencesFail, FilterUsers
<1> QED BY <1>1, <1>2, <1>3 DEF ContentStep, At

\* One turn of the loop that queues: the user is no longer to do, and has a message or
\* is known to lack it.
LEMMA QueueingMoves ==
    ASSUME TypeInv, NEW r \in Replicas, NEW u \in Users, NEW ok \in BOOLEAN, QueueForUser(r, u, ok)
    PROVE  /\ Quiet /\ UNCHANGED <<found, early, buried, redelivered>> /\ delivered[r] \in Events
           /\ At(r, "queueing") /\ Kind[delivered[r]] = "content" /\ u \in todo[r] /\ (ok => r \notin deaf)
           /\ todo'[r] = todo[r] \ {u} /\ \A q \in Replicas \ {r} : todo'[q] = todo[q]
           /\ \/ point'[r] = "queueing"
              \/ point'[r] = "acking" /\ todo'[r] = {}
           /\ \A q \in Replicas \ {r} : point'[q] = point[q]
           /\ IF ok THEN /\ messages' = messages \cup
                               {[event |-> delivered[r], copy |-> copy[r], user |-> u]}
                         /\ UNCHANGED unqueued
                    ELSE /\ unqueued' = unqueued \cup {<<delivered[r], u>>}
                         /\ UNCHANGED messages
<1>1. At(r, "queueing") /\ u \in todo[r] /\ (ok => r \notin deaf)
  BY DEF QueueForUser
<1>2. Handles(r, {"content"}) /\ delivered[r] \in Events
  BY <1>1, InHandOK DEF TypeInv, HandOK, At, Handles
<1>3. UNCHANGED <<ready, delivered, deaf, acked, early, buried, contended, redelivered, found>>
  BY DEF QueueForUser, ContentOnly, HandlerOnly, consumerHistory
<1>4. todo'[r] = todo[r] \ {u} /\ \A q \in Replicas \ {r} : todo'[q] = todo[q]
  <2>1. todo' = [todo EXCEPT ![r] = todo[r] \ {u}]
    BY DEF QueueForUser, Left
  <2> QED BY <2>1 DEF TypeInv, TypeOK
<1>5. /\ \A q \in Replicas \ {r} : point'[q] = point[q]
      /\ \/ point'[r] = "queueing"
         \/ point'[r] = "acking" /\ todo'[r] = {}
  <2>1. \/ Succeed(r) /\ todo[r] \ {u} = {}
        \/ point' = point
    BY DEF QueueForUser, AfterUser, Left
  <2> QED BY <1>1, <1>4, <2>1 DEF Succeed, Goto, At, TypeInv, TypeOK, UserTypeOK, ConsumerTypeOK
<1>6. IF ok THEN /\ messages' = messages \cup
                               {[event |-> delivered[r], copy |-> copy[r], user |-> u]}
                 /\ UNCHANGED unqueued
            ELSE /\ unqueued' = unqueued \cup {<<delivered[r], u>>}
                 /\ UNCHANGED messages
  BY DEF QueueForUser
<1> QED BY <1>1, <1>2, <1>3, <1>4, <1>5, <1>6 DEF Quiet, Handles

LEMMA NextOnce ==
    ASSUME TypeInv, Owned, Once, OneMessagePerUser, [Next]_vars
    PROVE  Once' /\ OneMessagePerUser'
<1>1. redelivered' = redelivered \cup (ready' \ ready)
  BY BrokerView
<1>2. ASSUME NEW r \in Replicas, NEW u \in Users, NEW ok \in BOOLEAN, QueueForUser(r, u, ok)
      PROVE  Once' /\ OneMessagePerUser'
  <2> DEFINE e == delivered[r]
             new == [event |-> e, copy |-> copy[r], user |-> u]
  <2>1. /\ UNCHANGED <<ready, delivered, redelivered>> /\ messages' \subseteq messages \cup {new}
        /\ e \in Events /\ new.event = e /\ new.user = u /\ At(r, "queueing") /\ u \in todo[r]
        /\ messages' = messages \/ r \notin deaf
        /\ todo'[r] = todo[r] \ {u} /\ point'[r] \in {"queueing", "acking"}
        /\ \A q \in Replicas \ {r} : point'[q] = point[q] /\ todo'[q] = todo[q]
    BY <1>2, QueueingMoves DEF Quiet
  <2> HIDE DEF new
  <2>2. ASSUME messages' # messages, e \notin redelivered
        PROVE  e \notin ready /\ \A q \in Replicas : delivered[q] = e => q = r
    <3>1. Holds(r, e)
      BY <2>1, <2>2 DEF Holds
    <3>2. \A q \in Replicas : delivered[q] = e => Holds(q, e)
      BY <2>1, <2>2, ConsumerAssumption DEF Owned, Holds
    <3> QED BY <2>1, <3>1, <3>2 DEF Owned
  <2>3. Once'
    BY <2>1, <2>2 DEF Once, At
  <2>4. \A m \in messages : m.event = e /\ m.user = u => m.event \in redelivered
    BY <2>1 DEF Once, At
  <2> QED BY <2>1, <2>3, <2>4 DEF OneMessagePerUser
<1>3. ASSUME messages' = messages, \A r \in Replicas : ContentStep(r) => point[r] \notin {"queueing", "acking"}
      PROVE  Once' /\ OneMessagePerUser'
  <2>1. ASSUME NEW m \in messages, m.event \notin redelivered', NEW r \in Replicas, delivered'[r] = m.event
        PROVE  (At(r, "acking") \/ (At(r, "queueing") /\ m.user \notin todo[r]))'
    <3>1. delivered'[r] # 0
      BY <2>1, ConsumerAssumption DEF TypeInv, TypeOK, Message
    <3>2. /\ m.event \notin ready
          /\ delivered[r] = m.event => At(r, "acking") \/ (At(r, "queueing") /\ m.user \notin todo[r])
      BY <1>1, <2>1 DEF Once
    <3>3. CASE Same(r)
      BY <2>1, <3>2, <3>3 DEF Same, At
    <3>4. CASE UserHandlerStep(r) \/ ContentStep(r)
      <4>1. delivered' = delivered
        BY <3>4, UserHandlerMoves, ContentMoves DEF HandlerMoves, HandlerOnly
      <4>2. point[r] \notin {"queueing", "acking"}
        BY <1>3, <3>4, HandlersAt
      <4> QED BY <2>1, <3>2, <4>1, <4>2 DEF At
    <3>5. ASSUME NEW e \in Events, Deliver(r, e), delivered'[r] = e PROVE FALSE
      BY <2>1, <3>2, <3>5 DEF Deliver
    <3>6. CASE Bury(r) /\ point'[r] = "acking"
      BY <3>6 DEF At
    <3> QED BY <3>1, <3>3, <3>4, <3>5, <3>6, Moves
  <2> QED BY <1>1, <1>3, <2>1 DEF Once, OneMessagePerUser
<1>4. \/ \E r \in Replicas, u \in Users, ok \in BOOLEAN : QueueForUser(r, u, ok)
      \/ /\ messages' = messages
         /\ \A r \in Replicas : ContentStep(r) => point[r] \notin {"queueing", "acking"}
  <2>1. messages' = messages \/ \E r \in Replicas : ContentStep(r)
    BY DEF Next, Follows, Switch, vars, contentVars
  <2> QED BY <2>1, HandlersAt
<1> QED BY <1>2, <1>3, <1>4

LEMMA InitOwned == Init => Owned
BY ConsumerAssumption DEF Init, UserInit, ConsumerInit, Owned, Holds

\* However often a handler's attempts fail, and wherever, it does not give a user a
\* second message of an event: only a redelivery can.
THEOREM OneMessageForEachUser == Spec => []OneMessagePerUser
<1>1. Init => Once /\ OneMessagePerUser
  BY DEF Init, Once, OneMessagePerUser
<1>2. TypeInv /\ Owned /\ Once /\ OneMessagePerUser /\ [Next]_vars => Once' /\ OneMessagePerUser'
  BY NextOnce
<1>3. TypeInv /\ Owned /\ [Next]_vars => Owned'
  BY NextOwned
<1> QED BY <1>1, <1>2, <1>3, InitTypeInv, NextTypeInv, InitOwned, PTL DEF Spec

-----------------------------------------------------------------------------
(* An acknowledged publication has left its messages *)

Covered(e, u) ==
    \/ <<e, u>> \in unqueued
    \/ \E m \in messages : m.event = e /\ m.user = u

\* Named, and willing at all times or overridden.
Pledged(e, u) == u \in Named[e] /\ (u \notin everMuted \/ e \in Overriding)

Wanted(e, u) == Pledged(e, u) \/ <<e, u>> \in found

LEMMA MeantIsWanted ==
    ASSUME NEW e \in Events, NEW u
    PROVE  u \in Meant(e) <=> u \in Users /\ Wanted(e, u)
<1>1. Named[e] \subseteq Users
  BY ContentAssumption
<1> QED BY <1>1 DEF Meant, Wanted, Pledged

\* What the handler that can acknowledge an event has found is done or to do.  Between
\* the lookup and the filter nothing is found yet.
Progress ==
    \A r \in Replicas, e \in Events, u \in Users :
        Holds(r, e) /\ Kind[e] = "content" /\ Wanted(e, u) =>
            /\ At(r, "reading preferences") => u \in todo[r] /\ <<e, u>> \notin found
            /\ point[r] \in {"saving notification", "queueing"} => u \in todo[r] \/ Covered(e, u)
            /\ At(r, "acking") => e \in early \cup buried \/ Covered(e, u)

LEMMA StaysCovered ==
    ASSUME TypeInv, [Next]_vars, NEW e \in Events, NEW u \in Users, Covered(e, u)
    PROVE  Covered(e, u)'
BY Histories DEF Covered

\* More is wanted only while the replica that can acknowledge the event looks.
LEMMA FoundMoves ==
    ASSUME TypeInv, [Next]_vars, NEW e \in Events
    PROVE  \/ \A u \in Users : /\ Wanted(e, u)' => Wanted(e, u)
                               /\ <<e, u>> \in found' => <<e, u>> \in found
           \/ \E r \in Replicas : /\ Holds(r, e) /\ ContentStep(r)
                                  /\ point[r] \in {"handling", "reading preferences"}
<1>1. ASSUME NEW r \in Replicas, NEW ok \in BOOLEAN, FindUsers(r, ok)
      PROVE  found' \subseteq found
  BY <1>1 DEF FindUsers
<1>2. ASSUME NEW r \in Replicas, FilterUsers(r), delivered[r] # e \/ r \in deaf
      PROVE  \A u \in Users : <<e, u>> \in found' => <<e, u>> \in found
  BY <1>2 DEF FilterUsers
<1>3. ASSUME NEW r \in Replicas, FilterUsers(r), delivered[r] = e, r \notin deaf
      PROVE  Holds(r, e) /\ At(r, "reading preferences")
  BY <1>3 DEF FilterUsers, Holds
<1>4. \/ found' = found
      \/ \E r \in Replicas, ok \in BOOLEAN : FindUsers(r, ok)
      \/ \E r \in Replicas : FilterUsers(r)
  <2>1. ASSUME NEW r \in Replicas, ContentStep(r)
        PROVE  \/ found' = found
               \/ \E ok \in BOOLEAN : FindUsers(r, ok)
               \/ FilterUsers(r)
    BY <2>1 DEF ContentStep, PreferencesFail, SaveNotification, QueueForUser
  <2> QED BY <2>1 DEF Next, Follows, Switch, vars, contentVars
<1>5. \A u \in Users : (<<e, u>> \in found' => <<e, u>> \in found) => (Wanted(e, u)' => Wanted(e, u))
  BY Histories DEF Wanted, Pledged
<1> QED BY <1>1, <1>2, <1>3, <1>4, <1>5 DEF ContentStep, At

LEMMA HeldBefore ==
    ASSUME TypeInv, [Next]_vars, NEW r \in Replicas, delivered'[r] # 0, r \notin deaf'
    PROVE  r \notin deaf
<1>0. ConsumerTypeOK
  BY DEF TypeInv, TypeOK, UserTypeOK
<1>1. CASE Quiet
  BY <1>1 DEF Quiet
<1>2. ASSUME NEW q \in Replicas, NEW e \in Events, Deliver(q, e) PROVE r \notin deaf
  BY <1>2 DEF Deliver
<1>3. ASSUME NEW q \in Replicas, Ack(q) \/ LoseConnection(q) \/ ConsumerDies(q) PROVE r \notin deaf
  BY <1>0, <1>3 DEF Ack, LoseConnection, ConsumerDies, ConsumerTypeOK
<1> QED BY <1>1, <1>2, <1>3, BrokerView

\* The lookup starts afresh: nothing is found yet, and who is named is to do.
LEMMA LookupMoves ==
    ASSUME TypeInv, NEW r \in Replicas, NEW e \in Events, Holds(r, e), At(r, "handling"), ContentStep(r)
    PROVE  /\ point'[r] = "acking" => \A u \in Users : ~Wanted(e, u)'
           /\ point'[r] \in {"acking", "reading preferences"}
           /\ \A u \in Users : Wanted(e, u)' => u \in todo'[r] /\ <<e, u>> \notin found'
<1>0. /\ point \in [Replicas -> ConsumerPoints] /\ todo \in [Replicas -> SUBSET Users]
      /\ delivered[r] = e /\ r \notin deaf
  BY DEF TypeInv, TypeOK, UserTypeOK, ConsumerTypeOK, Holds
<1>1. PICK ok \in BOOLEAN : FindUsers(r, ok)
  <2>1. /\ ~PreferencesFail(r) /\ ~FilterUsers(r)
        /\ ~(\E ok \in BOOLEAN : SaveNotification(r, ok))
        /\ ~(\E u \in Users, ok \in BOOLEAN : QueueForUser(r, u, ok))
    BY DEF PreferencesFail, FilterUsers, SaveNotification, QueueForUser, At
  <2> QED BY <2>1 DEF ContentStep
<1> DEFINE S == IF ok THEN Named[delivered[r]] \cup LookedUp(delivered[r]) ELSE Named[delivered[r]]
<1>2. /\ Named[e] \subseteq S /\ todo' = [todo EXCEPT ![r] = S]
      /\ found' = {x \in found : x[1] # e}
      /\ IF S = {} THEN Succeed(r) ELSE Goto(r, "reading preferences")
  <2>1. /\ todo' = [todo EXCEPT ![r] = S]
        /\ found' = {x \in found : x[1] # delivered[r]}
        /\ IF S = {} THEN Succeed(r) ELSE Goto(r, "reading preferences")
    BY <1>0, <1>1 DEF FindUsers
  <2>2. Named[e] \subseteq S
    BY <1>0
  <2> QED BY <1>0, <2>1, <2>2
<1> HIDE DEF S
<1>3. /\ todo'[r] = S /\ (S = {} => point'[r] = "acking")
      /\ S # {} => point'[r] = "reading preferences"
  BY <1>0, <1>2 DEF Succeed, Goto
<1>4. \A u \in Users : Wanted(e, u)' => u \in S /\ <<e, u>> \notin found'
  BY <1>2 DEF Wanted, Pledged
<1> QED BY <1>3, <1>4

\* The filter drops nobody who is overridden or never refused, and all it lets through
\* is to do.
LEMMA FilterMoves ==
    ASSUME TypeInv, Progress, NEW r \in Replicas, NEW e \in Events, Holds(r, e), Kind[e] = "content",
           At(r, "reading preferences"), ContentStep(r), NEW u \in Users, Wanted(e, u)'
    PROVE  /\ point'[r] \in {"handling", "burying", "saving notification"}
           /\ point'[r] = "saving notification" => u \in todo'[r]
<1>0. /\ point \in [Replicas -> ConsumerPoints] /\ todo \in [Replicas -> SUBSET Users]
      /\ delivered[r] = e /\ r \notin deaf /\ muted \subseteq everMuted
  BY DEF TypeInv, TypeOK, UserTypeOK, ConsumerTypeOK, Holds
<1>1. PreferencesFail(r) \/ FilterUsers(r)
  <2>1. /\ ~(\E ok \in BOOLEAN : FindUsers(r, ok) \/ SaveNotification(r, ok))
        /\ ~(\E v \in Users, ok \in BOOLEAN : QueueForUser(r, v, ok))
    BY DEF FindUsers, SaveNotification, QueueForUser, At
  <2> QED BY <2>1 DEF ContentStep
<1>2. CASE PreferencesFail(r)
  BY <1>0, <1>2 DEF PreferencesFail, FailAttempt, Goto
<1>3. CASE FilterUsers(r)
  <2>1. /\ todo' = [todo EXCEPT ![r] = Willing(r)] /\ found' = found \cup ({e} \X Willing(r))
        /\ everMuted' = everMuted
        /\ IF Willing(r) = {} THEN Succeed(r) ELSE Goto(r, "saving notification")
    BY <1>0, <1>3 DEF FilterUsers, ContentOnly, switchVars
  <2>2. u \in Willing(r)
    <3>1. CASE <<e, u>> \in found'
      <4>1. <<e, u>> \notin found
        BY DEF Progress, Wanted
      <4> QED BY <2>1, <3>1, <4>1
    <3>2. CASE Pledged(e, u)'
      <4>1. Pledged(e, u)
        BY <2>1, <3>2 DEF Pledged
      <4>2. u \in todo[r]
        BY <4>1 DEF Progress, Wanted
      <4> QED BY <1>0, <4>1, <4>2 DEF Pledged, Willing
    <3> QED BY <3>1, <3>2 DEF Wanted
  <2>3. todo'[r] = Willing(r) /\ point'[r] = "saving notification"
    BY <1>0, <2>1, <2>2 DEF Goto
  <2> QED BY <2>2, <2>3
<1> QED BY <1>1, <1>2, <1>3

\* One turn of the loop that queues covers its user and uncovers nobody: the attempt
\* goes on from what its lookup found.
LEMMA QueueingTurn ==
    ASSUME TypeInv, NEW r \in Replicas, NEW e \in Events, delivered[r] = e, NEW u \in Users,
           At(r, "queueing") => u \in todo[r] \/ Covered(e, u),
           NEW v \in Users, \E ok \in BOOLEAN : QueueForUser(r, v, ok)
    PROVE  /\ point'[r] # "reading preferences"
           /\ point'[r] \in {"saving notification", "queueing"} => u \in todo'[r] \/ Covered(e, u)'
           /\ point'[r] = "acking" => Covered(e, u)'
<1>0. PICK ok \in BOOLEAN : QueueForUser(r, v, ok)
  OBVIOUS
<1>1. /\ At(r, "queueing") /\ todo'[r] = todo[r] \ {v}
      /\ point'[r] \in {"queueing", "acking"} /\ (point'[r] = "acking" => todo'[r] = {})
  BY <1>0, QueueingMoves
<1>2. ASSUME ok PROVE Covered(e, v)' /\ (Covered(e, u) => Covered(e, u)')
  <2> DEFINE new == [event |-> delivered[r], copy |-> copy[r], user |-> v]
  <2>1. messages' = messages \cup {new} /\ unqueued' = unqueued
    BY <1>0, <1>2 DEF QueueForUser
  <2>2. new.event = e /\ new.user = v
    OBVIOUS
  <2> HIDE DEF new
  <2> QED BY <1>1, <2>1, <2>2 DEF Covered
<1>3. ASSUME ~ok PROVE Covered(e, v)' /\ (Covered(e, u) => Covered(e, u)')
  <2>1. messages' = messages /\ unqueued' = unqueued \cup {<<delivered[r], v>>}
    BY <1>0, <1>3 DEF QueueForUser
  <2> QED BY <1>1, <2>1 DEF Covered
<1> QED BY <1>1, <1>2, <1>3

\* The attempt goes on from what its lookup found.
LEMMA ProgressMoves ==
    ASSUME TypeInv, Progress, NEW r \in Replicas, NEW e \in Events, NEW u \in Users,
           Holds(r, e), Kind[e] = "content", Wanted(e, u), ContentStep(r),
           ~At(r, "handling"), ~At(r, "reading preferences")
    PROVE  /\ point'[r] # "reading preferences"
           /\ point'[r] \in {"saving notification", "queueing"} => u \in todo'[r] \/ Covered(e, u)'
           /\ point'[r] = "acking" => Covered(e, u)'
<1>0. point \in [Replicas -> ConsumerPoints] /\ delivered[r] = e
  BY DEF TypeInv, TypeOK, UserTypeOK, ConsumerTypeOK, Holds
<1>1. ASSUME NEW ok \in BOOLEAN, SaveNotification(r, ok)
      PROVE  /\ point'[r] \notin {"acking", "reading preferences"}
             /\ point'[r] \in {"saving notification", "queueing"} => u \in todo'[r] \/ Covered(e, u)'
  <2>1. At(r, "saving notification") /\ UNCHANGED <<todo, messages, unqueued>>
    BY <1>1 DEF SaveNotification
  <2>2. Goto(r, "queueing") \/ FailAttempt(r)
    BY <1>1 DEF SaveNotification
  <2>3. point'[r] \notin {"acking", "reading preferences"}
    BY <1>0, <2>2 DEF FailAttempt, Goto
  <2>4. u \in todo[r] \/ Covered(e, u)
    BY <2>1 DEF Progress, At
  <2> QED BY <2>1, <2>3, <2>4 DEF Covered
<1>2. ASSUME NEW v \in Users, NEW ok \in BOOLEAN, QueueForUser(r, v, ok)
      PROVE  /\ point'[r] # "reading preferences"
             /\ point'[r] \in {"saving notification", "queueing"} => u \in todo'[r] \/ Covered(e, u)'
             /\ point'[r] = "acking" => Covered(e, u)'
  <2>1. At(r, "queueing") => u \in todo[r] \/ Covered(e, u)
    BY DEF Progress, At
  <2> QED BY <1>0, <1>2, <2>1, QueueingTurn
<1>3. ~(\E ok \in BOOLEAN : FindUsers(r, ok)) /\ ~PreferencesFail(r) /\ ~FilterUsers(r)
  BY DEF FindUsers, PreferencesFail, FilterUsers, At
<1> QED BY <1>1, <1>2, <1>3 DEF ContentStep

LEMMA NextProgress ==
    ASSUME TypeInv, Owned, Progress, [Next]_vars
    PROVE  Progress'
<1> SUFFICES ASSUME NEW r \in Replicas, NEW e \in Events, NEW u \in Users,
                    Holds(r, e)', Kind[e] = "content", Wanted(e, u)'
             PROVE  /\ point'[r] = "reading preferences" => u \in todo'[r] /\ <<e, u>> \notin found'
                    /\ point'[r] \in {"saving notification", "queueing"} => u \in todo'[r] \/ Covered(e, u)'
                    /\ point'[r] = "acking" => e \in early' \cup buried' \/ Covered(e, u)'
  BY DEF Progress, At
<1>0. delivered'[r] = e /\ e # 0 /\ r \notin deaf
  BY HeldBefore, ConsumerAssumption DEF Holds
<1>1. CASE ContentStep(r) \/ UserHandlerStep(r)
  <2>1. Holds(r, e)
    BY <1>0, <1>1, ContentMoves, UserHandlerMoves DEF HandlerMoves, HandlerOnly, Holds
  <2>2. ContentStep(r)
    BY <1>0, <1>1, <2>1, HandlersAt DEF Handles, Holds
  <2>3. CASE At(r, "handling")
    BY <2>1, <2>2, <2>3, LookupMoves
  <2>4. CASE At(r, "reading preferences")
    BY <2>1, <2>2, <2>4, FilterMoves
  <2>5. CASE ~At(r, "handling") /\ ~At(r, "reading preferences")
    <3>1. Wanted(e, u)
      BY <2>1, <2>5, FoundMoves DEF Owned, At
    <3> QED BY <2>1, <2>2, <2>5, <3>1, ProgressMoves
  <2> QED BY <2>3, <2>4, <2>5 DEF At
<1>2. CASE Same(r) /\ ~ContentStep(r)
  <2>1. Holds(r, e)
    BY <1>0, <1>2 DEF Same, Holds
  <2>2. Wanted(e, u) /\ (<<e, u>> \in found' => <<e, u>> \in found)
    BY <1>2, <2>1, FoundMoves DEF Owned
  <2>3. Covered(e, u) => Covered(e, u)'
    BY StaysCovered
  <2> QED BY <1>2, <2>1, <2>2, <2>3, Histories DEF Progress, Same, At
<1>3. ASSUME NEW f \in Events, Deliver(r, f), delivered'[r] = f
      PROVE  /\ point'[r] \notin {"reading preferences", "saving notification", "queueing"}
             /\ point'[r] = "acking" => e \in early'
  BY <1>0, <1>3 DEF Deliver, Goto, TypeInv, TypeOK, UserTypeOK, ConsumerTypeOK
<1>4. CASE Bury(r) /\ delivered' = delivered /\ point'[r] = "acking"
  BY <1>0, <1>4 DEF Bury
<1> QED BY <1>0, <1>1, <1>2, <1>3, <1>4, Moves

LEMMA NextAckedIsQueued ==
    ASSUME TypeInv, Owned, Progress, AckedIsQueued, [Next]_vars
    PROVE  AckedIsQueued'
<1>0. /\ acked \subseteq Events /\ delivered \in [Replicas -> Events \cup {0}] /\ acked' \subseteq Events
  BY NextTypeInv DEF TypeInv, TypeOK, UserTypeOK, ConsumerTypeOK
<1> SUFFICES ASSUME NEW e \in acked', Kind[e] = "content", e \notin early' \cup buried',
                    NEW u \in Users, Wanted(e, u)'
             PROVE  Covered(e, u)'
  <2>1. \A e \in Events : \A u : u \in Meant(e)' <=> u \in Users /\ Wanted(e, u)'
    BY ContentAssumption DEF Meant, Wanted, Pledged
  <2> QED BY <1>0, <2>1 DEF AckedIsQueued, Covered
<1>1. CASE e \in acked
  <2>1. Wanted(e, u)
    BY <1>0, <1>1, FoundMoves DEF Owned
  <2>2. Covered(e, u)
    BY <1>0, <1>1, <2>1, MeantIsWanted, Histories DEF AckedIsQueued, Covered
  <2> QED BY <1>0, <1>1, <2>2, StaysCovered
<1>2. ASSUME NEW r \in Replicas, Ack(r), e = delivered[r] PROVE Covered(e, u)'
  <2>1. At(r, "acking") /\ Holds(r, e) /\ e \in Events
    BY <1>0, <1>2 DEF Ack, Holds, TypeInv, HandOK, At
  <2>2. Wanted(e, u)
    BY <2>1, FoundMoves DEF Owned, At
  <2>3. Covered(e, u)
    BY <2>1, <2>2, Histories DEF Progress
  <2> QED BY <2>1, <2>3, StaysCovered
<1> QED BY <1>1, <1>2, Histories

\* Whatever fails and however often the handlers run, an acknowledged publication has a
\* message for each user it is meant for, those it names and never refused it among them,
\* or the reason is on record.
THEOREM AckedEventsAreQueued == Spec => []AckedIsQueued
<1>1. Init => Progress /\ AckedIsQueued
  BY ConsumerAssumption DEF Init, UserInit, ConsumerInit, Progress, Holds, AckedIsQueued
<1>2. TypeInv /\ Owned /\ Progress /\ [Next]_vars => Progress'
  BY NextProgress
<1>3. TypeInv /\ Owned /\ Progress /\ AckedIsQueued /\ [Next]_vars => AckedIsQueued'
  BY NextAckedIsQueued
<1>4. TypeInv /\ Owned /\ [Next]_vars => Owned'
  BY NextOwned
<1> QED BY <1>1, <1>2, <1>3, <1>4, InitTypeInv, NextTypeInv, InitOwned, PTL DEF Spec

-----------------------------------------------------------------------------
(* No change is lost *)

ChangeOf(e, u) == e # 0 /\ Kind[e] \in Changes /\ User[e] = u

Settled(e, u) == doc[u].data >= e \/ e \in early \cup buried

\* A change that is dealt with is in the document.
Kept(u) ==
    /\ \A r \in Replicas : ChangeOf(delivered[r], u) /\ point[r] \in {"updated", "acking"} =>
         Settled(delivered[r], u)
    /\ \A e \in acked : ChangeOf(e, u) => Settled(e, u)

KeptInv == \A u \in Seeded \ contended : Kept(u)

LEMMA StaysSettled ==
    ASSUME TypeInv, [Next]_vars, NEW u \in Seeded, InOrder(u), NEW e \in Events, Settled(e, u)
    PROVE  Settled(e, u)'
<1>1. doc[u].data \in Nat /\ e \in Nat /\ \A r \in Replicas : delivered[r] \in Nat
  <2>1. delivered \in [Replicas -> Events \cup {0}] /\ Events \cup {0} \subseteq Nat
    BY ConsumerAssumption DEF TypeInv, TypeOK, UserTypeOK, ConsumerTypeOK
  <2> QED BY <2>1, DataIsNat
<1>2. doc'[u].data = doc[u].data \/ \E r \in Replicas : doc'[u].data = delivered[r] /\ doc[u].data <= delivered[r]
  BY DocumentChanges DEF Writes, InOrder
<1> QED BY <1>1, <1>2, Histories DEF Settled

\* A handler is done with a change when it has written it, or has nothing left to do.
LEMMA ChangeMoves ==
    ASSUME TypeInv, NEW u \in Seeded, NEW r \in Replicas, UserHandlerStep(r),
           ChangeOf(delivered[r], u), point'[r] \in {"updated", "acking"}
    PROVE  \/ doc'[u].data = delivered[r]
           \/ At(r, "updated") /\ doc' = doc
<1>0. /\ point \in [Replicas -> ConsumerPoints] /\ doc \in [Seeded -> Document] /\ InHand(r) = u
      /\ Handles(r, Changes) /\ Exists(InHand(r))
  BY DEF TypeInv, TypeOK, UserTypeOK, ConsumerTypeOK, ChangeOf, InHand, Handles, Exists
<1>1. ~FailAttempt(r)
  BY <1>0 DEF FailAttempt, Goto
<1>2. ~FindForUpdate(r)
  BY <1>0 DEF FindForUpdate, Goto
<1>3. ~FindFails(r) /\ ~SaveUser(r)
  BY <1>1 DEF FindFails, SaveUser
<1>4. ASSUME NEW outcome \in {"ok", "rejected", "unanswered"}, UpdateUser(r, outcome)
      PROVE  doc'[u].data = delivered[r]
  <2>1. outcome = "ok" /\ doc' = Written(u, delivered[r])
    BY <1>0, <1>1, <1>4 DEF UpdateUser
  <2> QED BY <1>0, <2>1 DEF Written, Document
<1>5. EnqueueUpdate(r) \/ NothingForNovu(r) => At(r, "updated") /\ doc' = doc
  BY DEF EnqueueUpdate, NothingForNovu
<1>6. ~FindForCreate(r)
  BY <1>0 DEF FindForCreate, Handles, Changes
<1> QED BY <1>2, <1>3, <1>4, <1>5, <1>6 DEF UserHandlerStep

LEMMA NextKept ==
    ASSUME TypeInv, OrderInv, KeptInv, [Next]_vars, NEW u \in Seeded \ contended'
    PROVE  Kept(u)'
<1>0. InOrder(u) /\ Kept(u) /\ acked \subseteq Events
  BY Histories DEF OrderInv, KeptInv, TypeInv, TypeOK, UserTypeOK, ConsumerTypeOK
<1>1. ASSUME NEW r \in Replicas, NEW e \in Events, delivered'[r] = e, ChangeOf(e, u),
             point'[r] \in {"updated", "acking"}
      PROVE  Settled(e, u)'
  <2>0. e # 0
    BY <1>1 DEF ChangeOf
  <2>1. CASE Same(r)
    BY <1>0, <1>1, <2>1, StaysSettled DEF Same, Kept
  <2>2. CASE UserHandlerStep(r)
    <3>1. delivered[r] = e
      BY <1>1, <2>2, UserHandlerMoves DEF HandlerMoves, HandlerOnly
    <3>2. doc'[u].data = e \/ (At(r, "updated") /\ doc' = doc)
      BY <1>1, <2>2, <3>1, ChangeMoves
    <3>3. doc'[u].data = e => Settled(e, u)'
      BY ConsumerAssumption DEF Settled
    <3>4. CASE At(r, "updated")
      <4>1. Settled(e, u)
        BY <1>0, <1>1, <3>1, <3>4 DEF Kept, At
      <4> QED BY <1>0, <4>1, StaysSettled
    <3> QED BY <3>2, <3>3, <3>4
  <2>3. ~ContentStep(r)
    BY <1>1, ContentMoves DEF HandlerMoves, HandlerOnly, ContentStep, FindUsers, PreferencesFail,
       FilterUsers, SaveNotification, QueueForUser, TypeInv, HandOK, At, Handles, ChangeOf, Changes
  <2>4. ASSUME NEW f \in Events, Deliver(r, f), delivered'[r] = f PROVE e \in early'
    BY <1>1, <2>4 DEF Deliver, Goto, TypeInv, TypeOK, UserTypeOK, ConsumerTypeOK
  <2>5. Bury(r) /\ delivered' = delivered => e \in buried'
    BY <1>1 DEF Bury
  <2>6. e \in early' \cup buried' => Settled(e, u)'
    BY DEF Settled
  <2> QED BY <1>1, <2>0, <2>1, <2>2, <2>3, <2>4, <2>5, <2>6, Moves
<1>2. ASSUME NEW e \in acked', ChangeOf(e, u) PROVE Settled(e, u)'
  <2>1. e \in Events /\ Settled(e, u)
    <3>1. CASE e \in acked
      BY <1>0, <1>2, <3>1 DEF Kept
    <3>2. ASSUME NEW r \in Replicas, Ack(r), e = delivered[r] PROVE e \in Events /\ Settled(e, u)
      BY <1>0, <1>2, <3>2, InHandOK DEF Ack, At, Kept, ChangeOf
    <3> QED BY <1>2, <3>1, <3>2, Histories
  <2> QED BY <1>0, <2>1, StaysSettled
<1>3. \A r \in Replicas : ChangeOf(delivered[r], u)' => delivered'[r] \in Events
  BY NextTypeInv DEF ChangeOf, TypeInv, TypeOK, UserTypeOK, ConsumerTypeOK
<1> QED BY <1>1, <1>2, <1>3 DEF Kept, ChangeOf

\* An acknowledged change is in the document, however events are retried, redelivered and
\* spread over replicas, with the excuses the property names.
THEOREM AcknowledgedChangesAreKept == Spec => []NoChangeLost
<1>1. Init => KeptInv
  BY DEF Init, UserInit, ConsumerInit, KeptInv, Kept, ChangeOf
<1>2. KeptInv /\ TypeInv => NoChangeLost
  <2> SUFFICES ASSUME KeptInv, TypeInv, NEW e \in acked, Kind[e] \in Changes, Exists(User[e]),
                      User[e] \notin contended
               PROVE  Settled(e, User[e])
    BY DEF NoChangeLost, Settled
  <2>1. e # 0 /\ User[e] \in Seeded
    BY ConsumerAssumption DEF TypeInv, TypeOK, UserTypeOK, ConsumerTypeOK, Exists
  <2> QED BY <2>1 DEF KeptInv, Kept, ChangeOf
<1>3. TypeInv /\ OrderInv /\ KeptInv /\ [Next]_vars => KeptInv'
  <2> SUFFICES ASSUME TypeInv, OrderInv, KeptInv, [Next]_vars, NEW u \in Seeded \ contended'
               PROVE  Kept(u)'
    BY DEF KeptInv
  <2> QED BY NextKept
<1>4. TypeInv /\ OrderInv /\ [Next]_vars => OrderInv'
  BY NextOrder
<1> QED BY <1>1, <1>2, <1>3, <1>4, InitTypeInv, NextTypeInv, InitOrder, PTL DEF Spec

=============================================================================
