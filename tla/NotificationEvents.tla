------------------------- MODULE NotificationEvents -------------------------
(***************************************************************************)
(* NotificationProcessingService.processNotificationEvent, which handles   *)
(* the events of published content: it finds the users, drops those who    *)
(* switched such content off, saves one notification and enqueues a        *)
(* message for each user in the PriorityQueue, of which only the set of    *)
(* messages that reached it is kept here.  Preferences are kept to what    *)
(* reading them says: whether the user has a channel and the type of       *)
(* published content switched on.                                          *)
(*                                                                         *)
(* The same consumer runs these handlers and those of UserEvents, and the  *)
(* users they find are those the events of users have left behind.         *)
(***************************************************************************)
EXTENDS UserEvents

CONSTANTS Named,      \* the users that each content event names
          ByRole,     \* those that the auth service knows for its roles
          Overriding, \* emergency, security and urgent events
          Refusing,   \* users who have content switched off at first
          MaxCopies,  \* bound: notifications saved for an event
          MaxSwitches \* bound: times a user switches content on or off

ASSUME ContentAssumption ==
    /\ Named \in [Events -> SUBSET Users] /\ ByRole \in [Events -> SUBSET Users]
    /\ Overriding \subseteq Events /\ Refusing \subseteq Users
    /\ {"reading preferences", "saving notification", "queueing"} \subseteq HandlerPoints
    /\ MaxCopies \in Nat /\ MaxSwitches \in Nat

VARIABLES muted,       \* users who have content switched off
          switches,    \* times a user switched it on or off
          everMuted,   \* history: users who had it off at some time
          todo,        \* users whom the handler of each replica has yet to deal with
          copy,        \* the notification it saved for them
          copies,      \* notifications saved for each event
          messages,    \* history: messages that reached the priority queue
          found,       \* history: <<event, user>> that the last attempt found and let
                       \* through, on a replica that can acknowledge the event
          unqueued,    \* history: <<event, user>> whose message was not enqueued
          redelivered  \* history: events put back while in hand

switchVars == <<muted, switches, everMuted>>
contentVars == <<switchVars, todo, copy, copies, messages, found, unqueued, redelivered>>
vars == <<userVars, contentVars>>

Message == [event : Events, copy : 1..MaxCopies, user : Users]

TypeOK ==
    /\ UserTypeOK
    /\ muted \subseteq everMuted /\ everMuted \subseteq Users /\ switches \in 0..MaxSwitches
    /\ todo \in [Replicas -> SUBSET Users]
    /\ copy \in [Replicas -> 0..MaxCopies] /\ copies \in [Events -> 0..MaxCopies]
    /\ messages \subseteq Message
    /\ found \subseteq Events \X Users /\ unqueued \subseteq Events \X Users
    /\ redelivered \subseteq Events

Init ==
    /\ UserInit
    /\ muted = Refusing /\ everMuted = Refusing /\ switches = 0
    /\ todo = [r \in Replicas |-> {}] /\ copy = [r \in Replicas |-> 0]
    /\ copies = [e \in Events |-> 0]
    /\ messages = {} /\ found = {} /\ unqueued = {} /\ redelivered = {}

-----------------------------------------------------------------------------
Unless(ok) == IF ok THEN UNCHANGED faults ELSE Fault

\* A step of this handler leaves the users and the rest of the consumer alone.
ContentOnly == HandlerOnly /\ NoTask /\ UNCHANGED <<doc, switchVars, redelivered>>

Everyone == {u \in DOMAIN doc : doc[u].active}

\* The users of the roles, or without any target all active users.
LookedUp(e) == IF Named[e] = {} /\ ByRole[e] = {} THEN Everyone ELSE ByRole[e]

\* getTargetUsers: a failed lookup is logged, and what was found without it stands.
\* With no user at all the event counts as processed.
FindUsers(r, ok) ==
    LET e == delivered[r]
        users == IF ok THEN Named[e] \cup LookedUp(e) ELSE Named[e]
    IN  /\ At(r, "handling") /\ Handles(r, {"content"})
        /\ Unless(ok)
        /\ todo' = [todo EXCEPT ![r] = users]
        /\ found' = IF r \in deaf THEN found ELSE {x \in found : x[1] # e}
        /\ IF users = {} THEN Succeed(r) ELSE Goto(r, "reading preferences") /\ UNCHANGED attempts
        /\ ContentOnly /\ UNCHANGED <<copy, copies, messages, unqueued>>

\* The preferences of a user cannot be read or created.
PreferencesFail(r) ==
    /\ At(r, "reading preferences")
    /\ Fault
    /\ FailAttempt(r)
    /\ ContentOnly /\ UNCHANGED <<todo, copy, copies, messages, found, unqueued>>

\* Mutant: the override is forgotten.
Willing_Always(r) == todo[r] \ muted

\* filterUsersByPreferences and the policy of overriding them.
Willing(r) == IF delivered[r] \in Overriding THEN todo[r] ELSE todo[r] \ muted

\* With no user left the event counts as processed.
FilterUsers(r) ==
    /\ At(r, "reading preferences")
    /\ todo' = [todo EXCEPT ![r] = Willing(r)]
    /\ found' = IF r \in deaf THEN found ELSE found \cup ({delivered[r]} \X Willing(r))
    /\ IF Willing(r) = {} THEN Succeed(r) ELSE Goto(r, "saving notification") /\ UNCHANGED attempts
    /\ ContentOnly /\ UNCHANGED <<faults, copy, copies, messages, unqueued>>

\* notificationRepository.save of a notification with an id of its own.  Saved
\* without an answer it stays behind, and the next attempt saves another.
SaveNotification(r, ok) ==
    LET e == delivered[r]
    IN  /\ At(r, "saving notification") /\ copies[e] < MaxCopies
        /\ Unless(ok)
        /\ IF ok
           THEN /\ Goto(r, "queueing") /\ UNCHANGED attempts
                /\ copies' = [copies EXCEPT ![e] = @ + 1]
                /\ copy' = [copy EXCEPT ![r] = copies[e] + 1]
           ELSE FailAttempt(r) /\ UNCHANGED <<copy, copies>>
        /\ ContentOnly /\ UNCHANGED <<todo, messages, found, unqueued>>

\* The users still to come after u, whose publication may have failed.
Left(r, u) == todo[r] \ {u}

\* Mutant: a failed publication fails the attempt.
AfterUser_Throws(r, u, ok) ==
    IF ~ok THEN FailAttempt(r)
    ELSE IF Left(r, u) = {} THEN Succeed(r) ELSE UNCHANGED <<point, attempts>>

AfterUser(r, u, ok) ==
    IF Left(r, u) = {} THEN Succeed(r) ELSE UNCHANGED <<point, attempts>>

\* queueNotificationsForProcessing, one turn: a publication's error is logged, and
\* without a connection every publication fails.
QueueForUser(r, u, ok) ==
    /\ At(r, "queueing") /\ u \in todo[r]
    /\ r \in deaf => ~ok
    /\ IF r \in deaf THEN UNCHANGED faults ELSE Unless(ok)
    /\ todo' = [todo EXCEPT ![r] = Left(r, u)]
    /\ AfterUser(r, u, ok)
    /\ IF ok THEN /\ messages' = messages \cup
                         {[event |-> delivered[r], copy |-> copy[r], user |-> u]}
                  /\ UNCHANGED unqueued
             ELSE /\ unqueued' = unqueued \cup {<<delivered[r], u>>}
                  /\ UNCHANGED messages
    /\ ContentOnly /\ UNCHANGED <<copy, copies, found>>

-----------------------------------------------------------------------------
\* The rest of the consumer: what was put back will be delivered again, and a handler
\* that is over, or died, has nothing left to do.
Follows ==
    /\ redelivered' = redelivered \cup (ready' \ ready)
    /\ todo' = [r \in Replicas |-> IF delivered'[r] = 0 THEN {} ELSE todo[r]]
    /\ copy' = [r \in Replicas |-> IF delivered'[r] = 0 THEN 0 ELSE copy[r]]
    /\ UNCHANGED <<switchVars, copies, messages, found, unqueued>>

\* A user switches content on or off; what the cache of preferences answers follows
\* later, and this is that moment.
Switch(u) ==
    /\ switches < MaxSwitches /\ switches' = switches + 1
    /\ muted' = IF u \in muted THEN muted \ {u} ELSE muted \cup {u}
    /\ everMuted' = everMuted \cup muted'
    /\ UNCHANGED <<userVars, todo, copy, copies, messages, found, unqueued, redelivered>>

ContentStep(r) ==
    \/ \E ok \in BOOLEAN : FindUsers(r, ok) \/ SaveNotification(r, ok)
    \/ PreferencesFail(r) \/ FilterUsers(r)
    \/ \E u \in Users, ok \in BOOLEAN : QueueForUser(r, u, ok)

Next ==
    \/ UserNext /\ Follows
    \/ \E r \in Replicas : ContentStep(r)
    \/ \E u \in Users : Switch(u)

\* As in UserEvents, for the handlers of either module.  Nobody has to switch.
Fairness ==
    /\ \A r \in Replicas :
         /\ WF_vars(Start(r) /\ Follows)
         /\ WF_vars((UserConsumerStep(r) /\ Follows) \/ ContentStep(r))
    /\ Queue!Resolution

Spec == Init /\ [][Next]_vars /\ Fairness

-----------------------------------------------------------------------------
\* The users an event must reach if it is handled at all: those it names, unless they
\* may have refused it, and those whom the acknowledged attempt found and let through.
Meant(e) ==
    {u \in Named[e] : u \notin everMuted \/ e \in Overriding} \cup {u \in Users : <<e, u>> \in found}

\* An acknowledged event has left a message for each user it was meant for, except where
\* no handler was registered yet, the event was given up or the publication failed: a
\* crash between two users is made good, and a change of the preferences between two
\* attempts costs nobody who is willing a message.
AckedIsQueued ==
    \A e \in acked : Kind[e] = "content" /\ e \notin early \cup buried =>
        \A u \in Meant(e) :
            \/ <<e, u>> \in unqueued
            \/ \E m \in messages : m.event = e /\ m.user = u

\* The attempts of a handler never give a user two messages of one event, whichever
\* step of them fails: only the redelivery of the event does.
OneMessagePerUser ==
    \A m, n \in messages :
        m.event = n.event /\ m.user = n.user /\ m # n => m.event \in redelivered
=============================================================================
