----------------------------- MODULE RetryAdmin -----------------------------
(***************************************************************************)
(* The retry worker together with what administrators do to the same       *)
(* collection: DLQService (retry, delete, clean up) and the admin module's *)
(* ManualRetryService.  Both retries read first and then update by id,     *)
(* whatever the status has become since.                                   *)
(***************************************************************************)
EXTENDS RetryWorker

CONSTANTS Admins,     \* administrators, each with at most one request in progress
          MaxReleases  \* bound: administrators' retries of one notification

ASSUME AdminAssumption == MaxReleases \in Nat

VARIABLES request,  \* what an administrator's request has read
          released  \* history: how often an administrator's retry made it PENDING

adminVars == <<vars, request, released>>

NoRequest == [op |-> "none"]
Request == {NoRequest} \cup [op : {"retryDlqEntry", "retryNotification"}, id : Notifs, seen : Nat]

AdminTypeOK ==
    /\ TypeOK
    /\ request \in [Admins -> Request]
    /\ released \in [Notifs -> 0..MaxReleases]

AdminInit ==
    /\ Init
    /\ request = [a \in Admins |-> NoRequest]
    /\ released = [n \in Notifs |-> 0]

-----------------------------------------------------------------------------
Reads(a, n, op, required) ==
    /\ request[a] = NoRequest
    /\ status[n] = required
    /\ request' = [request EXCEPT ![a] = [op |-> op, id |-> n, seen |-> retryCount[n]]]
    /\ UNCHANGED <<vars, released>>

\* retryDLQEntry, and each entry of bulkRetryDLQEntries.
ReadDlqEntry(a, n) == Reads(a, n, "retryDlqEntry", "dlq")

\* ManualRetryService.retryNotification.
ReadFailed(a, n) == Reads(a, n, "retryNotification", "failed")

Rewrite(a, op, count, outcome) ==
    LET n == request[a].id
    IN  /\ request[a] # NoRequest /\ request[a].op = op
        /\ released[n] < MaxReleases
        /\ Update(n, "pending", outcome)
        /\ retryCount' = IF Applied(n, outcome) THEN [retryCount EXCEPT ![n] = count]
                                                ELSE retryCount
        /\ released' = IF Applied(n, outcome) THEN [released EXCEPT ![n] = @ + 1]
                                              ELSE released
        /\ request' = [request EXCEPT ![a] = NoRequest]
        /\ UNCHANGED <<phase, attempt, circuits, outstanding, history>>

ReleaseDlqEntry(a, outcome) == Rewrite(a, "retryDlqEntry", 0, outcome)

ReleaseFailed(a, outcome) == Rewrite(a, "retryNotification", request[a].seen + 1, outcome)

\* deleteDLQEntry, and what bulkDeleteDLQEntries and cleanupOldEntries do to each
\* entry: it is found in status 'dlq' and deleted in one database operation.
DeleteDlqEntry(n) ==
    /\ status[n] = "dlq"
    /\ status' = [status EXCEPT ![n] = "absent"]
    /\ UNCHANGED <<retryCount, age, phase, attempt, circuits, outstanding,
                   history, faults, request, released>>

AdminStep ==
    \/ \E a \in Admins, n \in Notifs : ReadDlqEntry(a, n) \/ ReadFailed(a, n)
    \/ \E a \in Admins, outcome \in Outcomes :
         ReleaseDlqEntry(a, outcome) \/ ReleaseFailed(a, outcome)
    \/ \E n \in Notifs : DeleteDlqEntry(n)

AdminNext == (Next /\ UNCHANGED <<request, released>>) \/ AdminStep

\* Administrators may never act; the worker's fairness is that of RetryWorker.
AdminSpec == AdminInit /\ [][AdminNext]_adminVars /\ Fairness

-----------------------------------------------------------------------------
\* With administrators too, a PENDING notification is one that an attempt will
\* finish, that a fault stranded, or that an administrator's retry released.
PendingIsOwnedOrReleased ==
    \A n \in Notifs : status[n] = "pending" =>
        \/ n \in lost \/ released[n] > 0
        \/ \E w \in Workers : attempt[w][n].pc \in Owning

\* An entry deleted from the dead letter queue never comes back: updates already
\* under way, of attempts and of retries that read it before, do not revive it.
DeletedStaysDeleted ==
    [][\A n \in Notifs : status[n] = "absent" => status'[n] = "absent"]_adminVars

\* Stories 1.9 and 2.4 promise that an administrator's retry re-sends: a released
\* notification does not stay PENDING for ever.
RetriedIsResent ==
    \A n \in Notifs : released[n] > 0 /\ status[n] = "pending" ~> status[n] # "pending"
=============================================================================
