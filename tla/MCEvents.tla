------------------------------ MODULE MCEvents ------------------------------
(***************************************************************************)
(* Events on small instances: two replicas, as deployed; the 4 attempts of *)
(* a handler become 2.  Of the two users, anna has a document and ben has  *)
(* none and has content switched off at first.  The backlogs: anna is      *)
(* updated twice, for Novu and not, or updated and deleted; ben is created *)
(* and updated, or created and deleted; anna is deleted before content is  *)
(* published for everyone; content is published for both by name and by    *)
(* role, or urgently for ben.                                              *)
(***************************************************************************)
EXTENDS NotificationEvents, TLC

CONSTANTS anna, ben, replica1, replica2

MCHandlerPoints == {"saving", "updating", "updated",
                    "reading preferences", "saving notification", "queueing"}
MCBacklogs == {{1, 2}, {1, 3}, {2, 3}, {4, 5}, {4, 6}, {3, 7}, {8}, {9}}
MCUser == [e \in 1..9 |-> IF e <= 3 THEN anna ELSE ben]
MCKind == <<"updated", "updated", "deleted", "created", "updated", "deleted",
            "content", "content", "content">>
MCNamed == [e \in 1..9 |-> CASE e = 8 -> {anna} [] e = 9 -> {ben} [] OTHER -> {}]
MCByRole == [e \in 1..9 |-> IF e = 8 THEN {ben} ELSE {}]
=============================================================================
