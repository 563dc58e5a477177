---------------------------- MODULE MCPreferences ----------------------------
(***************************************************************************)
(* One user with three flags in two groups; two updates of one group, the  *)
(* first of which names all of it, and an update of the other.             *)
(***************************************************************************)
EXTENDS Preferences, TLC

CONSTANTS email, sms, payment, replica1, replica2, event, first, second, third

MCGroup == (email :> "channels") @@ (sms :> "channels") @@ (payment :> "types")
MCDefault == [f \in Flags |-> "on"]
MCHost == [r \in Requests |-> IF r \in {first, third} THEN replica1 ELSE replica2]
MCNames == [u \in Updates |-> CASE u = first  -> {email, sms}
                                [] u = second -> {email}
                                [] u = third  -> {payment}]
MCAsks == [u \in Updates |-> [f \in Flags |-> IF u = second \/ f = sms THEN "on" ELSE "off"]]
=============================================================================
