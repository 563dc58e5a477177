-------------------------- MODULE MCAdminRequests --------------------------
(***************************************************************************)
(* Requests of administrators on small instances.  The first batch is sent *)
(* again as the second, as after a failure; the third repeats a key within *)
(* itself, in two priorities; the last is too large.  A broadcast goes to  *)
(* two users; two announcements are scheduled, one for users of a role and *)
(* one, without any target, for everyone.                                  *)
(***************************************************************************)
EXTENDS Broadcast, TLC

CONSTANTS anna, ben, replica1, replica2, x, y, first, again, mixed, large, now, later, everyone,
          cron1, cron2

Item(k, p) == [key |-> k, priority |-> p]
MCSessions == {{first, again}, {mixed, large}, {now}, {later, everyone}}
MCContent == (first :> <<Item(x, "high"), Item(y, "high")>>)
          @@ (again :> <<Item(x, "high"), Item(y, "high")>>)
          @@ (mixed :> <<Item(x, "low"), Item(y, "high"), Item(x, "low")>>)
          @@ (large :> <<Item(x, "low"), Item(x, "low"), Item(x, "low"), Item(y, "low")>>)
MCTarget == (now :> {anna, ben}) @@ (later :> {anna}) @@ (everyone :> {anna, ben})
MCByRole == (now :> {}) @@ (later :> {anna}) @@ (everyone :> {})
MCNamed == (now :> {}) @@ (later :> {}) @@ (everyone :> {})
MCHost == (first :> replica1) @@ (again :> replica2) @@ (mixed :> replica1) @@ (large :> replica2)
       @@ (now :> replica1) @@ (later :> replica1) @@ (everyone :> replica2)
       @@ (cron1 :> replica1) @@ (cron2 :> replica2)
=============================================================================
