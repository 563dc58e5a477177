---------------------------- MODULE Preferences ----------------------------
(***************************************************************************)
(* The preferences of a user: a document in MongoDB behind a cache entry   *)
(* in Redis, which the requests of all replicas read and write in separate *)
(* steps.  GetPreferencesHandler, and the look-up of an event's users in   *)
(* NotificationProcessingService, only read, creating the default if there *)
(* is nothing; UpdatePreferencesHandler reads, through the cache as well,  *)
(* changes what it has read and writes the whole back.                     *)
(*                                                                         *)
(* Users share nothing, so one is enough.  The flag "emergency", which is  *)
(* set again by every update, is left out.  Nothing deletes preferences.   *)
(***************************************************************************)
EXTENDS Naturals

CONSTANTS Replicas,
          Readers,   \* requests and events that read, again and again
          Updates,   \* requests to update, each made once
          Host,      \* the replica that serves each
          Flags, Group, Values,
          Off,       \* the value of a flag that is switched off or undefined
          Default,   \* UserPreferences.createDefault
          Names,     \* the flags that each update names
          Asks,      \* and their values
          Nothing,   \* no document, no cache entry
          MaxFaults  \* bound: failed calls and crashes

Requests == Readers \cup Updates
Prefs == [Flags -> Values]

ASSUME PreferencesAssumption ==
    /\ Host \in [Requests -> Replicas]
    /\ Off \in Values /\ Default \in Prefs
    /\ Names \in [Updates -> SUBSET Flags] /\ Asks \in [Updates -> Prefs]
    /\ Nothing \notin Values /\ Nothing \notin Prefs
    /\ MaxFaults \in Nat

VARIABLES doc,      \* the document
          cache,    \* the entry in Redis
          at,       \* where each request stands
          prefs,    \* the preferences it works with
          alone,    \* history: requests in progress beside which no other was
          settled,  \* history: what undisturbed updates made of each flag, Nothing
                    \* from the start of any other update of its group
          faults    \* faults so far

vars == <<doc, cache, at, prefs, alone, settled, faults>>

Places == {"idle", "cache", "document", "creating", "filling", "saving", "caching", "over"}
InProgress(r) == at[r] \notin {"idle", "over"}

TypeOK ==
    /\ doc \in Prefs \cup {Nothing} /\ cache \in Prefs \cup {Nothing}
    /\ at \in [Requests -> Places]
    /\ prefs \in [Requests -> Prefs \cup {Nothing}]
    /\ alone \subseteq Requests
    /\ settled \in [Flags -> Values \cup {Nothing}]
    /\ faults \in 0..MaxFaults

Init ==
    /\ doc = Nothing /\ cache = Nothing
    /\ at = [r \in Requests |-> "idle"]
    /\ prefs = [r \in Requests |-> Nothing]
    /\ alone = {}
    /\ settled = Default
    /\ faults = 0

Fault == faults < MaxFaults /\ faults' = faults + 1
Unless(ok) == IF ok THEN UNCHANGED faults ELSE Fault

Touched(u) == {f \in Flags : \E g \in Names[u] : Group[g] = Group[f]}

\* updateChannelPreferences and updateTypePreferences.  The request's body is an
\* instance of its DTO class, which has every flag of a group it names: those that
\* were not sent are undefined, and written over the user's.
Applied(u, p) ==
    [f \in Flags |-> IF f \in Names[u] THEN Asks[u][f]
                     ELSE IF f \in Touched(u) THEN Off ELSE p[f]]

Goto(r, place, p) == at' = [at EXCEPT ![r] = place] /\ prefs' = [prefs EXCEPT ![r] = p]
Ends(r) == Goto(r, IF r \in Updates THEN "over" ELSE "idle", Nothing)

\* What follows findByUserId or createDefault.
Has(r, p) == IF r \in Updates THEN Goto(r, "saving", Applied(r, p)) ELSE Ends(r)

-----------------------------------------------------------------------------
Start(r) ==
    /\ at[r] = "idle"
    /\ Goto(r, "cache", Nothing)
    /\ alone' = IF \E q \in Requests : InProgress(q) THEN {} ELSE {r}
    /\ settled' = [f \in Flags |-> IF r \in Updates /\ f \in Touched(r) THEN Nothing
                                                                    ELSE settled[f]]
    /\ UNCHANGED <<doc, cache, faults>>

\* PreferencesCacheService.get: an error counts as a miss.
LookInCache(r, ok) ==
    /\ at[r] = "cache"
    /\ Unless(ok)
    /\ IF ok /\ cache # Nothing THEN Has(r, cache) ELSE Goto(r, "document", Nothing)
    /\ UNCHANGED <<doc, cache, alone, settled>>

ReadDocument(r) ==
    /\ at[r] = "document"
    /\ IF doc # Nothing THEN Goto(r, "filling", doc) ELSE Goto(r, "creating", Nothing)
    /\ UNCHANGED <<doc, cache, alone, settled, faults>>

\* createDefault: an upsert, which writes over what was saved in the meantime.
CreateDefault(r) ==
    /\ at[r] = "creating"
    /\ doc' = Default
    /\ Goto(r, "filling", Default)
    /\ UNCHANGED <<cache, alone, settled, faults>>

\* PreferencesCacheService.set: an error is logged.
Fill(r, ok) ==
    /\ at[r] = "filling"
    /\ Unless(ok)
    /\ cache' = IF ok THEN prefs[r] ELSE cache
    /\ Has(r, prefs[r])
    /\ UNCHANGED <<doc, alone, settled>>

Save(u) ==
    /\ at[u] = "saving"
    /\ doc' = prefs[u]
    /\ Goto(u, "caching", prefs[u])
    /\ UNCHANGED <<cache, alone, settled, faults>>

\* Mutant: a saved document is not cached.
Cached_Not(p) == cache

Cached(p) == p

CacheSaved(u, ok) ==
    /\ at[u] = "caching"
    /\ Unless(ok)
    /\ cache' = IF ok THEN Cached(prefs[u]) ELSE cache
    /\ Ends(u)
    /\ settled' = IF ok /\ u \in alone
                  THEN [f \in Flags |-> IF f \in Names[u] THEN Asks[u][f] ELSE settled[f]]
                  ELSE settled
    /\ UNCHANGED <<doc, alone>>

-----------------------------------------------------------------------------
\* A call of the database fails, which may have written all the same.
DatabaseFails(r, written) ==
    /\ at[r] \in {"document", "creating", "saving"}
    /\ Fault
    /\ doc' = CASE written /\ at[r] = "creating" -> Default
                [] written /\ at[r] = "saving"   -> prefs[r]
                [] OTHER                         -> doc
    /\ Ends(r)
    /\ UNCHANGED <<cache, alone, settled>>

Crash(h) ==
    LET dying == {r \in Requests : Host[r] = h /\ InProgress(r)}
    IN  /\ dying # {} /\ Fault
        /\ at' = [r \in Requests |-> IF r \notin dying THEN at[r]
                                     ELSE IF r \in Updates THEN "over" ELSE "idle"]
        /\ prefs' = [r \in Requests |-> IF r \in dying THEN Nothing ELSE prefs[r]]
        /\ UNCHANGED <<doc, cache, alone, settled>>

\* Mutant: the entry is stored without a time to live.
Expired_Never == cache

Expired == Nothing

\* TTL_SECONDS have passed since the entry was set.
Expire ==
    /\ cache # Nothing
    /\ cache' = Expired
    /\ UNCHANGED <<doc, at, prefs, alone, settled, faults>>

RequestStep(r) ==
    \/ \E ok \in BOOLEAN : LookInCache(r, ok) \/ Fill(r, ok) \/ CacheSaved(r, ok)
    \/ ReadDocument(r) \/ CreateDefault(r) \/ Save(r)
    \/ \E written \in BOOLEAN : DatabaseFails(r, written)

Next ==
    \/ \E r \in Requests : Start(r) \/ RequestStep(r)
    \/ \E h \in Replicas : Crash(h)
    \/ Expire

\* Requests go on to their end, and Redis removes what has expired.
Spec ==
    /\ Init /\ [][Next]_vars
    /\ \A r \in Requests : WF_vars(RequestStep(r))
    /\ WF_vars(Expire)

-----------------------------------------------------------------------------
\* What an update made of a flag, when no other request was in progress and its entry
\* was cached, stays in the document and in the cache until another update of the same
\* group begins, however the reads and updates after it overlap and fail; and so does
\* the default of a flag that no update has touched.
AloneIsKept ==
    \A f \in Flags : settled[f] # Nothing =>
        /\ settled[f] = IF doc = Nothing THEN Default[f] ELSE doc[f]
        /\ cache # Nothing => cache[f] = settled[f]

\* An entry that an overlapping read or a failure has left behind does not stay: after
\* the last update the cache comes to hold what the document says.
CacheCatchesUp == <>[](cache \in {Nothing, doc})

\* "should allow partial updates" (update-preferences.handler.spec.ts): a flag changes
\* only by an update that names it.
OnlyNamedFlagsChange ==
    [][\A f \in Flags : doc # Nothing /\ doc'[f] # doc[f] =>
           \E u \in Updates : at[u] = "saving" /\ f \in Names[u]]_vars
=============================================================================
