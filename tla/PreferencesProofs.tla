------------------------- MODULE PreferencesProofs -------------------------
(***************************************************************************)
(* Preferences keep their type, and what an undisturbed update made of a   *)
(* flag is kept, for any number of replicas, requests, flags and faults.   *)
(***************************************************************************)
EXTENDS Preferences, TLAPS

-----------------------------------------------------------------------------
(* The inductive invariant *)

\* Preferences that differ from nothing that is settled.
Agrees(p) == p \in Prefs /\ \A f \in Flags : settled[f] # Nothing => p[f] = settled[f]

\* What is known of a request: what it has read or is to write agrees with what is
\* settled, an update has unsettled the flags of its groups, and one that is alone is
\* the only one in progress.
RequestOK(r) ==
    /\ at[r] \in {"filling", "saving", "caching"} => Agrees(prefs[r])
    /\ at[r] = "creating" => Agrees(Default)
    /\ at[r] \in {"saving", "caching"} =>
         r \in Updates /\ \A f \in Names[r] : prefs[r][f] = Asks[r][f]
    /\ r \in Updates /\ InProgress(r) => \A f \in Touched(r) : settled[f] = Nothing
    /\ r \in alone => /\ \A q \in Requests : InProgress(q) => q = r
                      /\ at[r] = "caching" => doc = prefs[r]

InForce == IF doc = Nothing THEN Default ELSE doc

PreferencesInv ==
    /\ TypeOK
    /\ Agrees(InForce)
    /\ cache # Nothing => Agrees(cache)
    /\ \A r \in Requests : RequestOK(r)

LEMMA TypeIs ==
  ASSUME PreferencesInv
  PROVE  /\ at \in [Requests -> Places] /\ prefs \in [Requests -> Prefs \cup {Nothing}]
         /\ \A f \in Flags : settled[f] \in Values \cup {Nothing}
         /\ faults \in 0..MaxFaults /\ (\A ok \in BOOLEAN : Unless(ok) => faults' \in 0..MaxFaults)
         /\ Fault => faults' \in 0..MaxFaults
  BY PreferencesAssumption DEF PreferencesInv, TypeOK, Unless, Fault

LEMMA UpdatesUnsettle ==
  ASSUME PreferencesInv, NEW u \in Updates, InProgress(u), NEW f \in Touched(u)
  PROVE  settled[f] = Nothing
  BY DEF PreferencesInv, RequestOK, Requests

LEMMA NamesAreTouched ==
  ASSUME NEW u \in Updates
  PROVE  Names[u] \subseteq Touched(u)
  BY PreferencesAssumption DEF Touched

LEMMA GotoIs ==
  ASSUME PreferencesInv, NEW r \in Requests, NEW place \in Places, NEW p \in Prefs \cup {Nothing},
         Goto(r, place, p)
  PROVE  /\ at' \in [Requests -> Places] /\ prefs' \in [Requests -> Prefs \cup {Nothing}]
         /\ at'[r] = place /\ prefs'[r] = p
         /\ \A q \in Requests \ {r} : at'[q] = at[q] /\ prefs'[q] = prefs[q]
  BY TypeIs DEF Goto

\* A request goes on, with something that agrees, while nothing is settled or unsettled.
LEMMA MoveKeeps ==
  ASSUME PreferencesInv, NEW r \in Requests, InProgress(r),
         NEW place \in Places, NEW p \in Prefs \cup {Nothing}, Goto(r, place, p),
         alone' = alone, settled' = settled,
         place \in {"filling", "saving", "caching"} => Agrees(p),
         place = "creating" => Agrees(Default),
         place \in {"saving", "caching"} => r \in Updates /\ \A f \in Names[r] : p[f] = Asks[r][f],
         r \in alone /\ place = "caching" => doc' = p
  PROVE  /\ at' \in [Requests -> Places] /\ prefs' \in [Requests -> Prefs \cup {Nothing}]
         /\ \A q \in Requests : RequestOK(q)'
<1>1. /\ at' \in [Requests -> Places] /\ prefs' \in [Requests -> Prefs \cup {Nothing}]
      /\ at'[r] = place /\ prefs'[r] = p
      /\ \A q \in Requests \ {r} : at'[q] = at[q] /\ prefs'[q] = prefs[q]
  BY GotoIs
<1>2. \A x : Agrees(x) => Agrees(x)'
  BY DEF Agrees
<1>3. ASSUME NEW q \in Requests \ {r} PROVE RequestOK(q)'
  <2>1. RequestOK(q) /\ q \notin alone
    BY DEF PreferencesInv, RequestOK
  <2> QED BY <2>1, <1>1, <1>2 DEF RequestOK, InProgress, Agrees
<1>4. RequestOK(r)'
  <2>1. at'[r] \in {"filling", "saving", "caching"} => Agrees(prefs[r])'
    <3>1. at'[r] \in {"filling", "saving", "caching"} => Agrees(p)'
      BY <1>1, <1>2
    <3> QED BY <3>1, <1>1 DEF Agrees
  <2>2. at'[r] = "creating" => Agrees(Default)'
    BY <1>1, <1>2
  <2>3. at'[r] \in {"saving", "caching"} =>
          r \in Updates /\ \A f \in Names[r] : prefs'[r][f] = Asks[r][f]
    BY <1>1
  <2>4. r \in Updates => \A f \in Touched(r) : settled'[f] = Nothing
    BY UpdatesUnsettle
  <2>5. r \in alone' => /\ \A q \in Requests : InProgress(q)' => q = r
                        /\ at'[r] = "caching" => doc' = prefs'[r]
    BY <1>1 DEF PreferencesInv, RequestOK, InProgress
  <2> QED BY <2>1, <2>2, <2>3, <2>4, <2>5 DEF RequestOK
<1> QED BY <1>1, <1>3, <1>4

LEMMA EndsKeeps ==
  ASSUME PreferencesInv, NEW r \in Requests, InProgress(r), Ends(r), alone' = alone, settled' = settled
  PROVE  /\ at' \in [Requests -> Places] /\ prefs' \in [Requests -> Prefs \cup {Nothing}]
         /\ \A q \in Requests : RequestOK(q)'
<1> DEFINE place == IF r \in Updates THEN "over" ELSE "idle"
<1>1. Goto(r, place, Nothing) /\ place \in Places
  BY DEF Ends, Places
<1>2. place \notin {"creating", "filling", "saving", "caching"}
  OBVIOUS
<1> HIDE DEF place
<1> QED BY <1>1, <1>2, MoveKeeps

LEMMA HasKeeps ==
  ASSUME PreferencesInv, NEW r \in Requests, InProgress(r), NEW p, Agrees(p), Has(r, p),
         alone' = alone, settled' = settled
  PROVE  /\ at' \in [Requests -> Places] /\ prefs' \in [Requests -> Prefs \cup {Nothing}]
         /\ \A q \in Requests : RequestOK(q)'
<1>1. CASE r \in Updates
  <2>1. Goto(r, "saving", Applied(r, p)) /\ "saving" \in Places
    BY <1>1 DEF Has, Places
  <2>2. Applied(r, p) \in Prefs
    BY <1>1, PreferencesAssumption DEF Applied, Agrees, Prefs
  <2>3. \A f \in Names[r] : Applied(r, p)[f] = Asks[r][f]
    BY <1>1, PreferencesAssumption DEF Applied
  <2>4. ASSUME NEW f \in Flags, settled[f] # Nothing PROVE Applied(r, p)[f] = settled[f]
    <3>1. f \notin Touched(r) /\ f \notin Names[r]
      BY <1>1, <2>4, UpdatesUnsettle, NamesAreTouched
    <3>2. Applied(r, p)[f] = p[f]
      BY <3>1 DEF Applied
    <3> QED BY <3>2, <2>4 DEF Agrees
  <2>5. Agrees(Applied(r, p))
    BY <2>2, <2>4 DEF Agrees
  <2> HIDE DEF Applied
  <2> QED BY <1>1, <2>1, <2>2, <2>3, <2>5, MoveKeeps
<1>2. CASE r \notin Updates
  BY <1>2, EndsKeeps DEF Has
<1> QED BY <1>1, <1>2

-----------------------------------------------------------------------------
(* The actions *)

LEMMA StartKeeps ==
  ASSUME PreferencesInv, NEW r \in Requests, Start(r)
  PROVE  PreferencesInv'
<1>1. /\ doc' = doc /\ cache' = cache /\ faults' = faults /\ at[r] = "idle"
      /\ alone' = IF \E q \in Requests : InProgress(q) THEN {} ELSE {r}
      /\ settled' = [f \in Flags |-> IF r \in Updates /\ f \in Touched(r) THEN Nothing ELSE settled[f]]
  BY DEF Start
<1>2. /\ at' \in [Requests -> Places] /\ prefs' \in [Requests -> Prefs \cup {Nothing}]
      /\ at'[r] = "cache"
      /\ \A q \in Requests \ {r} : at'[q] = at[q] /\ prefs'[q] = prefs[q]
  BY GotoIs DEF Start, Places
<1>3. settled' \in [Flags -> Values \cup {Nothing}]
  BY <1>1, TypeIs
<1>4. \A f \in Flags : settled'[f] = Nothing \/ settled'[f] = settled[f]
  BY <1>1
<1>5. \A f \in Flags : r \in Updates /\ f \in Touched(r) => settled'[f] = Nothing
  BY <1>1
<1>6. \A x : Agrees(x) => Agrees(x)'
  BY <1>4 DEF Agrees
<1>7. TypeOK'
  BY <1>1, <1>2, <1>3 DEF PreferencesInv, TypeOK
<1>8. Agrees(InForce)' /\ (cache' # Nothing => Agrees(cache)')
  BY <1>1, <1>4 DEF PreferencesInv, Agrees, InForce
<1>9. ASSUME NEW q \in Requests \ {r} PROVE RequestOK(q)'
  <2>1. RequestOK(q)
    BY DEF PreferencesInv
  <2>2. q \notin alone'
    BY <1>1
  <2>3. \A f \in Touched(q) : f \in Flags
    BY DEF Touched
  <2>4. at[q] \in {"filling", "saving", "caching"} => Agrees(prefs[q])'
    BY <2>1, <1>2, <1>4 DEF RequestOK, Agrees
  <2> QED BY <2>1, <2>2, <2>3, <2>4, <1>2, <1>4, <1>6 DEF RequestOK, InProgress
<1>10. RequestOK(r)'
  <2>1. r \in Updates => \A f \in Touched(r) : settled'[f] = Nothing
    BY <1>5 DEF Touched
  <2>2. r \in alone' => \A q \in Requests : InProgress(q)' => q = r
    BY <1>1, <1>2 DEF InProgress
  <2> QED BY <2>1, <2>2, <1>2 DEF RequestOK
<1> QED BY <1>7, <1>8, <1>9, <1>10 DEF PreferencesInv

LEMMA LookKeeps ==
  ASSUME PreferencesInv, NEW r \in Requests, NEW ok \in BOOLEAN, LookInCache(r, ok)
  PROVE  PreferencesInv'
<1>1. /\ doc' = doc /\ cache' = cache /\ alone' = alone /\ settled' = settled
      /\ at[r] = "cache" /\ Unless(ok)
      /\ IF ok /\ cache # Nothing THEN Has(r, cache) ELSE Goto(r, "document", Nothing)
  BY DEF LookInCache
<1>2. InProgress(r)
  BY <1>1 DEF InProgress
<1>3. /\ at' \in [Requests -> Places] /\ prefs' \in [Requests -> Prefs \cup {Nothing}]
      /\ \A q \in Requests : RequestOK(q)'
  <2>1. CASE ok /\ cache # Nothing
    BY <2>1, <1>1, <1>2, HasKeeps DEF PreferencesInv
  <2>2. CASE ~(ok /\ cache # Nothing)
    <3>1. Goto(r, "document", Nothing) /\ "document" \in Places
      BY <2>2, <1>1 DEF Places
    <3> QED BY <3>1, <1>1, <1>2, MoveKeeps
  <2> QED BY <2>1, <2>2
<1>4. TypeOK'
  BY <1>1, <1>3, TypeIs DEF PreferencesInv, TypeOK
<1>5. Agrees(InForce)' /\ (cache' # Nothing => Agrees(cache)')
  BY <1>1 DEF PreferencesInv, Agrees, InForce
<1> QED BY <1>3, <1>4, <1>5 DEF PreferencesInv

LEMMA ReadKeeps ==
  ASSUME PreferencesInv, NEW r \in Requests, ReadDocument(r)
  PROVE  PreferencesInv'
<1>1. /\ doc' = doc /\ cache' = cache /\ alone' = alone /\ settled' = settled /\ faults' = faults
      /\ at[r] = "document"
      /\ IF doc # Nothing THEN Goto(r, "filling", doc) ELSE Goto(r, "creating", Nothing)
  BY DEF ReadDocument
<1>2. InProgress(r) /\ Agrees(InForce)
  BY <1>1 DEF InProgress, PreferencesInv
<1>3. /\ at' \in [Requests -> Places] /\ prefs' \in [Requests -> Prefs \cup {Nothing}]
      /\ \A q \in Requests : RequestOK(q)'
  <2>1. CASE doc # Nothing
    <3>1. Goto(r, "filling", doc) /\ "filling" \in Places /\ Agrees(doc) /\ doc \in Prefs
      BY <2>1, <1>1, <1>2 DEF Places, InForce, Agrees
    <3> QED BY <3>1, <1>1, <1>2, MoveKeeps
  <2>2. CASE doc = Nothing
    <3>1. Goto(r, "creating", Nothing) /\ "creating" \in Places /\ Agrees(Default)
      BY <2>2, <1>1, <1>2 DEF Places, InForce
    <3> QED BY <3>1, <1>1, <1>2, MoveKeeps
  <2> QED BY <2>1, <2>2
<1>4. TypeOK'
  BY <1>1, <1>3 DEF PreferencesInv, TypeOK
<1>5. Agrees(InForce)' /\ (cache' # Nothing => Agrees(cache)')
  BY <1>1 DEF PreferencesInv, Agrees, InForce
<1> QED BY <1>3, <1>4, <1>5 DEF PreferencesInv

LEMMA CreateKeeps ==
  ASSUME PreferencesInv, NEW r \in Requests, CreateDefault(r)
  PROVE  PreferencesInv'
<1>1. /\ doc' = Default /\ cache' = cache /\ alone' = alone /\ settled' = settled /\ faults' = faults
      /\ at[r] = "creating" /\ Goto(r, "filling", Default)
  BY DEF CreateDefault
<1>2. InProgress(r) /\ Agrees(Default) /\ "filling" \in Places /\ Default \in Prefs
  BY <1>1, PreferencesAssumption DEF InProgress, PreferencesInv, RequestOK, Places
<1>3. /\ at' \in [Requests -> Places] /\ prefs' \in [Requests -> Prefs \cup {Nothing}]
      /\ \A q \in Requests : RequestOK(q)'
  BY <1>1, <1>2, MoveKeeps
<1>4. TypeOK'
  BY <1>1, <1>2, <1>3 DEF PreferencesInv, TypeOK
<1>5. Agrees(InForce)' /\ (cache' # Nothing => Agrees(cache)')
  BY <1>1, <1>2 DEF PreferencesInv, Agrees, InForce
<1> QED BY <1>3, <1>4, <1>5 DEF PreferencesInv

LEMMA FillKeeps ==
  ASSUME PreferencesInv, NEW r \in Requests, NEW ok \in BOOLEAN, Fill(r, ok)
  PROVE  PreferencesInv'
<1>1. /\ doc' = doc /\ alone' = alone /\ settled' = settled
      /\ cache' = IF ok THEN prefs[r] ELSE cache
      /\ at[r] = "filling" /\ Unless(ok) /\ Has(r, prefs[r])
  BY DEF Fill
<1>2. InProgress(r) /\ Agrees(prefs[r])
  BY <1>1 DEF InProgress, PreferencesInv, RequestOK
<1>3. /\ at' \in [Requests -> Places] /\ prefs' \in [Requests -> Prefs \cup {Nothing}]
      /\ \A q \in Requests : RequestOK(q)'
  BY <1>1, <1>2, HasKeeps
<1>4. TypeOK'
  BY <1>1, <1>2, <1>3, TypeIs DEF PreferencesInv, TypeOK, Agrees
<1>5. Agrees(InForce)' /\ (cache' # Nothing => Agrees(cache)')
  BY <1>1, <1>2 DEF PreferencesInv, Agrees, InForce
<1> QED BY <1>3, <1>4, <1>5 DEF PreferencesInv

LEMMA SaveKeeps ==
  ASSUME PreferencesInv, NEW u \in Requests, Save(u)
  PROVE  PreferencesInv'
<1>1. /\ doc' = prefs[u] /\ cache' = cache /\ alone' = alone /\ settled' = settled /\ faults' = faults
      /\ at[u] = "saving" /\ Goto(u, "caching", prefs[u])
  BY DEF Save
<1>2. /\ InProgress(u) /\ Agrees(prefs[u]) /\ prefs[u] \in Prefs /\ "caching" \in Places
      /\ u \in Updates /\ \A f \in Names[u] : prefs[u][f] = Asks[u][f]
  BY <1>1 DEF InProgress, PreferencesInv, RequestOK, Places, Agrees
<1>3. /\ at' \in [Requests -> Places] /\ prefs' \in [Requests -> Prefs \cup {Nothing}]
      /\ \A q \in Requests : RequestOK(q)'
  BY <1>1, <1>2, MoveKeeps
<1>4. TypeOK'
  BY <1>1, <1>2, <1>3 DEF PreferencesInv, TypeOK
<1>5. doc' # Nothing
  BY <1>1, <1>2, PreferencesAssumption
<1>6. Agrees(InForce)' /\ (cache' # Nothing => Agrees(cache)')
  BY <1>1, <1>2, <1>5 DEF PreferencesInv, Agrees, InForce
<1> QED BY <1>3, <1>4, <1>6 DEF PreferencesInv

LEMMA CacheSavedKeeps ==
  ASSUME PreferencesInv, NEW u \in Requests, NEW ok \in BOOLEAN, CacheSaved(u, ok)
  PROVE  PreferencesInv'
<1>1. /\ doc' = doc /\ alone' = alone /\ at[u] = "caching" /\ Unless(ok) /\ Ends(u)
      /\ cache' = IF ok THEN prefs[u] ELSE cache
      /\ settled' = IF ok /\ u \in alone
                    THEN [f \in Flags |-> IF f \in Names[u] THEN Asks[u][f] ELSE settled[f]]
                    ELSE settled
  BY DEF CacheSaved, Cached
<1>2. /\ InProgress(u) /\ Agrees(prefs[u]) /\ prefs[u] \in Prefs /\ prefs[u] # Nothing
      /\ u \in Updates /\ \A f \in Names[u] : prefs[u][f] = Asks[u][f]
  BY <1>1, PreferencesAssumption DEF InProgress, PreferencesInv, RequestOK, Agrees
<1>3. CASE ok /\ u \in alone
  <2>1. doc = prefs[u] /\ \A q \in Requests : InProgress(q) => q = u
    BY <1>1, <1>3 DEF PreferencesInv, RequestOK
  <2>2. Agrees(prefs[u])'  <=> (prefs'[u] \in Prefs /\ \A f \in Flags : settled'[f] # Nothing => prefs'[u][f] = settled'[f])
    BY DEF Agrees
  <2>3. \A f \in Flags : settled'[f] # Nothing => prefs[u][f] = settled'[f]
    BY <1>1, <1>2, <1>3 DEF Agrees
  <2>4. settled' \in [Flags -> Values \cup {Nothing}]
    BY <1>1, <1>2, <1>3, TypeIs, PreferencesAssumption DEF Prefs
  <2>5. /\ at' \in [Requests -> Places] /\ prefs' \in [Requests -> Prefs \cup {Nothing}]
        /\ at'[u] = "over"
        /\ \A q \in Requests \ {u} : at'[q] = at[q] /\ prefs'[q] = prefs[q]
    <3>1. Goto(u, "over", Nothing) /\ "over" \in Places
      BY <1>1, <1>2 DEF Ends, Places
    <3> QED BY <3>1, GotoIs
  <2>6. TypeOK'
    BY <1>1, <1>2, <2>4, <2>5, TypeIs DEF PreferencesInv, TypeOK
  <2>7. Agrees(InForce)' /\ (cache' # Nothing => Agrees(cache)')
    BY <1>1, <1>2, <1>3, <2>1, <2>3 DEF Agrees, InForce
  <2>8. ASSUME NEW q \in Requests PROVE RequestOK(q)'
    <3>1. ~InProgress(q)' /\ at'[q] \in {"idle", "over"}
      BY <2>1, <2>5 DEF InProgress
    <3>2. q \in alone' => \A p \in Requests : InProgress(p)' => p = q
      BY <1>1, <2>1, <2>5 DEF InProgress
    <3> QED BY <3>1, <3>2 DEF RequestOK
  <2> QED BY <2>6, <2>7, <2>8 DEF PreferencesInv
<1>4. CASE ~(ok /\ u \in alone)
  <2>1. settled' = settled
    BY <1>1, <1>4
  <2>2. /\ at' \in [Requests -> Places] /\ prefs' \in [Requests -> Prefs \cup {Nothing}]
        /\ \A q \in Requests : RequestOK(q)'
    BY <1>1, <1>2, <2>1, EndsKeeps
  <2>3. TypeOK'
    BY <1>1, <1>2, <2>1, <2>2, TypeIs DEF PreferencesInv, TypeOK
  <2>4. Agrees(InForce)' /\ (cache' # Nothing => Agrees(cache)')
    BY <1>1, <1>2, <2>1 DEF PreferencesInv, Agrees, InForce
  <2> QED BY <2>2, <2>3, <2>4 DEF PreferencesInv
<1> QED BY <1>3, <1>4

LEMMA DatabaseFailsKeeps ==
  ASSUME PreferencesInv, NEW r \in Requests, NEW written \in BOOLEAN, DatabaseFails(r, written)
  PROVE  PreferencesInv'
<1>1. /\ cache' = cache /\ alone' = alone /\ settled' = settled
      /\ at[r] \in {"document", "creating", "saving"} /\ Fault /\ Ends(r)
      /\ doc' = CASE written /\ at[r] = "creating" -> Default
                  [] written /\ at[r] = "saving"   -> prefs[r]
                  [] OTHER                         -> doc
  BY DEF DatabaseFails
<1>2. InProgress(r)
  BY <1>1 DEF InProgress
<1>3. /\ at' \in [Requests -> Places] /\ prefs' \in [Requests -> Prefs \cup {Nothing}]
      /\ \A q \in Requests : RequestOK(q)'
  BY <1>1, <1>2, EndsKeeps
<1>4. doc' = doc \/ (Agrees(doc') /\ doc' # Nothing)
  BY <1>1, PreferencesAssumption DEF PreferencesInv, RequestOK, Agrees
<1>5. TypeOK'
  BY <1>1, <1>3, <1>4, TypeIs DEF PreferencesInv, TypeOK, Agrees
<1>6. Agrees(InForce)' /\ (cache' # Nothing => Agrees(cache)')
  BY <1>1, <1>4 DEF PreferencesInv, Agrees, InForce
<1> QED BY <1>3, <1>5, <1>6 DEF PreferencesInv

LEMMA CrashKeeps ==
  ASSUME PreferencesInv, NEW h \in Replicas, Crash(h)
  PROVE  PreferencesInv'
<1> DEFINE dying == {r \in Requests : Host[r] = h /\ InProgress(r)}
<1>1. /\ doc' = doc /\ cache' = cache /\ alone' = alone /\ settled' = settled /\ Fault
      /\ at' = [r \in Requests |-> IF r \notin dying THEN at[r]
                                    ELSE IF r \in Updates THEN "over" ELSE "idle"]
      /\ prefs' = [r \in Requests |-> IF r \in dying THEN Nothing ELSE prefs[r]]
  BY DEF Crash
<1> HIDE DEF dying
<1>2. at' \in [Requests -> Places] /\ prefs' \in [Requests -> Prefs \cup {Nothing}]
  BY <1>1, TypeIs DEF Places
<1>3. TypeOK'
  BY <1>1, <1>2, TypeIs DEF PreferencesInv, TypeOK
<1>4. Agrees(InForce)' /\ (cache' # Nothing => Agrees(cache)')
  BY <1>1 DEF PreferencesInv, Agrees, InForce
<1>5. \A q \in Requests : InProgress(q)' => InProgress(q)
  BY <1>1 DEF InProgress
<1>6. ASSUME NEW q \in Requests PROVE RequestOK(q)'
  <2>1. RequestOK(q)
    BY DEF PreferencesInv
  <2>2. q \in alone' => \A p \in Requests : InProgress(p)' => p = q
    BY <2>1, <1>1, <1>5 DEF RequestOK
  <2>3. CASE q \in dying
    <3>1. ~InProgress(q)' /\ at'[q] \in {"idle", "over"}
      BY <2>3, <1>1 DEF InProgress
    <3> QED BY <3>1, <2>2 DEF RequestOK
  <2>4. CASE q \notin dying
    <3>1. at'[q] = at[q] /\ prefs'[q] = prefs[q]
      BY <2>4, <1>1
    <3> QED BY <3>1, <2>1, <2>2, <1>1 DEF RequestOK, InProgress, Agrees
  <2> QED BY <2>3, <2>4
<1> QED BY <1>3, <1>4, <1>6 DEF PreferencesInv

\* The cache entry expires, or nothing happens.
LEMMA NothingElseKeeps ==
  ASSUME PreferencesInv, cache' = cache \/ cache' = Nothing,
         UNCHANGED <<doc, at, prefs, alone, settled, faults>>
  PROVE  PreferencesInv'
<1>1. TypeOK'
  BY DEF PreferencesInv, TypeOK
<1>2. Agrees(InForce)' /\ (cache' # Nothing => Agrees(cache)')
  BY DEF PreferencesInv, Agrees, InForce
<1>3. \A q \in Requests : RequestOK(q)'
  BY DEF PreferencesInv, RequestOK, InProgress, Agrees
<1> QED BY <1>1, <1>2, <1>3 DEF PreferencesInv

-----------------------------------------------------------------------------
(* Every step, and the theorems *)

LEMMA InvInit == Init => PreferencesInv
<1> SUFFICES ASSUME Init PROVE PreferencesInv
  OBVIOUS
<1>1. TypeOK
  BY PreferencesAssumption DEF Init, TypeOK, Places, Prefs
<1>2. Agrees(InForce) /\ cache = Nothing
  BY PreferencesAssumption DEF Init, Agrees, InForce
<1>3. \A r \in Requests : RequestOK(r)
  BY DEF Init, RequestOK, InProgress
<1> QED BY <1>1, <1>2, <1>3 DEF PreferencesInv

LEMMA InvStep == PreferencesInv /\ [Next]_vars => PreferencesInv'
<1> SUFFICES ASSUME PreferencesInv, [Next]_vars PROVE PreferencesInv'
  OBVIOUS
<1>1. ASSUME NEW r \in Requests, Start(r) \/ RequestStep(r) PROVE PreferencesInv'
  BY <1>1, StartKeeps, LookKeeps, ReadKeeps, CreateKeeps, FillKeeps, SaveKeeps, CacheSavedKeeps,
     DatabaseFailsKeeps DEF RequestStep
<1>2. ASSUME NEW h \in Replicas, Crash(h) PROVE PreferencesInv'
  BY <1>2, CrashKeeps
<1>3. CASE Expire
  BY <1>3, NothingElseKeeps DEF Expire, Expired
<1>4. CASE UNCHANGED vars
  BY <1>4, NothingElseKeeps DEF vars
<1> QED BY <1>1, <1>2, <1>3, <1>4 DEF Next

LEMMA InvHolds == Spec => []PreferencesInv
BY InvInit, InvStep, PTL DEF Spec

\* Every variable keeps its type.
THEOREM PreferencesTypes == Spec => []TypeOK
<1>1. PreferencesInv => TypeOK
  BY DEF PreferencesInv
<1> QED BY <1>1, InvHolds, PTL

\* UpdatePreferencesHandler's change, made while no other request is in progress, is
\* never lost to the reads and updates of other flags that follow it.
THEOREM UndisturbedUpdatesAreKept == Spec => []AloneIsKept
<1>1. PreferencesInv => AloneIsKept
  BY DEF PreferencesInv, AloneIsKept, Agrees, InForce
<1> QED BY <1>1, InvHolds, PTL
=============================================================================
