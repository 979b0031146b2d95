--------------------------- MODULE CardEndpointsProofs ---------------------------
(***************************************************************************)
(* Theorems about FilteredCardCache and about CardEndpoints around it, for *)
(* any principals, tokens, claims, roles, ACL, approvals, number of        *)
(* requests and size of the cache.                                         *)
(***************************************************************************)
EXTENDS CardEndpoints, FiniteSetTheorems, TLAPS

-----------------------------------------------------------------------------
(* The cache *)

(* The empty cache is well typed. *)
LEMMA TypeInit == Init => TypeOK
  BY CacheAssumption DEF Init, TypeOK, Card

(* No step of a request breaks the types. *)
LEMMA TypeNext == TypeOK /\ [Next]_vars => TypeOK'
<1> SUFFICES ASSUME TypeOK, [Next]_vars PROVE TypeOK'
  OBVIOUS
<1>1. ASSUME NEW r \in Callers, NEW p \in Identity, Hit(r, p) PROVE TypeOK'
  BY <1>1 DEF Hit, TypeOK
<1>2. ASSUME NEW r \in Callers, NEW p \in Identity, Miss(r, p) PROVE TypeOK'
  <2>1. p.id \in Ids
    BY DEF Identity
  <2> QED BY <1>2, <2>1 DEF Miss, TypeOK
<1>3. ASSUME NEW r \in Callers, Filter(r) PROVE TypeOK'
  <2>1. identity[r] \in Identity /\ identity[r].id \in Ids
    BY <1>3 DEF Filter, TypeOK, Identity
  <2>2. acl_filtered_card(identity[r]) \in Card
    BY DEF acl_filtered_card, Card
  <2> QED BY <1>3, <2>1, <2>2 DEF Filter, TypeOK
<1>4. ASSUME NEW r \in Callers, Insert(r) PROVE TypeOK'
  <2>1. key(identity[r]) \in Ids /\ card[r] \in Card
    BY <1>4 DEF Insert, TypeOK, Identity, key
  <2>2. /\ DOMAIN cache' \subseteq Ids
        /\ \A k \in DOMAIN cache' : cache'[k] \in Card
    BY <1>4, <2>1 DEF Insert, TypeOK, stored, room
  <2> QED BY <1>4, <2>2 DEF Insert, TypeOK
<1>5. CASE UNCHANGED vars
  BY <1>5 DEF vars, TypeOK
<1> QED BY <1>1, <1>2, <1>3, <1>4, <1>5 DEF Next

(* TypeOK is an invariant. *)
THEOREM TypeCorrect == Spec => []TypeOK
  BY TypeInit, TypeNext, PTL DEF Spec

-----------------------------------------------------------------------------
(* The bound of the cache *)

SizeInv == IsFiniteSet(DOMAIN cache) /\ CacheBounded

(* An empty cache is within any bound. *)
LEMMA SizeInit == Init => SizeInv
<1> SUFFICES ASSUME Init PROVE SizeInv
  OBVIOUS
<1>1. DOMAIN cache = {}
  BY DEF Init
<1> QED BY <1>1, FS_EmptySet, CacheAssumption DEF SizeInv, CacheBounded

(* An insertion makes room first: the entries left are fewer than the cap. *)
LEMMA RoomLeft ==
  ASSUME SizeInv
  PROVE  IsFiniteSet(DOMAIN room(cache)) /\ Cardinality(DOMAIN room(cache)) < MaxCached
<1>1. Cardinality(DOMAIN cache) \in Nat
  BY FS_CardinalityType DEF SizeInv
<1>2. CASE Cardinality(DOMAIN cache) >= MaxCached
  <2>1. DOMAIN room(cache) = {}
    BY <1>2 DEF room
  <2> QED BY <2>1, FS_EmptySet, CacheAssumption
<1>3. CASE ~(Cardinality(DOMAIN cache) >= MaxCached)
  BY <1>1, <1>3, CacheAssumption DEF room, SizeInv
<1> QED BY <1>2, <1>3

(* No step lets the cache outgrow its cap. *)
LEMMA SizeNext == SizeInv /\ [Next]_vars => SizeInv'
<1> SUFFICES ASSUME SizeInv, [Next]_vars PROVE SizeInv'
  OBVIOUS
<1>1. ASSUME NEW r \in Callers, Insert(r) PROVE SizeInv'
  <2> DEFINE R == DOMAIN room(cache)
  <2> DEFINE k == key(identity[r])
  <2>1. DOMAIN cache' = R \cup {k}
    BY <1>1 DEF Insert, stored
  <2>2. IsFiniteSet(R) /\ Cardinality(R) \in Nat /\ Cardinality(R) < MaxCached
    BY RoomLeft, FS_CardinalityType
  <2> HIDE DEF R, k
  <2>3. /\ IsFiniteSet(R \cup {k})
        /\ Cardinality(R \cup {k}) = IF k \in R THEN Cardinality(R) ELSE Cardinality(R) + 1
    BY <2>2, FS_AddElement
  <2> QED BY <2>1, <2>2, <2>3, CacheAssumption DEF SizeInv, CacheBounded
<1>2. CASE UNCHANGED cache
  BY <1>2 DEF SizeInv, CacheBounded
<1> QED BY <1>1, <1>2 DEF Next, Hit, Miss, Filter, vars

(* The cache never holds more than its cap, whatever misses race. *)
THEOREM CacheStaysBounded == Spec => []CacheBounded
<1>1. SizeInv => CacheBounded
  BY DEF SizeInv
<1> QED BY SizeInit, SizeNext, <1>1, PTL DEF Spec

-----------------------------------------------------------------------------
(* Whose card is answered *)

(* A card is what the ACL allows some request of that principal to see.    *)
Provenance(i, c) ==
    \E q \in Callers : /\ rc[q] # "idle"
                       /\ identity[q].id = i
                       /\ c = acl_filtered_card(identity[q])

(* Every cached card, and every card a request holds, comes from a request *)
(* of the same principal.                                                  *)
ProvenanceInv ==
    /\ \A k \in DOMAIN cache : Provenance(k, cache[k])
    /\ \A r \in Callers : rc[r] \in {"filtered", "answered"} =>
           Provenance(identity[r].id, card[r])

(* Nothing is cached or held at first. *)
LEMMA ProvenanceInit == Init => ProvenanceInv
  BY DEF Init, ProvenanceInv

(* A card keeps its provenance while requests keep their identities. *)
LEMMA ProvenanceKept ==
  ASSUME \A q \in Callers : rc[q] # "idle" => rc'[q] # "idle" /\ identity'[q] = identity[q],
         NEW i, NEW c, Provenance(i, c)
  PROVE  Provenance(i, c)'
  BY DEF Provenance, acl_filtered_card

(* Each step answers and stores cards of the principal's own requests. *)
LEMMA ProvenanceNext == TypeOK /\ ProvenanceInv /\ [Next]_vars => ProvenanceInv'
<1> SUFFICES ASSUME TypeOK, ProvenanceInv, [Next]_vars PROVE ProvenanceInv'
  OBVIOUS
<1>1. \A q \in Callers : rc[q] # "idle" => rc'[q] # "idle" /\ identity'[q] = identity[q]
  BY DEF Next, Hit, Miss, Filter, Insert, TypeOK, vars
<1>2. ASSUME NEW r \in Callers, NEW p \in Identity, Hit(r, p) PROVE ProvenanceInv'
  <2>1. Provenance(p.id, cache[p.id])
    BY <1>2 DEF Hit, key, ProvenanceInv
  <2>2. Provenance(p.id, cache[p.id])'
    <3>1. cache' = cache
      BY <1>2 DEF Hit
    <3>2. PICK q \in Callers : /\ rc[q] # "idle"
                               /\ identity[q].id = p.id
                               /\ cache[p.id] = acl_filtered_card(identity[q])
      BY <2>1 DEF Provenance
    <3> QED BY <1>1, <3>1, <3>2 DEF Provenance, acl_filtered_card
  <2>3. \A k \in DOMAIN cache' : Provenance(k, cache[k])'
    BY <1>1, <1>2, ProvenanceKept DEF Hit, ProvenanceInv
  <2> QED BY <1>1, <1>2, <2>2, <2>3 DEF Hit, key, ProvenanceInv, TypeOK, Provenance, acl_filtered_card
<1>3. ASSUME NEW r \in Callers, NEW p \in Identity, Miss(r, p) PROVE ProvenanceInv'
  BY <1>1, <1>3 DEF Miss, ProvenanceInv, TypeOK, Provenance, acl_filtered_card
<1>4. ASSUME NEW r \in Callers, Filter(r) PROVE ProvenanceInv'
  BY <1>1, <1>4 DEF Filter, ProvenanceInv, TypeOK, Provenance, acl_filtered_card
<1>5. ASSUME NEW r \in Callers, Insert(r) PROVE ProvenanceInv'
  <2>1. \A k \in DOMAIN cache' :
          \/ k = identity[r].id /\ cache'[k] = card[r]
          \/ k \in DOMAIN cache /\ cache'[k] = cache[k]
    BY <1>5 DEF Insert, stored, room, key
  <2> QED BY <1>1, <1>5, <2>1 DEF Insert, ProvenanceInv, TypeOK, Provenance, acl_filtered_card
<1>6. CASE UNCHANGED vars
  BY <1>6 DEF vars, ProvenanceInv, Provenance
<1> QED BY <1>2, <1>3, <1>4, <1>5, <1>6 DEF Next

(* A principal that keeps its role is answered the card the ACL allows it. *)
THEOREM SteadyCallersAnswered == Spec => []SteadyCallersSeeTheirCard
<1>1. ProvenanceInv => SteadyCallersSeeTheirCard
  BY DEF ProvenanceInv, Provenance, SteadyCallersSeeTheirCard
<1> QED BY TypeInit, TypeNext, ProvenanceInit, ProvenanceNext, <1>1, PTL DEF Spec

-----------------------------------------------------------------------------
(* What the audit sink is driven for *)

(* A principal that raced with nobody has at most one request at work. It  *)
(* has been audited once more than the map was dropped only if its card is *)
(* cached or about to be.                                                  *)
AuditInv ==
    \A i \in Ids \ raced :
        /\ \A q, r \in InFlight(i) : q = r
        /\ audits[i] <= clears + 1
        /\ (\E r \in InFlight(i) : rc[r] = "missed") => audits[i] <= clears
        /\ i \notin DOMAIN cache /\ InFlight(i) = {} => audits[i] <= clears

(* Nothing is audited before a request. *)
LEMMA AuditInit == Init => AuditInv
  BY DEF Init, AuditInv, InFlight

(* Each step pays for the audits it causes: with a miss, or with the map.  *)
LEMMA AuditNext == TypeOK /\ AuditInv /\ [Next]_vars => AuditInv'
<1> SUFFICES ASSUME TypeOK, AuditInv, [Next]_vars PROVE AuditInv'
  OBVIOUS
<1>1. ASSUME NEW r \in Callers, NEW p \in Identity, Hit(r, p) PROVE AuditInv'
  <2>1. \A i \in Ids : InFlight(i)' = InFlight(i)
    BY <1>1 DEF Hit, InFlight, TypeOK
  <2>2. \A i \in Ids : \A q \in InFlight(i) : rc'[q] = rc[q]
    BY <1>1 DEF Hit, InFlight, TypeOK
  <2> QED BY <1>1, <2>1, <2>2 DEF Hit, AuditInv
<1>2. ASSUME NEW r \in Callers, NEW p \in Identity, Miss(r, p) PROVE AuditInv'
  <2>1. \A i \in Ids : InFlight(i)' = InFlight(i) \cup {q \in {r} : i = p.id}
    BY <1>2 DEF Miss, InFlight, TypeOK
  <2>2. \A i \in Ids : \A q \in InFlight(i) : rc'[q] = rc[q]
    BY <1>2 DEF Miss, InFlight, TypeOK
  <2> SUFFICES ASSUME NEW i \in Ids, i \notin raced' PROVE
        /\ \A q, s \in InFlight(i)' : q = s
        /\ audits'[i] <= clears' + 1
        /\ (\E q \in InFlight(i)' : rc'[q] = "missed") => audits'[i] <= clears'
        /\ i \notin DOMAIN cache' /\ InFlight(i)' = {} => audits'[i] <= clears'
    BY DEF AuditInv
  <2>3. i \notin raced /\ UNCHANGED <<cache, audits, clears>>
    BY <1>2 DEF Miss
  <2>4. CASE i # p.id
    BY <2>1, <2>2, <2>3, <2>4 DEF AuditInv
  <2>5. CASE i = p.id
    <3>1. InFlight(i) = {} /\ i \notin DOMAIN cache
      BY <1>2, <2>5 DEF Miss, key
    <3> QED BY <2>1, <2>3, <2>5, <3>1 DEF AuditInv
  <2> QED BY <2>4, <2>5
<1>3. ASSUME NEW r \in Callers, Filter(r) PROVE AuditInv'
  <2>1. \A i \in Ids : InFlight(i)' = InFlight(i)
    BY <1>3 DEF Filter, InFlight, TypeOK
  <2>2. identity[r].id \in Ids /\ r \in InFlight(identity[r].id)
    BY <1>3 DEF Filter, InFlight, TypeOK, Identity
  <2>3. \A q \in Callers : rc'[q] = IF q = r THEN "filtered" ELSE rc[q]
    BY <1>3 DEF Filter, TypeOK
  <2>4. \A i \in Ids : audits'[i] = IF i = identity[r].id THEN audits[i] + 1 ELSE audits[i]
    BY <1>3, <2>2 DEF Filter, TypeOK
  <2> SUFFICES ASSUME NEW i \in Ids, i \notin raced' PROVE
        /\ \A q, s \in InFlight(i)' : q = s
        /\ audits'[i] <= clears' + 1
        /\ (\E q \in InFlight(i)' : rc'[q] = "missed") => audits'[i] <= clears'
        /\ i \notin DOMAIN cache' /\ InFlight(i)' = {} => audits'[i] <= clears'
    BY DEF AuditInv
  <2>5. i \notin raced /\ UNCHANGED <<cache, clears>> /\ rc[r] = "missed"
    BY <1>3 DEF Filter
  <2>6. \A q \in InFlight(i) : q \in Callers
    BY DEF InFlight
  <2>7. audits[i] \in Nat /\ clears \in Nat
    BY DEF TypeOK
  <2>8. CASE i = identity[r].id
    BY <2>1, <2>2, <2>3, <2>4, <2>5, <2>6, <2>7, <2>8 DEF AuditInv
  <2>9. CASE i # identity[r].id
    <3>1. r \notin InFlight(i)
      BY <2>9 DEF InFlight
    <3> QED BY <2>1, <2>3, <2>4, <2>5, <2>6, <2>9, <3>1 DEF AuditInv
  <2> QED BY <2>8, <2>9
<1>4. ASSUME NEW r \in Callers, Insert(r) PROVE AuditInv'
  <2> DEFINE dropped == Cardinality(DOMAIN cache) >= MaxCached
  <2>1. \A i \in Ids : InFlight(i)' = InFlight(i) \ {r}
    BY <1>4 DEF Insert, InFlight, TypeOK
  <2>2. \A q \in Callers : q # r => rc'[q] = rc[q]
    BY <1>4 DEF Insert, TypeOK
  <2>3. DOMAIN cache' = (IF dropped THEN {} ELSE DOMAIN cache) \cup {identity[r].id}
    BY <1>4 DEF Insert, stored, room, key
  <2>4. clears' = IF dropped THEN clears + 1 ELSE clears
    BY <1>4 DEF Insert
  <2> HIDE DEF dropped
  <2> SUFFICES ASSUME NEW i \in Ids, i \notin raced' PROVE
        /\ \A q, s \in InFlight(i)' : q = s
        /\ audits'[i] <= clears' + 1
        /\ (\E q \in InFlight(i)' : rc'[q] = "missed") => audits'[i] <= clears'
        /\ i \notin DOMAIN cache' /\ InFlight(i)' = {} => audits'[i] <= clears'
    BY DEF AuditInv
  <2>5. i \notin raced /\ UNCHANGED audits
    BY <1>4 DEF Insert
  <2>6. audits[i] \in Nat /\ clears \in Nat
    BY DEF TypeOK
  <2>7. InFlight(i)' \subseteq InFlight(i) /\ \A q \in InFlight(i)' : rc'[q] = rc[q]
    BY <2>1, <2>2 DEF InFlight
  <2>8. i \notin DOMAIN cache' /\ InFlight(i)' = {} => audits'[i] <= clears'
    <3> SUFFICES ASSUME i \notin DOMAIN cache', InFlight(i)' = {} PROVE audits'[i] <= clears'
      OBVIOUS
    <3>1. r \notin InFlight(i)
      BY <2>3 DEF InFlight
    <3>2. InFlight(i) = {}
      BY <2>1, <3>1
    <3> QED BY <2>3, <2>4, <2>5, <2>6, <3>2 DEF AuditInv
  <2> QED BY <2>4, <2>5, <2>6, <2>7, <2>8 DEF AuditInv
<1>5. CASE UNCHANGED vars
  BY <1>5 DEF vars, AuditInv, InFlight
<1> QED BY <1>1, <1>2, <1>3, <1>4, <1>5 DEF Next

(* Requests that do not race cost the sink one card per drop of the map.   *)
THEOREM AuditsStayMemoized == Spec => []AuditsAreMemoized
<1>1. AuditInv => AuditsAreMemoized
  BY DEF AuditInv, AuditsAreMemoized
<1> QED BY TypeInit, TypeNext, AuditInit, AuditNext, <1>1, PTL DEF Spec

-----------------------------------------------------------------------------
(* The identity a handler acts for *)

(* A handler acts for an identity, be it the anonymous one. *)
LEMMA PrincipalType ==
  ASSUME EndpointsTypeOK, NEW r \in Callers
  PROVE  principal(r) \in Identity
  BY EndpointsAssumption DEF principal, EndpointsTypeOK

-----------------------------------------------------------------------------
(* The endpoints use the cache as it may be used *)

(* A request that is handled is looked up, filtered and inserted for its   *)
(* principal; every other step leaves the cache alone.                     *)
LEMMA CacheStep ==
  ASSUME EndpointsTypeOK, [EndpointsNext]_allVars
  PROVE  [Next]_vars
<1>1. ASSUME NEW r \in Callers, LookUpCard(r) PROVE Next
  BY <1>1, PrincipalType DEF LookUpCard, Next
<1>2. ASSUME NEW r \in Callers, FilterCard(r) PROVE Next
  BY <1>2 DEF FilterCard, Next
<1>3. ASSUME NEW r \in Callers, InsertCard(r) PROVE Next
  BY <1>3 DEF InsertCard, Next
<1>4. ASSUME NEW t \in Tokens, Expire(t) PROVE UNCHANGED vars
  BY <1>4 DEF Expire
<1>5. ASSUME NEW r \in Callers, NEW rt \in Route, NEW h \in Headers, Arrive(r, rt, h)
      PROVE  UNCHANGED vars
  BY <1>5 DEF Arrive
<1>6. ASSUME NEW r \in Callers, ServePublic(r) PROVE UNCHANGED vars
  BY <1>6 DEF ServePublic
<1>7. ASSUME NEW r \in Callers, NotConfigured(r) PROVE UNCHANGED vars
  BY <1>7 DEF NotConfigured
<1>8. ASSUME NEW r \in Callers, NEW body \in Malformed, AnswerMalformed(r, body)
      PROVE  UNCHANGED vars
  BY <1>8 DEF AnswerMalformed
<1>9. ASSUME NEW r \in Callers, NEW s \in Skills, Send(r, s) PROVE UNCHANGED vars
  BY <1>9 DEF Send
<1>10. CASE UNCHANGED allVars
  BY <1>10 DEF allVars
<1> QED BY <1>1, <1>2, <1>3, <1>4, <1>5, <1>6, <1>7, <1>8, <1>9, <1>10 DEF EndpointsNext

(* At first nothing has been asked. *)
LEMMA EndpointsTypeInit == EndpointsInit => EndpointsTypeOK
<1> SUFFICES ASSUME EndpointsInit PROVE EndpointsTypeOK
  OBVIOUS
<1>1. TypeOK
  BY TypeInit DEF EndpointsInit
<1> QED BY <1>1 DEF EndpointsInit, EndpointsTypeOK, Card, Reply

(* An answer keeps the types, if only a card comes with skills. *)
LEMMA AnswerTyped ==
  ASSUME EndpointsTypeOK, TypeOK',
         NEW r \in Callers, route[r] \in Route,
         NEW what \in Reply, Answer(r, what),
         UNCHANGED <<mode, kept, accepted, route, who>>,
         skill' \in [Callers -> Skills \cup {None}],
         NEW c \in Card, shown' = [shown EXCEPT ![r] = c],
         c # {} => what = "card"
  PROVE  EndpointsTypeOK'
<1>1. route[r] # None
  BY EndpointsAssumption
<1>2. /\ reply' \in [Callers -> Reply] /\ shown' \in [Callers -> Card]
      /\ reply'[r] = what /\ shown'[r] = c
      /\ \A q \in Callers \ {r} : reply'[q] = reply[q] /\ shown'[q] = shown[q]
  BY DEF Answer, EndpointsTypeOK
<1>3. \A q \in Callers : /\ route'[q] = None => reply'[q] = "waiting"
                         /\ shown'[q] # {} => reply'[q] = "card"
  BY <1>1, <1>2 DEF EndpointsTypeOK
<1> QED BY <1>2, <1>3 DEF EndpointsTypeOK

(* A request that is being handled has been shown nothing yet. *)
LEMMA NothingShown ==
  ASSUME EndpointsTypeOK, NEW r \in Callers, NEW routes \in SUBSET Route, Handling(r, routes)
  PROVE  /\ route[r] \in Route /\ shown[r] = {}
         /\ shown = [shown EXCEPT ![r] = {}] /\ {} \in Card
  BY DEF Handling, EndpointsTypeOK, Card

(* No request and no passing of time breaks the types. *)
LEMMA EndpointsTypeNext ==
  EndpointsTypeOK /\ [EndpointsNext]_allVars => EndpointsTypeOK'
<1> SUFFICES ASSUME EndpointsTypeOK, [EndpointsNext]_allVars PROVE EndpointsTypeOK'
  OBVIOUS
<1>0. TypeOK'
  BY CacheStep, TypeNext DEF EndpointsTypeOK
<1>a. \A r \in Callers : card'[r] \in Card
  BY <1>0 DEF TypeOK
<1>1. ASSUME NEW t \in Tokens, Expire(t) PROVE EndpointsTypeOK'
  BY <1>0, <1>1 DEF Expire, EndpointsTypeOK
<1>2. ASSUME NEW r \in Callers, NEW rt \in Route, NEW h \in Headers, Arrive(r, rt, h)
      PROVE  EndpointsTypeOK'
  <2>1. identify(mode, h, accepted) \in Identity \cup {Nobody}
    BY EndpointsAssumption DEF identify, EndpointsTypeOK
  <2>2. /\ reply' \in [Callers -> Reply]
        /\ shown' = shown
        /\ \A q \in Callers \ {r} : route'[q] = route[q] /\ reply'[q] = reply[q]
        /\ route' \in [Callers -> Route \cup {None}]
        /\ route'[r] = rt
    BY <1>2 DEF Arrive, EndpointsTypeOK, Reply
  <2>3. who' \in [Callers -> Identity \cup {Nobody}]
    BY <1>2, <2>1 DEF Arrive, EndpointsTypeOK
  <2>4. shown[r] = {} /\ rt # None
    BY <1>2, EndpointsAssumption DEF Arrive, EndpointsTypeOK
  <2> QED BY <1>0, <1>2, <2>2, <2>3, <2>4 DEF Arrive, EndpointsTypeOK
<1>3. ASSUME NEW r \in Callers, ServePublic(r) PROVE EndpointsTypeOK'
  <2>1. public_card \in Card /\ "card" \in Reply
    BY DEF public_card, acl_filtered_card, Card, Reply
  <2>2. route[r] \in Route
    BY <1>3 DEF ServePublic, Handling, Route
  <2> QED BY <1>0, <1>3, <2>1, <2>2, AnswerTyped DEF ServePublic, EndpointsTypeOK
<1>4. ASSUME NEW r \in Callers, NotConfigured(r) PROVE EndpointsTypeOK'
  <2>1. {"extended", "rpc_extended"} \in SUBSET Route
    BY DEF Route
  <2>2. (IF route[r] = "extended" THEN "404" ELSE "-32007") \in Reply
    BY DEF Reply
  <2> QED BY <1>0, <1>4, <2>1, <2>2, NothingShown, AnswerTyped DEF NotConfigured, EndpointsTypeOK
<1>5. ASSUME NEW r \in Callers, LookUpCard(r) PROVE EndpointsTypeOK'
  <2>1. CASE Miss(r, principal(r)) /\ UNCHANGED <<shown, reply>>
    BY <1>0, <1>5, <2>1 DEF LookUpCard, EndpointsTypeOK
  <2>2. CASE /\ Hit(r, principal(r))
             /\ shown' = [shown EXCEPT ![r] = card'[r]]
             /\ Answer(r, "card")
    <3>1. route[r] \in Route /\ "card" \in Reply
      BY <1>5 DEF LookUpCard, Filtered, Handling, Route, Reply
    <3>2. card'[r] \in Card
      BY <1>a
    <3>3. UNCHANGED <<mode, kept, accepted, route, who, skill>>
      BY <1>5 DEF LookUpCard
    <3> QED BY <1>0, <2>2, <3>1, <3>2, <3>3, AnswerTyped DEF EndpointsTypeOK
  <2> QED BY <1>5, <2>1, <2>2 DEF LookUpCard
<1>6. ASSUME NEW r \in Callers, FilterCard(r) PROVE EndpointsTypeOK'
  BY <1>0, <1>6 DEF FilterCard, endpointVars, EndpointsTypeOK
<1>7. ASSUME NEW r \in Callers, InsertCard(r) PROVE EndpointsTypeOK'
  <2>1. route[r] \in Route /\ "card" \in Reply
    BY <1>7 DEF InsertCard, Filtered, Handling, Route, Reply
  <2>2. card[r] \in Card
    BY DEF EndpointsTypeOK, TypeOK
  <2> QED BY <1>0, <1>7, <2>1, <2>2, AnswerTyped DEF InsertCard, EndpointsTypeOK
<1>8. ASSUME NEW r \in Callers, NEW body \in Malformed, AnswerMalformed(r, body)
      PROVE  EndpointsTypeOK'
  <2>1. {"rpc"} \in SUBSET Route /\ envelope_error(body) \in Reply
    BY DEF Route, Reply, envelope_error
  <2> QED BY <1>0, <1>8, <2>1, NothingShown, AnswerTyped DEF AnswerMalformed, EndpointsTypeOK
<1>9. ASSUME NEW r \in Callers, NEW s \in Skills, Send(r, s) PROVE EndpointsTypeOK'
  <2>1. {"send"} \in SUBSET Route /\ pipeline(principal(r), s) \in Reply
    BY DEF Route, Reply, pipeline
  <2>2. skill' \in [Callers -> Skills \cup {None}]
    BY <1>9 DEF Send, EndpointsTypeOK
  <2> QED BY <1>0, <1>9, <2>1, <2>2, NothingShown, AnswerTyped DEF Send
<1>10. CASE UNCHANGED allVars
  BY <1>0, <1>10 DEF allVars, endpointVars, EndpointsTypeOK
<1> QED BY <1>1, <1>2, <1>3, <1>4, <1>5, <1>6, <1>7, <1>8, <1>9, <1>10 DEF EndpointsNext

(* EndpointsTypeOK is an invariant. *)
THEOREM EndpointsTypeCorrect == EndpointsSpec => []EndpointsTypeOK
  BY EndpointsTypeInit, EndpointsTypeNext, PTL DEF EndpointsSpec

(* The endpoints implement the cache on its own: whatever routes, tokens   *)
(* and answers there are around it, what the cache promises holds.         *)
THEOREM EndpointsUseCache == EndpointsSpec => Spec
<1>1. EndpointsInit => Init
  BY DEF EndpointsInit
<1>2. EndpointsTypeOK /\ [EndpointsNext]_allVars => [Next]_vars
  BY CacheStep
<1> QED BY <1>1, <1>2, EndpointsTypeCorrect, PTL DEF EndpointsSpec, Spec

(* What is proved of the cache holds behind the endpoints. *)
THEOREM EndpointsKeepCache ==
  EndpointsSpec => [](CacheBounded /\ SteadyCallersSeeTheirCard /\ AuditsAreMemoized)
  BY EndpointsUseCache, CacheStaysBounded, SteadyCallersAnswered, AuditsStayMemoized, PTL

-----------------------------------------------------------------------------
(* Who gets the extended card *)

(* A request for it that is still handled under the capability has proved  *)
(* who it is from; each other answer has its one cause.                    *)
ExtendedInv ==
  \A r \in Callers : route[r] \in {"extended", "rpc_extended"} =>
    /\ reply[r] \in {"waiting", "card", "401", "404", "-32007"}
    /\ reply[r] = "401" => mode = "strict" /\ who[r] = Nobody
    /\ reply[r] \in {"404", "-32007"} => mode # "strict"
    /\ reply[r] \in {"waiting", "card"} /\ mode = "strict" => who[r] # Nobody
    /\ reply[r] = "card" => mode = "strict"

(* Nothing has been asked yet. *)
LEMMA ExtendedInit == EndpointsInit => ExtendedInv
  BY EndpointsAssumption DEF EndpointsInit, ExtendedInv, Route

(* Admission decides for the routes that are not exempt, and the handlers  *)
(* answer by the mode alone.                                               *)
LEMMA ExtendedNext ==
  EndpointsTypeOK /\ ExtendedInv /\ [EndpointsNext]_allVars => ExtendedInv'
<1> SUFFICES ASSUME EndpointsTypeOK, ExtendedInv, [EndpointsNext]_allVars PROVE ExtendedInv'
  OBVIOUS
<1> USE DEF EndpointsTypeOK, ExtendedInv
<1>1. ASSUME NEW t \in Tokens, Expire(t) PROVE ExtendedInv'
  BY <1>1 DEF Expire
<1>2. ASSUME NEW r \in Callers, NEW rt \in Route, NEW h \in Headers, Arrive(r, rt, h)
      PROVE  ExtendedInv'
  <2>1. rt \in {"extended", "rpc_extended"} => path(rt) \notin exempt_paths
    BY DEF path, exempt_paths
  <2>2. /\ route'[r] = rt /\ mode' = mode
        /\ reply'[r] = IF unauthorized(mode, path(rt), who'[r]) THEN "401" ELSE "waiting"
        /\ \A q \in Callers \ {r} :
             route'[q] = route[q] /\ who'[q] = who[q] /\ reply'[q] = reply[q]
    BY <1>2 DEF Arrive
  <2> QED BY <2>1, <2>2 DEF unauthorized
<1>3. ASSUME NEW r \in Callers, ServePublic(r) PROVE ExtendedInv'
  BY <1>3 DEF ServePublic, Handling, Answer
<1>4. ASSUME NEW r \in Callers, NotConfigured(r) PROVE ExtendedInv'
  BY <1>4 DEF NotConfigured, Handling, Answer
<1>5. ASSUME NEW r \in Callers, LookUpCard(r) PROVE ExtendedInv'
  BY <1>5 DEF LookUpCard, Filtered, Handling, Answer
<1>6. ASSUME NEW r \in Callers, FilterCard(r) PROVE ExtendedInv'
  BY <1>6 DEF FilterCard, endpointVars
<1>7. ASSUME NEW r \in Callers, InsertCard(r) PROVE ExtendedInv'
  BY <1>7 DEF InsertCard, Filtered, Handling, Answer
<1>8. ASSUME NEW r \in Callers, NEW body \in Malformed, AnswerMalformed(r, body)
      PROVE  ExtendedInv'
  BY <1>8 DEF AnswerMalformed, Handling, Answer
<1>9. ASSUME NEW r \in Callers, NEW s \in Skills, Send(r, s) PROVE ExtendedInv'
  BY <1>9 DEF Send, Handling, Answer
<1>10. CASE UNCHANGED allVars
  BY <1>10 DEF allVars, endpointVars
<1> QED BY <1>1, <1>2, <1>3, <1>4, <1>5, <1>6, <1>7, <1>8, <1>9, <1>10 DEF EndpointsNext

(* The extended card goes exactly to the callers it is advertised for. *)
THEOREM ExtendedGoesAsAdvertised == EndpointsSpec => []ExtendedAsAdvertised
<1>1. EndpointsTypeOK /\ ExtendedInv => ExtendedAsAdvertised
  BY DEF ExtendedInv, ExtendedAsAdvertised, extended_agent_card
<1> QED BY ExtendedInit, ExtendedNext, EndpointsTypeCorrect, <1>1, PTL DEF EndpointsSpec

-----------------------------------------------------------------------------
(* Discovery against enforcement *)

(* The cache works for the principal the layer identified; what a request  *)
(* was shown is the card the cache gave it, or the public one; and what a  *)
(* message was answered is the pipeline's verdict on its principal.        *)
Linked(r) ==
  /\ rc[r] # "idle" => route[r] # None /\ identity[r] = principal(r)
  /\ Advertised(r) => rc[r] = "answered" /\ shown[r] = card[r]
  /\ route[r] = "public" => shown[r] \subseteq public_card
  /\ skill[r] # None => route[r] = "send" /\ reply[r] = pipeline(principal(r), skill[r])

LinkInv == \A r \in Callers : Linked(r)

(* What the links of a request are about. *)
Record(r) == <<rc[r], identity[r], card[r], route[r], who[r], skill[r], shown[r], reply[r]>>

(* A request that nothing happens to stays linked. *)
LEMMA LinkKept ==
  ASSUME NEW q, Linked(q), Record(q)' = Record(q)
  PROVE  Linked(q)'
  BY DEF Linked, Record, Advertised, principal, public_card, pipeline, acl_filtered_card

(* Nothing has been asked, and nothing shown. *)
LEMMA LinkInit == EndpointsInit => LinkInv
  BY EndpointsAssumption
  DEF EndpointsInit, Init, LinkInv, Linked, Advertised, Route

(* Each step links the request it is about, and no other. *)
LEMMA LinkNext == EndpointsTypeOK /\ LinkInv /\ [EndpointsNext]_allVars => LinkInv'
<1> SUFFICES ASSUME EndpointsTypeOK, LinkInv, [EndpointsNext]_allVars, NEW q \in Callers
             PROVE  Linked(q)'
  BY DEF LinkInv
<1>a. Linked(q)
  BY DEF LinkInv
<1>b. CASE Record(q)' = Record(q)
  BY <1>a, <1>b, LinkKept
<1> USE DEF EndpointsTypeOK, TypeOK
<1>1. ASSUME NEW t \in Tokens, Expire(t) PROVE Linked(q)'
  BY <1>b, <1>1 DEF Expire, vars, Record
<1>2. ASSUME NEW r \in Callers, NEW rt \in Route, NEW h \in Headers, Arrive(r, rt, h)
      PROVE  Linked(q)'
  <2>1. CASE q # r
    BY <1>b, <1>2, <2>1 DEF Arrive, vars, Record
  <2>2. CASE q = r
    <3>1. rc[r] = "idle" /\ skill[r] = None /\ shown[r] = {}
      <4>1. route[r] = None
        BY <1>2 DEF Arrive
      <4>2. None # "send"
        BY EndpointsAssumption DEF Route
      <4>3. rc[r] = "idle" /\ skill[r] = None
        BY <1>a, <2>2, <4>1, <4>2 DEF Linked
      <4>4. reply[r] = "waiting" /\ (shown[r] # {} => reply[r] = "card")
        BY <4>1
      <4>5. shown[r] = {}
        BY <4>4
      <4> QED BY <4>3, <4>5
    <3>2. rc'[r] = "idle" /\ skill'[r] = None /\ shown'[r] = {} /\ reply'[r] \in {"401", "waiting"}
      BY <1>2, <3>1 DEF Arrive, vars
    <3> QED BY <2>2, <3>2 DEF Linked, Advertised
  <2> QED BY <2>1, <2>2
<1>3. ASSUME NEW r \in Callers, ServePublic(r) PROVE Linked(q)'
  <2>1. CASE q # r
    BY <1>b, <1>3, <2>1 DEF ServePublic, Answer, vars, Record
  <2>2. CASE q = r
    <3>1. /\ shown'[r] = public_card /\ reply'[r] = "card" /\ route'[r] = "public"
          /\ rc' = rc /\ identity' = identity /\ who' = who /\ skill' = skill
          /\ route[r] = "public"
      BY <1>3 DEF ServePublic, Handling, Answer, vars
    <3>2. skill[r] = None /\ (rc[r] # "idle" => identity[r] = principal(r))
      BY <1>a, <2>2, <3>1 DEF Linked
    <3>3. principal(r)' = principal(r) /\ public_card' = public_card
      BY <3>1 DEF principal, public_card, acl_filtered_card
    <3> QED BY <2>2, <3>1, <3>2, <3>3, EndpointsAssumption DEF Linked, Advertised, Route
  <2> QED BY <2>1, <2>2
<1>4. ASSUME NEW r \in Callers, NEW what, what # "card",
             Handling(r, {"extended", "rpc_extended", "rpc"}), Answer(r, what),
             UNCHANGED <<vars, mode, kept, accepted, route, who, skill, shown>>
      PROVE  Linked(q)'
  <2>1. CASE q # r
    BY <1>b, <1>4, <2>1 DEF Answer, vars, Record
  <2>2. CASE q = r
    <3>1. skill[r] = None /\ route[r] # "send" /\ route[r] # "public" /\ reply'[r] = what
      BY <1>a, <1>4, <2>2 DEF Handling, Linked, Answer
    <3>2. principal(r)' = principal(r)
      BY <1>4 DEF principal
    <3> QED BY <1>a, <1>4, <2>2, <3>1, <3>2 DEF Linked, Advertised, vars
  <2> QED BY <2>1, <2>2
<1>5. ASSUME NEW r \in Callers, LookUpCard(r) PROVE Linked(q)'
  <2>1. CASE q # r
    BY <1>b, <1>5, <2>1 DEF LookUpCard, Hit, Miss, Answer, Record
  <2>2. CASE q = r
    <3>1. /\ route[r] \in {"extended", "rpc_extended", "explorer"} /\ reply[r] = "waiting"
          /\ UNCHANGED <<route, who, skill>>
          /\ principal(r)' = principal(r)
      BY <1>5 DEF LookUpCard, Filtered, Handling, principal
    <3>2. skill[r] = None
      BY <1>a, <2>2, <3>1 DEF Linked
    <3>3. identity'[r] = principal(r) /\ rc[r] = "idle" /\ rc'[r] \in {"missed", "answered"}
      BY <1>5 DEF LookUpCard, Hit, Miss
    <3>4. reply'[r] = "card" => rc'[r] = "answered" /\ shown'[r] = card'[r]
      BY <1>5, <3>1 DEF LookUpCard, Hit, Miss, Answer
    <3> QED BY <2>2, <3>1, <3>2, <3>3, <3>4, EndpointsAssumption DEF Linked, Advertised, Route
  <2> QED BY <2>1, <2>2
<1>6. ASSUME NEW r \in Callers, FilterCard(r) PROVE Linked(q)'
  <2>1. CASE q # r
    BY <1>b, <1>6, <2>1 DEF FilterCard, Filter, endpointVars, Record
  <2>2. CASE q = r
    <3>1. /\ reply[r] = "waiting" /\ UNCHANGED <<route, who, skill, shown, reply, identity>>
          /\ route[r] \in {"extended", "rpc_extended", "explorer"}
          /\ rc[r] # "idle" /\ principal(r)' = principal(r)
      BY <1>6 DEF FilterCard, Filtered, Handling, Filter, endpointVars, principal
    <3>2. skill[r] = None /\ identity[r] = principal(r)
      BY <1>a, <2>2, <3>1 DEF Linked
    <3> QED BY <2>2, <3>1, <3>2, EndpointsAssumption DEF Linked, Advertised, Route
  <2> QED BY <2>1, <2>2
<1>7. ASSUME NEW r \in Callers, InsertCard(r) PROVE Linked(q)'
  <2>1. CASE q # r
    BY <1>b, <1>7, <2>1 DEF InsertCard, Insert, Answer, Record
  <2>2. CASE q = r
    <3>1. /\ UNCHANGED <<route, who, skill, identity, card>>
          /\ route[r] \in {"extended", "rpc_extended", "explorer"}
          /\ rc[r] # "idle" /\ rc'[r] = "answered" /\ principal(r)' = principal(r)
          /\ shown'[r] = card[r]
      BY <1>7 DEF InsertCard, Filtered, Handling, Insert, principal
    <3>2. skill[r] = None /\ identity[r] = principal(r)
      BY <1>a, <2>2, <3>1 DEF Linked
    <3> QED BY <2>2, <3>1, <3>2, EndpointsAssumption DEF Linked, Advertised, Route
  <2> QED BY <2>1, <2>2
<1>8. ASSUME NEW r \in Callers, NEW s \in Skills, Send(r, s) PROVE Linked(q)'
  <2>1. CASE q # r
    BY <1>b, <1>8, <2>1 DEF Send, Answer, vars, Record
  <2>2. CASE q = r
    <3>1. /\ UNCHANGED <<vars, route, who, shown>> /\ route[r] = "send"
          /\ principal(r)' = principal(r) /\ skill'[r] = s
          /\ reply'[r] = pipeline(principal(r), s)
      BY <1>8 DEF Send, Handling, Answer, principal
    <3>2. pipeline(principal(r), s) # "card"
      BY DEF pipeline
    <3>3. pipeline(principal(r), s)' = pipeline(principal(r), s)
      BY <3>1 DEF pipeline
    <3> QED BY <1>a, <2>2, <3>1, <3>2, <3>3 DEF Linked, Advertised, vars
  <2> QED BY <2>1, <2>2
<1>9. CASE UNCHANGED allVars
  BY <1>b, <1>9 DEF allVars, vars, endpointVars, Record
<1>10. ASSUME NEW r \in Callers, NotConfigured(r) PROVE Linked(q)'
  BY <1>4, <1>10 DEF NotConfigured, Handling
<1>11. ASSUME NEW r \in Callers, NEW body \in Malformed, AnswerMalformed(r, body)
       PROVE  Linked(q)'
  BY <1>4, <1>11 DEF AnswerMalformed, Handling, envelope_error
<1> QED BY <1>1, <1>2, <1>3, <1>5, <1>6, <1>7, <1>8, <1>9, <1>10, <1>11 DEF EndpointsNext

(* A caller of constant roles is refused exactly what its card leaves out, *)
(* and runs what the public card shows.                                    *)
THEOREM CardsMatchCalls == EndpointsSpec => []AdvertisedIsInvocable
<1>1. EndpointsTypeOK /\ LinkInv /\ SteadyCallersSeeTheirCard => AdvertisedIsInvocable
  <2> SUFFICES ASSUME EndpointsTypeOK, LinkInv, SteadyCallersSeeTheirCard,
                      NEW r \in Callers, NEW q \in Callers, skill[q] # None
               PROVE  /\ Advertised(r) /\ Steady(r) /\ principal(q) = principal(r)
                           => (skill[q] \in shown[r] <=> reply[q] # "refused")
                      /\ route[r] = "public" /\ principal(q) = Anonymous /\ skill[q] \in shown[r]
                           => reply[q] = "ran"
    BY DEF AdvertisedIsInvocable
  <2>1. skill[q] \in Skills /\ reply[q] = pipeline(principal(q), skill[q])
    BY DEF EndpointsTypeOK, LinkInv, Linked
  <2>2. ASSUME Advertised(r), Steady(r), principal(q) = principal(r)
        PROVE  skill[q] \in shown[r] <=> reply[q] # "refused"
    <3>1. rc[r] = "answered" /\ shown[r] = card[r] /\ identity[r] = principal(r)
      BY <2>2 DEF LinkInv, Linked
    <3>2. \A p \in Callers : rc[p] # "idle" /\ identity[p].id = identity[r].id
                               => identity[p] = identity[r]
      BY <2>2, <3>1 DEF LinkInv, Linked, Steady
    <3>3. shown[r] = acl_filtered_card(principal(r))
      BY <3>1, <3>2 DEF SteadyCallersSeeTheirCard
    <3>4. skill[q] \in shown[r] <=> skill[q] \in Allowed[principal(q)]
      BY <2>1, <2>2, <3>3 DEF acl_filtered_card
    <3> QED BY <2>1, <3>4 DEF pipeline
  <2>3. ASSUME route[r] = "public", principal(q) = Anonymous, skill[q] \in shown[r]
        PROVE  reply[q] = "ran"
    <3>1. skill[q] \in public_card
      BY <2>3 DEF LinkInv, Linked
    <3> QED BY <2>1, <2>3, <3>1 DEF public_card, acl_filtered_card, pipeline
  <2> QED BY <2>2, <2>3
<1> QED BY LinkInit, LinkNext, EndpointsTypeCorrect, EndpointsKeepCache, <1>1, PTL
        DEF EndpointsSpec

==================================================================================
