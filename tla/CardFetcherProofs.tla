--------------------------- MODULE CardFetcherProofs ---------------------------
(***************************************************************************)
(* Theorems about CardFetcher, for any fetches, TTL, request timeout and   *)
(* bounds on the clock and the remote agent's cards.                       *)
(***************************************************************************)
EXTENDS CardFetcher, TLAPS

Cached == [card : Nat, served : Nat, at : Nat]

(* A fetcher that was never used is well typed. *)
LEMMA TypeInit == Init => TypeOK
<1> SUFFICES ASSUME Init PROVE TypeOK
  OBVIOUS
<1>1. /\ now \in Nat /\ version \in Nat /\ newest \in Nat /\ cache = None
      /\ start \in [Fetches -> Nat] /\ answered \in [Fetches -> Nat]
      /\ seen \in [Fetches -> Nat]
  BY DEF Init
<1>2. /\ fc \in [Fetches -> {"idle", "sent", "served", "answered", "failed"}]
      /\ resp \in [Fetches -> {None} \cup Served]
      /\ \A f \in Fetches : fc[f] = "idle"
  BY DEF Init
<1>3. overlapped \in BOOLEAN
  BY DEF Init
<1> QED BY <1>1, <1>2, <1>3 DEF TypeOK

(* No step of a fetch, of the clock or of the remote agent breaks the      *)
(* types.                                                                  *)
LEMMA TypeNext == TypeOK /\ [Next]_vars => TypeOK'
<1> SUFFICES ASSUME TypeOK, [Next]_vars PROVE TypeOK'
  OBVIOUS
<1>1. ASSUME NEW f \in Fetches, HitCache(f) PROVE TypeOK'
  <2>1. cache \in Cached
    BY <1>1 DEF HitCache, fresh, TypeOK, Cached
  <2>2. /\ [card |-> cache.card, served |-> cache.served] \in Served
        /\ cache.card \in Nat
    BY <2>1 DEF Cached, Served
  <2>3. [card |-> cache.card, served |-> cache.served] # None
    BY <2>2, FetcherAssumption DEF Served
  <2> QED BY <1>1, <2>2, <2>3 DEF HitCache, Answer, TypeOK
<1>2. ASSUME NEW f \in Fetches, SendGet(f) PROVE TypeOK'
  BY <1>2 DEF SendGet, TypeOK
<1>3. ASSUME NEW f \in Fetches, Serve(f) PROVE TypeOK'
  <2>1. [card |-> version, served |-> now] \in Served
    BY DEF TypeOK, Served
  <2>2. [card |-> version, served |-> now] # None
    BY <2>1, FetcherAssumption DEF Served
  <2> QED BY <1>3, <2>1, <2>2 DEF Serve, TypeOK
<1>4. ASSUME NEW f \in Fetches, Fails(f) PROVE TypeOK'
  BY <1>4 DEF Fails, TypeOK
<1>5. ASSUME NEW f \in Fetches, Store(f) PROVE TypeOK'
  <2>1. resp[f] \in Served /\ resp[f] # None
    BY <1>5 DEF Store, TypeOK
  <2>2. cache' \in Cached /\ resp[f].card \in Nat
    BY <1>5, <2>1 DEF Store, Served, Cached, TypeOK
  <2> QED BY <1>5, <2>1, <2>2 DEF Store, Answer, TypeOK, Cached
<1>6. CASE Tick
  BY <1>6 DEF Tick, TypeOK
<1>7. CASE Publish
  BY <1>7 DEF Publish, TypeOK
<1>8. CASE UNCHANGED vars
  BY <1>8 DEF vars, TypeOK
<1> QED BY <1>1, <1>2, <1>3, <1>4, <1>5, <1>6, <1>7, <1>8 DEF Next

(* TypeOK is an invariant. *)
THEOREM TypeCorrect == Spec => []TypeOK
  BY TypeInit, TypeNext, PTL DEF Spec

-----------------------------------------------------------------------------
(* The age of an answer *)

(* A GET outlives its timer in no state, so a response was served at most  *)
(* Timeout before it is stored.                                            *)
AgeInv ==
    /\ \A f \in Fetches :
        /\ fc[f] \in {"sent", "served"} => start[f] <= now /\ now - start[f] <= Timeout
        /\ fc[f] = "served" => start[f] <= resp[f].served
    /\ cache # None => cache.at - cache.served <= Timeout
    /\ AnswerAgeBounded

(* Nothing is in flight, cached or answered at first. *)
LEMMA AgeInit == Init => AgeInv
  BY DEF Init, AgeInv, AnswerAgeBounded

(* Each step keeps every response younger than the timer when it is stored *)
(* and every cached card younger than TTL and timer when it is answered.   *)
LEMMA AgeNext == TypeOK /\ AgeInv /\ [Next]_vars => AgeInv'
<1> SUFFICES ASSUME TypeOK, AgeInv, [Next]_vars PROVE AgeInv'
  OBVIOUS
<1> USE FetcherAssumption
<1>1. ASSUME NEW f \in Fetches, HitCache(f) PROVE AgeInv'
  <2>1. cache \in Cached /\ now - cache.at < Ttl /\ cache.at - cache.served <= Timeout
    BY <1>1 DEF HitCache, fresh, TypeOK, Cached, AgeInv
  <2>2. now - cache.served < Ttl + Timeout
    BY <2>1 DEF Cached, TypeOK
  <2>3. /\ resp'[f].served = cache.served /\ answered'[f] = now
        /\ \A g \in Fetches : g # f =>
             fc'[g] = fc[g] /\ resp'[g] = resp[g] /\ answered'[g] = answered[g]
        /\ fc'[f] = "answered"
    BY <1>1 DEF HitCache, Answer, TypeOK
  <2> QED BY <1>1, <2>2, <2>3 DEF HitCache, AgeInv, AnswerAgeBounded
<1>2. ASSUME NEW f \in Fetches, SendGet(f) PROVE AgeInv'
  BY <1>2 DEF SendGet, AgeInv, AnswerAgeBounded, TypeOK
<1>3. ASSUME NEW f \in Fetches, Serve(f) PROVE AgeInv'
  BY <1>3 DEF Serve, AgeInv, AnswerAgeBounded, TypeOK
<1>4. ASSUME NEW f \in Fetches, Fails(f) PROVE AgeInv'
  BY <1>4 DEF Fails, InFlight, AgeInv, AnswerAgeBounded, TypeOK
<1>5. ASSUME NEW f \in Fetches, Store(f) PROVE AgeInv'
  <2>1. resp[f] \in Served
    BY <1>5 DEF Store, TypeOK
  <2>2. now - resp[f].served <= Timeout
    BY <1>5, <2>1 DEF Store, AgeInv, TypeOK, Served
  <2>3. /\ cache'.at = now /\ cache'.served = resp[f].served
        /\ resp'[f] = resp[f] /\ answered'[f] = now
        /\ \A g \in Fetches : g # f =>
             fc'[g] = fc[g] /\ resp'[g] = resp[g] /\ answered'[g] = answered[g]
        /\ fc'[f] = "answered"
    BY <1>5 DEF Store, Answer, TypeOK
  <2> QED BY <1>5, <2>2, <2>3 DEF Store, AgeInv, AnswerAgeBounded
<1>6. CASE Tick
  <2>1. \A f \in Fetches : fc[f] \in {"sent", "served"} => now - start[f] < Timeout
    BY <1>6 DEF Tick, InFlight
  <2> QED BY <1>6, <2>1 DEF Tick, AgeInv, AnswerAgeBounded, TypeOK
<1>7. CASE Publish
  BY <1>7 DEF Publish, AgeInv, AnswerAgeBounded
<1>8. CASE UNCHANGED vars
  BY <1>8 DEF vars, AgeInv, AnswerAgeBounded
<1> QED BY <1>1, <1>2, <1>3, <1>4, <1>5, <1>6, <1>7, <1>8 DEF Next

(* No answer is older than the TTL and the request timeout together.       *)
THEOREM AnswersAreYoung == Spec => []AnswerAgeBounded
<1>1. AgeInv => AnswerAgeBounded
  BY DEF AgeInv
<1> QED BY TypeInit, TypeNext, AgeInit, AgeNext, <1>1, PTL DEF Spec

-----------------------------------------------------------------------------
(* The order of the answers *)

(* As long as no two GETs overlapped, the cached card is the newest that   *)
(* was returned, and a response on its way is no older than that.          *)
OrderInv ==
    /\ newest <= version
    /\ \A f \in Fetches : seen[f] <= newest
    /\ ~overlapped =>
        /\ \A f, g \in InFlight : f = g
        /\ cache # None => cache.card = newest
        /\ \A f \in Fetches : fc[f] = "served" =>
             newest <= resp[f].card /\ resp[f].card <= version
    /\ \A f \in Fetches : fc[f] = "served" => resp[f].card <= version
    /\ cache # None => cache.card <= version
    /\ NeverGoesBack

(* Nothing has been returned at first. *)
LEMMA OrderInit == Init => OrderInv
  BY DEF Init, OrderInv, InFlight, NeverGoesBack

(* Each step keeps the order of the cards returned.                        *)
LEMMA OrderNext == TypeOK /\ OrderInv /\ [Next]_vars => OrderInv'
<1> SUFFICES ASSUME TypeOK, OrderInv, [Next]_vars PROVE OrderInv'
  OBVIOUS
<1> USE FetcherAssumption
<1>1. ASSUME NEW f \in Fetches, HitCache(f) PROVE OrderInv'
  <2>1. cache # None /\ cache.card \in Nat
    BY <1>1 DEF HitCache, fresh, TypeOK
  <2>2. /\ InFlight' = InFlight
        /\ resp'[f].card = cache.card /\ fc'[f] = "answered"
        /\ \A g \in Fetches : g # f => fc'[g] = fc[g] /\ resp'[g] = resp[g] /\ seen'[g] = seen[g]
        /\ seen'[f] = newest
    BY <1>1 DEF HitCache, Answer, TypeOK, InFlight
  <2>3. /\ UNCHANGED <<cache, version, overlapped>>
        /\ newest' = IF cache.card > newest THEN cache.card ELSE newest
        /\ newest \in Nat /\ version \in Nat /\ \A g \in Fetches : seen[g] \in Nat
    BY <1>1 DEF HitCache, Answer, TypeOK
  <2> QED BY <2>1, <2>2, <2>3 DEF OrderInv, NeverGoesBack
<1>2. ASSUME NEW f \in Fetches, SendGet(f) PROVE OrderInv'
  <2>1. InFlight' = InFlight \cup {f}
    BY <1>2 DEF SendGet, InFlight, TypeOK
  <2>2. ~overlapped' => ~overlapped /\ InFlight = {}
    BY <1>2 DEF SendGet
  <2>3. /\ UNCHANGED <<version, cache, resp, newest>>
        /\ fc'[f] = "sent" /\ seen'[f] = newest
        /\ \A g \in Fetches : g # f => fc'[g] = fc[g] /\ seen'[g] = seen[g]
    BY <1>2 DEF SendGet, TypeOK
  <2> QED BY <2>1, <2>2, <2>3 DEF OrderInv, NeverGoesBack, TypeOK
<1>3. ASSUME NEW f \in Fetches, Serve(f) PROVE OrderInv'
  <2>1. InFlight' = InFlight
    BY <1>3 DEF Serve, InFlight, TypeOK
  <2> QED BY <1>3, <2>1 DEF Serve, OrderInv, NeverGoesBack, TypeOK
<1>4. ASSUME NEW f \in Fetches, Fails(f) PROVE OrderInv'
  <2>1. InFlight' \subseteq InFlight
    BY <1>4 DEF Fails, InFlight, TypeOK
  <2> QED BY <1>4, <2>1 DEF Fails, OrderInv, NeverGoesBack, TypeOK
<1>5. ASSUME NEW f \in Fetches, Store(f) PROVE OrderInv'
  <2>1. /\ resp[f].card \in Nat /\ newest \in Nat /\ version \in Nat
        /\ \A g \in Fetches : seen[g] \in Nat
    BY <1>5 DEF Store, TypeOK, Served
  <2>2. /\ InFlight' = InFlight \ {f} /\ f \in InFlight
        /\ resp' = resp /\ fc'[f] = "answered"
        /\ \A g \in Fetches : g # f => fc'[g] = fc[g]
        /\ cache'.card = resp[f].card
        /\ UNCHANGED <<seen, version, overlapped>>
        /\ newest' = IF resp[f].card > newest THEN resp[f].card ELSE newest
    BY <1>5 DEF Store, Answer, TypeOK, InFlight
  <2>3. \A g \in Fetches : fc'[g] = "served" => g \in InFlight \ {f}
    BY <2>2 DEF InFlight
  <2>4. fc[f] = "served"
    BY <1>5 DEF Store
  <2> QED BY <2>1, <2>2, <2>3, <2>4 DEF OrderInv, NeverGoesBack
<1>6. CASE Tick
  BY <1>6 DEF Tick, OrderInv, NeverGoesBack, InFlight
<1>7. CASE Publish
  BY <1>7 DEF Publish, OrderInv, NeverGoesBack, InFlight, TypeOK, Served
<1>8. CASE UNCHANGED vars
  BY <1>8 DEF vars, OrderInv, NeverGoesBack, InFlight
<1> QED BY <1>1, <1>2, <1>3, <1>4, <1>5, <1>6, <1>7, <1>8 DEF Next

(* Fetches that do not overlap never return to an older card.              *)
THEOREM FetchesNeverGoBack == Spec => []NeverGoesBack
<1>1. OrderInv => NeverGoesBack
  BY DEF OrderInv
<1> QED BY TypeInit, TypeNext, OrderInit, OrderNext, <1>1, PTL DEF Spec
================================================================================
