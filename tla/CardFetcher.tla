------------------------------- MODULE CardFetcher -------------------------------
(***************************************************************************)
(* The client's TTL-cached Agent Card discovery: AgentCardFetcher::fetch   *)
(* in client/card_fetcher.rs.  fetch() may be called concurrently through  *)
(* &self; the mutex covers the lookup and the store but not the GET        *)
(* between them, so fetches that miss together all go to the remote agent  *)
(* and the last response stored wins.                                      *)
(*                                                                         *)
(* A card is known by the version the remote agent had when it served it.  *)
(***************************************************************************)
EXTENDS Integers

CONSTANTS Fetches,      \* calls of fetch()
          Ttl,          \* ttl, in ticks
          Timeout,      \* the request timeout A2AClient gives its http client
          MaxTime,      \* bound on the clock
          MaxVersion,   \* bound on the cards the remote agent publishes
          None

ASSUME FetcherAssumption ==
    /\ Ttl \in Nat
    /\ Timeout \in Nat
    /\ MaxTime \in Nat
    /\ MaxVersion \in Nat
    /\ None \notin [card : Nat, served : Nat, at : Nat]
    /\ None \notin [card : Nat, served : Nat]

VARIABLES
    now,        \* Instant::now()
    version,    \* the card the remote agent serves at this instant
    cache,      \* None, or the card, when the remote served it, when it was stored
    fc,         \* what each fetch is doing
    start,      \* when its GET was sent
    resp,       \* None, or the card it received (then answers), and when that was served
    answered,   \* when fetch() returned it
    newest,     \* the newest card any fetch has returned
    seen,       \* newest, when this fetch began
    overlapped  \* two GETs were in flight at once

vars == <<now, version, cache, fc, start, resp, answered, newest, seen, overlapped>>

Init ==
    /\ now = 0
    /\ version = 0
    /\ cache = None
    /\ fc = [f \in Fetches |-> "idle"]
    /\ start = [f \in Fetches |-> 0]
    /\ resp = [f \in Fetches |-> None]
    /\ answered = [f \in Fetches |-> 0]
    /\ newest = 0
    /\ seen = [f \in Fetches |-> 0]
    /\ overlapped = FALSE

InFlight == {f \in Fetches : fc[f] \in {"sent", "served"}}

(* Mutant: elapsed() <= ttl *)
fresh_inclusive == cache # None /\ now - cache.at <= Ttl

(* at.elapsed() < self.ttl *)
fresh == cache # None /\ now - cache.at < Ttl

(* fetch() returns r. *)
Answer(f, r) ==
    /\ fc' = [fc EXCEPT ![f] = "answered"]
    /\ resp' = [resp EXCEPT ![f] = r]
    /\ answered' = [answered EXCEPT ![f] = now]
    /\ newest' = IF r.card > newest THEN r.card ELSE newest

(* The cached card is still within its TTL. *)
HitCache(f) ==
    /\ fc[f] = "idle"
    /\ fresh
    /\ Answer(f, [card |-> cache.card, served |-> cache.served])
    /\ seen' = [seen EXCEPT ![f] = newest]
    /\ UNCHANGED <<now, version, cache, start, overlapped>>

(* Otherwise the lock is dropped and the GET sent. *)
SendGet(f) ==
    /\ fc[f] = "idle"
    /\ ~fresh
    /\ fc' = [fc EXCEPT ![f] = "sent"]
    /\ start' = [start EXCEPT ![f] = now]
    /\ seen' = [seen EXCEPT ![f] = newest]
    /\ overlapped' = (overlapped \/ InFlight # {})
    /\ UNCHANGED <<now, version, cache, resp, answered, newest>>

(* The remote agent answers with its card; the answer is on its way back. *)
Serve(f) ==
    /\ fc[f] = "sent"
    /\ fc' = [fc EXCEPT ![f] = "served"]
    /\ resp' = [resp EXCEPT ![f] = [card |-> version, served |-> now]]
    /\ UNCHANGED <<now, version, cache, start, answered, newest, seen, overlapped>>

(* Mutant: the failed request's absent card is answered as if it were one. *)
FailsAnswering(f) ==
    /\ f \in InFlight
    /\ fc' = [fc EXCEPT ![f] = "answered"]
    /\ UNCHANGED <<now, version, cache, start, resp, answered, newest, seen, overlapped>>

(* A transport error, a status that is no success, or a body that is not   *)
(* JSON; and the http client's timer, which covers the body.               *)
Fails(f) ==
    /\ f \in InFlight
    /\ fc' = [fc EXCEPT ![f] = "failed"]
    /\ UNCHANGED <<now, version, cache, start, resp, answered, newest, seen, overlapped>>

(* Mutant: a response refreshes the stamp of the cached card, not the card. *)
StoreStampOnly(f) ==
    /\ fc[f] = "served"
    /\ cache' = IF cache = None
                THEN [card |-> resp[f].card, served |-> resp[f].served, at |-> now]
                ELSE [cache EXCEPT !.at = now]
    /\ Answer(f, resp[f])
    /\ UNCHANGED <<now, version, start, seen, overlapped>>

(* A complete response is stored, stamped with the time of the store. *)
Store(f) ==
    /\ fc[f] = "served"
    /\ cache' = [card |-> resp[f].card, served |-> resp[f].served, at |-> now]
    /\ Answer(f, resp[f])
    /\ UNCHANGED <<now, version, start, seen, overlapped>>

(* Time passes, but never past the timer of a request still in flight. *)
Tick ==
    /\ now < MaxTime
    /\ \A f \in InFlight : now - start[f] < Timeout
    /\ now' = now + 1
    /\ UNCHANGED <<version, cache, fc, start, resp, answered, newest, seen, overlapped>>

(* The remote agent restarts with another card. *)
Publish ==
    /\ version < MaxVersion
    /\ version' = version + 1
    /\ UNCHANGED <<now, cache, fc, start, resp, answered, newest, seen, overlapped>>

Next ==
    \/ \E f \in Fetches :
        HitCache(f) \/ SendGet(f) \/ Serve(f) \/ Fails(f) \/ Store(f)
    \/ Tick
    \/ Publish

Spec == Init /\ [][Next]_vars

-----------------------------------------------------------------------------
Served == [card : Nat, served : Nat]

(* Clock, cache and fetches keep their shape, and a fetch that was served  *)
(* or has answered holds a card.                                           *)
TypeOK ==
    /\ now \in Nat
    /\ version \in Nat
    /\ cache # None => cache \in [card : Nat, served : Nat, at : Nat]
    /\ fc \in [Fetches -> {"idle", "sent", "served", "answered", "failed"}]
    /\ start \in [Fetches -> Nat]
    /\ resp \in [Fetches -> {None} \cup Served]
    /\ \A f \in Fetches : fc[f] \in {"served", "answered"} => resp[f] # None
    /\ answered \in [Fetches -> Nat]
    /\ newest \in Nat
    /\ seen \in [Fetches -> Nat]
    /\ overlapped \in BOOLEAN

(* How stale a discovery answer can be.  The TTL runs from the store, not  *)
(* from when the remote agent served the card, so the bound is the TTL and *)
(* the request timeout together, whichever response was stored last.       *)
AnswerAgeBounded ==
    \A f \in Fetches :
        fc[f] = "answered" =>
            \/ answered[f] - resp[f].served < Ttl + Timeout
            \/ answered[f] - resp[f].served <= Timeout

(* As long as no two GETs were in flight together, fetch() never goes back *)
(* to a card older than one it has already returned.  (With two in flight  *)
(* it may: the response that is stored last may have been served first.)   *)
NeverGoesBack ==
    \A f \in Fetches : fc[f] = "answered" /\ ~overlapped => resp[f].card >= seen[f]

==================================================================================
