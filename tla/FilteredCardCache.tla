---------------------------- MODULE FilteredCardCache ----------------------------
(***************************************************************************)
(* The extended (or Explorer) Agent Card with its per-caller filtered      *)
(* copies: server/handlers.rs, FilteredCard.  Requests run concurrently on *)
(* the tokio workers; the mutex is released between the lookup and the     *)
(* insertion, because the filter drives the consumer's ACL audit sink.     *)
(*                                                                         *)
(* A caller is one HTTP request.  Its identity is an (id, role) pair: the  *)
(* id is all the cache key and the stores see (OwnerId), while the ACL     *)
(* also reads the role (acl_context carries the whole Identity).  The id   *)
(* of a request with no identity is one more member of Ids.                *)
(***************************************************************************)
EXTENDS Integers, FiniteSets

CONSTANTS Ids,          \* principals, the anonymous one included
          Roles,        \* what else of an identity the ACL reads
          Skills,       \* skill ids on the unfiltered card
          Allowed,      \* the ACL: identity |-> the skills it may invoke
          Callers,      \* one per request
          MaxCached,    \* MAX_CACHED_FILTERED_CARDS
          None

Identity == [id : Ids, role : Roles]
Card == SUBSET Skills

ASSUME CacheAssumption ==
    /\ MaxCached \in Nat \ {0}
    /\ Allowed \in [Identity -> Card]
    /\ None \notin Identity
    /\ IsFiniteSet(Callers)

VARIABLES
    cache,      \* key |-> filtered card, for the keys present
    rc,         \* what each request is doing
    identity,   \* who sent it
    card,       \* the filtered card it holds, and then answers ({} before)
    audits,     \* times the audit sink was driven for an id's card
    raced,      \* ids that missed while a request of the same id was at work
    clears      \* times the whole cache was dropped

vars == <<cache, rc, identity, card, audits, raced, clears>>

Init ==
    /\ cache = [k \in {} |-> {}]
    /\ rc = [r \in Callers |-> "idle"]
    /\ identity = [r \in Callers |-> None]
    /\ card = [r \in Callers |-> {}]
    /\ audits = [i \in Ids |-> 0]
    /\ raced = {}
    /\ clears = 0

InFlight(i) == {r \in Callers : rc[r] \in {"missed", "filtered"} /\ identity[r].id = i}

(* Mutant: the anonymous default is taken for every caller: one key for all. *)
key_shared(p) == CHOOSE i \in Ids : TRUE

(* Mutant: the copies are kept per role, as if the ACL read nothing else. *)
key_role(p) == p.role

(* OwnerId::from_identity(identity).as_str(): the principal alone. *)
key(p) == p.id

(* The skills of the card the ACL allows this identity. *)
acl_filtered_card(p) == {s \in Skills : s \in Allowed[p]}

(* for_caller up to the first unlock. *)
Hit(r, p) ==
    /\ rc[r] = "idle"
    /\ key(p) \in DOMAIN cache
    /\ rc' = [rc EXCEPT ![r] = "answered"]
    /\ identity' = [identity EXCEPT ![r] = p]
    /\ card' = [card EXCEPT ![r] = cache[key(p)]]
    /\ UNCHANGED <<cache, audits, raced, clears>>

Miss(r, p) ==
    /\ rc[r] = "idle"
    /\ key(p) \notin DOMAIN cache
    /\ rc' = [rc EXCEPT ![r] = "missed"]
    /\ identity' = [identity EXCEPT ![r] = p]
    /\ raced' = raced \cup {i \in {p.id} : InFlight(i) # {}}
    /\ UNCHANGED <<cache, card, audits, clears>>

(* acl_filtered_card, outside the lock: one audit entry per skill. *)
Filter(r) ==
    /\ rc[r] = "missed"
    /\ rc' = [rc EXCEPT ![r] = "filtered"]
    /\ card' = [card EXCEPT ![r] = acl_filtered_card(identity[r])]
    /\ audits' = [audits EXCEPT ![identity[r].id] = @ + 1]
    /\ UNCHANGED <<cache, identity, raced, clears>>

(* Mutant: the size is checked with > instead of >=. *)
room_late(c) == IF Cardinality(DOMAIN c) > MaxCached THEN [k \in {} |-> {}] ELSE c

(* What the second critical section makes of the map. *)
room(c) == IF Cardinality(DOMAIN c) >= MaxCached THEN [k \in {} |-> {}] ELSE c

stored(c, k, v) == [j \in DOMAIN room(c) \cup {k} |-> IF j = k THEN v ELSE room(c)[j]]

(* Mutant: the filtered copy is answered and never kept. *)
InsertForgotten(r) ==
    /\ rc[r] = "filtered"
    /\ rc' = [rc EXCEPT ![r] = "answered"]
    /\ UNCHANGED <<cache, identity, card, audits, raced, clears>>

Insert(r) ==
    /\ rc[r] = "filtered"
    /\ cache' = stored(cache, key(identity[r]), card[r])
    /\ clears' = IF Cardinality(DOMAIN cache) >= MaxCached THEN clears + 1 ELSE clears
    /\ rc' = [rc EXCEPT ![r] = "answered"]
    /\ UNCHANGED <<identity, card, audits, raced>>

(* The client may disconnect, but none of these steps awaits: a request    *)
(* that has reached the handler runs it to its end.                        *)
Next == \E r \in Callers :
    \/ \E p \in Identity : Hit(r, p)
    \/ \E p \in Identity : Miss(r, p)
    \/ Filter(r)
    \/ Insert(r)

Spec == Init /\ [][Next]_vars

-----------------------------------------------------------------------------
(* Every request, cached card and counter keeps its shape, and a request   *)
(* past the lookup has its identity.                                       *)
TypeOK ==
    /\ DOMAIN cache \subseteq Ids
    /\ \A k \in DOMAIN cache : cache[k] \in Card
    /\ rc \in [Callers -> {"idle", "missed", "filtered", "answered"}]
    /\ identity \in [Callers -> Identity \cup {None}]
    /\ card \in [Callers -> Card]
    /\ audits \in [Ids -> Nat]
    /\ raced \subseteq Ids
    /\ clears \in Nat
    /\ \A r \in Callers : rc[r] # "idle" => identity[r] \in Identity

(* The cache never holds more than MAX_CACHED_FILTERED_CARDS entries, in   *)
(* whatever order concurrent misses reach the insertion                    *)
(* ("Bounding the cache bounds the exposure", handlers.rs:301).            *)
CacheBounded == Cardinality(DOMAIN cache) <= MaxCached

(* A principal whose requests all carried the same role is answered the    *)
(* card the ACL allows it, never one computed for somebody else, whichever *)
(* requests raced and whenever the map was dropped.  (One whose role has   *)
(* changed may be answered the card of its earlier role: the key is the id *)
(* alone.)                                                                 *)
SteadyCallersSeeTheirCard ==
    \A r \in Callers :
        /\ rc[r] = "answered"
        /\ \A q \in Callers : /\ rc[q] # "idle"
                              /\ identity[q].id = identity[r].id
                              => identity[q] = identity[r]
        => card[r] = acl_filtered_card(identity[r])

(* Unless requests of the same principal raced, each principal costs the   *)
(* audit sink one card, and one more for each time the map was dropped.    *)
AuditsAreMemoized == \A i \in Ids \ raced : audits[i] <= clears + 1

==================================================================================
