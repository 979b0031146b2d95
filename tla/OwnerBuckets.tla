---------------------------- MODULE OwnerBuckets ----------------------------
(***************************************************************************)
(* The map behind both in-memory stores: owner -> key -> value, where an   *)
(* owner has a bucket only while it holds something. Every method takes    *)
(* the one mutex for its whole body, so each is a single step.             *)
(***************************************************************************)
EXTENDS FiniteSets

CONSTANTS Owners, Keys, Values, None

ASSUME BucketAssumption == None \notin Values

VARIABLES
  buckets,  \* a partial map from owners to partial maps from keys to values
  answer    \* the last call: its owner and the entries it was answered

vars == <<buckets, answer>>

PartialMaps(D, R) == UNION {[E -> R] : E \in SUBSET D}

TypeOK ==
  /\ buckets \in PartialMaps(Owners, PartialMaps(Keys, Values))
  /\ answer \in [owner : Owners \cup {None}, found : SUBSET (Keys \X Values)]

KeysOf(o) == IF o \in DOMAIN buckets THEN DOMAIN buckets[o] ELSE {}

\* The map with o's bucket replaced.
WithBucket(o, bucket) ==
  [p \in DOMAIN buckets \cup {o} |-> IF p = o THEN bucket ELSE buckets[p]]

Init ==
  /\ buckets = [o \in {} |-> [k \in {} |-> None]]
  /\ answer = [owner |-> None, found |-> {}]

save(o, k, v) ==
  /\ buckets' = WithBucket(o, [j \in KeysOf(o) \cup {k} |->
                                  IF j = k THEN v ELSE buckets[o][j]])
  /\ answer' = [owner |-> o, found |-> {}]

\* Mutant of get: a missing entry is answered with a value.
get_default(o, k) ==
  /\ answer' = [owner |-> o,
                found |-> {<<k, IF k \in KeysOf(o) THEN buckets[o][k] ELSE None>>}]
  /\ UNCHANGED buckets

get(o, k) ==
  /\ answer' = [owner |-> o, found |-> {<<j, buckets[o][j]>> : j \in KeysOf(o) \cap {k}}]
  /\ UNCHANGED buckets

\* Mutants of delete: the emptied bucket stays; the whole bucket goes.
delete_keep_bucket(o, k) ==
  /\ buckets' = IF o \in DOMAIN buckets
                THEN WithBucket(o, [j \in KeysOf(o) \ {k} |-> buckets[o][j]])
                ELSE buckets
  /\ answer' = [owner |-> o, found |-> {}]

delete_bucket(o, k) ==
  /\ buckets' = [p \in DOMAIN buckets \ {o} |-> buckets[p]]
  /\ answer' = [owner |-> o, found |-> {}]

\* Removing the last key removes the bucket.
delete(o, k) ==
  /\ buckets' = IF KeysOf(o) \subseteq {k}
                THEN [p \in DOMAIN buckets \ {o} |-> buckets[p]]
                ELSE WithBucket(o, [j \in KeysOf(o) \ {k} |-> buckets[o][j]])
  /\ answer' = [owner |-> o, found |-> {}]

list(o) ==
  /\ answer' = [owner |-> o, found |-> {<<j, buckets[o][j]>> : j \in KeysOf(o)}]
  /\ UNCHANGED buckets

Next == \E o \in Owners :
  \/ list(o)
  \/ \E k \in Keys : get(o, k) \/ delete(o, k) \/ \E v \in Values : save(o, k, v)

Spec == Init /\ [][Next]_vars
-----------------------------------------------------------------------------
\* A stream of short-lived owners leaves no empty bucket behind.
NoEmptyBucket == \A o \in DOMAIN buckets : DOMAIN buckets[o] # {}

\* The value o holds under k, as the contract sees it.
Held(o, k) == IF k \in KeysOf(o) THEN buckets[o][k] ELSE None

Scoped == INSTANCE ScopedStore WITH
  contents <- [o \in Owners |-> [k \in Keys |-> Held(o, k)]]

\* The nested map keeps the contract of the stores: whatever one owner saves or
\* deletes, and whichever buckets come and go, every other owner reads the same.
KeepsContract == Scoped!Spec
=============================================================================
