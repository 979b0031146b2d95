------------------------ MODULE OwnerBucketsProofs --------------------------
(***************************************************************************)
(* OwnerBuckets implements ScopedStore, for any owners, keys and values.   *)
(***************************************************************************)
EXTENDS OwnerBuckets, TLAPS

\* What is known of the nested map at every step.
BucketInv ==
  /\ DOMAIN buckets \subseteq Owners
  /\ \A o \in DOMAIN buckets : /\ DOMAIN buckets[o] \subseteq Keys
                               /\ \A k \in DOMAIN buckets[o] : buckets[o][k] \in Values

\* The empty map is well formed.
LEMMA BucketInit == Init => BucketInv /\ NoEmptyBucket
  BY DEF Init, BucketInv, NoEmptyBucket

\* Each method keeps the map well formed and without empty buckets.
LEMMA BucketNext == BucketInv /\ NoEmptyBucket /\ [Next]_vars => BucketInv' /\ NoEmptyBucket'
<1> SUFFICES ASSUME BucketInv, NoEmptyBucket, [Next]_vars PROVE BucketInv' /\ NoEmptyBucket'
  OBVIOUS
<1>1. CASE UNCHANGED buckets
  BY <1>1 DEF BucketInv, NoEmptyBucket
<1>2. ASSUME NEW o \in Owners, NEW k \in Keys, NEW v \in Values, save(o, k, v)
      PROVE  BucketInv' /\ NoEmptyBucket'
  <2> DEFINE bucket == [j \in KeysOf(o) \cup {k} |-> IF j = k THEN v ELSE buckets[o][j]]
  <2>1. DOMAIN bucket \subseteq Keys /\ DOMAIN bucket # {} /\ \A j \in DOMAIN bucket : bucket[j] \in Values
    BY DEF KeysOf, BucketInv
  <2>2. buckets' = WithBucket(o, bucket)
    BY <1>2 DEF save
  <2> HIDE DEF bucket
  <2>3. /\ DOMAIN buckets' = DOMAIN buckets \cup {o}
        /\ buckets'[o] = bucket
        /\ \A p \in DOMAIN buckets : p # o => buckets'[p] = buckets[p]
    BY <2>2 DEF WithBucket
  <2>4. o \in DOMAIN buckets' /\ DOMAIN buckets' \subseteq Owners
    BY <2>3 DEF BucketInv
  <2> QED BY <2>1, <2>3, <2>4 DEF BucketInv, NoEmptyBucket
<1>3. ASSUME NEW o \in Owners, NEW k \in Keys, delete(o, k)
      PROVE  BucketInv' /\ NoEmptyBucket'
  <2>1. CASE KeysOf(o) \subseteq {k}
    BY <1>3, <2>1 DEF delete, BucketInv, NoEmptyBucket
  <2>2. CASE ~ (KeysOf(o) \subseteq {k})
    <3> DEFINE bucket == [j \in KeysOf(o) \ {k} |-> buckets[o][j]]
    <3>1. DOMAIN bucket \subseteq Keys /\ DOMAIN bucket # {} /\ \A j \in DOMAIN bucket : bucket[j] \in Values
      BY <2>2 DEF KeysOf, BucketInv
    <3>2. buckets' = WithBucket(o, bucket)
      BY <1>3, <2>2 DEF delete
    <3> HIDE DEF bucket
    <3>3. /\ DOMAIN buckets' = DOMAIN buckets \cup {o}
          /\ buckets'[o] = bucket
          /\ \A p \in DOMAIN buckets : p # o => buckets'[p] = buckets[p]
      BY <3>2 DEF WithBucket
    <3>4. o \in DOMAIN buckets' /\ DOMAIN buckets' \subseteq Owners
      BY <3>3 DEF BucketInv
    <3> QED BY <3>1, <3>3, <3>4 DEF BucketInv, NoEmptyBucket
  <2> QED BY <2>1, <2>2
<1> QED BY <1>1, <1>2, <1>3 DEF Next, vars, get, list

\* No owner keeps an empty bucket.
THEOREM EmptyBucketsGo == Spec => []NoEmptyBucket
  BY BucketInit, BucketNext, PTL DEF Spec

-----------------------------------------------------------------------------
(* Refinement *)

Contents == [o \in Owners |-> [k \in Keys |-> Held(o, k)]]

\* A save is the contract's save.
LEMMA SaveRefines ==
  ASSUME BucketInv, NEW o \in Owners, NEW k \in Keys, NEW v \in Values, save(o, k, v)
  PROVE  Scoped!save(o, k, v)
<1> DEFINE bucket == [j \in KeysOf(o) \cup {k} |-> IF j = k THEN v ELSE buckets[o][j]]
<1>1. buckets' = WithBucket(o, bucket)
  BY DEF save
<1>2. DOMAIN bucket = KeysOf(o) \cup {k} /\ \A j \in DOMAIN bucket :
         bucket[j] = IF j = k THEN v ELSE buckets[o][j]
  OBVIOUS
<1> HIDE DEF bucket
<1>5. /\ DOMAIN buckets' = DOMAIN buckets \cup {o}
      /\ buckets'[o] = bucket
      /\ \A p \in DOMAIN buckets : p # o => buckets'[p] = buckets[p]
  BY <1>1 DEF WithBucket
<1>3. \A p \in Owners, j \in Keys :
        Held(p, j)' = IF p = o /\ j = k THEN v ELSE Held(p, j)
  BY <1>2, <1>5 DEF Held, KeysOf
<1>4. Contents' = [Contents EXCEPT ![o][k] = v]
  BY <1>3 DEF Contents
<1> QED BY <1>4 DEF Contents, Scoped!save, save

\* A delete is the contract's delete, with or without the bucket it empties.
LEMMA DeleteRefines ==
  ASSUME BucketInv, NEW o \in Owners, NEW k \in Keys, delete(o, k)
  PROVE  Scoped!delete(o, k)
<1>1. \A p \in Owners, j \in Keys :
        Held(p, j)' = IF p = o /\ j = k THEN None ELSE Held(p, j)
  <2>1. CASE KeysOf(o) \subseteq {k}
    BY <2>1 DEF delete, Held, KeysOf
  <2>2. CASE ~ (KeysOf(o) \subseteq {k})
    <3> DEFINE bucket == [j \in KeysOf(o) \ {k} |-> buckets[o][j]]
    <3>1. buckets' = WithBucket(o, bucket)
      BY <2>2 DEF delete
    <3>2. /\ DOMAIN bucket = KeysOf(o) \ {k}
          /\ \A j \in DOMAIN bucket : bucket[j] = buckets[o][j]
      OBVIOUS
    <3> HIDE DEF bucket
    <3>3. /\ DOMAIN buckets' = DOMAIN buckets \cup {o}
          /\ buckets'[o] = bucket
          /\ \A p \in DOMAIN buckets : p # o => buckets'[p] = buckets[p]
      BY <3>1 DEF WithBucket
    <3> QED BY <3>2, <3>3 DEF Held, KeysOf
  <2> QED BY <2>1, <2>2
<1>2. Contents' = [Contents EXCEPT ![o][k] = None]
  BY <1>1 DEF Contents
<1> QED BY <1>2 DEF Contents, Scoped!delete, delete

\* What a read answers for a key.
LEMMA EntryHeld ==
  ASSUME BucketInv, NEW o \in Owners, NEW k \in Keys
  PROVE  Scoped!Entry(o, k) = {<<j, buckets[o][j]>> : j \in KeysOf(o) \cap {k}}
<1>1. Scoped!Entry(o, k) = IF Held(o, k) = None THEN {} ELSE {<<k, Held(o, k)>>}
  BY DEF Scoped!Entry
<1>2. CASE k \in KeysOf(o)
  <2>1. Held(o, k) = buckets[o][k] /\ Held(o, k) # None
    BY <1>2, BucketAssumption DEF Held, KeysOf, BucketInv
  <2> QED BY <1>1, <1>2, <2>1
<1>3. CASE k \notin KeysOf(o)
  BY <1>1, <1>3 DEF Held
<1> QED BY <1>2, <1>3

\* A get answers what the contract's get answers.
LEMMA GetRefines ==
  ASSUME BucketInv, NEW o \in Owners, NEW k \in Keys, get(o, k)
  PROVE  Scoped!get(o, k)
<1>1. UNCHANGED Contents
  BY DEF get, Contents, Held, KeysOf
<1> QED BY <1>1, EntryHeld DEF get, Scoped!get, Contents

\* A list answers what the contract's list answers.
LEMMA ListRefines ==
  ASSUME BucketInv, NEW o \in Owners, list(o)
  PROVE  Scoped!list(o)
<1>1. UNCHANGED Contents
  BY DEF list, Contents, Held, KeysOf
<1>2. KeysOf(o) \subseteq Keys
  BY DEF KeysOf, BucketInv
<1>3. UNION {Scoped!Entry(o, k) : k \in Keys} = {<<j, buckets[o][j]>> : j \in KeysOf(o)}
  BY <1>2, EntryHeld
<1> QED BY <1>1, <1>3 DEF list, Scoped!list, Contents

\* The in-memory map keeps the store contract.
THEOREM BucketsKeepContract == Spec => KeepsContract
<1>1. Init => Scoped!Init
  BY DEF Init, Scoped!Init, Held, KeysOf
<1>2. BucketInv /\ [Next]_vars => [Scoped!Next]_Scoped!vars
  <2> SUFFICES ASSUME BucketInv, [Next]_vars PROVE [Scoped!Next]_Scoped!vars
    OBVIOUS
  <2>1. CASE UNCHANGED vars
    BY <2>1 DEF vars, Scoped!vars, Held, KeysOf
  <2>2. CASE Next
    BY <2>2, SaveRefines, DeleteRefines, GetRefines, ListRefines DEF Next, Scoped!Next
  <2> QED BY <2>1, <2>2
<1> QED BY <1>1, <1>2, BucketInit, BucketNext, PTL DEF Spec, KeepsContract, Scoped!Spec

-----------------------------------------------------------------------------
(* Types *)

\* A partial map is a function on part of its domain.
LEMMA PartialMap ==
  ASSUME NEW D, NEW R, NEW E \in SUBSET D
  PROVE  [E -> R] \subseteq PartialMaps(D, R)
BY DEF PartialMaps

LEMMA PartialMapParts ==
  ASSUME NEW D, NEW R, NEW f \in PartialMaps(D, R)
  PROVE  DOMAIN f \in SUBSET D /\ f \in [DOMAIN f -> R]
BY DEF PartialMaps

\* A map with one owner's bucket replaced is still a map of buckets.
LEMMA WithBucketType ==
  ASSUME TypeOK, NEW o \in Owners, NEW E \in SUBSET Keys, NEW bucket \in [E -> Values]
  PROVE  WithBucket(o, bucket) \in PartialMaps(Owners, PartialMaps(Keys, Values))
<1> DEFINE B == PartialMaps(Keys, Values)
<1>1. DOMAIN buckets \in SUBSET Owners /\ buckets \in [DOMAIN buckets -> B]
  BY PartialMapParts DEF TypeOK
<1>2. bucket \in B
  BY PartialMap
<1> HIDE DEF B
<1>3. WithBucket(o, bucket) \in [DOMAIN buckets \cup {o} -> B]
  BY <1>1, <1>2 DEF WithBucket
<1>4. DOMAIN buckets \cup {o} \in SUBSET Owners
  BY <1>1
<1> QED BY <1>3, <1>4, PartialMap DEF B

LEMMA BucketsTypeInit == Init => TypeOK
<1> SUFFICES ASSUME Init PROVE TypeOK
  OBVIOUS
<1> DEFINE B == PartialMaps(Keys, Values)
<1>1. buckets \in [{} -> B]
  BY DEF Init
<1> HIDE DEF B
<1>2. buckets \in PartialMaps(Owners, B)
  BY <1>1, PartialMap
<1> QED BY <1>2 DEF Init, TypeOK, B

LEMMA BucketsTypeNext == TypeOK /\ [Next]_vars => TypeOK'
<1> SUFFICES ASSUME TypeOK, [Next]_vars PROVE TypeOK'
  OBVIOUS
<1> DEFINE B == PartialMaps(Keys, Values)
<1>t. DOMAIN buckets \in SUBSET Owners /\ buckets \in [DOMAIN buckets -> B]
  BY PartialMapParts DEF TypeOK
<1>b. ASSUME NEW o \in Owners
      PROVE  /\ KeysOf(o) \in SUBSET Keys
             /\ \A k \in KeysOf(o) : buckets[o][k] \in Values
  <2>1. CASE o \in DOMAIN buckets
    <3>1. buckets[o] \in PartialMaps(Keys, Values)
      BY <1>t, <2>1
    <3>2. DOMAIN buckets[o] \in SUBSET Keys /\ buckets[o] \in [DOMAIN buckets[o] -> Values]
      BY <3>1, PartialMapParts
    <3> QED BY <2>1, <3>2 DEF KeysOf
  <2>2. CASE o \notin DOMAIN buckets
    BY <2>2 DEF KeysOf
  <2> QED BY <2>1, <2>2
<1> HIDE DEF B
<1>1. CASE UNCHANGED vars
  BY <1>1 DEF vars, TypeOK
<1>2. ASSUME NEW o \in Owners, NEW k \in Keys, NEW v \in Values, save(o, k, v)
      PROVE  TypeOK'
  <2> DEFINE E == KeysOf(o) \cup {k}
             bucket == [j \in E |-> IF j = k THEN v ELSE buckets[o][j]]
  <2>1. E \in SUBSET Keys /\ bucket \in [E -> Values]
    BY <1>b
  <2>2. buckets' = WithBucket(o, bucket) /\ answer' = [owner |-> o, found |-> {}]
    BY <1>2 DEF save
  <2> HIDE DEF E, bucket
  <2> QED BY <2>1, <2>2, WithBucketType DEF TypeOK
<1>3. ASSUME NEW o \in Owners, NEW k \in Keys, delete(o, k)
      PROVE  TypeOK'
  <2>1. CASE KeysOf(o) \subseteq {k}
    <3> DEFINE D == DOMAIN buckets \ {o}
    <3>1. buckets' = [p \in D |-> buckets[p]] /\ answer' = [owner |-> o, found |-> {}]
      BY <1>3, <2>1 DEF delete
    <3>2. buckets' \in [D -> B] /\ D \in SUBSET Owners
      BY <1>t, <3>1
    <3> HIDE DEF D
    <3>3. buckets' \in PartialMaps(Owners, B)
      BY <3>2, PartialMap
    <3> QED BY <3>1, <3>3 DEF TypeOK, B
  <2>2. CASE ~ (KeysOf(o) \subseteq {k})
    <3> DEFINE E == KeysOf(o) \ {k}
               bucket == [j \in E |-> buckets[o][j]]
    <3>1. E \in SUBSET Keys /\ bucket \in [E -> Values]
      BY <1>b
    <3>2. buckets' = WithBucket(o, bucket) /\ answer' = [owner |-> o, found |-> {}]
      BY <1>3, <2>2 DEF delete
    <3> HIDE DEF E, bucket
    <3> QED BY <3>1, <3>2, WithBucketType DEF TypeOK
  <2> QED BY <2>1, <2>2
<1>4. ASSUME NEW o \in Owners, NEW k \in Keys, get(o, k)
      PROVE  TypeOK'
  <2>1. {<<j, buckets[o][j]>> : j \in KeysOf(o) \cap {k}} \subseteq Keys \X Values
    BY <1>b
  <2> QED BY <1>4, <2>1 DEF get, TypeOK
<1>5. ASSUME NEW o \in Owners, list(o)
      PROVE  TypeOK'
  <2>1. {<<j, buckets[o][j]>> : j \in KeysOf(o)} \subseteq Keys \X Values
    BY <1>b
  <2> QED BY <1>5, <2>1 DEF list, TypeOK
<1> QED BY <1>1, <1>2, <1>3, <1>4, <1>5 DEF Next

\* The nested map holds values under keys under owners, and a read answers
\* entries of such a map, whichever buckets come and go.
THEOREM BucketsTyped == Spec => []TypeOK
  BY BucketsTypeInit, BucketsTypeNext, PTL DEF Spec
=============================================================================
