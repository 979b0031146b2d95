---------------------------- MODULE ScopedStore -----------------------------
(***************************************************************************)
(* The contract of TaskStore and PushConfigStore: every method acts on the *)
(* calling owner's entries only, and an entry of another owner is answered *)
(* as one that does not exist.                                             *)
(***************************************************************************)
CONSTANTS Owners, Keys, Values, None

VARIABLES
  contents,  \* contents[o][k]: the value o stored under k, or None
  answer     \* the last call: its owner and the entries it was answered

vars == <<contents, answer>>

Entry(o, k) == IF contents[o][k] = None THEN {} ELSE {<<k, contents[o][k]>>}

Init ==
  /\ contents = [o \in Owners |-> [k \in Keys |-> None]]
  /\ answer = [owner |-> None, found |-> {}]

save(o, k, v) ==
  /\ contents' = [contents EXCEPT ![o][k] = v]
  /\ answer' = [owner |-> o, found |-> {}]

delete(o, k) ==
  /\ contents' = [contents EXCEPT ![o][k] = None]
  /\ answer' = [owner |-> o, found |-> {}]

get(o, k) ==
  /\ answer' = [owner |-> o, found |-> Entry(o, k)]
  /\ UNCHANGED contents

list(o) ==
  /\ answer' = [owner |-> o, found |-> UNION {Entry(o, k) : k \in Keys}]
  /\ UNCHANGED contents

Next == \E o \in Owners :
  \/ list(o)
  \/ \E k \in Keys : get(o, k) \/ delete(o, k) \/ \E v \in Values : save(o, k, v)

Spec == Init /\ [][Next]_vars
=============================================================================
