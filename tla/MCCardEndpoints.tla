----------------------------- MODULE MCCardEndpoints -----------------------------
(* Instance of CardEndpoints, and of the FilteredCardCache in it, for TLC. *)
EXTENDS CardEndpoints, TLC

CONSTANTS nobody, alice, bob, admin, read, write, health,
          tAlice, tAdmin, tBob, tNoSub

Text(k, x) == [kind |-> k, text |-> x]
Roles_(rs) == [kind |-> "array", items |-> {Text("string", x) : x \in rs}
                                             \cup {[kind |-> "null"]}]

(* Alice holds a token of each of two roles; bob's id is a number and his   *)
(* roles are no array; the last lacks the claim required besides the id.    *)
Payloads == [t \in Tokens |->
  CASE t = tAlice -> [sub |-> Text("string", alice), uid |-> Text("string", alice)]
    [] t = tAdmin -> [sub |-> Text("string", alice), uid |-> Text("string", alice),
                      roles |-> Roles_({admin})]
    [] t = tBob   -> [sub |-> Text("string", bob), uid |-> Text("number", bob),
                      roles |-> Text("string", admin)]
    [] t = tNoSub -> [uid |-> Text("string", bob)]]

SubClaim == {"sub"}
Roleless == [id |-> nobody, role |-> {}]
RoleSets == SUBSET {admin}

Bearer == {[scheme |-> "bearer", token |-> t] : t \in Tokens}
             \cup {[scheme |-> "none", token |-> Nobody]}

(* Everybody may read and ask for the health, admins and bob may write;     *)
(* bob's writes want an approval, reading is annotated for approval.        *)
ACL == [p \in [id : Ids, role : Roles] |->
          {read, health} \cup {s \in {write} : admin \in p.role \/ p.id # alice}]
Approvals == [p \in [id : Ids, role : Roles] |->
          {s \in {write} : p.id = bob}]

Symmetry == Permutations(Callers)
==================================================================================
