---------------------------- MODULE MCTaskServer ----------------------------
(* Small instances of TaskServer for TLC. *)
EXTENDS TaskServer, TLC

CONSTANTS alice, bob, u1

Request(op, o, t) == [op |-> op, owner |-> o, task |-> t, url |-> u1]

\* The owner-to-be and a stranger do everything.
AllRequests == {Request(op, o, t) : op \in {"cancel", "set", "delete"},
                                    o \in Owners, t \in Tasks}

CallSymmetry == Permutations(Calls)
=============================================================================
