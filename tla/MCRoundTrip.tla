------------------------------- MODULE MCRoundTrip -------------------------------
(* Instance of RoundTrip for TLC: one principal and its client. *)
EXTENDS RoundTrip, TLC

CONSTANTS alice, u1

Cancels == {[op |-> "cancel", owner |-> alice, task |-> t, url |-> u1] : t \in Tasks}

Failure(code, about, message, guidance) ==
  [code |-> code, about |-> about, message |-> message, guidance |-> guidance]

Both == {"words", "path"}

(* One code of each class, with words of the module's own and a path among   *)
(* them; a schema error of either side; a refusal and a pending approval for  *)
(* no reason that is left, or would be, after sanitizing.                    *)
SomeFailures ==
  {Failure(code, "Input", Both, "own") :
     code \in {"ACLDenied", "ModuleNotFound", "SchemaValidationError", "GeneralInvalidInput",
               "ApprovalPending", "ExecutionCancelled", "CircuitBreakerOpen", "Unlisted"}}
   \cup {Failure("SchemaValidationError", "Output", Both, "own"),
         Failure("ApprovalPending", "Input", {"path"}, "none"),
         Failure("ApprovalDenied", "Input", {"words"}, "blank"),
         Failure("ApprovalTimeout", "Input", {"path"}, "none")}

Symmetry == Permutations(Reads)
==================================================================================
