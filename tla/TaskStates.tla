----------------------------- MODULE TaskStates -----------------------------
(***************************************************************************)
(* The A2A task states the server writes, which of them are terminal, and  *)
(* the classification of a module's error into one of them.                *)
(***************************************************************************)

TaskState == {"SUBMITTED", "WORKING", "COMPLETED", "FAILED", "CANCELED",
              "INPUT_REQUIRED", "REJECTED"}

Terminal == {"COMPLETED", "FAILED", "CANCELED", "REJECTED"}

\* The kinds of ModuleError the status classification tells apart.
ErrorKind == {"ExecutionCancelled", "ApprovalPending", "ModuleTimeout",
              "Refusal", "Other"}

\* INPUT_REQUIRED, the status of a pending approval, is not terminal.
error_to_status(e) ==
  CASE e = "ExecutionCancelled" -> "CANCELED"
    [] e = "ApprovalPending"    -> "INPUT_REQUIRED"
    [] e = "Refusal"            -> "REJECTED"
    [] OTHER                    -> "FAILED"
=============================================================================
