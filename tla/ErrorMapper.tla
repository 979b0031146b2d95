------------------------------- MODULE ErrorMapper -------------------------------
(***************************************************************************)
(* What of an apcore error reaches a caller: ErrorMapper of                *)
(* adapters/errors.rs, and the status texts server/handlers.rs builds on   *)
(* it.  A text is the set of what it is made of: the fixed string of its   *)
(* class, the words of the error's message, the paths and traceback lines  *)
(* among them that sanitize_message strips, its guidance.                  *)
(***************************************************************************)
EXTENDS Integers

Refusal == {"ACLDenied", "ApprovalDenied", "ApprovalTimeout"}

\* apcore's codes that the mapper tells apart; Unlisted are all the others.
ErrorCode == Refusal \cup
  {"ModuleNotFound", "SchemaValidationError", "GeneralInvalidInput",
   "ApprovalPending", "ModuleTimeout", "ExecutionCancelled", "CircuitBreakerOpen",
   "TaskLimitExceeded", "CallDepthExceeded", "CircularCall", "CallFrequencyExceeded",
   "ModuleDisabled", "ConfigNamespaceDuplicate", "ConfigMountError",
   "ConfigBindError", "Unlisted"}

\* about: what a schema error says it validated. A message of no words and no
\* path is white space; a blank guidance is empty once it is sanitized.
ModuleError == [code : ErrorCode, about : {"Input", "Output", "Config"},
                message : SUBSET {"words", "path"}, guidance : {"none", "blank", "own"}]

Text == SUBSET {"fixed", "words", "path", "guidance"}

\* The sanitized message of e.
own(e) == e.message \ {"path"}

\* apcore validates the module's result and its configuration under the same
\* code as the caller's input.
is_server_side_schema_error(e) ==
  e.code = "SchemaValidationError" /\ e.about \in {"Output", "Config"}

\* Mutant of carries_caller_detail: schema errors all count as the caller's.
carries_caller_detail_any_schema(e, disclose) ==
  \/ e.code \in {"ModuleNotFound", "GeneralInvalidInput", "SchemaValidationError"}
  \/ e.code \in Refusal /\ disclose

\* Whether the message of e may reach the caller, and be widened by guidance.
carries_caller_detail(e, disclose) ==
  \/ e.code \in {"ModuleNotFound", "GeneralInvalidInput"}
  \/ e.code = "SchemaValidationError" /\ ~ is_server_side_schema_error(e)
  \/ e.code \in Refusal /\ disclose

\* The fixed string unless the deployment discloses a reason that is not blank.
refusal_message(e, disclose) ==
  IF disclose /\ own(e) # {} THEN own(e) ELSE {"fixed"}

jsonrpc_code(e) ==
  CASE e.code = "ModuleNotFound"       -> -32601
    [] e.code = "GeneralInvalidInput"  -> -32602
    [] e.code = "SchemaValidationError" /\ ~ is_server_side_schema_error(e) -> -32602
    [] e.code = "ACLDenied"            -> -32040
    [] e.code = "ApprovalDenied"       -> -32041
    [] e.code = "ApprovalTimeout"      -> -32042
    [] OTHER                           -> -32603

\* The message of to_jsonrpc_error_with.
jsonrpc_message(e, disclose) ==
  CASE e.code = "ModuleNotFound"       -> own(e)
    [] e.code = "GeneralInvalidInput"  -> {"fixed"} \cup own(e)
    [] e.code = "SchemaValidationError" /\ ~ is_server_side_schema_error(e) -> own(e)
    [] e.code \in Refusal              -> refusal_message(e, disclose)
    [] OTHER                           -> {"fixed"}

failure_text(e, disclose) ==
  jsonrpc_message(e, disclose) \cup
    (IF carries_caller_detail(e, disclose) /\ e.guidance = "own" THEN {"guidance"} ELSE {})

\* The class of a code in error_to_status.
kind_of(e) ==
  CASE e.code \in {"ExecutionCancelled", "ApprovalPending", "ModuleTimeout"} -> e.code
    [] e.code \in Refusal                                                   -> "Refusal"
    [] OTHER                                                                -> "Other"

\* The text of the status message a module error ends its task with: that of a
\* pending approval is the message as it is.
status_text(e, disclose) ==
  CASE e.code \in {"ExecutionCancelled", "ModuleTimeout"} -> {"fixed"}
    [] e.code = "ApprovalPending"                         -> e.message
    [] OTHER                                              -> failure_text(e, disclose)
==================================================================================
