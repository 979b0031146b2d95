-------------------------------- MODULE RoundTrip --------------------------------
(***************************************************************************)
(* The unary calls of A2AClient (client/client.rs) against the task        *)
(* endpoints: each exchange is one HTTP request, and its caller is told    *)
(* the result or a typed error of client/exceptions.rs. The caller may     *)
(* give up while the server goes on, and a server that finds its client    *)
(* gone drops the handler. An exchange begins when its request arrives: a  *)
(* request that never does tells its caller no more than a lost answer.    *)
(* Only answered reads are exchanges: a lost one shows and changes nothing.*)
(*                                                                         *)
(* A send is named by the task the server creates for it, a cancel by the  *)
(* server's call; tasks/get and ListTasks read the store in one step. The  *)
(* client is not told of an HTTP error status, a timeout and a broken      *)
(* connection apart. Calls overlap freely: every method takes &self.       *)
(***************************************************************************)
EXTENDS TaskServer, ErrorMapper

CONSTANTS
  Reads,      \* tasks/get and ListTasks exchanges
  Failures    \* the errors modules end with

ASSUME RoundTripAssumption ==
  /\ Failures \subseteq ModuleError
  /\ None \notin ModuleError \cup TaskState \cup (Owners \X Tasks)
  /\ Reads \cap (Tasks \cup Calls) = {}

VARIABLES
  told,       \* told[x]: what its caller was told, or None
  before,     \* before[x]: the exchanges that were answered when x was sent
  asked,      \* asked[g]: whose task, and which, a read asked for, or None
  failure,    \* failure[t]: the error the module of t ended with, or None
  disclose    \* disclose_refusal_reason of the executor

clientVars == <<told, before>>
roundTripVars == <<vars, clientVars, asked, failure, disclose>>

Exchanges == Tasks \cup Calls \cup Reads

Variant == {"ok", "Connection", "TaskNotFound", "TaskNotCancelable", "AccessDenied",
            "ApprovalDenied", "ApprovalTimeout", "Server"}

\* A2AClientError::from_jsonrpc
from_jsonrpc(code) ==
  CASE code = -32001 -> "TaskNotFound"
    [] code = -32002 -> "TaskNotCancelable"
    [] code = -32040 -> "AccessDenied"
    [] code = -32041 -> "ApprovalDenied"
    [] code = -32042 -> "ApprovalTimeout"
    [] OTHER         -> "Server"

is_governance_refusal(variant) ==
  variant \in {"AccessDenied", "ApprovalDenied", "ApprovalTimeout"}

RoundTripInit ==
  /\ Init
  /\ told = [x \in Exchanges |-> None]
  /\ before = [x \in Exchanges |-> {}]
  /\ asked = [g \in Reads |-> None]
  /\ failure = [t \in Tasks |-> None]
  /\ disclose \in BOOLEAN
-----------------------------------------------------------------------------
(* The client *)

\* The exchanges whose caller got an answer.
Returned == {x \in Exchanges : told[x] # None /\ told[x].variant # "Connection"}

\* The client sends x: what it knows by then.
Sends(x) ==
  /\ before' = [before EXCEPT ![x] = Returned]
  /\ UNCHANGED <<told, failure, disclose>>

\* The text of the status message of a send that is answered with a task.
answer_text(t) ==
  CASE kind[t] = "reject"                        -> {"fixed"}
    [] kind[t] # "reject" /\ failure[t] # None   -> status_text(failure[t], disclose)
    [] kind[t] # "reject" /\ failure[t] = None   -> {}

Result(s, text) == [code |-> 0, state |-> s, text |-> text]
RpcError(code) == [code |-> code, state |-> None, text |-> {}]

\* Mutant of read_answer: an outage reads as a missing task.
read_answer_collapsed(via, reached, task) ==
  IF ~ reached \/ (via = "get" /\ task = None) THEN RpcError(-32001)
  ELSE Result(IF task = None THEN None ELSE task.state, {})

\* handle_get, and whether the task is in what handle_list returns; an outage is
\* answered by store_failure.
read_answer(via, reached, task) ==
  CASE ~ reached                                   -> RpcError(-32603)
    [] reached /\ task = None /\ via = "get"       -> RpcError(-32001)
    [] reached /\ task = None /\ via = "list"      -> Result(None, {})
    [] reached /\ task # None                      -> Result(task.state, {})

\* The sends and cancels that have begun; those whose handler has answered, and
\* the JSON-RPC answer.
Begun == {t \in Tasks : pc[t] # "idle"} \cup {c \in Calls : cpc[c] # "idle"}

Handled ==
  {t \in Tasks : pc[t] \in {"done", "failed", "refused"}}
    \cup {c \in Calls : cpc[c] \in Answered \ {"gone"}}

answer(x) ==
  CASE x \in Tasks /\ pc[x] = "done"             -> Result(status[x], answer_text(x))
    [] x \in Tasks /\ pc[x] = "failed"           -> RpcError(-32603)
    [] x \in Tasks /\ pc[x] = "refused"          -> RpcError(-32602)
    [] x \in Calls /\ cpc[x] = "ok"              -> Result("CANCELED", {"fixed"})
    [] x \in Calls /\ cpc[x] = "notfound"        -> RpcError(-32001)
    [] x \in Calls /\ cpc[x] = "notcancelable"   -> RpcError(-32002)
    [] x \in Calls /\ cpc[x] = "internal"        -> RpcError(-32603)

\* The rest of jsonrpc_call_versioned: the result, or the error typed.
typed(a) == [variant |-> IF a.code = 0 THEN "ok" ELSE from_jsonrpc(a.code),
             state |-> a.state, text |-> a.text]

Tell(x, what) ==
  /\ x \in Begun
  /\ told[x] = None
  /\ told' = [told EXCEPT ![x] = what]
  /\ UNCHANGED <<vars, before, asked, failure, disclose>>

Return(x) == x \in Handled /\ Tell(x, typed(answer(x)))

\* No answer in time (30 s unless configured), none at all, or an HTTP status
\* that is no success, such as the auth layer's 401.
GiveUp(x) == Tell(x, [variant |-> "Connection", state |-> None, text |-> {}])
-----------------------------------------------------------------------------
(* The server, behind the connections *)

GaveUp(x) == told[x] # None /\ told[x].variant = "Connection"

SendArrives(t) ==
  /\ ReceiveInvalid(t) \/ \E o \in Owners : ReceiveRejected(t, o) \/ ReceiveSend(t, o)
  /\ Sends(t)
  /\ UNCHANGED asked

CancelArrives(c, r) ==
  /\ r.op = "cancel"
  /\ LookUp(c, r)
  /\ Sends(c)
  /\ UNCHANGED asked

\* get_task or list_tasks, there and back.
Read(g, o, t) ==
  /\ asked[g] = None
  /\ asked' = [asked EXCEPT ![g] = <<o, t>>]
  /\ \E via \in {"get", "list"}, reached \in BOOLEAN :
       told' = [told EXCEPT ![g] = typed(read_answer(via, reached, handle_get(o, t)))]
  /\ before' = [before EXCEPT ![g] = Returned]
  /\ UNCHANGED <<vars, failure, disclose>>

\* The module's own failure, or the one its deadline makes of it.
ModuleEnds(t) ==
  /\ \/ ModuleReturns(t) /\ status'[t] = "COMPLETED" /\ UNCHANGED failure
     \/ \E e \in Failures :
          /\ ModuleReturns(t)
          /\ status'[t] = error_to_status(kind_of(e))
          /\ failure' = [failure EXCEPT ![t] = e]
     \/ /\ TimeoutElapses(t)
        /\ failure' = [failure EXCEPT ![t] = [code |-> "ModuleTimeout", about |-> "Input",
                                              message |-> {"words"}, guidance |-> "none"]]
  /\ UNCHANGED <<clientVars, asked, disclose>>

Handle(x) ==
  /\ \/ x \in Tasks /\ HandlerStep(x)
     \/ x \in Calls /\ CallStep(x)
  /\ UNCHANGED <<clientVars, asked, failure, disclose>>

\* The future of a handler is dropped only once its client has gone.
DropExchange(x) ==
  /\ GaveUp(x)
  /\ \/ x \in Tasks /\ Disconnect(x)
     \/ x \in Calls /\ DropCall(x)
  /\ UNCHANGED <<clientVars, asked, failure, disclose>>

RoundTripNext ==
  \/ \E x \in Exchanges : Return(x) \/ GiveUp(x) \/ Handle(x) \/ DropExchange(x)
  \/ \E t \in Tasks : SendArrives(t) \/ ModuleEnds(t)
  \/ \E c \in Calls, r \in Requests : CancelArrives(c, r)
  \/ \E g \in Reads, o \in Owners, t \in Tasks : Read(g, o, t)

RoundTripSpec == RoundTripInit /\ [][RoundTripNext]_roundTripVars
-----------------------------------------------------------------------------
\* The task an exchange is about, and whose.
subject(x) ==
  CASE x \in Tasks -> <<owner[x], x>>
    [] x \in Calls -> <<req[x].owner, req[x].task>>
    [] x \in Reads -> asked[x]

\* The exchanges that told something of a task. A send that was rejected before
\* it ran does not count: its FAILED task is answered even if it was not stored.
Views == {x \in Exchanges :
            /\ told[x] # None
            /\ told[x].variant \in {"ok", "TaskNotFound", "TaskNotCancelable"}
            /\ x \in Tasks => kind[x] # "reject"}

\* How far along the client was told its task is: missing, submitted, past it.
progress(x) ==
  CASE told[x].variant = "TaskNotFound"                           -> 0
    [] told[x].variant = "ok" /\ told[x].state = None             -> 0
    [] told[x].variant = "ok" /\ told[x].state = "SUBMITTED"      -> 1
    [] told[x].variant = "TaskNotCancelable"                      -> 2
    [] told[x].variant = "ok" /\ told[x].state \notin {None, "SUBMITTED"} -> 2

\* A client never sees its task go back. Once an answer showed it a task, no call
\* made afterwards reports it missing, whatever outages, lost answers, retried
\* cancels and abandoned sends lie in between: a client that reads TaskNotFound
\* as "submit it again" does not repeat work that is there ("an A2A agent reading
\* not found re-submits work that is actually still there", comment of
\* store_failure); and a task past SUBMITTED, canceled after its send was given
\* up included, does not read SUBMITTED again.
ViewsMoveForward ==
  \A x, y \in Views : x \in before[y] /\ subject(x) = subject(y)
    => progress(x) =< progress(y)

\* The classes of error the JSON-RPC surface blames on the caller.
CallerFixable(e) == jsonrpc_code(e) \in {-32601, -32602}

\* The caller of a failed module is told what the JSON-RPC mapping would tell:
\* REJECTED exactly for the codes that its typed errors call a refusal; what the
\* module's author wrote exactly for errors the caller can fix, for a pending
\* approval and, when the deployment discloses them, for refusals. No guidance
\* widens a string that is meant to be fixed. What the sanitizer strips is told
\* of a pending approval alone, whose message does not pass through it.
FailuresAreToldAlike ==
  \A t \in Tasks : failure[t] # None /\ told[t] # None /\ told[t].variant = "ok" =>
    LET e == failure[t]
        refusal == is_governance_refusal(from_jsonrpc(jsonrpc_code(e)))
        disclosed == CallerFixable(e) \/ (refusal /\ disclose)
    IN /\ told[t].state = "REJECTED" <=> refusal
       /\ "words" \in told[t].text <=>
            "words" \in e.message /\ (disclosed \/ e.code = "ApprovalPending")
       /\ "path" \in told[t].text <=> "path" \in e.message /\ e.code = "ApprovalPending"
       /\ "guidance" \in told[t].text <=> e.guidance = "own" /\ disclosed
==================================================================================
