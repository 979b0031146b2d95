----------------------------- MODULE RoundTripProofs -----------------------------
(***************************************************************************)
(* Theorems about RoundTrip, for any principals, tasks, calls, reads and   *)
(* errors that modules end with.                                           *)
(***************************************************************************)
EXTENDS RoundTrip, TaskServerProofs

-----------------------------------------------------------------------------
(* The server behind the connections is TaskServer *)

(* What reaches the server, and what it does, are steps of TaskServer; what *)
(* the client does besides leaves the server alone.                         *)
LEMMA ServerStep == [RoundTripNext]_roundTripVars => [Next]_vars
<1> SUFFICES ASSUME [RoundTripNext]_roundTripVars PROVE [Next]_vars
  OBVIOUS
<1>1. ASSUME NEW x \in Exchanges, Return(x) \/ GiveUp(x) PROVE UNCHANGED vars
  BY <1>1 DEF Return, GiveUp, Tell
<1>2. ASSUME NEW x \in Exchanges, Handle(x) PROVE Next
  BY <1>2 DEF Handle, Next
<1>3. ASSUME NEW x \in Exchanges, DropExchange(x) PROVE Next
  BY <1>3 DEF DropExchange, Next
<1>4. ASSUME NEW t \in Tasks, SendArrives(t) PROVE Next
  BY <1>4 DEF SendArrives, Receive, Next
<1>5. ASSUME NEW t \in Tasks, ModuleEnds(t) PROVE Next
  BY <1>5 DEF ModuleEnds, Next
<1>6. ASSUME NEW c \in Calls, NEW r \in Requests, CancelArrives(c, r) PROVE Next
  BY <1>6 DEF CancelArrives, Next
<1>7. ASSUME NEW g \in Reads, NEW o \in Owners, NEW t \in Tasks, Read(g, o, t)
      PROVE  UNCHANGED vars
  BY <1>7 DEF Read
<1>8. CASE UNCHANGED roundTripVars
  BY <1>8 DEF roundTripVars
<1> QED BY <1>1, <1>2, <1>3, <1>4, <1>5, <1>6, <1>7, <1>8 DEF RoundTripNext

(* The client's exchanges keep what TaskServer guarantees without fairness: *)
(* tokens, owners, answers and notices, whatever was lost on the way.       *)
THEOREM RoundTripKeepsServer ==
  RoundTripSpec => [](TokensAreLive /\ OwnerScoped /\ AnswersMatchStore /\ NoticesFollowStore)
<1>1. RoundTripInit => Init
  BY DEF RoundTripInit
<1>2. TokenInv => TokensAreLive
  BY DEF TokenInv
<1>3. OwnerInv => OwnerScoped
  BY DEF OwnerInv
<1>4. AnswerInv => AnswersMatchStore /\ NoticesFollowStore
  BY DEF AnswerInv, AnswersMatchStore, NoticesFollowStore, Backed
<1> QED BY <1>1, <1>2, <1>3, <1>4, ServerStep, TypeInit, TypeNext, TokenInit, TokenNext,
           OwnerInit, OwnerNext, AnswerInit, AnswerNext, PTL DEF RoundTripSpec

-----------------------------------------------------------------------------
(* The mapping of errors *)

(* The task state and the client's typed error agree on what is a refusal. *)
LEMMA RefusalsAgree ==
  ASSUME NEW e \in ModuleError
  PROVE  error_to_status(kind_of(e)) = "REJECTED"
           <=> is_governance_refusal(from_jsonrpc(jsonrpc_code(e)))
<1>1. CASE e.code \in Refusal
  BY <1>1 DEF Refusal, error_to_status, kind_of, is_governance_refusal, from_jsonrpc,
              jsonrpc_code, is_server_side_schema_error
<1>2. CASE e.code \notin Refusal
  <2>1. error_to_status(kind_of(e)) # "REJECTED"
    BY <1>2 DEF error_to_status, kind_of
  <2>2. jsonrpc_code(e) \in {-32601, -32602, -32603}
    BY <1>2 DEF Refusal, jsonrpc_code, is_server_side_schema_error
  <2>3. ~ is_governance_refusal(from_jsonrpc(jsonrpc_code(e)))
    BY <2>2 DEF is_governance_refusal, from_jsonrpc
  <2> QED BY <2>1, <2>3
<1> QED BY <1>1, <1>2

(* A refusal is what the three refusal codes are. *)
LEMMA RefusalCodes ==
  ASSUME NEW e \in ModuleError
  PROVE  is_governance_refusal(from_jsonrpc(jsonrpc_code(e))) <=> e.code \in Refusal
<1>1. error_to_status(kind_of(e)) = "REJECTED" <=> e.code \in Refusal
  BY DEF error_to_status, kind_of, Refusal
<1> QED BY <1>1, RefusalsAgree

(* The caller's own errors are those of its codes. *)
LEMMA CallerCodes ==
  ASSUME NEW e \in ModuleError
  PROVE  CallerFixable(e) <=>
           \/ e.code \in {"ModuleNotFound", "GeneralInvalidInput"}
           \/ e.code = "SchemaValidationError" /\ ~ is_server_side_schema_error(e)
  BY DEF CallerFixable, jsonrpc_code, is_server_side_schema_error

(* The author's words reach the caller exactly where the mapping lets them, *)
(* what the sanitizer strips where the message does not pass through it.    *)
LEMMA WordsAgree ==
  ASSUME NEW e \in ModuleError, NEW d \in BOOLEAN
  PROVE  LET disclosed == CallerFixable(e) \/ (e.code \in Refusal /\ d)
         IN /\ "words" \in status_text(e, d) <=>
                 "words" \in e.message /\ (disclosed \/ e.code = "ApprovalPending")
            /\ "path" \in status_text(e, d) <=>
                 "path" \in e.message /\ e.code = "ApprovalPending"
            /\ "guidance" \in status_text(e, d) <=> e.guidance = "own" /\ disclosed
<1> DEFINE disclosed == CallerFixable(e) \/ (e.code \in Refusal /\ d)
<1>1. carries_caller_detail(e, d) <=> disclosed
  BY CallerCodes DEF carries_caller_detail
<1>2. /\ "words" \in own(e) <=> "words" \in e.message
      /\ "guidance" \notin e.message /\ own(e) \subseteq {"words"}
  BY DEF own, ModuleError
<1>4. "guidance" \notin jsonrpc_message(e, d) /\ "path" \notin jsonrpc_message(e, d)
  BY <1>2 DEF jsonrpc_message, refusal_message
<1>5. "words" \in jsonrpc_message(e, d) <=> "words" \in e.message /\ disclosed
  BY <1>2, CallerCodes DEF jsonrpc_message, refusal_message, own, Refusal,
     is_server_side_schema_error
<1>6. CASE e.code \in {"ExecutionCancelled", "ModuleTimeout"}
  BY <1>6, CallerCodes DEF status_text, Refusal, is_server_side_schema_error
<1>7. CASE e.code = "ApprovalPending"
  BY <1>7, <1>2, CallerCodes DEF status_text, Refusal, is_server_side_schema_error
<1>8. CASE e.code \notin {"ExecutionCancelled", "ModuleTimeout", "ApprovalPending"}
  BY <1>8, <1>1, <1>4, <1>5 DEF status_text, failure_text
<1> QED BY <1>6, <1>7, <1>8

-----------------------------------------------------------------------------
(* From the module's failure to its caller *)

Early == {"idle", "submit", "run"}

ToldOk(x) == told[x] # None /\ told[x].variant = "ok"

(* A failure is stored with the outcome its class gives and stays with it;  *)
(* a send that was answered is past its module and was told that outcome.   *)
FailureOf(t) ==
  /\ pc[t] \in {"submit", "run"} => kind[t] # "reject"
  /\ failure[t] # None => /\ failure[t] \in ModuleError
                          /\ pc[t] \notin Early
                          /\ kind[t] # "reject"
                          /\ status[t] = error_to_status(kind_of(failure[t]))
  /\ ToldOk(t) => pc[t] \notin Early
  /\ ToldOk(t) /\ failure[t] # None =>
       told[t].state = status[t] /\ told[t].text = status_text(failure[t], disclose)

FailureInv ==
  /\ disclose \in BOOLEAN
  /\ failure = [t \in Tasks |-> failure[t]]
  /\ told = [x \in Exchanges |-> told[x]]
  /\ \A t \in Tasks : FailureOf(t)

(* No module has failed and nobody was told anything. *)
LEMMA FailureInit == RoundTripInit => FailureInv
  BY DEF RoundTripInit, Init, FailureInv, FailureOf, ToldOk, Exchanges

(* A message whose handler a step moves on without a new failure or answer. *)
LEMMA FailureKept ==
  ASSUME TypeOK, FailureInv, NEW t \in Tasks,
         UNCHANGED <<told, failure, disclose>>,
         pc[t] \notin Early => /\ pc'[t] \notin Early
                               /\ kind'[t] = kind[t] /\ status'[t] = status[t],
         pc'[t] \in {"submit", "run"} => kind'[t] # "reject"
  PROVE  FailureOf(t)'
  BY DEF FailureInv, FailureOf, ToldOk

(* A step of TaskServer leaves a message past its module as it ended. *)
LEMMA PastModule ==
  ASSUME TypeOK, Next, NEW t \in Tasks, pc[t] \notin Early
  PROVE  pc'[t] \notin Early /\ kind'[t] = kind[t] /\ status'[t] = status[t]
  BY MessageStep DEF Early

(* The steps of handlers and calls send no rejected message to a module. *)
LEMMA RunsAccepted ==
  ASSUME TypeOK, FailureInv, NEW t \in Tasks,
         \/ \E u \in Tasks : HandlerStep(u) \/ Disconnect(u)
         \/ \E c \in Calls : CallStep(c) \/ DropCall(c) \/ \E r \in Requests : LookUp(c, r),
         pc'[t] \in {"submit", "run"}
  PROVE  kind'[t] # "reject"
<1>0. pc \in [Tasks -> {"idle", "submit", "run", "save", "notify", "last"} \cup Ended]
  BY DEF TypeOK
<1>1. ASSUME NEW u \in Tasks, HandlerStep(u) \/ Disconnect(u)
      PROVE  kind' = kind /\ pc[t] \in {"submit", "run"}
  BY <1>0, <1>1 DEF HandlerStep, SaveSubmitted, SaveFinal, SaveFinalFails, NotifyMessage,
                    SendLastEvent, Disconnect
<1>2. ASSUME NEW c \in Calls, CallStep(c) \/ DropCall(c) \/ \E r \in Requests : LookUp(c, r)
      PROVE  kind' = kind /\ pc' = pc
  BY <1>2 DEF LookUp, CallStep, SignalToken, WriteCanceled, NotifyCanceled, PutConfig,
              RemoveConfig, WriteFails, DropCall, messageVars
<1> QED BY <1>1, <1>2 DEF FailureInv, FailureOf

(* No call has the name of a task, so a send gets the answer of its handler. *)
LEMMA AnswerOfSend ==
  ASSUME NEW t \in Tasks
  PROVE  /\ pc[t] = "done"    => answer(t) = Result(status[t], answer_text(t))
         /\ pc[t] = "failed"  => answer(t) = RpcError(-32603)
         /\ pc[t] = "refused" => answer(t) = RpcError(-32602)
<1>1. t \notin Calls
  BY WebhookAssumption
<1> QED BY <1>1 DEF answer

(* Every step keeps a failure, its task and its caller's answer together. *)
LEMMA FailureNext ==
  TypeOK /\ FailureInv /\ [RoundTripNext]_roundTripVars => FailureInv'
<1> SUFFICES ASSUME TypeOK, FailureInv, [RoundTripNext]_roundTripVars PROVE FailureInv'
  OBVIOUS
<1>a. ASSUME Next, UNCHANGED <<told, failure, disclose>>,
             \A t \in Tasks : pc'[t] \in {"submit", "run"} => kind'[t] # "reject"
      PROVE  FailureInv'
  <2>1. \A t \in Tasks : FailureOf(t)'
    BY <1>a, PastModule, FailureKept
  <2> QED BY <1>a, <2>1 DEF FailureInv
<1>1. ASSUME NEW x \in Exchanges, Tell(x, [variant |-> "Connection", state |-> None, text |-> {}])
      PROVE  FailureInv'
  <2>1. /\ UNCHANGED <<failure, disclose, pc, kind, status>>
        /\ told' = [told EXCEPT ![x] = [variant |-> "Connection", state |-> None, text |-> {}]]
    BY <1>1 DEF Tell, vars, messageVars
  <2>2. ASSUME NEW t \in Tasks PROVE FailureOf(t)'
    <3>1. ToldOk(t)' => ToldOk(t) /\ told'[t] = told[t]
      BY <2>1 DEF FailureInv, ToldOk, Exchanges
    <3> QED BY <2>1, <3>1 DEF FailureInv, FailureOf
  <2> QED BY <2>1, <2>2 DEF FailureInv
<1>2. ASSUME NEW x \in Exchanges, Return(x) PROVE FailureInv'
  <2>1. /\ UNCHANGED <<failure, disclose, pc, kind, status>>
        /\ told' = [told EXCEPT ![x] = typed(answer(x))]
        /\ x \in Handled
    BY <1>2 DEF Return, Tell, vars, messageVars
  <2>2. ASSUME NEW t \in Tasks PROVE FailureOf(t)'
    <3>1. CASE t # x
      BY <2>1, <3>1 DEF FailureInv, FailureOf, ToldOk, Exchanges
    <3>2. CASE t = x
      <4>1. pc[t] \in {"done", "failed", "refused"}
        BY <2>1, <3>2, WebhookAssumption DEF Handled
      <4>2. pc[t] \notin Early
        BY <4>1 DEF Early
      <4>3. told'[t] = typed(answer(t))
        BY <2>1, <3>2 DEF FailureInv
      <4>4. ASSUME ToldOk(t)' PROVE pc[t] = "done"
        <5>1. CASE pc[t] = "failed"
          BY <4>3, <4>4, <5>1, AnswerOfSend DEF typed, RpcError, from_jsonrpc, ToldOk
        <5>2. CASE pc[t] = "refused"
          BY <4>3, <4>4, <5>2, AnswerOfSend DEF typed, RpcError, from_jsonrpc, ToldOk
        <5> QED BY <4>1, <5>1, <5>2
      <4>5. ASSUME pc[t] = "done"
            PROVE  told'[t].state = status[t] /\ told'[t].text = answer_text(t)
        BY <4>3, <4>5, AnswerOfSend DEF typed, Result
      <4>6. ASSUME failure[t] # None
            PROVE  answer_text(t) = status_text(failure[t], disclose)
        BY <4>6 DEF FailureInv, FailureOf, answer_text
      <4> QED BY <2>1, <4>2, <4>4, <4>5, <4>6 DEF FailureInv, FailureOf
    <3> QED BY <3>1, <3>2
  <2> QED BY <2>1, <2>2 DEF FailureInv
<1>3. ASSUME NEW x \in Exchanges, Handle(x) PROVE FailureInv'
  <2>1. (x \in Tasks /\ HandlerStep(x)) \/ (x \in Calls /\ CallStep(x))
    BY <1>3 DEF Handle
  <2>2. Next /\ UNCHANGED <<told, failure, disclose>>
    BY <1>3, <2>1 DEF Handle, Next, clientVars
  <2> QED BY <1>a, <2>1, <2>2, RunsAccepted
<1>4. ASSUME NEW x \in Exchanges, DropExchange(x) PROVE FailureInv'
  <2>1. (x \in Tasks /\ Disconnect(x)) \/ (x \in Calls /\ DropCall(x))
    BY <1>4 DEF DropExchange
  <2>2. Next /\ UNCHANGED <<told, failure, disclose>>
    BY <1>4, <2>1 DEF DropExchange, Next, clientVars
  <2> QED BY <1>a, <2>1, <2>2, RunsAccepted
<1>5. ASSUME NEW u \in Tasks, SendArrives(u) PROVE FailureInv'
  <2>1. Next /\ UNCHANGED <<told, failure, disclose>>
    BY <1>5 DEF SendArrives, Sends, Receive, Next
  <2>2. ASSUME NEW t \in Tasks, pc'[t] \in {"submit", "run"} PROVE kind'[t] # "reject"
    BY <1>5, <2>2 DEF SendArrives, ReceiveInvalid, ReceiveRejected, ReceiveSend, TypeOK,
                      FailureInv, FailureOf
  <2> QED BY <1>a, <2>1, <2>2
<1>6. ASSUME NEW u \in Tasks, ModuleEnds(u) PROVE FailureInv'
  <2>1. /\ pc[u] = "run" /\ pc' = [pc EXCEPT ![u] = "save"]
        /\ UNCHANGED <<kind, told, disclose>>
    BY <1>6 DEF ModuleEnds, ModuleReturns, TimeoutElapses, clientVars
  <2>2. \/ UNCHANGED failure
        \/ \E e \in ModuleError : /\ failure' = [failure EXCEPT ![u] = e]
                                  /\ status'[u] = error_to_status(kind_of(e))
    <3>1. CASE UNCHANGED failure
      BY <3>1
    <3>2. ASSUME NEW e \in Failures, status'[u] = error_to_status(kind_of(e)),
                 failure' = [failure EXCEPT ![u] = e]
          PROVE  \E d \in ModuleError : /\ failure' = [failure EXCEPT ![u] = d]
                                        /\ status'[u] = error_to_status(kind_of(d))
      BY <3>2, RoundTripAssumption
    <3>3. ASSUME TimeoutElapses(u),
                 failure' = [failure EXCEPT ![u] = [code |-> "ModuleTimeout", about |-> "Input",
                                                    message |-> {"words"}, guidance |-> "none"]]
          PROVE  \E d \in ModuleError : /\ failure' = [failure EXCEPT ![u] = d]
                                        /\ status'[u] = error_to_status(kind_of(d))
      <4> DEFINE d == [code |-> "ModuleTimeout", about |-> "Input",
                       message |-> {"words"}, guidance |-> "none"]
      <4>1. d \in ModuleError
        BY DEF ModuleError, ErrorCode
      <4>2. kind_of(d) = "ModuleTimeout"
        BY DEF kind_of, Refusal
      <4>3. status'[u] = error_to_status("ModuleTimeout")
        BY <3>3 DEF TimeoutElapses, TypeOK
      <4> QED BY <3>3, <4>1, <4>2, <4>3
    <3> QED BY <1>6, <3>1, <3>2, <3>3 DEF ModuleEnds
  <2>3. \A v \in Tasks : v # u => status'[v] = status[v]
    BY <1>6 DEF ModuleEnds, ModuleReturns, TimeoutElapses, TypeOK
  <2>4. FailureOf(u) /\ ~ ToldOk(u) /\ failure[u] = None
    BY <2>1 DEF FailureInv, FailureOf, Early
  <2>5. FailureOf(u)'
    <3>1. pc'[u] = "save" /\ kind'[u] # "reject" /\ ~ ToldOk(u)'
      BY <2>1, <2>4 DEF TypeOK, FailureOf, ToldOk
    <3>2. failure'[u] # None => /\ failure'[u] \in ModuleError
                                /\ status'[u] = error_to_status(kind_of(failure'[u]))
      BY <2>2, <2>4 DEF FailureInv
    <3> QED BY <3>1, <3>2 DEF FailureOf, Early
  <2>6. ASSUME NEW t \in Tasks, t # u PROVE FailureOf(t)'
    <3>1. failure'[t] = failure[t] /\ pc'[t] = pc[t] /\ status'[t] = status[t]
      BY <2>1, <2>2, <2>3, <2>6 DEF FailureInv, TypeOK
    <3>2. FailureOf(t)
      BY DEF FailureInv
    <3> QED BY <2>1, <3>1, <3>2 DEF FailureOf, ToldOk
  <2>7. failure' = [t \in Tasks |-> failure'[t]]
    BY <2>2 DEF FailureInv
  <2> QED BY <2>1, <2>5, <2>6, <2>7 DEF FailureInv
<1>7. ASSUME NEW c \in Calls, NEW r \in Requests, CancelArrives(c, r) PROVE FailureInv'
  <2>1. LookUp(c, r) /\ UNCHANGED <<told, failure, disclose>>
    BY <1>7 DEF CancelArrives, Sends
  <2>2. Next
    BY <2>1 DEF Next
  <2> QED BY <1>a, <2>1, <2>2, RunsAccepted
<1>8. ASSUME NEW g \in Reads, NEW o \in Owners, NEW s \in Tasks, Read(g, o, s)
      PROVE  FailureInv'
  <2>1. /\ UNCHANGED <<failure, disclose, pc, kind, status>>
        /\ told' = [told EXCEPT ![g] = told'[g]]
    BY <1>8 DEF Read, vars, messageVars, FailureInv, Exchanges
  <2>2. ASSUME NEW t \in Tasks PROVE FailureOf(t)'
    <3>1. told'[t] = told[t]
      BY <2>1, RoundTripAssumption DEF FailureInv, Exchanges
    <3> QED BY <2>1, <3>1 DEF FailureInv, FailureOf, ToldOk
  <2> QED BY <2>1, <2>2 DEF FailureInv
<1>9. CASE UNCHANGED roundTripVars
  BY <1>9 DEF roundTripVars, clientVars, vars, messageVars, FailureInv, FailureOf, ToldOk
<1> QED BY <1>1, <1>2, <1>3, <1>4, <1>5, <1>6, <1>7, <1>8, <1>9 DEF RoundTripNext, GiveUp

(* The caller of a failed module is told what the JSON-RPC mapping would    *)
(* tell, for every error a module can end with; the message of a pending    *)
(* approval, which that mapping keeps to itself, it is told as it is.       *)
THEOREM FailuresToldAlike == RoundTripSpec => []FailuresAreToldAlike
<1>1. FailureInv => FailuresAreToldAlike
  <2> SUFFICES ASSUME FailureInv, NEW t \in Tasks, failure[t] # None, ToldOk(t)
               PROVE  LET e == failure[t]
                          refusal == is_governance_refusal(from_jsonrpc(jsonrpc_code(e)))
                          disclosed == CallerFixable(e) \/ (refusal /\ disclose)
                      IN /\ told[t].state = "REJECTED" <=> refusal
                         /\ "words" \in told[t].text <=>
                              "words" \in e.message /\ (disclosed \/ e.code = "ApprovalPending")
                         /\ "path" \in told[t].text <=>
                              "path" \in e.message /\ e.code = "ApprovalPending"
                         /\ "guidance" \in told[t].text <=> e.guidance = "own" /\ disclosed
    BY DEF FailuresAreToldAlike, ToldOk
  <2>1. /\ failure[t] \in ModuleError /\ disclose \in BOOLEAN
        /\ told[t].state = error_to_status(kind_of(failure[t]))
        /\ told[t].text = status_text(failure[t], disclose)
    BY DEF FailureInv, FailureOf
  <2> QED BY <2>1, RefusalsAgree, RefusalCodes, WordsAgree
<1>2. RoundTripInit => Init
  BY DEF RoundTripInit
<1> QED BY <1>1, <1>2, ServerStep, TypeInit, TypeNext, FailureInit, FailureNext, PTL
        DEF RoundTripSpec

-----------------------------------------------------------------------------
(* What a client was told, and what the store holds by then *)

(* How far along the store is with a task: missing, submitted, past it.     *)
Level(s) ==
  LET task == store[s[1]][s[2]] IN
  IF task = None THEN 0 ELSE IF task.state = "SUBMITTED" THEN 1 ELSE 2

(* A message is a send or a rejection; one that was answered with a task is *)
(* done, and its caller was told its outcome.                               *)
SendViewed(t) ==
  /\ pc[t] \notin {"idle", "refused"} => kind[t] \in {"send", "reject"}
  /\ status[t] # "SUBMITTED"
  /\ pc[t] = "done" => status[t] # None
  /\ told[t] # None =>
       /\ pc[t] # "idle"
       /\ told[t].variant \in {"ok", "Server", "Connection"}
       /\ told[t].variant = "ok" => pc[t] = "done" /\ told[t].state = status[t]

(* A cancel that was refused found its task past SUBMITTED; a caller that   *)
(* was answered was told how its cancel ended.                              *)
CancelViewed(c) ==
  /\ cpc[c] # "idle" => req[c].op = "cancel"
  /\ cpc[c] = "notcancelable" => Level(subject(c)) = 2
  /\ told[c] # None =>
       /\ cpc[c] # "idle"
       /\ told[c].variant = "ok" => cpc[c] = "ok" /\ told[c].state = "CANCELED"
       /\ told[c].variant = "TaskNotFound" => cpc[c] = "notfound"
       /\ told[c].variant = "TaskNotCancelable" => cpc[c] = "notcancelable"

(* A read told what the store held then, and the store has not gone back.   *)
ReadViewed(g) ==
  /\ told[g] # None => asked[g] # None
  /\ g \in Views => progress(g) \in 0..2 /\ progress(g) =< Level(subject(g))

(* What x told is no further along than n, if it told of y's task.          *)
NoFurther(x, y, n) == x \in Views /\ subject(x) = subject(y) => progress(x) =< n

(* A cancel that found no task was sent when nobody had been shown one, and *)
(* no read shows less than what was answered before it.                     *)
OrderInv ==
  /\ \A y \in Exchanges : before[y] \subseteq Returned
  /\ \A c \in Calls : cpc[c] = "notfound" => \A x \in before[c] : NoFurther(x, c, 0)
  /\ \A g \in Reads \cap Views : \A x \in before[g] : NoFurther(x, g, progress(g))

ViewInv ==
  /\ told = [x \in Exchanges |-> told[x]]
  /\ before \in [Exchanges -> SUBSET Exchanges]
  /\ asked \in [Reads -> (Owners \X Tasks) \cup {None}]
  /\ \A t \in Tasks : SendViewed(t)
  /\ \A c \in Calls : CancelViewed(c)
  /\ \A g \in Reads : ReadViewed(g)
  /\ OrderInv

(* Nothing is called what something else is called.                         *)
LEMMA SubjectOf ==
  /\ \A t \in Tasks : t \in Exchanges /\ subject(t) = <<owner[t], t>>
                      /\ subject(t)' = <<owner'[t], t>>
  /\ \A c \in Calls : c \in Exchanges /\ subject(c) = <<req[c].owner, req[c].task>>
                      /\ subject(c)' = <<req'[c].owner, req'[c].task>>
  /\ \A g \in Reads : g \in Exchanges /\ subject(g) = asked[g] /\ subject(g)' = asked'[g]
<1>0. \A x : ~ (x \in Tasks /\ x \in Calls) /\ ~ (x \in Tasks /\ x \in Reads)
             /\ ~ (x \in Calls /\ x \in Reads)
  BY WebhookAssumption, RoundTripAssumption
<1>1. \A t \in Tasks : t \in Exchanges /\ subject(t) = <<owner[t], t>>
                       /\ subject(t)' = <<owner'[t], t>>
  BY <1>0 DEF subject, Exchanges
<1>2. \A c \in Calls : c \in Exchanges /\ subject(c) = <<req[c].owner, req[c].task>>
                       /\ subject(c)' = <<req'[c].owner, req'[c].task>>
  BY <1>0 DEF subject, Exchanges
<1>3. \A g \in Reads : g \in Exchanges /\ subject(g) = asked[g] /\ subject(g)' = asked'[g]
  BY <1>0 DEF subject, Exchanges
<1> QED BY <1>1, <1>2, <1>3

LEMMA ProgressOf ==
  ASSUME NEW x
  PROVE  /\ told[x].variant = "TaskNotFound" => progress(x) = 0
         /\ told[x].variant = "TaskNotCancelable" => progress(x) = 2
         /\ told[x].variant = "ok" /\ told[x].state = None => progress(x) = 0
         /\ told[x].variant = "ok" /\ told[x].state = "SUBMITTED" => progress(x) = 1
         /\ told[x].variant = "ok" /\ told[x].state \notin {None, "SUBMITTED"} => progress(x) = 2
<1>1. None # "SUBMITTED"
  BY RoundTripAssumption DEF TaskState
<1> QED BY <1>1 DEF progress

(* A task that backs an answer is past SUBMITTED.                           *)
LEMMA BackedLevel ==
  ASSUME NEW o \in Owners, NEW t \in Tasks, Backed(o, t), status[t] # "SUBMITTED"
  PROVE  Level(<<o, t>>) = 2
  BY DEF Backed, Level

(* A send that showed its task showed, and stored, its outcome.             *)
LEMMA SendView ==
  ASSUME TypeOK, AnswerInv, ViewInv, NEW t \in Tasks, t \in Views
  PROVE  pc[t] = "done" /\ progress(t) = 2 /\ Level(subject(t)) = 2
<1>1. SendViewed(t) /\ told[t] # None /\ kind[t] # "reject" /\ told[t].variant = "ok"
  BY DEF ViewInv, Views, SendViewed
<1>2. pc[t] = "done" /\ told[t].state = status[t] /\ kind[t] = "send"
  BY <1>1 DEF SendViewed
<1>3. status[t] \notin {None, "SUBMITTED"}
  BY <1>1, <1>2 DEF SendViewed
<1>4. Backed(owner[t], t) /\ owner[t] \in Owners
  BY <1>2 DEF AnswerInv, TypeOK
<1> QED BY <1>1, <1>2, <1>3, <1>4, BackedLevel, SubjectOf, ProgressOf

(* A cancel that showed a task is backed by one past SUBMITTED.             *)
LEMMA CancelView ==
  ASSUME TypeOK, AnswerInv, ViewInv, NEW c \in Calls, c \in Views
  PROVE  \/ cpc[c] = "notfound" /\ progress(c) = 0
         \/ cpc[c] # "idle" /\ progress(c) = 2 /\ Level(subject(c)) = 2
<1>1. CancelViewed(c) /\ told[c] # None /\ cpc[c] # "idle"
      /\ told[c].variant \in {"ok", "TaskNotFound", "TaskNotCancelable"}
  BY DEF ViewInv, Views, CancelViewed
<1>2. CASE told[c].variant = "TaskNotFound"
  BY <1>1, <1>2, ProgressOf DEF CancelViewed
<1>3. CASE told[c].variant = "TaskNotCancelable"
  BY <1>1, <1>3, ProgressOf DEF CancelViewed
<1>4. CASE told[c].variant = "ok"
  <2>1. cpc[c] = "ok" /\ told[c].state = "CANCELED" /\ req[c].op = "cancel"
    BY <1>1, <1>4 DEF CancelViewed
  <2>2. req[c] \in Requests
    BY <2>1 DEF TypeOK
  <2>3. req[c].owner \in Owners /\ req[c].task \in Tasks
    BY <2>2, RequestAssumption
  <2>4. Backed(req[c].owner, req[c].task) /\ status[req[c].task] # "SUBMITTED"
    BY <2>1, <2>3 DEF AnswerInv, ViewInv, SendViewed
  <2>5. Level(subject(c)) = 2
    BY <2>3, <2>4, BackedLevel, SubjectOf
  <2>6. "CANCELED" # None
    BY RoundTripAssumption DEF TaskState
  <2> QED BY <1>4, <2>1, <2>5, <2>6, ProgressOf
<1> QED BY <1>1, <1>2, <1>3, <1>4

(* The store is at least as far along as any answer told.                   *)
LEMMA ViewLevel ==
  ASSUME TypeOK, AnswerInv, ViewInv, NEW x \in Views
  PROVE  progress(x) \in 0..2 /\ progress(x) =< Level(subject(x))
<1>0. Level(subject(x)) \in 0..2
  BY DEF Level
<1>1. CASE x \in Tasks
  BY <1>1, SendView
<1>2. CASE x \in Calls
  BY <1>0, <1>2, CancelView
<1>3. CASE x \in Reads
  BY <1>3 DEF ViewInv, ReadViewed
<1> QED BY <1>1, <1>2, <1>3 DEF Views, Exchanges

(* The store never takes a task back.                                       *)
LEMMA LevelGrows ==
  ASSUME TypeOK, AnswerInv, ViewInv, Next, NEW o \in Owners, NEW t \in Tasks
  PROVE  Level(<<o, t>>) =< Level(<<o, t>>)'
<1>0. /\ store \in [Owners -> [Tasks -> Task \cup {None}]]
      /\ None \notin Task
      /\ \A u \in Tasks : pc[u] \notin {"idle", "refused"} => owner[u] \in Owners
      /\ \A u \in Tasks : pc[u] = "save" => status[u] \in TaskState
      /\ \A u \in Tasks : status[u] # "SUBMITTED"
  BY RequestAssumption DEF TypeOK, ViewInv, SendViewed
<1>l. Level(<<o, t>>) \in 0..2 /\ Level(<<o, t>>)' \in 0..2
  BY DEF Level
<1>1. ASSUME store'[o][t] = store[o][t] PROVE Level(<<o, t>>) =< Level(<<o, t>>)'
  <2>1. Level(<<o, t>>)' = Level(<<o, t>>)
    BY <1>1 DEF Level
  <2> QED BY <1>l, <2>1
<1>2. ASSUME store[o][t] = None PROVE Level(<<o, t>>) =< Level(<<o, t>>)'
  <2>1. Level(<<o, t>>) = 0
    BY <1>2 DEF Level
  <2> QED BY <1>l, <2>1
<1>3. ASSUME store'[o][t] # None, store'[o][t].state # "SUBMITTED"
      PROVE  Level(<<o, t>>) =< Level(<<o, t>>)'
  <2>1. Level(<<o, t>>)' = 2
    BY <1>3 DEF Level
  <2> QED BY <1>l, <2>1
<1>4. CASE UNCHANGED store
  BY <1>1, <1>4
<1>5. ASSUME NEW u \in Tasks, pc[u] = "submit",
             store' = [store EXCEPT ![owner[u]][u] =
                         [state |-> "SUBMITTED", has_result |-> FALSE]]
      PROVE  Level(<<o, t>>) =< Level(<<o, t>>)'
  <2>1. CASE u = t /\ owner[u] = o
    <3>1. store[o][t] = None
      BY <1>5, <2>1 DEF AnswerInv
    <3> QED BY <1>2, <3>1
  <2>2. CASE ~ (u = t /\ owner[u] = o)
    BY <1>0, <1>1, <1>5, <2>2
  <2> QED BY <2>1, <2>2
<1>6. ASSUME NEW u \in Tasks, pc[u] = "save",
             store' = [store EXCEPT ![owner[u]][u] = FinalTask(u)]
      PROVE  Level(<<o, t>>) =< Level(<<o, t>>)'
  <2>1. owner[u] \in Owners /\ FinalTask(u) \in Task /\ FinalTask(u).state # "SUBMITTED"
    BY <1>0, <1>6 DEF FinalTask, Task
  <2>2. CASE u = t /\ owner[u] = o
    BY <1>0, <1>3, <1>6, <2>1, <2>2
  <2>3. CASE ~ (u = t /\ owner[u] = o)
    BY <1>0, <1>1, <1>6, <2>3
  <2> QED BY <2>2, <2>3
<1>7. ASSUME NEW c \in Calls, cpc[c] = "write",
             store' = [store EXCEPT ![req[c].owner][req[c].task] =
                         [seen[c] EXCEPT !.state = "CANCELED"]]
      PROVE  Level(<<o, t>>) =< Level(<<o, t>>)'
  <2> DEFINE task == [seen[c] EXCEPT !.state = "CANCELED"]
  <2>1. /\ req[c].owner \in Owners /\ req[c].task \in Tasks /\ seen[c] \in Task
    BY <1>7, RequestAssumption DEF TypeOK
  <2>2. task \in Task /\ task.state = "CANCELED"
    BY <2>1 DEF Task, TaskState
  <2> HIDE DEF task
  <2>3. CASE req[c].task = t /\ req[c].owner = o
    <3>1. store'[o][t] = task
      BY <1>0, <1>7, <2>1, <2>3 DEF task
    <3> QED BY <1>0, <1>3, <2>2, <3>1
  <2>4. CASE ~ (req[c].task = t /\ req[c].owner = o)
    BY <1>0, <1>1, <1>7, <2>1, <2>4
  <2> QED BY <2>3, <2>4
<1> QED BY <1>4, <1>5, <1>6, <1>7, StoreStep

(* A step of the server, and what the client knows as it goes.              *)
ServerMoves ==
  /\ Next /\ UNCHANGED <<told, asked>>
  /\ \/ \E t \in Tasks : \/ ReceiveInvalid(t) \/ HandlerStep(t) \/ Disconnect(t)
                         \/ \E o \in Owners : ReceiveRejected(t, o) \/ ReceiveSend(t, o)
                         \/ ModuleReturns(t) \/ TimeoutElapses(t)
     \/ \E c \in Calls : \/ CallStep(c) \/ DropCall(c)
                         \/ \E r \in Requests : LookUp(c, r) /\ r.op = "cancel"

(* What the client knows by the time it sends something.                    *)
Knows ==
  \A x \in Exchanges :
    \/ before'[x] = before[x]
    \/ before'[x] = Returned /\ (x \in Tasks \/ (x \in Calls /\ cpc[x] = "idle"))

(* The three kinds of a step: the server's, the end of an exchange and a    *)
(* read.                                                                    *)
LEMMA StepKinds ==
  ASSUME TypeOK, ViewInv, RoundTripNext
  PROVE  \/ ServerMoves /\ Knows /\ before' \in [Exchanges -> SUBSET Exchanges]
         \/ \E x \in Exchanges : Return(x) \/ GiveUp(x)
         \/ \E g \in Reads, o \in Owners, t \in Tasks : Read(g, o, t)
<1>0. before \in [Exchanges -> SUBSET Exchanges] /\ Returned \in SUBSET Exchanges
      /\ Tasks \subseteq Exchanges /\ Calls \subseteq Exchanges
  BY DEF ViewInv, Returned, Exchanges
<1>1. ASSUME NEW x \in Exchanges, Handle(x) \/ DropExchange(x) PROVE ServerMoves /\ UNCHANGED before
  BY <1>1 DEF Handle, DropExchange, clientVars, ServerMoves, Next
<1>2. ASSUME NEW t \in Tasks, SendArrives(t)
      PROVE  ServerMoves /\ Knows /\ before' \in [Exchanges -> SUBSET Exchanges]
  <2>1. before' = [before EXCEPT ![t] = Returned] /\ UNCHANGED <<told, asked>>
    BY <1>2 DEF SendArrives, Sends
  <2>2. ServerMoves
    BY <1>2, <2>1 DEF SendArrives, ServerMoves, Next, Receive
  <2> QED BY <1>0, <2>1, <2>2 DEF Knows
<1>3. ASSUME NEW t \in Tasks, ModuleEnds(t)
      PROVE  ServerMoves /\ UNCHANGED before
  BY <1>3 DEF ModuleEnds, clientVars, ServerMoves, Next
<1>4. ASSUME NEW c \in Calls, NEW r \in Requests, CancelArrives(c, r)
      PROVE  ServerMoves /\ Knows /\ before' \in [Exchanges -> SUBSET Exchanges]
  <2>1. before' = [before EXCEPT ![c] = Returned] /\ UNCHANGED <<told, asked>>
        /\ LookUp(c, r) /\ r.op = "cancel"
    BY <1>4 DEF CancelArrives, Sends
  <2>2. cpc[c] = "idle"
    BY <2>1 DEF LookUp
  <2>3. ServerMoves
    BY <2>1 DEF ServerMoves, Next
  <2> QED BY <1>0, <2>1, <2>2, <2>3 DEF Knows
<1> QED BY <1>0, <1>1, <1>2, <1>3, <1>4 DEF RoundTripNext, Knows

(* How the server may move a message, and a call.                           *)
LEMMA MessageMoves ==
  ASSUME TypeOK, ServerMoves, NEW t \in Tasks
  PROVE  \/ pc'[t] = pc[t] /\ kind'[t] = kind[t] /\ status'[t] = status[t] /\ owner'[t] = owner[t]
         \/ /\ pc[t] = "idle" /\ pc'[t] \in {"refused", "save", "submit"}
            /\ pc'[t] # "refused" => kind'[t] \in {"send", "reject"}
            /\ status'[t] \in {status[t], "FAILED"}
         \/ /\ pc[t] \notin {"idle", "done", "refused"} /\ kind'[t] = kind[t]
            /\ owner'[t] = owner[t]
            /\ pc'[t] \notin {"idle", "refused"}
            /\ status'[t] = status[t] \/ (pc'[t] # "done" /\ status'[t] # "SUBMITTED")
            /\ pc'[t] = "done" => status[t] \in TaskState
<1>0. /\ pc \in [Tasks -> {"idle", "submit", "run", "save", "notify", "last"} \cup Ended]
      /\ kind \in [Tasks -> {"send", "stream", "reject", None}]
      /\ status \in [Tasks -> TaskState \cup {None}]
      /\ owner \in [Tasks -> Owners \cup {None}]
      /\ \A u \in Tasks : pc[u] \in {"save", "notify", "last"} => status[u] \in TaskState
  BY DEF TypeOK
<1> DEFINE Same(v) == pc'[v] = pc[v] /\ kind'[v] = kind[v] /\ status'[v] = status[v]
                      /\ owner'[v] = owner[v]
<1>1. ASSUME NEW u \in Tasks, NEW o \in Owners,
             ReceiveInvalid(u) \/ ReceiveRejected(u, o) \/ ReceiveSend(u, o)
      PROVE  /\ \A v \in Tasks : v # u => Same(v)
             /\ pc[u] = "idle" /\ pc'[u] \in {"refused", "save", "submit"}
             /\ pc'[u] # "refused" => kind'[u] \in {"send", "reject"}
             /\ status'[u] \in {status[u], "FAILED"}
  BY <1>0, <1>1 DEF ReceiveInvalid, ReceiveRejected, ReceiveSend
<1>i. ASSUME NEW u \in Tasks, ReceiveInvalid(u)
      PROVE  /\ \A v \in Tasks : v # u => Same(v)
             /\ pc[u] = "idle" /\ pc'[u] = "refused" /\ status'[u] = status[u]
  BY <1>0, <1>i DEF ReceiveInvalid
<1>2. ASSUME NEW u \in Tasks, HandlerStep(u) \/ Disconnect(u)
      PROVE  /\ \A v \in Tasks : v # u => Same(v)
             /\ pc[u] \notin {"idle", "done", "refused"} /\ UNCHANGED <<kind, owner, status>>
             /\ pc'[u] \notin {"idle", "refused"}
             /\ pc'[u] = "done" => status[u] \in TaskState
  BY <1>0, <1>2 DEF HandlerStep, SaveSubmitted, SaveFinal, SaveFinalFails, NotifyMessage,
                    SendLastEvent, Disconnect
<1>3. ASSUME NEW u \in Tasks, ModuleReturns(u) \/ TimeoutElapses(u)
      PROVE  /\ \A v \in Tasks : v # u => Same(v)
             /\ pc[u] = "run" /\ pc'[u] = "save" /\ UNCHANGED <<kind, owner>>
             /\ status'[u] # "SUBMITTED"
  <2>1. \A e \in ErrorKind : error_to_status(e) # "SUBMITTED"
    BY DEF ErrorKind, error_to_status
  <2>2. \E s : s # "SUBMITTED" /\ status' = [status EXCEPT ![u] = s]
    BY <1>3, <2>1 DEF ModuleReturns, TimeoutElapses, ErrorKind
  <2> QED BY <1>0, <1>3, <2>2 DEF ModuleReturns, TimeoutElapses
<1>4. ASSUME NEW c \in Calls, CallStep(c) \/ DropCall(c) \/ \E r \in Requests : LookUp(c, r)
      PROVE  UNCHANGED messageVars
  BY <1>4 DEF LookUp, CallStep, SignalToken, WriteCanceled, NotifyCanceled, PutConfig,
              RemoveConfig, WriteFails, DropCall
<1>5. \/ \E u \in Tasks : ReceiveInvalid(u)
      \/ \E u \in Tasks, o \in Owners : ReceiveRejected(u, o) \/ ReceiveSend(u, o)
      \/ \E u \in Tasks : HandlerStep(u) \/ Disconnect(u)
      \/ \E u \in Tasks : ModuleReturns(u) \/ TimeoutElapses(u)
      \/ \E c \in Calls : CallStep(c) \/ DropCall(c) \/ \E r \in Requests : LookUp(c, r)
  BY DEF ServerMoves
<1>6. ASSUME UNCHANGED messageVars PROVE Same(t)
  BY <1>6 DEF messageVars
<1> QED BY <1>1, <1>i, <1>2, <1>3, <1>4, <1>5, <1>6

LEMMA CancelMoves ==
  ASSUME TypeOK, ServerMoves, NEW c \in Calls
  PROVE  \/ cpc'[c] = cpc[c] /\ req'[c] = req[c]
         \/ /\ cpc[c] = "idle" /\ req'[c] \in Requests /\ req'[c].op = "cancel"
            /\ UNCHANGED store
            /\ cpc'[c] \in {"signal", "internal", "notfound", "notcancelable"}
            /\ cpc'[c] = "notfound" => Level(subject(c)') = 0
            /\ cpc'[c] = "notcancelable" => Level(subject(c)') = 2
         \/ /\ cpc[c] \in {"signal", "write", "notify", "put", "remove"} /\ req'[c] = req[c]
            /\ cpc'[c] \notin {"idle", "notfound", "notcancelable"}
<1>0. /\ cpc \in [Calls -> {"idle", "signal", "write", "notify", "put", "remove"} \cup Answered]
      /\ req \in [Calls -> Requests \cup {None}]
      /\ store \in [Owners -> [Tasks -> Task \cup {None}]]
  BY DEF TypeOK
<1> DEFINE Goal ==
      \/ cpc'[c] = cpc[c] /\ req'[c] = req[c]
      \/ /\ cpc[c] = "idle" /\ req'[c] \in Requests /\ req'[c].op = "cancel"
         /\ UNCHANGED store
         /\ cpc'[c] \in {"signal", "internal", "notfound", "notcancelable"}
         /\ cpc'[c] = "notfound" => Level(subject(c)') = 0
         /\ cpc'[c] = "notcancelable" => Level(subject(c)') = 2
      \/ /\ cpc[c] \in {"signal", "write", "notify", "put", "remove"} /\ req'[c] = req[c]
         /\ cpc'[c] \notin {"idle", "notfound", "notcancelable"}
<1>1. ASSUME NEW d \in Calls, NEW r \in Requests, LookUp(d, r), r.op = "cancel" PROVE Goal
  <2>1. /\ cpc[d] = "idle" /\ req' = [req EXCEPT ![d] = r] /\ UNCHANGED store
        /\ \A e \in Calls : e # d => cpc'[e] = cpc[e]
        /\ \/ cpc'[d] = "internal"
           \/ cpc'[d] = TaskReadBy(r, store[r.owner][r.task])
    BY <1>0, <1>1 DEF LookUp, handle_get
  <2>2. store[r.owner][r.task] \in Task \cup {None} /\ None \notin Task
    BY <1>0, RequestAssumption
  <2>3. CASE d # c
    BY <1>0, <2>1, <2>3
  <2>4. CASE d = c
    <3>1. req'[c] = r /\ subject(c)' = <<r.owner, r.task>>
      BY <1>0, <2>1, <2>4, SubjectOf
    <3>2. CASE cpc'[c] = "internal"
      BY <1>1, <2>1, <2>4, <3>1, <3>2
    <3>3. CASE cpc'[c] = TaskReadBy(r, store[r.owner][r.task])
      <4>1. CASE store[r.owner][r.task] = None
        <5>1. cpc'[c] = "notfound"
          BY <3>3, <4>1 DEF TaskReadBy
        <5>2. Level(subject(c)') = 0
          BY <3>1, <4>1 DEF Level
        <5> QED BY <1>1, <2>1, <2>4, <3>1, <5>1, <5>2
      <4>2. CASE store[r.owner][r.task] # None
        <5>1. cpc'[c] = IF store[r.owner][r.task].state \in Terminal
                        THEN "notcancelable" ELSE "signal"
          BY <1>1, <3>3, <4>2 DEF TaskReadBy
        <5>2. cpc'[c] = "notcancelable" => Level(subject(c)') = 2
          BY <3>1, <4>2, <5>1 DEF Level, Terminal
        <5> QED BY <1>1, <2>1, <2>4, <3>1, <5>1, <5>2
      <4> QED BY <4>1, <4>2
    <3> QED BY <2>1, <2>4, <3>2, <3>3
  <2> QED BY <2>3, <2>4
<1>2. ASSUME NEW d \in Calls, CallStep(d) \/ DropCall(d) PROVE Goal
  <2>1. CASE d = c
    BY <1>0, <1>2, <2>1 DEF CallStep, DropCall, SignalToken, WriteCanceled, NotifyCanceled,
                            PutConfig, RemoveConfig, WriteFails
  <2>2. CASE d # c
    BY <1>0, <1>2, <2>2 DEF CallStep, DropCall, SignalToken, WriteCanceled, NotifyCanceled,
                            PutConfig, RemoveConfig, WriteFails
  <2> QED BY <2>1, <2>2
<1>3. ASSUME NEW t \in Tasks, \/ ReceiveInvalid(t) \/ HandlerStep(t) \/ Disconnect(t)
                              \/ \E o \in Owners : ReceiveRejected(t, o) \/ ReceiveSend(t, o)
                              \/ ModuleReturns(t) \/ TimeoutElapses(t)
      PROVE  Goal
  <2>1. UNCHANGED callVars
    BY <1>3 DEF ReceiveInvalid, ReceiveRejected, ReceiveSend, HandlerStep, SaveSubmitted,
                SaveFinal, SaveFinalFails, NotifyMessage, SendLastEvent, ModuleReturns,
                TimeoutElapses, Disconnect
  <2> QED BY <2>1 DEF callVars
<1> QED BY <1>1, <1>2, <1>3 DEF ServerMoves

(* What was shown stays shown while the server moves on.                    *)
LEMMA ViewsKept ==
  ASSUME TypeOK, ViewInv, ServerMoves, NEW x \in Exchanges
  PROVE  /\ x \in Views' <=> x \in Views
         /\ x \in Views => subject(x)' = subject(x) /\ progress(x)' = progress(x)
<1>1. told' = told /\ asked' = asked
  BY DEF ServerMoves
<1>2. progress(x)' = progress(x)
  BY <1>1 DEF progress
<1>3. CASE x \in Tasks
  <2>1. CASE told[x] # None /\ told[x].variant \in {"ok", "TaskNotFound", "TaskNotCancelable"}
    <3>1. pc[x] = "done"
      BY <1>3, <2>1 DEF ViewInv, SendViewed
    <3>2. kind'[x] = kind[x] /\ owner'[x] = owner[x]
      BY <1>3, <3>1, MessageMoves
    <3> QED BY <1>1, <1>2, <1>3, <3>2, SubjectOf DEF Views
  <2>2. CASE ~ (told[x] # None /\ told[x].variant \in {"ok", "TaskNotFound", "TaskNotCancelable"})
    BY <1>1, <2>2 DEF Views
  <2> QED BY <2>1, <2>2
<1>4. CASE x \in Calls
  <2>1. x \notin Tasks
    BY <1>4, WebhookAssumption
  <2>2. x \in Views' <=> x \in Views
    BY <1>1, <2>1 DEF Views
  <2>3. x \in Views => req'[x] = req[x]
    BY <1>4, CancelMoves DEF ViewInv, CancelViewed, Views
  <2> QED BY <1>2, <1>4, <2>2, <2>3, SubjectOf
<1>5. CASE x \in Reads
  <2>1. x \notin Tasks
    BY <1>5, RoundTripAssumption
  <2> QED BY <1>1, <1>2, <1>5, <2>1, SubjectOf DEF Views
<1> QED BY <1>3, <1>4, <1>5 DEF Exchanges

(* Where a view's task is.                                                  *)
LEMMA SubjectType ==
  ASSUME TypeOK, ViewInv, NEW x \in Views
  PROVE  \E o \in Owners, t \in Tasks : subject(x) = <<o, t>>
<1>1. CASE x \in Tasks
  <2>1. pc[x] = "done"
    BY <1>1 DEF ViewInv, SendViewed, Views
  <2> QED BY <1>1, <2>1, SubjectOf DEF TypeOK
<1>2. CASE x \in Calls
  <2>1. req[x] \in Requests
    BY <1>2 DEF ViewInv, CancelViewed, Views, TypeOK
  <2> QED BY <1>2, <2>1, SubjectOf, RequestAssumption
<1>3. CASE x \in Reads
  <2>1. asked[x] \in Owners \X Tasks
    BY <1>3 DEF ViewInv, ReadViewed, Views
  <2> QED BY <1>3, <2>1, SubjectOf
<1> QED BY <1>1, <1>2, <1>3 DEF Views, Exchanges

(* The server's steps keep what was shown behind the store.                 *)
LEMMA ServerKeeps ==
  ASSUME TypeOK, AnswerInv, ViewInv, ServerMoves, Knows,
         before' \in [Exchanges -> SUBSET Exchanges]
  PROVE  ViewInv'
<1>1. told' = told /\ asked' = asked /\ Next
  BY DEF ServerMoves
<1>2. Returned' = Returned
  BY <1>1 DEF Returned
<1>3. ASSUME NEW t \in Tasks PROVE SendViewed(t)'
  <2>0. SendViewed(t) /\ told'[t] = told[t] /\ None \notin TaskState /\ status[t] \in TaskState \cup {None}
    BY <1>1, RoundTripAssumption DEF ViewInv, TypeOK
  <2>1. CASE pc'[t] = pc[t] /\ kind'[t] = kind[t] /\ status'[t] = status[t]
    BY <2>0, <2>1 DEF SendViewed
  <2>2. CASE /\ pc[t] = "idle" /\ pc'[t] \in {"refused", "save", "submit"}
             /\ pc'[t] # "refused" => kind'[t] \in {"send", "reject"}
             /\ status'[t] \in {status[t], "FAILED"}
    BY <2>0, <2>2 DEF SendViewed
  <2>3. CASE /\ pc[t] \notin {"idle", "done", "refused"} /\ kind'[t] = kind[t]
             /\ pc'[t] \notin {"idle", "refused"}
             /\ status'[t] = status[t] \/ (pc'[t] # "done" /\ status'[t] # "SUBMITTED")
             /\ pc'[t] = "done" => status[t] \in TaskState
    <3>1. told[t] # None => told[t].variant # "ok"
      BY <2>0, <2>3 DEF SendViewed
    <3>2. kind'[t] \in {"send", "reject"} /\ status'[t] # "SUBMITTED"
      BY <2>0, <2>3 DEF SendViewed
    <3>3. pc'[t] = "done" => status'[t] # None
      BY <2>0, <2>3
    <3> QED BY <2>0, <2>3, <3>1, <3>2, <3>3 DEF SendViewed
  <2> QED BY <2>1, <2>2, <2>3, MessageMoves
<1>4. ASSUME NEW c \in Calls PROVE CancelViewed(c)'
  <2>0. CancelViewed(c)
    BY DEF ViewInv
  <2>1. CASE cpc'[c] = cpc[c] /\ req'[c] = req[c]
    <3>1. cpc[c] = "notcancelable" => Level(subject(c))' = 2
      <4> SUFFICES ASSUME cpc[c] = "notcancelable" PROVE Level(subject(c))' = 2
        OBVIOUS
      <4>1. Level(subject(c)) = 2 /\ req[c] \in Requests
        BY <2>0 DEF CancelViewed, TypeOK
      <4>2. PICK o \in Owners, t \in Tasks : subject(c) = <<o, t>> /\ subject(c)' = <<o, t>>
        BY <2>1, <4>1, SubjectOf, RequestAssumption
      <4>3. Level(<<o, t>>) = 2 /\ Level(<<o, t>>)' \in 0..2
        BY <4>1, <4>2 DEF Level
      <4>4. Level(<<o, t>>)' = 2
        BY <1>1, <4>3, LevelGrows
      <4> QED BY <4>2, <4>4 DEF Level
    <3> QED BY <1>1, <2>0, <2>1, <3>1 DEF CancelViewed
  <2>2. CASE /\ cpc[c] = "idle" /\ req'[c] \in Requests /\ req'[c].op = "cancel"
             /\ UNCHANGED store
             /\ cpc'[c] \in {"signal", "internal", "notfound", "notcancelable"}
             /\ cpc'[c] = "notcancelable" => Level(subject(c)') = 2
    <3>1. Level(subject(c)') = 2 => Level(subject(c))' = 2
      BY <2>2 DEF Level
    <3> QED BY <1>1, <2>0, <2>2, <3>1 DEF CancelViewed
  <2>3. CASE /\ cpc[c] \in {"signal", "write", "notify", "put", "remove"} /\ req'[c] = req[c]
             /\ cpc'[c] \notin {"idle", "notfound", "notcancelable"}
    BY <1>1, <2>0, <2>3 DEF CancelViewed
  <2> QED BY <2>1, <2>2, <2>3, CancelMoves
<1>5. ASSUME NEW g \in Reads PROVE ReadViewed(g)'
  <2>1. ReadViewed(g) /\ g \in Exchanges
    BY SubjectOf DEF ViewInv
  <2>2. ASSUME g \in Views' PROVE progress(g)' \in 0..2 /\ progress(g)' =< Level(subject(g))'
    <3>1. g \in Views /\ progress(g)' = progress(g) /\ subject(g)' = subject(g)
      BY <2>1, <2>2, ViewsKept
    <3>2. progress(g) \in 0..2 /\ progress(g) =< Level(subject(g))
      BY <2>1, <3>1 DEF ReadViewed
    <3>3. PICK o \in Owners, t \in Tasks : subject(g) = <<o, t>>
      BY <3>1, SubjectType
    <3>4. Level(<<o, t>>) =< Level(<<o, t>>)' /\ Level(<<o, t>>) \in 0..2 /\ Level(<<o, t>>)' \in 0..2
      <4>1. Level(<<o, t>>) =< Level(<<o, t>>)'
        BY <1>1, LevelGrows
      <4> QED BY <4>1 DEF Level
    <3>5. Level(subject(g))' = Level(<<o, t>>)' /\ Level(subject(g)) = Level(<<o, t>>)
      BY <3>1, <3>3 DEF Level
    <3> QED BY <3>1, <3>2, <3>4, <3>5
  <2> QED BY <1>1, <2>1, <2>2 DEF ReadViewed
<1>6. \A y \in Exchanges : before'[y] \subseteq Returned'
  BY <1>2 DEF Knows, ViewInv, OrderInv
<1>7. ASSUME NEW c \in Calls, cpc'[c] = "notfound", NEW x \in before'[c]
      PROVE  NoFurther(x, c, 0)'
  <2>1. x \in Exchanges /\ c \in Exchanges
    BY SubjectOf
  <2>2. SUFFICES ASSUME x \in Views', subject(x)' = subject(c)' PROVE progress(x)' =< 0
    BY DEF NoFurther
  <2>3. x \in Views /\ subject(x)' = subject(x) /\ progress(x)' = progress(x)
    BY <2>1, <2>2, ViewsKept
  <2>4. CASE cpc'[c] = cpc[c] /\ req'[c] = req[c]
    <3>1. subject(c)' = subject(c) /\ cpc[c] = "notfound"
      BY <1>7, <2>4, SubjectOf
    <3>2. CASE before'[c] = before[c]
      <4>1. NoFurther(x, c, 0)
        BY <1>7, <3>1, <3>2 DEF ViewInv, OrderInv
      <4> QED BY <2>2, <2>3, <3>1, <4>1 DEF NoFurther
    <3>3. before'[c] = before[c]
      BY <2>1, <3>1, WebhookAssumption DEF Knows
    <3> QED BY <3>2, <3>3
  <2>5. CASE cpc[c] = "idle" /\ (cpc'[c] = "notfound" => Level(subject(c)') = 0)
    <3>1. progress(x) \in 0..2 /\ progress(x) =< Level(subject(x))
      BY <2>3, ViewLevel
    <3>2. Level(subject(x)) = 0
      BY <1>7, <2>2, <2>3, <2>5
    <3> QED BY <2>3, <3>1, <3>2
  <2> QED BY <1>7, <2>4, <2>5, CancelMoves
<1>8. ASSUME NEW g \in Reads, g \in Views', NEW x \in before'[g]
      PROVE  NoFurther(x, g, progress(g))'
  <2>1. x \in Exchanges /\ g \in Exchanges /\ before'[g] = before[g]
    BY SubjectOf, RoundTripAssumption DEF Knows
  <2>2. g \in Views /\ subject(g)' = subject(g) /\ progress(g)' = progress(g)
    BY <1>8, <2>1, ViewsKept
  <2>3. NoFurther(x, g, progress(g))
    BY <1>8, <2>1, <2>2 DEF ViewInv, OrderInv
  <2>4. x \in Views' => x \in Views /\ subject(x)' = subject(x) /\ progress(x)' = progress(x)
    BY <2>1, ViewsKept
  <2> QED BY <2>2, <2>3, <2>4 DEF NoFurther
<1>9. told' = [x \in Exchanges |-> told'[x]] /\ asked' \in [Reads -> (Owners \X Tasks) \cup {None}]
  BY <1>1 DEF ViewInv
<1> QED BY <1>3, <1>4, <1>5, <1>6, <1>7, <1>8, <1>9 DEF ViewInv, OrderInv

(* One more exchange z is answered, the server standing still.              *)
Answers(z) ==
  /\ told[z] = None
  /\ told' = [told EXCEPT ![z] = told'[z]]
  /\ UNCHANGED vars
  /\ \A x \in Exchanges : x # z => before'[x] = before[x]
  /\ \A g \in Reads : g # z => asked'[g] = asked[g]

(* It changes nothing about the others.                                     *)
LEMMA OthersKept ==
  ASSUME ViewInv, NEW z \in Exchanges, Answers(z), NEW x \in Exchanges, x # z
  PROVE  /\ told'[x] = told[x] /\ subject(x)' = subject(x) /\ progress(x)' = progress(x)
         /\ x \in Views' <=> x \in Views
         /\ x \in Returned' <=> x \in Returned
<1>1. told'[x] = told[x] /\ UNCHANGED <<kind, owner, req>>
  BY DEF Answers, ViewInv, vars, messageVars, callVars
<1>2. subject(x)' = subject(x)
  <2>1. x \in Reads => asked'[x] = asked[x]
    BY DEF Answers
  <2> QED BY <1>1, <2>1, SubjectOf DEF Exchanges
<1> QED BY <1>1, <1>2 DEF progress, Views, Returned

LEMMA AnswerKeeps ==
  ASSUME TypeOK, AnswerInv, ViewInv, NEW z \in Exchanges, Answers(z),
         before'[z] \subseteq Returned,
         z \in Tasks => SendViewed(z)',
         z \in Calls => CancelViewed(z)' /\ before'[z] = before[z],
         z \in Reads => ReadViewed(z)',
         z \in Reads /\ z \in Views' =>
           \A x \in before'[z] : x # z => NoFurther(x, z, progress(z))',
         before' \in [Exchanges -> SUBSET Exchanges],
         asked' \in [Reads -> (Owners \X Tasks) \cup {None}]
  PROVE  ViewInv'
<1>0. UNCHANGED <<pc, kind, owner, status, cpc, req, store>>
  BY DEF Answers, vars, messageVars, callVars
<1>1. ASSUME NEW t \in Tasks PROVE SendViewed(t)'
  <2>1. CASE t # z
    BY <1>0, <2>1, OthersKept, SubjectOf DEF ViewInv, SendViewed
  <2>2. CASE t = z
    BY <2>2
  <2> QED BY <2>1, <2>2
<1>2. ASSUME NEW c \in Calls PROVE CancelViewed(c)'
  <2>1. CASE c # z
    <3>1. told'[c] = told[c] /\ subject(c)' = subject(c)
      BY <2>1, OthersKept, SubjectOf
    <3>2. Level(subject(c))' = Level(subject(c))
      BY <1>0, <3>1 DEF Level
    <3> QED BY <1>0, <3>1, <3>2 DEF ViewInv, CancelViewed
  <2>2. CASE c = z
    BY <2>2
  <2> QED BY <2>1, <2>2
<1>3. ASSUME NEW g \in Reads PROVE ReadViewed(g)'
  <2>1. CASE g # z
    <3>1. /\ told'[g] = told[g] /\ subject(g)' = subject(g) /\ progress(g)' = progress(g)
          /\ g \in Views' <=> g \in Views
      BY <2>1, OthersKept, SubjectOf
    <3>2. Level(subject(g))' = Level(subject(g)) /\ asked'[g] = asked[g]
      BY <1>0, <2>1, <3>1 DEF Level, Answers
    <3> QED BY <3>1, <3>2 DEF ViewInv, ReadViewed
  <2>2. CASE g = z
    BY <2>2
  <2> QED BY <2>1, <2>2
<1>4. z \notin Returned /\ Returned \subseteq Returned'
  <2>1. z \notin Returned
    BY DEF Returned, Answers
  <2> QED BY <2>1, OthersKept DEF Returned
<1>5. \A y \in Exchanges : before'[y] \subseteq Returned /\ before'[y] \subseteq Returned'
  BY <1>4 DEF ViewInv, OrderInv, Answers
<1>6. ASSUME NEW y \in Exchanges, NEW x \in before'[y]
      PROVE  x # z /\ x \in Exchanges /\ (x \in Views' <=> x \in Views)
             /\ subject(x)' = subject(x) /\ progress(x)' = progress(x)
  <2>1. x \in Returned /\ x # z
    BY <1>4, <1>5, <1>6
  <2> QED BY <2>1, OthersKept DEF Returned
<1>7. ASSUME NEW c \in Calls, cpc'[c] = "notfound", NEW x \in before'[c]
      PROVE  NoFurther(x, c, 0)'
  <2>1. c \in Exchanges /\ before'[c] = before[c] /\ subject(c)' = subject(c)
    BY <1>0, SubjectOf DEF Answers
  <2>2. NoFurther(x, c, 0)
    BY <1>0, <1>7, <2>1 DEF ViewInv, OrderInv
  <2> QED BY <1>6, <1>7, <2>1, <2>2 DEF NoFurther
<1>8. ASSUME NEW g \in Reads, g \in Views', NEW x \in before'[g]
      PROVE  NoFurther(x, g, progress(g))'
  <2>0. g \in Exchanges
    BY SubjectOf
  <2>1. CASE g = z
    BY <1>6, <1>8, <2>0, <2>1
  <2>2. CASE g # z
    <3>1. /\ g \in Views /\ before'[g] = before[g]
          /\ subject(g)' = subject(g) /\ progress(g)' = progress(g)
      BY <1>8, <2>0, <2>2, OthersKept DEF Answers
    <3>2. NoFurther(x, g, progress(g))
      BY <1>8, <3>1 DEF ViewInv, OrderInv
    <3> QED BY <1>6, <1>8, <2>0, <3>1, <3>2 DEF NoFurther
  <2> QED BY <2>1, <2>2
<1>9. told' = [x \in Exchanges |-> told'[x]]
  BY DEF ViewInv, Answers
<1> QED BY <1>1, <1>2, <1>3, <1>5, <1>7, <1>8, <1>9 DEF ViewInv, OrderInv

(* The end of a send or a cancel tells what its handler answered, or        *)
(* nothing.                                                                 *)
LEMMA TellKeeps ==
  ASSUME TypeOK, AnswerInv, ViewInv, NEW z \in Exchanges, Return(z) \/ GiveUp(z)
  PROVE  ViewInv'
<1>1. PICK what : /\ Tell(z, what)
                  /\ \/ z \in Handled /\ what = typed(answer(z))
                     \/ what.variant = "Connection"
  BY DEF Return, GiveUp
<1>2. /\ z \in Begun /\ told[z] = None /\ told'[z] = what
      /\ told' = [told EXCEPT ![z] = what]
      /\ UNCHANGED <<pc, kind, status, cpc, req, store, owner, before, asked>>
  BY <1>1 DEF Tell, ViewInv, vars, messageVars, callVars
<1>3. Answers(z)
  BY <1>1, <1>2 DEF Answers, Tell
<1>4. ASSUME z \in Tasks PROVE SendViewed(z)'
  <2>1. pc[z] # "idle" /\ SendViewed(z)
    BY <1>2, <1>4, WebhookAssumption DEF Begun, ViewInv
  <2>2. what.variant \in {"ok", "Server", "Connection"}
        /\ (what.variant = "ok" => pc[z] = "done" /\ what.state = status[z])
    <3>1. CASE what.variant = "Connection"
      BY <3>1
    <3>2. CASE z \in Handled /\ what = typed(answer(z))
      <4>1. pc[z] \in {"done", "failed", "refused"}
        BY <1>4, <3>2, WebhookAssumption DEF Handled
      <4> QED BY <1>4, <3>2, <4>1, AnswerOfSend DEF typed, Result, RpcError, from_jsonrpc
    <3> QED BY <1>1, <3>1, <3>2
  <2> QED BY <1>2, <2>1, <2>2 DEF SendViewed
<1>5. ASSUME z \in Calls PROVE CancelViewed(z)'
  <2>0. z \notin Tasks
    BY <1>5, WebhookAssumption
  <2>1. cpc[z] # "idle" /\ CancelViewed(z)
    BY <1>2, <1>5, <2>0 DEF Begun, ViewInv
  <2>2. /\ what.variant = "ok" => cpc[z] = "ok" /\ what.state = "CANCELED"
        /\ what.variant = "TaskNotFound" => cpc[z] = "notfound"
        /\ what.variant = "TaskNotCancelable" => cpc[z] = "notcancelable"
    <3>1. CASE what.variant = "Connection"
      BY <3>1
    <3>2. CASE z \in Handled /\ what = typed(answer(z))
      <4>1. cpc[z] \in {"ok", "notfound", "notcancelable", "internal"}
        BY <2>0, <3>2 DEF Handled, Answered
      <4>2. /\ cpc[z] = "ok" => answer(z) = Result("CANCELED", {"fixed"})
            /\ cpc[z] = "notfound" => answer(z) = RpcError(-32001)
            /\ cpc[z] = "notcancelable" => answer(z) = RpcError(-32002)
            /\ cpc[z] = "internal" => answer(z) = RpcError(-32603)
        BY <1>5, <2>0 DEF answer
      <4> QED BY <3>2, <4>1, <4>2 DEF typed, Result, RpcError, from_jsonrpc
    <3> QED BY <1>1, <3>1, <3>2
  <2>3. Level(subject(z))' = Level(subject(z))
    BY <1>2, <1>5, SubjectOf DEF Level
  <2> QED BY <1>2, <2>1, <2>2, <2>3 DEF CancelViewed
<1>6. z \notin Reads
  BY <1>2, RoundTripAssumption DEF Begun
<1> QED BY <1>2, <1>3, <1>4, <1>5, <1>6, AnswerKeeps DEF ViewInv, OrderInv

(* A read tells what the store holds as it is answered.                     *)
LEMMA ReadKeeps ==
  ASSUME TypeOK, AnswerInv, ViewInv, NEW g \in Reads, NEW o \in Owners, NEW t \in Tasks,
         Read(g, o, t)
  PROVE  ViewInv'
<1>1. /\ asked[g] = None /\ asked' = [asked EXCEPT ![g] = <<o, t>>]
      /\ before' = [before EXCEPT ![g] = Returned] /\ UNCHANGED vars
      /\ UNCHANGED store
  BY DEF Read, vars
<1>2. PICK via \in {"get", "list"}, reached \in BOOLEAN :
        told' = [told EXCEPT ![g] = typed(read_answer(via, reached, store[o][t]))]
  BY DEF Read, handle_get
<1>3. g \in Exchanges /\ told[g] = None /\ g \notin Tasks /\ g \notin Calls
  BY <1>1, SubjectOf, RoundTripAssumption DEF ViewInv, ReadViewed
<1>4. /\ told'[g] = typed(read_answer(via, reached, store[o][t]))
      /\ asked'[g] = <<o, t>> /\ before'[g] = Returned
      /\ before' \in [Exchanges -> SUBSET Exchanges]
      /\ asked' \in [Reads -> (Owners \X Tasks) \cup {None}]
      /\ subject(g)' = <<o, t>>
  BY <1>1, <1>2, <1>3, SubjectOf DEF ViewInv, Returned
<1>5. Answers(g)
  BY <1>1, <1>2, <1>3, <1>4 DEF Answers, ViewInv
<1>6. ASSUME g \in Views' PROVE progress(g)' = Level(<<o, t>>)
  <2>t. store[o][t] \in Task \cup {None} /\ None \notin Task /\ None \notin TaskState
    BY RequestAssumption, RoundTripAssumption DEF TypeOK
  <2>0. told'[g].variant \in {"ok", "TaskNotFound", "TaskNotCancelable"}
    BY <1>6 DEF Views
  <2>1. reached
    BY <1>4, <2>0 DEF read_answer, typed, RpcError, from_jsonrpc
  <2>2. CASE store[o][t] = None /\ via = "get"
    <3>1. read_answer(via, reached, store[o][t]) = RpcError(-32001)
      BY <2>1, <2>2 DEF read_answer
    <3>2. told'[g].variant = "TaskNotFound"
      BY <1>4, <3>1 DEF typed, RpcError, from_jsonrpc
    <3> QED BY <2>2, <3>2 DEF progress, Level
  <2>3. CASE store[o][t] = None /\ via = "list"
    <3>1. read_answer(via, reached, store[o][t]) = Result(None, {})
      BY <2>1, <2>3 DEF read_answer
    <3>2. told'[g].variant = "ok" /\ told'[g].state = None
      BY <1>4, <3>1 DEF typed, Result
    <3>3. None # "SUBMITTED"
      BY <2>t DEF TaskState
    <3> QED BY <2>3, <3>2, <3>3 DEF progress, Level
  <2>4. CASE store[o][t] # None
    <3>1. read_answer(via, reached, store[o][t]) = Result(store[o][t].state, {})
      BY <2>1, <2>4 DEF read_answer
    <3>2. told'[g].variant = "ok" /\ told'[g].state = store[o][t].state
      BY <1>4, <3>1 DEF typed, Result
    <3>3. told'[g].state # None
      BY <2>t, <2>4, <3>2 DEF Task
    <3> QED BY <2>4, <3>2, <3>3 DEF progress, Level
  <2> QED BY <2>2, <2>3, <2>4
<1>7. ReadViewed(g)'
  <2>1. asked'[g] # None
    BY <1>4, RoundTripAssumption
  <2>2. Level(subject(g))' = Level(<<o, t>>) /\ Level(<<o, t>>) \in 0..2
    BY <1>1, <1>4 DEF Level
  <2> QED BY <1>6, <2>1, <2>2 DEF ReadViewed
<1>8. ASSUME g \in Views', NEW x \in before'[g], x # g PROVE NoFurther(x, g, progress(g))'
  <2>1. x \in Exchanges
    BY <1>4, <1>8 DEF Returned
  <2>2. /\ x \in Views' <=> x \in Views
        /\ subject(x)' = subject(x) /\ progress(x)' = progress(x)
    BY <1>3, <1>5, <1>8, <2>1, OthersKept
  <2>3. ASSUME x \in Views, subject(x) = <<o, t>> PROVE progress(x) =< Level(<<o, t>>)
    BY <2>3, ViewLevel
  <2> QED BY <1>4, <1>6, <1>8, <2>2, <2>3 DEF NoFurther
<1> QED BY <1>3, <1>4, <1>5, <1>7, <1>8, AnswerKeeps

LEMMA ViewInit == RoundTripInit => ViewInv
<1> SUFFICES ASSUME RoundTripInit PROVE ViewInv
  OBVIOUS
<1>1. /\ told = [x \in Exchanges |-> None] /\ before = [x \in Exchanges |-> {}]
      /\ asked = [g \in Reads |-> None]
      /\ pc = [t \in Tasks |-> "idle"] /\ status = [t \in Tasks |-> None]
      /\ cpc = [c \in Calls |-> "idle"]
  BY DEF RoundTripInit, Init
<1>2. \A x \in Exchanges : told[x] = None
  BY <1>1
<1>3. Views = {} /\ Returned = {}
  BY <1>2 DEF Views, Returned
<1>4. ASSUME NEW t \in Tasks PROVE SendViewed(t)
  BY <1>1, <1>2, SubjectOf, RoundTripAssumption DEF SendViewed, TaskState
<1>5. ASSUME NEW c \in Calls PROVE CancelViewed(c)
  BY <1>1, <1>2, SubjectOf DEF CancelViewed
<1>6. ASSUME NEW g \in Reads PROVE ReadViewed(g)
  BY <1>2, <1>3, SubjectOf DEF ReadViewed
<1>7. OrderInv
  BY <1>1, <1>3 DEF OrderInv
<1> QED BY <1>1, <1>4, <1>5, <1>6, <1>7 DEF ViewInv

LEMMA ViewNext ==
  TypeOK /\ AnswerInv /\ ViewInv /\ [RoundTripNext]_roundTripVars => ViewInv'
<1> SUFFICES ASSUME TypeOK, AnswerInv, ViewInv, [RoundTripNext]_roundTripVars PROVE ViewInv'
  OBVIOUS
<1>1. CASE RoundTripNext
  BY <1>1, StepKinds, ServerKeeps, TellKeeps, ReadKeeps
<1>2. CASE UNCHANGED roundTripVars
  <2>1. UNCHANGED <<pc, kind, owner, status, cpc, req, store, told, before, asked>>
    BY <1>2 DEF roundTripVars, clientVars, vars, messageVars, callVars
  <2>2. Views' = Views /\ Returned' = Returned
    BY <2>1 DEF Views, Returned
  <2>3. \A x : subject(x)' = subject(x) /\ progress(x)' = progress(x)
    BY <2>1 DEF subject, progress
  <2>4. \A t \in Tasks : SendViewed(t)'
    BY <2>1 DEF ViewInv, SendViewed
  <2>5. ASSUME NEW c \in Calls PROVE CancelViewed(c)'
    <3>1. Level(subject(c))' = Level(subject(c))
      BY <2>1, <2>3 DEF Level
    <3> QED BY <2>1, <3>1 DEF ViewInv, CancelViewed
  <2>6. ASSUME NEW g \in Reads PROVE ReadViewed(g)'
    <3>1. Level(subject(g))' = Level(subject(g))
      BY <2>1, <2>3 DEF Level
    <3> QED BY <2>1, <2>2, <2>3, <3>1 DEF ViewInv, ReadViewed
  <2>7. OrderInv'
    BY <2>1, <2>2, <2>3 DEF ViewInv, OrderInv, NoFurther
  <2> QED BY <2>1, <2>4, <2>5, <2>6, <2>7 DEF ViewInv
<1> QED BY <1>1, <1>2

(* A client never sees its task go back, whatever calls overlap, are lost,  *)
(* are retried or are given up.                                             *)
THEOREM ViewsForward == RoundTripSpec => []ViewsMoveForward
<1>1. TypeOK /\ AnswerInv /\ ViewInv => ViewsMoveForward
  <2> SUFFICES ASSUME TypeOK, AnswerInv, ViewInv, NEW x \in Views, NEW y \in Views,
                      x \in before[y], subject(x) = subject(y)
               PROVE  progress(x) =< progress(y)
    BY DEF ViewsMoveForward
  <2>1. progress(x) \in 0..2
    BY ViewLevel
  <2>2. CASE y \in Tasks
    BY <2>1, <2>2, SendView
  <2>3. CASE y \in Calls
    <3>1. CASE cpc[y] = "notfound" /\ progress(y) = 0
      BY <2>3, <3>1 DEF ViewInv, OrderInv, NoFurther
    <3>2. CASE progress(y) = 2
      BY <2>1, <3>2
    <3> QED BY <2>3, <3>1, <3>2, CancelView
  <2>4. CASE y \in Reads
    BY <2>4 DEF ViewInv, OrderInv, NoFurther
  <2> QED BY <2>2, <2>3, <2>4 DEF Views, Exchanges
<1>2. RoundTripInit => Init
  BY DEF RoundTripInit
<1> QED BY <1>1, <1>2, ServerStep, TypeInit, TypeNext, OwnerInit, OwnerNext, AnswerInit,
           AnswerNext, ViewInit, ViewNext, PTL DEF RoundTripSpec
==================================================================================
