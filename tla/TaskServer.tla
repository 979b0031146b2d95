----------------------------- MODULE TaskServer -----------------------------
(***************************************************************************)
(* The task endpoints of the A2A server: message/send, message/stream,     *)
(* tasks/cancel and tasks/pushNotificationConfig/{set,delete}, over one    *)
(* task store, one webhook config store and one table of cancel tokens.    *)
(*                                                                         *)
(* Every request is a process. It gives up control at each await, so the   *)
(* steps of different requests interleave there; a step is the code        *)
(* between two awaits together with the store access that ends it. A       *)
(* message is named by its task: parse_request gives each a fresh id.      *)
(*                                                                         *)
(* A store access may fail. A request answered over plain HTTP is dropped  *)
(* at an await when its client disconnects; the driver of a stream is      *)
(* spawned and runs on. The events of a stream are in StreamPipeline.      *)
(***************************************************************************)
EXTENDS Webhooks

CONSTANT
  Requests      \* the task-addressed requests a caller may make

\* A stored task; has_result stands for a non-empty list of artifacts.
Task == [state : TaskState, has_result : BOOLEAN]

ASSUME RequestAssumption ==
  /\ Requests \subseteq [op : {"cancel", "set", "delete"}, owner : Owners,
                         task : Tasks, url : Urls]
  /\ None \notin Requests
  /\ None \notin Task

VARIABLES
  pc,         \* pc[t]: where the message that creates task t stands
  kind,       \* kind[t]: how the message is handled
  owner,      \* owner[t]: the principal that sent it
  status,     \* status[t]: the outcome its handler is about to store
  cpc,        \* cpc[c]: where call c stands, or how it was answered
  req,        \* req[c]: the parameters of call c
  seen,       \* seen[c]: the task a cancel read
  store,      \* store[o][t]: the task o's bucket holds under t, or None
  tokens,     \* the tasks with an entry in cancel_tokens
  signalled   \* the tasks whose cancel token has been cancelled

messageVars == <<pc, kind, owner, status>>
callVars == <<cpc, req, seen>>
vars == <<messageVars, callVars, store, tokens, signalled, webhookVars>>

Ended == {"done", "failed", "refused", "gone"}
Answered == {"ok", "notfound", "notcancelable", "internal", "gone"}

\* A received message has a sender, one past its module an outcome; a call that
\* was made has parameters, one that cancels has read a task.
TypeOK ==
  /\ WebhooksTypeOK
  /\ pc \in [Tasks -> {"idle", "submit", "run", "save", "notify", "last"} \cup Ended]
  /\ kind \in [Tasks -> {"send", "stream", "reject", None}]
  /\ owner \in [Tasks -> Owners \cup {None}]
  /\ status \in [Tasks -> TaskState \cup {None}]
  /\ cpc \in [Calls -> {"idle", "signal", "write", "notify", "put", "remove"} \cup Answered]
  /\ req \in [Calls -> Requests \cup {None}]
  /\ seen \in [Calls -> Task \cup {None}]
  /\ store \in [Owners -> [Tasks -> Task \cup {None}]]
  /\ tokens \in SUBSET Tasks
  /\ signalled \in SUBSET Tasks
  /\ \A t \in Tasks : /\ pc[t] \notin {"idle", "refused"} => owner[t] \in Owners
                      /\ pc[t] \in {"save", "notify", "last"} => status[t] \in TaskState
  /\ \A c \in Calls : /\ cpc[c] # "idle" => req[c] \in Requests
                      /\ cpc[c] \in {"signal", "write"} => seen[c] \in Task

Init ==
  /\ WebhooksInit
  /\ pc = [t \in Tasks |-> "idle"]
  /\ kind = [t \in Tasks |-> None]
  /\ owner = [t \in Tasks |-> None]
  /\ status = [t \in Tasks |-> None]
  /\ cpc = [c \in Calls |-> "idle"]
  /\ req = [c \in Calls |-> None]
  /\ seen = [c \in Calls |-> None]
  /\ store = [o \in Owners |-> [t \in Tasks |-> None]]
  /\ tokens = {}
  /\ signalled = {}

\* Mutant of handle_get: a store that is keyed by task id alone.
handle_get_unscoped(o, t) ==
  IF \E p \in Owners : store[p][t] # None
  THEN store[CHOOSE p \in Owners : store[p][t] # None][t]
  ELSE None

\* tasks/get: what principal o reads under id t.
handle_get(o, t) == store[o][t]

save(o, t, task) == store' = [store EXCEPT ![o][t] = task]

\* The driver of an accepted message holds a cancel token until it ends.
Live(t) == kind[t] \in {"send", "stream"}
           /\ pc[t] \in {"submit", "run", "save", "notify", "last"}

-----------------------------------------------------------------------------
(* message/send and message/stream *)

\* Mutant of CancelGuard_drop: no guard.
NoGuard(t) == UNCHANGED tokens

\* The drop of a handler's CancelGuard, on every way out of it.
CancelGuard_drop(t) == tokens' = tokens \ {t}

\* No valid message in the params: a JSON-RPC error and no task.
ReceiveInvalid(t) ==
  /\ pc[t] = "idle"
  /\ pc' = [pc EXCEPT ![t] = "refused"]
  /\ UNCHANGED <<kind, owner, status, callVars, store, tokens, signalled, webhookVars>>

\* A message without a usable skill or input becomes a FAILED task, written by
\* the request's own handler, which registers no token.
ReceiveRejected(t, o) ==
  /\ pc[t] = "idle"
  /\ pc' = [pc EXCEPT ![t] = "save"]
  /\ kind' = [kind EXCEPT ![t] = "reject"]
  /\ owner' = [owner EXCEPT ![t] = o]
  /\ status' = [status EXCEPT ![t] = "FAILED"]
  /\ UNCHANGED <<callVars, store, tokens, signalled, webhookVars>>

ReceiveSend(t, o) ==
  /\ pc[t] = "idle"
  /\ pc' = [pc EXCEPT ![t] = "submit"]
  /\ kind' = [kind EXCEPT ![t] = "send"]
  /\ owner' = [owner EXCEPT ![t] = o]
  /\ tokens' = tokens \cup {t}
  /\ UNCHANGED <<status, callVars, store, signalled, webhookVars>>

\* The spawned driver of a stream stores nothing before the outcome; it may wait
\* on its way there for room for the events that come before. A skill the
\* registry does not know fails it without running a module.
ReceiveStream(t, o) ==
  /\ pc[t] = "idle"
  /\ \/ pc' = [pc EXCEPT ![t] = "run"] /\ UNCHANGED status
     \/ /\ pc' = [pc EXCEPT ![t] = "save"]
        /\ status' = [status EXCEPT ![t] = "FAILED"]
  /\ kind' = [kind EXCEPT ![t] = "stream"]
  /\ owner' = [owner EXCEPT ![t] = o]
  /\ tokens' = tokens \cup {t}
  /\ UNCHANGED <<callVars, store, signalled, webhookVars>>

\* save_task of the SUBMITTED task: a failed write is only logged.
SaveSubmitted(t) ==
  /\ pc[t] = "submit"
  /\ \/ save(owner[t], t, [state |-> "SUBMITTED", has_result |-> FALSE])
     \/ UNCHANGED store
  /\ pc' = [pc EXCEPT ![t] = "run"]
  /\ UNCHANGED <<kind, owner, status, callVars, tokens, signalled, webhookVars>>

\* Mutant of ModuleReturns: the webhook is told before the store.
ModuleReturnsNotifying(t) ==
  /\ pc[t] = "run"
  /\ status' = [status EXCEPT ![t] = "COMPLETED"]
  /\ notify_push(t, owner[t], t, "COMPLETED")
  /\ pc' = [pc EXCEPT ![t] = "save"]
  /\ UNCHANGED <<kind, owner, callVars, store, tokens, signalled>>

\* The module returns or fails by itself, when it does; it reports a
\* cancellation only when its token was cancelled.
ModuleReturns(t) ==
  /\ pc[t] = "run"
  /\ \/ status' = [status EXCEPT ![t] = "COMPLETED"]
     \/ \E e \in ErrorKind :
          /\ e = "ExecutionCancelled" => t \in signalled
          /\ status' = [status EXCEPT ![t] = error_to_status(e)]
  /\ pc' = [pc EXCEPT ![t] = "save"]
  /\ UNCHANGED <<kind, owner, callVars, store, tokens, signalled, webhookVars>>

\* Mutant of TimeoutElapses: a deadline only a cancelled module heeds.
TimeoutCooperative(t) ==
  /\ pc[t] = "run"
  /\ t \in signalled
  /\ status' = [status EXCEPT ![t] = error_to_status("ModuleTimeout")]
  /\ pc' = [pc EXCEPT ![t] = "save"]
  /\ UNCHANGED <<kind, owner, callVars, store, tokens, signalled, webhookVars>>

\* The host-side timeout cuts off a module that does not return. That of a
\* stream is reported through the channels, when they have room for it.
TimeoutElapses(t) ==
  /\ pc[t] = "run"
  /\ status' = [status EXCEPT ![t] = error_to_status("ModuleTimeout")]
  /\ pc' = [pc EXCEPT ![t] = "save"]
  /\ UNCHANGED <<kind, owner, callVars, store, tokens, signalled, webhookVars>>

\* Only message/send stores the output as an artifact; a stream stores none.
FinalTask(t) == [state |-> status[t],
                 has_result |-> kind[t] = "send" /\ status[t] = "COMPLETED"]

SaveFinal(t) ==
  /\ pc[t] = "save"
  /\ save(owner[t], t, FinalTask(t))
  /\ pc' = [pc EXCEPT ![t] = "notify"]
  /\ UNCHANGED <<kind, owner, status, callVars, tokens, signalled, webhookVars>>

\* Mutant of SaveFinalFails: every path logs the failure and goes on.
SaveFinalFailsLogged(t) ==
  /\ pc[t] = "save"
  /\ pc' = [pc EXCEPT ![t] = "notify"]
  /\ UNCHANGED <<kind, owner, status, callVars, store, tokens, signalled, webhookVars>>

\* message/send answers a failed final write with an internal error and no
\* notification; the other paths log it and go on.
SaveFinalFails(t) ==
  /\ pc[t] = "save"
  /\ IF kind[t] = "send"
     THEN pc' = [pc EXCEPT ![t] = "failed"] /\ CancelGuard_drop(t)
     ELSE pc' = [pc EXCEPT ![t] = "notify"] /\ UNCHANGED tokens
  /\ UNCHANGED <<kind, owner, status, callVars, store, signalled, webhookVars>>

\* A stream still has its last event to send; the others answer and end.
NotifyMessage(t) ==
  /\ pc[t] = "notify"
  /\ notify_push(t, owner[t], t, status[t])
  /\ IF kind[t] = "stream"
     THEN pc' = [pc EXCEPT ![t] = "last"] /\ UNCHANGED tokens
     ELSE pc' = [pc EXCEPT ![t] = "done"] /\ CancelGuard_drop(t)
  /\ UNCHANGED <<kind, owner, status, callVars, store, signalled>>

SendLastEvent(t) ==
  /\ pc[t] = "last"
  /\ pc' = [pc EXCEPT ![t] = "done"]
  /\ CancelGuard_drop(t)
  /\ UNCHANGED <<kind, owner, status, callVars, store, signalled, webhookVars>>

\* The client disconnects: the future of a handler that has not answered is
\* dropped where it waits.
Disconnect(t) ==
  /\ kind[t] \in {"send", "reject"}
  /\ pc[t] \in {"submit", "run", "save", "notify"}
  /\ pc' = [pc EXCEPT ![t] = "gone"]
  /\ CancelGuard_drop(t)
  /\ UNCHANGED <<kind, owner, status, callVars, store, signalled, webhookVars>>

-----------------------------------------------------------------------------
(* tasks/cancel and tasks/pushNotificationConfig/{set,delete} *)

\* Mutants of TaskReadBy: a webhook is registered without the ownership check;
\* a cancel does not look at the state of the task.
TaskReadByAnySetter(r, task) ==
  CASE r.op = "set"                      -> "put"
    [] task = None /\ r.op # "set"       -> "notfound"
    [] task # None /\ r.op = "delete"    -> "remove"
    [] task # None /\ r.op = "cancel"    ->
         IF task.state \in Terminal THEN "notcancelable" ELSE "signal"

TaskReadByUnguarded(r, task) ==
  CASE task = None                       -> "notfound"
    [] task # None /\ r.op = "set"       -> "put"
    [] task # None /\ r.op = "delete"    -> "remove"
    [] task # None /\ r.op = "cancel"    -> "signal"

\* Every one of them first reads the task from the caller's own bucket.
\* TaskReadBy answers the call for a missing task and, to a cancel, for a
\* terminal one; otherwise it is where the call goes on.
TaskReadBy(r, task) ==
  CASE task = None                       -> "notfound"
    [] task # None /\ r.op = "set"       -> "put"
    [] task # None /\ r.op = "delete"    -> "remove"
    [] task # None /\ r.op = "cancel"    ->
         IF task.state \in Terminal THEN "notcancelable" ELSE "signal"

LookUp(c, r) ==
  /\ cpc[c] = "idle"
  /\ req' = [req EXCEPT ![c] = r]
  /\ \/ /\ cpc' = [cpc EXCEPT ![c] = TaskReadBy(r, handle_get(r.owner, r.task))]
        /\ seen' = [seen EXCEPT ![c] = handle_get(r.owner, r.task)]
     \/ /\ cpc' = [cpc EXCEPT ![c] = "internal"]
        /\ UNCHANGED seen
  /\ UNCHANGED <<messageVars, store, tokens, signalled, webhookVars>>

\* Mutants of SignalToken: the token is dropped and never cancelled; a cancel
\* that needs a token to go on.
SignalTokenForgotten(c) ==
  /\ cpc[c] = "signal"
  /\ tokens' = tokens \ {req[c].task}
  /\ cpc' = [cpc EXCEPT ![c] = "write"]
  /\ UNCHANGED <<messageVars, req, seen, store, signalled, webhookVars>>

SignalTokenRequired(c) ==
  /\ cpc[c] = "signal"
  /\ req[c].task \in tokens
  /\ signalled' = signalled \cup {req[c].task}
  /\ tokens' = tokens \ {req[c].task}
  /\ cpc' = [cpc EXCEPT ![c] = "write"]
  /\ UNCHANGED <<messageVars, req, seen, store, webhookVars>>

\* Removes the token, if there is still one, and cancels it.
SignalToken(c) ==
  /\ cpc[c] = "signal"
  /\ signalled' = signalled \cup (tokens \cap {req[c].task})
  /\ tokens' = tokens \ {req[c].task}
  /\ cpc' = [cpc EXCEPT ![c] = "write"]
  /\ UNCHANGED <<messageVars, req, seen, store, webhookVars>>

\* Writes back the task read by LookUp with its state changed.
WriteCanceled(c) ==
  /\ cpc[c] = "write"
  /\ save(req[c].owner, req[c].task, [seen[c] EXCEPT !.state = "CANCELED"])
  /\ cpc' = [cpc EXCEPT ![c] = "notify"]
  /\ UNCHANGED <<messageVars, req, seen, tokens, signalled, webhookVars>>

NotifyCanceled(c) ==
  /\ cpc[c] = "notify"
  /\ notify_push(c, req[c].owner, req[c].task, "CANCELED")
  /\ cpc' = [cpc EXCEPT ![c] = "ok"]
  /\ UNCHANGED <<messageVars, req, seen, store, tokens, signalled>>

PutConfig(c) ==
  /\ cpc[c] = "put"
  /\ save_config(req[c].owner, req[c].task, req[c].url)
  /\ cpc' = [cpc EXCEPT ![c] = "ok"]
  /\ UNCHANGED <<messageVars, req, seen, store, tokens, signalled, posts>>

RemoveConfig(c) ==
  /\ cpc[c] = "remove"
  /\ delete_config(req[c].owner, req[c].task)
  /\ cpc' = [cpc EXCEPT ![c] = "ok"]
  /\ UNCHANGED <<messageVars, req, seen, store, tokens, signalled, posts>>

\* A failed write fails the call it belongs to.
WriteFails(c) ==
  /\ cpc[c] \in {"write", "put", "remove"}
  /\ cpc' = [cpc EXCEPT ![c] = "internal"]
  /\ UNCHANGED <<messageVars, req, seen, store, tokens, signalled, webhookVars>>

\* The caller disconnects while the handler waits for a store.
DropCall(c) ==
  /\ cpc[c] \in {"write", "notify", "put", "remove"}
  /\ cpc' = [cpc EXCEPT ![c] = "gone"]
  /\ UNCHANGED <<messageVars, req, seen, store, tokens, signalled, webhookVars>>

\* One POST of a spawned delivery.
Deliver(x) ==
  /\ Attempt(x)
  /\ UNCHANGED <<messageVars, callVars, store, tokens, signalled>>
-----------------------------------------------------------------------------
Receive(t) ==
  \/ ReceiveInvalid(t)
  \/ \E o \in Owners :
       ReceiveRejected(t, o) \/ ReceiveSend(t, o) \/ ReceiveStream(t, o)

HandlerStep(t) ==
  SaveSubmitted(t) \/ SaveFinal(t) \/ SaveFinalFails(t) \/ NotifyMessage(t) \/ SendLastEvent(t)

CallStep(c) ==
  SignalToken(c) \/ WriteCanceled(c) \/ NotifyCanceled(c) \/ PutConfig(c)
    \/ RemoveConfig(c) \/ WriteFails(c)

Next ==
  \/ \E t \in Tasks : Receive(t) \/ HandlerStep(t) \/ ModuleReturns(t)
                        \/ TimeoutElapses(t) \/ Disconnect(t)
  \/ \E c \in Calls : (\E r \in Requests : LookUp(c, r)) \/ CallStep(c) \/ DropCall(c)
  \/ \E x \in Notifiers : Deliver(x)

\* What a handler waits for by itself: the stores and the timeout of the module.
\* A stream also waits for its client, which need not read.
Due(t) == kind[t] # "stream" /\ (HandlerStep(t) \/ TimeoutElapses(t))

\* Requests need not arrive, modules need not return and clients need neither
\* leave nor read; a handler that can run does, and a delivery whose last POST
\* has returned goes on to the next.
Fairness ==
  /\ \A t \in Tasks : WF_vars(Due(t))
  /\ \A c \in Calls : WF_vars(CallStep(c))
  /\ \A x \in Notifiers : WF_vars(Deliver(x))

Spec == Init /\ [][Next]_vars /\ Fairness
-----------------------------------------------------------------------------
(* Safety *)

\* The entry of cancel_tokens of a task belongs to a driver that is still
\* running: no way out of a handler, the client's disconnect included, leaks it.
TokensAreLive == \A t \in tokens : Live(t)

\* While a driver runs its module can be reached: its token is registered, or a
\* cancel has already cancelled it. A cancel whose write then fails may be
\* retried without losing the signal.
RunningIsCancelable == \A t \in Tasks : Live(t) => t \in tokens \cup signalled

\* A token is cancelled only by a tasks/cancel of the principal that sent the
\* message: the token table is keyed by task id alone, the store is not.
SignalledByOwner ==
  \A t \in signalled : \E c \in Calls :
    /\ cpc[c] \in {"write", "notify", "ok", "internal", "gone"}
    /\ req[c] # None
    /\ req[c].op = "cancel"
    /\ req[c].task = t
    /\ req[c].owner = owner[t]

\* A stored task and a registered webhook belong to the principal that sent the
\* message: no call fabricates a task, nor a webhook on somebody else's task.
OwnerScoped ==
  \A o \in Owners, t \in Tasks :
    store[o][t] # None \/ configs[o][t] # None => owner[t] = o

\* Cancels of task t that have yet to write.
Canceling(o, t) == {c \in Calls : /\ cpc[c] \in {"signal", "write"}
                                  /\ req[c].task = t
                                  /\ req[c].owner = o}

\* What an answered request was told agrees with what tasks/get reads next.
\* A message/send outcome is stored unless a cancel overtook it; one answered
\* with an internal error left no outcome behind; a task its owner was told is
\* canceled reads CANCELED or as its own handler's outcome, never SUBMITTED.
AnswersMatchStore ==
  /\ \A t \in Tasks : kind[t] = "send" =>
       LET task == store[owner[t]][t] IN
       /\ pc[t] = "done" => task # None /\ task.state \in {status[t], "CANCELED"}
       /\ pc[t] = "failed" => task = None \/ task.state \in {"SUBMITTED", "CANCELED"}
  /\ \A c \in Calls : cpc[c] = "ok" /\ req[c].op = "cancel" =>
       LET task == store[req[c].owner][req[c].task] IN
       task # None /\ task.state \in {status[req[c].task], "CANCELED"}

\* A webhook is told a message/send outcome or a cancellation only after the
\* store took it.
NoticesFollowStore ==
  \A x \in Notifiers : posts[x] # None /\ (x \in Tasks => kind[x] = "send") =>
    LET task == store[posts[x].owner][posts[x].task] IN
    task # None /\ task.state \in {status[posts[x].task], "CANCELED"}

\* A task nothing is working on any more: terminal, its handler past its last
\* write, and no cancel about to write.
Settled(o, t) ==
  /\ store[o][t] # None
  /\ store[o][t].state \in Terminal
  /\ pc[t] \in {"notify", "last"} \cup Ended
  /\ Canceling(o, t) = {}

\* A settled task stays as it is: a later tasks/cancel is refused.
SettledIsFinal ==
  [][\A o \in Owners, t \in Tasks : Settled(o, t) =>
       store'[o][t] = store[o][t] /\ Settled(o, t)']_vars
-----------------------------------------------------------------------------
(* Liveness *)

\* A message/send, or a message rejected on receipt, is answered or its client
\* gone, whatever its module and the other requests do, and its cancel token is
\* gone by then. A stream ends as its client lets it: StreamPipeline!StreamEnds.
MessagesEnd ==
  \A t \in Tasks : pc[t] # "idle" /\ kind[t] # "stream"
                     ~> pc[t] \in Ended /\ t \notin tokens

\* A task that reads SUBMITTED though its handler has been dropped: nothing
\* works on it, and nothing in the server comes back to it by itself.
Abandoned(t) ==
  /\ pc[t] = "gone"
  /\ store[owner[t]][t] # None
  /\ store[owner[t]][t].state = "SUBMITTED"

\* Every call is answered, or its caller has left. A cancel that found a task
\* whose sender's disconnect had dropped the handler, and the token with it,
\* still moves that task on, unless its own write fails or its caller leaves too.
CallsEnd == \A c \in Calls :
  /\ cpc[c] # "idle" ~> cpc[c] \in Answered
  /\ \A t \in Tasks :
       Abandoned(t) /\ cpc[c] = "signal" /\ req[c].task = t
         ~> ~ Abandoned(t) \/ cpc[c] \in {"internal", "gone"}

\* A delivery gives up in the end: a webhook that refuses it is not retried for
\* ever. Only a POST that never returns, for which nothing sets a timeout, holds
\* it for good.
DeliveriesEnd == \A x \in Notifiers : posts[x] # None ~>
                      posts[x] # None /\ (posts[x].left = 0 \/ posts[x].hung)
-----------------------------------------------------------------------------
(* What the code's comments claim *)

\* "cancel only from a non-terminal state": a stored result is never replaced
\* (comment of handle_cancel).
ResultsSurvive ==
  [][\A o \in Owners, t \in Tasks :
       store[o][t] # None /\ store[o][t].state = "COMPLETED"
         => store'[o][t] = store[o][t]]_vars

\* "Per-task CancelTokens back tasks/cancel": the owner of a stream whose token
\* is registered is not told that the task does not exist (header of handlers.rs).
StreamsAreCancelable ==
  [][\A c \in Calls : cpc[c] = "idle" /\ cpc'[c] = "notfound" =>
       ~ (/\ req'[c].op = "cancel"
          /\ req'[c].task \in tokens
          /\ kind[req'[c].task] = "stream"
          /\ owner[req'[c].task] = req'[c].owner)]_vars
=============================================================================
