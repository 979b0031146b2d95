-------------------------- MODULE TaskServerProofs --------------------------
(***************************************************************************)
(* Theorems about TaskServer, for any principals, tasks, calls, webhooks   *)
(* and number of delivery attempts.                                        *)
(***************************************************************************)
EXTENDS TaskServer, TLAPS

\* The outcome of a module's error is a task state.
LEMMA StatusType == \A e \in ErrorKind : error_to_status(e) \in TaskState
  BY DEF ErrorKind, error_to_status, TaskState

\* The first read of a call sends it on or answers it, and hands a cancel a task.
LEMMA TaskReadByType ==
  ASSUME NEW r \in Requests, NEW task \in Task \cup {None}
  PROVE  /\ TaskReadBy(r, task) \in {"signal", "put", "remove"} \cup Answered
         /\ TaskReadBy(r, task) = "signal" => task \in Task /\ task.state \notin Terminal
  BY RequestAssumption DEF TaskReadBy, Answered

\* A notification keeps configurations and deliveries well typed.
LEMMA NotifyType ==
  ASSUME TypeOK, NEW x \in Notifiers, NEW o \in Owners, NEW t \in Tasks,
         NEW s \in TaskState, notify_push(x, o, t, s)
  PROVE  WebhooksTypeOK'
<1>1. CASE configs[o][t] # None /\
           posts' = [posts EXCEPT ![x] =
             [owner |-> o, task |-> t, url |-> configs[o][t], state |-> s,
              left |-> MaxAttempts, hung |-> FALSE]]
  <2>1. configs[o][t] \in Urls
    BY <1>1 DEF TypeOK, WebhooksTypeOK
  <2>2. MaxAttempts \in 0..MaxAttempts
    BY WebhookAssumption
  <2>3. [owner |-> o, task |-> t, url |-> configs[o][t], state |-> s,
              left |-> MaxAttempts, hung |-> FALSE] \in Delivery
    BY <2>1, <2>2 DEF Delivery
  <2> QED BY <1>1, <2>3 DEF TypeOK, WebhooksTypeOK, notify_push
<1>2. CASE UNCHANGED posts
  BY <1>2 DEF TypeOK, WebhooksTypeOK, notify_push
<1> QED BY <1>1, <1>2 DEF notify_push

\* An attempt leaves a delivery of the same owner's same task.
LEMMA AttemptKeeps ==
  ASSUME posts \in [Notifiers -> Delivery \cup {None}], NEW x \in Notifiers, Attempt(x)
  PROVE  \E p \in Delivery :
           /\ posts' = [posts EXCEPT ![x] = p]
           /\ p.owner = posts[x].owner /\ p.task = posts[x].task
<1>1. posts[x] \in Delivery /\ posts[x].left > 0
  BY DEF Attempt
<1>2. posts[x].left - 1 \in 0..MaxAttempts /\ 0 \in 0..MaxAttempts
  BY <1>1, WebhookAssumption DEF Delivery
<1>3. CASE posts' = [posts EXCEPT ![x].left = 0]
  <2> DEFINE p == [posts[x] EXCEPT !.left = 0]
  <2>1. p \in Delivery /\ p.owner = posts[x].owner /\ p.task = posts[x].task
    BY <1>1, <1>2 DEF Delivery
  <2> QED BY <1>3, <2>1
<1>4. CASE posts' = [posts EXCEPT ![x].left = @ - 1]
  <2> DEFINE p == [posts[x] EXCEPT !.left = @ - 1]
  <2>1. p \in Delivery /\ p.owner = posts[x].owner /\ p.task = posts[x].task
    BY <1>1, <1>2 DEF Delivery
  <2> QED BY <1>4, <2>1
<1>5. CASE posts' = [posts EXCEPT ![x].hung = TRUE]
  <2> DEFINE p == [posts[x] EXCEPT !.hung = TRUE]
  <2>1. p \in Delivery /\ p.owner = posts[x].owner /\ p.task = posts[x].task
    BY <1>1 DEF Delivery
  <2> QED BY <1>5, <2>1
<1> QED BY <1>3, <1>4, <1>5 DEF Attempt

\* A store write keeps the store a map of tasks.
LEMMA SaveType ==
  ASSUME TypeOK, NEW o \in Owners, NEW t \in Tasks, NEW task \in Task,
         save(o, t, task)
  PROVE  store' \in [Owners -> [Tasks -> Task \cup {None}]]
  BY DEF TypeOK, save

\* A server that has received nothing is well typed.
LEMMA TypeInit == Init => TypeOK
  BY DEF Init, TypeOK, WebhooksInit, WebhooksTypeOK

\* No step of a handler, a call or a delivery breaks the types.
LEMMA TypeNext == TypeOK /\ [Next]_vars => TypeOK'
<1> SUFFICES ASSUME TypeOK, [Next]_vars PROVE TypeOK'
  OBVIOUS
<1> USE DEF TypeOK, Ended, Answered, messageVars, callVars
<1>1. ASSUME NEW t \in Tasks, ReceiveInvalid(t) PROVE TypeOK'
  BY <1>1 DEF ReceiveInvalid, webhookVars, WebhooksTypeOK
<1>2. ASSUME NEW t \in Tasks, NEW o \in Owners, ReceiveRejected(t, o) PROVE TypeOK'
  BY <1>2 DEF ReceiveRejected, webhookVars, WebhooksTypeOK, TaskState
<1>3. ASSUME NEW t \in Tasks, NEW o \in Owners, ReceiveSend(t, o) PROVE TypeOK'
  BY <1>3 DEF ReceiveSend, webhookVars, WebhooksTypeOK
<1>4. ASSUME NEW t \in Tasks, NEW o \in Owners, ReceiveStream(t, o) PROVE TypeOK'
  BY <1>4 DEF ReceiveStream, webhookVars, WebhooksTypeOK, TaskState
<1>5. ASSUME NEW t \in Tasks, SaveSubmitted(t) PROVE TypeOK'
  <2>1. [state |-> "SUBMITTED", has_result |-> FALSE] \in Task
    BY DEF Task, TaskState
  <2>2. owner[t] \in Owners
    BY <1>5 DEF SaveSubmitted
  <2>3. store' \in [Owners -> [Tasks -> Task \cup {None}]]
    <3>1. CASE save(owner[t], t, [state |-> "SUBMITTED", has_result |-> FALSE])
      BY <3>1, <2>1, <2>2, SaveType
    <3>2. CASE UNCHANGED store
      BY <3>2
    <3> QED BY <1>5, <3>1, <3>2 DEF SaveSubmitted
  <2> QED BY <1>5, <2>3 DEF SaveSubmitted, webhookVars, WebhooksTypeOK
<1>6. ASSUME NEW t \in Tasks, ModuleReturns(t) PROVE TypeOK'
  <2>1. \E s \in TaskState : status' = [status EXCEPT ![t] = s]
    BY <1>6, StatusType DEF ModuleReturns, TaskState
  <2> QED BY <1>6, <2>1 DEF ModuleReturns, webhookVars, WebhooksTypeOK
<1>7. ASSUME NEW t \in Tasks, TimeoutElapses(t) PROVE TypeOK'
  <2>1. error_to_status("ModuleTimeout") \in TaskState
    BY StatusType DEF ErrorKind
  <2> QED BY <1>7, <2>1 DEF TimeoutElapses, webhookVars, WebhooksTypeOK
<1>8. ASSUME NEW t \in Tasks, SaveFinal(t) PROVE TypeOK'
  <2>1. FinalTask(t) \in Task
    BY <1>8 DEF SaveFinal, FinalTask, Task
  <2> QED BY <1>8, <2>1 DEF SaveFinal, save, webhookVars, WebhooksTypeOK
<1>9. ASSUME NEW t \in Tasks, SaveFinalFails(t) PROVE TypeOK'
  BY <1>9 DEF SaveFinalFails, CancelGuard_drop, webhookVars, WebhooksTypeOK
<1>10. ASSUME NEW t \in Tasks, NotifyMessage(t) PROVE TypeOK'
  <2>1. WebhooksTypeOK'
    BY <1>10, NotifyType DEF NotifyMessage, Notifiers
  <2> QED BY <1>10, <2>1 DEF NotifyMessage, CancelGuard_drop
<1>11. ASSUME NEW t \in Tasks, SendLastEvent(t) PROVE TypeOK'
  BY <1>11 DEF SendLastEvent, CancelGuard_drop, webhookVars, WebhooksTypeOK
<1>12. ASSUME NEW t \in Tasks, Disconnect(t) PROVE TypeOK'
  BY <1>12 DEF Disconnect, CancelGuard_drop, webhookVars, WebhooksTypeOK
<1>13. ASSUME NEW c \in Calls, NEW r \in Requests, LookUp(c, r) PROVE TypeOK'
  <2>1. r.owner \in Owners /\ r.task \in Tasks
    BY RequestAssumption
  <2>2. handle_get(r.owner, r.task) \in Task \cup {None}
    BY <2>1 DEF handle_get
  <2> HIDE DEF Answered
  <2>3. \/ /\ cpc' = [cpc EXCEPT ![c] = "internal"]
           /\ UNCHANGED seen
        \/ \E a \in {"signal", "put", "remove"} \cup Answered,
              task \in Task \cup {None} :
             /\ a = "signal" => task \in Task
             /\ cpc' = [cpc EXCEPT ![c] = a]
             /\ seen' = [seen EXCEPT ![c] = task]
    BY <1>13, <2>2, TaskReadByType DEF LookUp
  <2>4. /\ cpc' \in [Calls -> {"idle", "signal", "write", "notify", "put", "remove"}
                            \cup Answered]
        /\ seen' \in [Calls -> Task \cup {None}]
    BY <2>3 DEF Answered
  <2>5. \A d \in Calls : cpc'[d] \in {"signal", "write"} => seen'[d] \in Task
    BY <2>3 DEF Answered
  <2> QED BY <1>13, <2>4, <2>5 DEF LookUp, webhookVars, WebhooksTypeOK
<1>14. ASSUME NEW c \in Calls, SignalToken(c) PROVE TypeOK'
  BY <1>14 DEF SignalToken, webhookVars, WebhooksTypeOK
<1>15. ASSUME NEW c \in Calls, WriteCanceled(c) PROVE TypeOK'
  <2>1. [seen[c] EXCEPT !.state = "CANCELED"] \in Task
    BY <1>15 DEF WriteCanceled, Task, TaskState
  <2>2. req[c].owner \in Owners /\ req[c].task \in Tasks
    BY <1>15, RequestAssumption DEF WriteCanceled
  <2> QED BY <1>15, <2>1, <2>2 DEF WriteCanceled, save, webhookVars, WebhooksTypeOK
<1>16. ASSUME NEW c \in Calls, NotifyCanceled(c) PROVE TypeOK'
  <2>1. req[c].owner \in Owners /\ req[c].task \in Tasks
    BY <1>16, RequestAssumption DEF NotifyCanceled
  <2>2. WebhooksTypeOK'
    BY <1>16, <2>1, NotifyType DEF NotifyCanceled, Notifiers, TaskState
  <2> QED BY <1>16, <2>2 DEF NotifyCanceled
<1>17. ASSUME NEW c \in Calls, PutConfig(c) PROVE TypeOK'
  <2>1. req[c].owner \in Owners /\ req[c].task \in Tasks /\ req[c].url \in Urls
    BY <1>17, RequestAssumption DEF PutConfig
  <2> QED BY <1>17, <2>1 DEF PutConfig, save_config, WebhooksTypeOK
<1>18. ASSUME NEW c \in Calls, RemoveConfig(c) PROVE TypeOK'
  <2>1. req[c].owner \in Owners /\ req[c].task \in Tasks
    BY <1>18, RequestAssumption DEF RemoveConfig
  <2> QED BY <1>18, <2>1 DEF RemoveConfig, delete_config, WebhooksTypeOK
<1>19. ASSUME NEW c \in Calls, WriteFails(c) PROVE TypeOK'
  BY <1>19 DEF WriteFails, webhookVars, WebhooksTypeOK
<1>20. ASSUME NEW c \in Calls, DropCall(c) PROVE TypeOK'
  BY <1>20 DEF DropCall, webhookVars, WebhooksTypeOK
<1>21. ASSUME NEW x \in Notifiers, Deliver(x) PROVE TypeOK'
  <2>1. \E p \in Delivery : posts' = [posts EXCEPT ![x] = p]
    BY <1>21, AttemptKeeps DEF Deliver, WebhooksTypeOK
  <2> QED BY <1>21, <2>1 DEF Deliver, Attempt, WebhooksTypeOK
<1>22. CASE UNCHANGED vars
  BY <1>22 DEF vars, webhookVars, WebhooksTypeOK
<1> QED
  BY <1>1, <1>2, <1>3, <1>4, <1>5, <1>6, <1>7, <1>8, <1>9, <1>10, <1>11, <1>12,
     <1>13, <1>14, <1>15, <1>16, <1>17, <1>18, <1>19, <1>20, <1>21, <1>22
     DEF Next, Receive, HandlerStep, CallStep

\* TypeOK is an invariant.
THEOREM TypeCorrect == Spec => []TypeOK
  BY TypeInit, TypeNext, PTL DEF Spec

-----------------------------------------------------------------------------
(* Cancel tokens *)

\* The tokens registered and those cancelled cover exactly the drivers running.
TokenInv == TokensAreLive /\ RunningIsCancelable

\* No driver runs and no token is registered at first.
LEMMA TokenInit == Init => TokenInv
  BY DEF Init, TokenInv, TokensAreLive, RunningIsCancelable, Live

\* A driver registers its token as it starts and drops it as it ends; a cancel
\* takes a token only to cancel it.
LEMMA TokenNext == TypeOK /\ TokenInv /\ [Next]_vars => TokenInv'
<1> SUFFICES ASSUME TypeOK, TokenInv, [Next]_vars PROVE TokenInv'
  OBVIOUS
<1>0. /\ pc \in [Tasks -> {"idle", "submit", "run", "save", "notify", "last"} \cup Ended]
      /\ kind \in [Tasks -> {"send", "stream", "reject", None}]
      /\ tokens \in SUBSET Tasks
  BY DEF TypeOK
<1> USE <1>0 DEF TokenInv, TokensAreLive, RunningIsCancelable, Live, Ended
<1>1. ASSUME NEW t \in Tasks, Receive(t) PROVE TokenInv'
  BY <1>1 DEF Receive, ReceiveInvalid, ReceiveRejected, ReceiveSend, ReceiveStream
<1>2. ASSUME NEW t \in Tasks, SaveSubmitted(t) PROVE TokenInv'
  BY <1>2 DEF SaveSubmitted
<1>3. ASSUME NEW t \in Tasks, ModuleReturns(t) PROVE TokenInv'
  BY <1>3 DEF ModuleReturns
<1>4. ASSUME NEW t \in Tasks, TimeoutElapses(t) PROVE TokenInv'
  BY <1>4 DEF TimeoutElapses
<1>5. ASSUME NEW t \in Tasks, SaveFinal(t) PROVE TokenInv'
  BY <1>5 DEF SaveFinal
<1>6. ASSUME NEW t \in Tasks, SaveFinalFails(t) PROVE TokenInv'
  BY <1>6 DEF SaveFinalFails, CancelGuard_drop
<1>7. ASSUME NEW t \in Tasks, NotifyMessage(t) PROVE TokenInv'
  BY <1>7 DEF NotifyMessage, CancelGuard_drop
<1>8. ASSUME NEW t \in Tasks, SendLastEvent(t) PROVE TokenInv'
  BY <1>8 DEF SendLastEvent, CancelGuard_drop
<1>9. ASSUME NEW t \in Tasks, Disconnect(t) PROVE TokenInv'
  BY <1>9 DEF Disconnect, CancelGuard_drop
<1>10. ASSUME NEW c \in Calls, SignalToken(c) PROVE TokenInv'
  BY <1>10 DEF SignalToken, messageVars
<1>11. CASE UNCHANGED <<messageVars, tokens, signalled>>
  BY <1>11 DEF messageVars
<1> QED
  <2>1. ASSUME NEW c \in Calls, NEW r \in Requests, LookUp(c, r)
        PROVE  UNCHANGED <<messageVars, tokens, signalled>>
    BY <2>1 DEF LookUp
  <2>2. ASSUME NEW c \in Calls, CallStep(c) \/ DropCall(c), ~ SignalToken(c)
        PROVE  UNCHANGED <<messageVars, tokens, signalled>>
    BY <2>2 DEF CallStep, DropCall, WriteCanceled, NotifyCanceled, PutConfig,
                RemoveConfig, WriteFails
  <2>3. ASSUME NEW x \in Notifiers, Deliver(x)
        PROVE  UNCHANGED <<messageVars, tokens, signalled>>
    BY <2>3 DEF Deliver
  <2>4. ASSUME UNCHANGED vars PROVE UNCHANGED <<messageVars, tokens, signalled>>
    BY <2>4 DEF vars
  <2> QED BY <1>1, <1>2, <1>3, <1>4, <1>5, <1>6, <1>7, <1>8, <1>9, <1>10, <1>11,
             <2>1, <2>2, <2>3, <2>4 DEF Next, HandlerStep

\* No way out of a handler leaves its cancel token registered.
THEOREM TokensNeverLeak == Spec => []TokensAreLive
<1>1. TokenInv => TokensAreLive
  BY DEF TokenInv
<1> QED BY <1>1, TypeCorrect, TokenInit, TokenNext, PTL DEF Spec

\* A running module has a registered token or has been told to stop.
THEOREM RunningModulesCancelable == Spec => []RunningIsCancelable
<1>1. TokenInv => RunningIsCancelable
  BY DEF TokenInv
<1> QED BY <1>1, TypeCorrect, TokenInit, TokenNext, PTL DEF Spec

-----------------------------------------------------------------------------
(* Ownership *)

\* A call past its first read acts for the sender of the message. An id no
\* message has taken belongs to nobody, so nothing is stored under it.
OwnerInv ==
  /\ \A t \in Tasks : pc[t] = "idle" => owner[t] = None
  /\ OwnerScoped
  /\ SignalledByOwner
  /\ \A c \in Calls : cpc[c] \in {"signal", "write", "put", "remove"} =>
                       req[c].owner = owner[req[c].task]
  /\ \A c \in Calls : cpc[c] = "signal" => req[c].op = "cancel"
  /\ \A c \in Calls : cpc[c] = "write" => req[c].op = "cancel"

\* Nothing is stored for anybody at first.
LEMMA OwnerInit == Init => OwnerInv
  BY DEF Init, WebhooksInit, OwnerInv, OwnerScoped, SignalledByOwner

\* A cancelled token keeps its witness while calls only go forward and
\* messages keep their senders.
LEMMA WitnessKept ==
  ASSUME TypeOK, SignalledByOwner, UNCHANGED signalled,
         \A t \in Tasks : owner[t] \in Owners => owner'[t] = owner[t],
         \A c \in Calls : cpc[c] \in {"write", "notify", "ok", "internal", "gone"} =>
            /\ cpc'[c] \in {"write", "notify", "ok", "internal", "gone"}
            /\ req'[c] = req[c]
  PROVE  SignalledByOwner'
<1> SUFFICES ASSUME NEW t \in signalled'
             PROVE  \E c \in Calls :
                      /\ cpc'[c] \in {"write", "notify", "ok", "internal", "gone"}
                      /\ req'[c] # None /\ req'[c].op = "cancel"
                      /\ req'[c].task = t /\ req'[c].owner = owner'[t]
  BY DEF SignalledByOwner
<1>1. PICK c \in Calls : /\ cpc[c] \in {"write", "notify", "ok", "internal", "gone"}
                         /\ req[c] # None /\ req[c].op = "cancel"
                         /\ req[c].task = t /\ req[c].owner = owner[t]
  BY DEF SignalledByOwner
<1>2. owner[t] \in Owners /\ t \in Tasks
  BY <1>1, RequestAssumption DEF TypeOK
<1> QED BY <1>1, <1>2

\* Only the sender's own requests write under its message's id.
LEMMA OwnerNext == TypeOK /\ OwnerInv /\ [Next]_vars => OwnerInv'
<1> SUFFICES ASSUME TypeOK, OwnerInv, [Next]_vars PROVE OwnerInv'
  OBVIOUS
<1>0. /\ pc \in [Tasks -> {"idle", "submit", "run", "save", "notify", "last"} \cup Ended]
      /\ owner \in [Tasks -> Owners \cup {None}]
      /\ None \notin Owners
      /\ store \in [Owners -> [Tasks -> Task \cup {None}]]
      /\ configs \in [Owners -> [Tasks -> Urls \cup {None}]]
      /\ \A t \in Tasks : pc[t] \notin {"idle", "refused"} => owner[t] \in Owners
  BY WebhookAssumption DEF TypeOK, WebhooksTypeOK
<1>a. /\ cpc \in [Calls -> {"idle", "signal", "write", "notify", "put", "remove"} \cup Answered]
      /\ req \in [Calls -> Requests \cup {None}]
      /\ \A c \in Calls : cpc[c] # "idle" =>
           req[c] \in Requests /\ req[c].owner \in Owners /\ req[c].task \in Tasks
      /\ tokens \in SUBSET Tasks /\ signalled \in SUBSET Tasks
  BY RequestAssumption DEF TypeOK
<1>1. ASSUME NEW t \in Tasks, Receive(t) PROVE OwnerInv'
  <2>1. /\ pc[t] = "idle" /\ owner[t] = None /\ pc'[t] # "idle"
        /\ \A u \in Tasks : u # t => owner'[u] = owner[u] /\ pc'[u] = pc[u]
        /\ UNCHANGED <<callVars, store, signalled, webhookVars>>
    BY <1>0, <1>1 DEF Receive, ReceiveInvalid, ReceiveRejected, ReceiveSend,
                       ReceiveStream, OwnerInv
  <2>2. \A u \in Tasks : owner[u] \in Owners => owner'[u] = owner[u]
    BY <1>0, <2>1
  <2>3. SignalledByOwner'
    BY <2>1, <2>2, WitnessKept DEF OwnerInv, callVars
  <2>4. OwnerScoped'
    BY <1>0, <2>1, <2>2 DEF OwnerInv, OwnerScoped, webhookVars
  <2> QED BY <1>a, <2>1, <2>2, <2>3, <2>4 DEF OwnerInv, callVars
\* What a step that writes no new store entry, config or signal must keep.
<1>2. ASSUME UNCHANGED <<owner, signalled>>,
             \A t \in Tasks : pc'[t] = "idle" => pc[t] = "idle",
             \A o \in Owners, t \in Tasks :
               store'[o][t] # None \/ configs'[o][t] # None => owner[t] = o,
             \A c \in Calls :
               \/ cpc'[c] = cpc[c] /\ req'[c] = req[c]
               \/ /\ cpc[c] \notin {"idle"}
                  /\ req'[c] = req[c]
                  /\ cpc'[c] \in {"notify", "ok", "internal", "gone"}
        PROVE OwnerInv'
  <2>1. SignalledByOwner'
    BY <1>2, WitnessKept DEF OwnerInv
  <2> QED BY <1>2, <2>1 DEF OwnerInv, OwnerScoped
<1>3. ASSUME NEW t \in Tasks, SaveSubmitted(t) \/ SaveFinal(t) PROVE OwnerInv'
  <2>1. owner[t] \in Owners /\ UNCHANGED <<owner, signalled, callVars, webhookVars>>
    BY <1>0, <1>3 DEF SaveSubmitted, SaveFinal
  <2>2. \A o \in Owners, u \in Tasks : store'[o][u] # None =>
          store[o][u] # None \/ (o = owner[t] /\ u = t)
    BY <1>0, <1>3, <2>1 DEF SaveSubmitted, SaveFinal, save
  <2>3. \A u \in Tasks : pc'[u] = "idle" => pc[u] = "idle"
    BY <1>0, <1>3 DEF SaveSubmitted, SaveFinal
  <2> QED BY <1>2, <2>1, <2>2, <2>3 DEF OwnerInv, OwnerScoped, callVars, webhookVars
<1>4. ASSUME NEW t \in Tasks, \/ ModuleReturns(t) \/ TimeoutElapses(t) \/ Disconnect(t)
                             \/ SaveFinalFails(t) \/ SendLastEvent(t) \/ NotifyMessage(t)
      PROVE OwnerInv'
  <2>1. UNCHANGED <<owner, signalled, callVars, store, configs>>
    BY <1>4 DEF ModuleReturns, TimeoutElapses, Disconnect, SaveFinalFails,
                SendLastEvent, NotifyMessage, webhookVars, notify_push
  <2>2. \A u \in Tasks : pc'[u] = "idle" => pc[u] = "idle"
    BY <1>0, <1>4 DEF ModuleReturns, TimeoutElapses, Disconnect, SaveFinalFails,
                      SendLastEvent, NotifyMessage
  <2> QED BY <1>2, <2>1, <2>2 DEF OwnerInv, OwnerScoped, callVars
<1>5. ASSUME NEW c \in Calls, NEW r \in Requests, LookUp(c, r) PROVE OwnerInv'
  <2>1. /\ cpc[c] = "idle" /\ req' = [req EXCEPT ![c] = r]
        /\ \A d \in Calls : d # c => cpc'[d] = cpc[d] /\ req'[d] = req[d]
        /\ UNCHANGED <<messageVars, store, tokens, signalled, webhookVars>>
        /\ req'[c] = r
    BY <1>5, <1>a DEF LookUp
  <2>2. r.owner \in Owners /\ r.task \in Tasks
    BY RequestAssumption
  <2>3. \/ cpc'[c] = "internal"
        \/ cpc'[c] = TaskReadBy(r, store[r.owner][r.task])
    BY <1>5, <1>a DEF LookUp, handle_get
  <2>4. cpc'[c] \in {"signal", "write", "put", "remove"} => store[r.owner][r.task] # None
    BY <2>3 DEF TaskReadBy
  <2>5. cpc'[c] \in {"signal", "write"} => r.op = "cancel"
    BY <2>2, <2>3, RequestAssumption DEF TaskReadBy
  <2>6. SignalledByOwner'
    BY <2>1, WitnessKept DEF OwnerInv, messageVars
  <2> QED BY <2>1, <2>2, <2>4, <2>5, <2>6 DEF OwnerInv, OwnerScoped, messageVars, webhookVars
<1>6. ASSUME NEW c \in Calls, SignalToken(c) PROVE OwnerInv'
  <2>1. /\ cpc[c] = "signal" /\ cpc' = [cpc EXCEPT ![c] = "write"]
        /\ signalled' = signalled \cup (tokens \cap {req[c].task})
        /\ UNCHANGED <<messageVars, req, store, webhookVars>>
        /\ req[c] # None
    BY <1>6, <1>a, RequestAssumption DEF SignalToken
  <2>2. SignalledByOwner'
    <3> SUFFICES ASSUME NEW t \in signalled'
                 PROVE  \E d \in Calls :
                          /\ cpc'[d] \in {"write", "notify", "ok", "internal", "gone"}
                          /\ req[d] # None /\ req[d].op = "cancel"
                          /\ req[d].task = t /\ req[d].owner = owner[t]
      BY <2>1 DEF SignalledByOwner, messageVars
    <3>1. CASE t \in signalled
      BY <1>a, <2>1, <3>1 DEF OwnerInv, SignalledByOwner
    <3>2. CASE t = req[c].task
      BY <1>a, <2>1, <3>2 DEF OwnerInv
    <3> QED BY <2>1, <3>1, <3>2
  <2> QED BY <1>a, <2>1, <2>2 DEF OwnerInv, OwnerScoped, messageVars, webhookVars
<1>7. ASSUME NEW c \in Calls, WriteCanceled(c) PROVE OwnerInv'
  <2>1. \A o \in Owners, u \in Tasks : store'[o][u] # None =>
          store[o][u] # None \/ owner[u] = o
    BY <1>0, <1>a, <1>7 DEF WriteCanceled, save, OwnerInv
  <2> QED BY <1>2, <1>a, <1>7, <2>1 DEF WriteCanceled, OwnerInv, OwnerScoped, messageVars, webhookVars
<1>8. ASSUME NEW c \in Calls, PutConfig(c) \/ RemoveConfig(c) PROVE OwnerInv'
  <2>1. \A o \in Owners, u \in Tasks : configs'[o][u] # None =>
          configs[o][u] # None \/ owner[u] = o
    <3>1. CASE PutConfig(c)
      BY <1>0, <1>a, <3>1 DEF PutConfig, save_config, OwnerInv
    <3>2. CASE RemoveConfig(c)
      BY <1>0, <1>a, <3>2 DEF RemoveConfig, delete_config
    <3> QED BY <1>8, <3>1, <3>2
  <2> QED BY <1>2, <1>a, <1>8, <2>1 DEF PutConfig, RemoveConfig, OwnerInv, OwnerScoped, messageVars
<1>9. ASSUME NEW c \in Calls, NotifyCanceled(c) \/ WriteFails(c) \/ DropCall(c)
      PROVE OwnerInv'
  BY <1>2, <1>a, <1>9 DEF NotifyCanceled, WriteFails, DropCall, notify_push, OwnerInv,
                          OwnerScoped, messageVars, webhookVars
<1>10. ASSUME NEW x \in Notifiers, Deliver(x) PROVE OwnerInv'
  BY <1>2, <1>10 DEF Deliver, Attempt, OwnerInv, OwnerScoped, messageVars, callVars
<1>11. CASE UNCHANGED vars
  BY <1>2, <1>11 DEF vars, OwnerInv, OwnerScoped, messageVars, callVars, webhookVars
<1> QED BY <1>1, <1>3, <1>4, <1>5, <1>6, <1>7, <1>8, <1>9, <1>10, <1>11
           DEF Next, HandlerStep, CallStep

\* Every stored task and webhook is the message sender's.
THEOREM StoreIsOwnerScoped == Spec => []OwnerScoped
<1>1. OwnerInv => OwnerScoped
  BY DEF OwnerInv
<1> QED BY <1>1, TypeCorrect, OwnerInit, OwnerNext, PTL DEF Spec

\* A module is only ever told to stop on behalf of the sender of its message.
THEOREM OnlyOwnersSignal == Spec => []SignalledByOwner
<1>1. OwnerInv => SignalledByOwner
  BY DEF OwnerInv
<1> QED BY <1>1, TypeCorrect, OwnerInit, OwnerNext, PTL DEF Spec

-----------------------------------------------------------------------------
(* Settled tasks *)

\* A step that writes no store entry, moves no handler back and starts no
\* cancel on a settled task leaves it settled.
LEMMA SettledKept ==
  ASSUME NEW o \in Owners, NEW t \in Tasks, Settled(o, t),
         store'[o][t] = store[o][t],
         pc'[t] \in {"notify", "last"} \cup Ended,
         \A c \in Calls : cpc'[c] \in {"signal", "write"} /\ req'[c].task = t /\ req'[c].owner = o
            => cpc[c] \in {"signal", "write"} /\ req[c] = req'[c]
  PROVE  store'[o][t] = store[o][t] /\ Settled(o, t)'
  BY DEF Settled, Canceling

\* Each step leaves every settled task as it is, and settled.
LEMMA SettledStep ==
  ASSUME TypeOK, Next, NEW o \in Owners, NEW t \in Tasks, Settled(o, t)
  PROVE  store'[o][t] = store[o][t] /\ Settled(o, t)'
<1> DEFINE Goal == store'[o][t] = store[o][t] /\ Settled(o, t)'
<1> SUFFICES Goal
  OBVIOUS
<1>0. /\ pc \in [Tasks -> {"idle", "submit", "run", "save", "notify", "last"} \cup Ended]
      /\ pc[t] \in {"notify", "last"} \cup Ended
      /\ store \in [Owners -> [Tasks -> Task \cup {None}]]
      /\ store[o][t] # None /\ store[o][t].state \in Terminal
      /\ \A c \in Calls : cpc[c] \in {"signal", "write"} =>
                           ~ (req[c].task = t /\ req[c].owner = o)
  BY DEF TypeOK, Settled, Canceling
<1>a. /\ cpc \in [Calls -> {"idle", "signal", "write", "notify", "put", "remove"} \cup Answered]
      /\ req \in [Calls -> Requests \cup {None}]
      /\ \A u \in Tasks : pc[u] \notin {"idle", "refused"} => owner[u] \in Owners
      /\ \A c \in Calls : cpc[c] # "idle" =>
           req[c] \in Requests /\ req[c].owner \in Owners /\ req[c].task \in Tasks
  BY RequestAssumption DEF TypeOK
<1> HIDE DEF Goal
<1>1. ASSUME NEW u \in Tasks, \/ Receive(u) \/ ModuleReturns(u) \/ TimeoutElapses(u)
                             \/ Disconnect(u) \/ SaveFinalFails(u) \/ SendLastEvent(u)
                             \/ NotifyMessage(u)
      PROVE Goal
  <2>1. UNCHANGED <<store, callVars>>
    BY <1>1 DEF Receive, ReceiveInvalid, ReceiveRejected, ReceiveSend, ReceiveStream,
                ModuleReturns, TimeoutElapses, Disconnect, SaveFinalFails, SendLastEvent,
                NotifyMessage
  <2>2. pc'[t] \in {"notify", "last"} \cup Ended
    BY <1>0, <1>1 DEF Receive, ReceiveInvalid, ReceiveRejected, ReceiveSend, ReceiveStream,
                ModuleReturns, TimeoutElapses, Disconnect, SaveFinalFails, SendLastEvent,
                NotifyMessage, Ended
  <2> QED BY <2>1, <2>2, SettledKept DEF Goal, callVars
<1>2. ASSUME NEW u \in Tasks, SaveSubmitted(u) \/ SaveFinal(u) PROVE Goal
  <2>1. pc[u] \in {"submit", "save"} /\ u # t /\ owner[u] \in Owners
    BY <1>0, <1>a, <1>2 DEF SaveSubmitted, SaveFinal, Ended
  <2>2. store'[o][t] = store[o][t]
    BY <1>0, <1>2, <2>1 DEF SaveSubmitted, SaveFinal, save
  <2>3. pc'[t] = pc[t] /\ UNCHANGED callVars
    BY <1>0, <1>2, <2>1 DEF SaveSubmitted, SaveFinal
  <2> QED BY <1>0, <2>2, <2>3, SettledKept DEF Goal, callVars
<1>3. ASSUME NEW c \in Calls, NEW r \in Requests, LookUp(c, r) PROVE Goal
  <2>1. /\ \A d \in Calls : d # c => cpc'[d] = cpc[d] /\ req'[d] = req[d]
        /\ UNCHANGED <<messageVars, store>>
        /\ req'[c] = r
        /\ \/ cpc'[c] = "internal"
           \/ cpc'[c] = TaskReadBy(r, store[r.owner][r.task])
    BY <1>3, <1>a DEF LookUp, handle_get
  <2>2. r.task = t /\ r.owner = o => cpc'[c] \notin {"signal", "write"}
    BY <1>0, <2>1, RequestAssumption DEF TaskReadBy
  <2> QED BY <1>0, <2>1, <2>2, SettledKept DEF Goal, messageVars
<1>4. ASSUME NEW c \in Calls, SignalToken(c) PROVE Goal
  <2>1. /\ cpc[c] = "signal" /\ cpc' = [cpc EXCEPT ![c] = "write"]
        /\ UNCHANGED <<messageVars, req, store>>
    BY <1>4 DEF SignalToken
  <2> QED BY <1>0, <1>a, <2>1, SettledKept DEF Goal, messageVars
<1>5. ASSUME NEW c \in Calls, WriteCanceled(c) PROVE Goal
  <2>1. ~ (req[c].task = t /\ req[c].owner = o)
    BY <1>0, <1>5 DEF WriteCanceled
  <2>2. store'[o][t] = store[o][t]
    BY <1>0, <1>a, <1>5, <2>1 DEF WriteCanceled, save
  <2>3. cpc' = [cpc EXCEPT ![c] = "notify"] /\ UNCHANGED <<messageVars, req>>
    BY <1>5 DEF WriteCanceled
  <2> QED BY <1>0, <1>a, <2>2, <2>3, SettledKept DEF Goal, messageVars
<1>6. ASSUME NEW c \in Calls, \/ NotifyCanceled(c) \/ PutConfig(c) \/ RemoveConfig(c)
                             \/ WriteFails(c) \/ DropCall(c)
      PROVE Goal
  <2>1. UNCHANGED <<messageVars, req, store>>
    BY <1>6 DEF NotifyCanceled, PutConfig, RemoveConfig, WriteFails, DropCall
  <2>2. \A d \in Calls : cpc'[d] \in {"signal", "write"} => cpc[d] = cpc'[d]
    BY <1>6, <1>a DEF NotifyCanceled, PutConfig, RemoveConfig, WriteFails, DropCall
  <2> QED BY <1>0, <2>1, <2>2, SettledKept DEF Goal, messageVars
<1>7. ASSUME NEW x \in Notifiers, Deliver(x) PROVE Goal
  BY <1>0, <1>7, SettledKept DEF Goal, Deliver, messageVars, callVars
<1> QED BY <1>1, <1>2, <1>3, <1>4, <1>5, <1>6, <1>7 DEF Next, HandlerStep, CallStep

\* Once nothing works on a terminal task any more, no later request changes it.
THEOREM SettledTasksFinal == Spec => SettledIsFinal
<1>1. TypeOK /\ [Next]_vars =>
        [\A o \in Owners, t \in Tasks : Settled(o, t) =>
           store'[o][t] = store[o][t] /\ Settled(o, t)']_vars
  BY SettledStep
<1> QED BY <1>1, TypeCorrect, PTL DEF Spec, SettledIsFinal

-----------------------------------------------------------------------------
(* Answers and notices *)

\* The store holds an answer for the task: the outcome of its handler or a
\* cancellation. While the module runs only a cancel can have written one.
Backed(o, t) ==
  /\ store[o][t] # None
  /\ store[o][t].state \in {status[t], "CANCELED"}
  /\ pc[t] \notin {"idle", "submit"}
  /\ pc[t] = "run" => store[o][t].state = "CANCELED"

\* Whatever was answered or posted is backed, and a message/send that has not
\* stored its outcome, or could not, has left no outcome.
AnswerInv ==
  /\ \A o \in Owners, t \in Tasks : store[o][t] # None => pc[t] \notin {"idle", "submit"}
  /\ \A c \in Calls : cpc[c] \in {"signal", "write"} => pc[req[c].task] \notin {"idle", "submit"}
  /\ \A c \in Calls : cpc[c] = "notify" \/ (cpc[c] = "ok" /\ req[c].op = "cancel")
       => Backed(req[c].owner, req[c].task)
  /\ \A t \in Tasks : kind[t] = "send" /\ pc[t] \in {"notify", "last", "done"} => Backed(owner[t], t)
  /\ \A t \in Tasks : kind[t] = "send" /\ pc[t] \in {"submit", "run", "save", "failed"} =>
       \/ store[owner[t]][t] = None
       \/ store[owner[t]][t].state \in {"SUBMITTED", "CANCELED"}
  /\ \A c \in Calls : cpc[c] \in {"put", "remove"} => req[c].op # "cancel"
  /\ \A x \in Tasks : posts[x] # None => pc[x] # "idle"
  /\ \A x \in Notifiers : posts[x] # None /\ (x \in Tasks => kind[x] = "send")
       => Backed(posts[x].owner, posts[x].task)

\* Nothing has been answered at first.
LEMMA AnswerInit == Init => AnswerInv
  BY DEF Init, WebhooksInit, AnswerInv, Notifiers

\* Which store entries a step may change, and to what.
LEMMA StoreStep ==
  ASSUME TypeOK, Next
  PROVE  \/ UNCHANGED store
         \/ \E t \in Tasks : /\ SaveSubmitted(t) /\ pc[t] = "submit"
                             /\ store' = [store EXCEPT ![owner[t]][t] =
                                   [state |-> "SUBMITTED", has_result |-> FALSE]]
         \/ \E t \in Tasks : /\ SaveFinal(t) /\ pc[t] = "save"
                             /\ store' = [store EXCEPT ![owner[t]][t] = FinalTask(t)]
         \/ \E c \in Calls : /\ WriteCanceled(c) /\ cpc[c] = "write"
                             /\ store' = [store EXCEPT ![req[c].owner][req[c].task] =
                                   [seen[c] EXCEPT !.state = "CANCELED"]]
  BY DEF Next, Receive, HandlerStep, CallStep, ReceiveInvalid, ReceiveRejected, ReceiveSend,
         ReceiveStream, SaveSubmitted, SaveFinal, SaveFinalFails, NotifyMessage,
         SendLastEvent, ModuleReturns, TimeoutElapses, Disconnect, LookUp, SignalToken,
         WriteCanceled, NotifyCanceled, PutConfig, RemoveConfig, WriteFails, DropCall,
         Deliver, save

\* How a step may move a handler that is past its first write.
LEMMA MessageStep ==
  ASSUME TypeOK, Next, NEW t \in Tasks, pc[t] \notin {"idle", "submit"}
  PROVE  /\ owner'[t] = owner[t] /\ kind'[t] = kind[t]
         /\ pc'[t] \notin {"idle", "submit"}
         /\ \/ pc'[t] = pc[t] /\ status'[t] = status[t]
            \/ pc[t] = "run" /\ pc'[t] \in {"save", "gone"}
            \/ pc[t] # "run" /\ status'[t] = status[t] /\ pc'[t] # "run"
<1>0. /\ pc \in [Tasks -> {"idle", "submit", "run", "save", "notify", "last"} \cup Ended]
      /\ status \in [Tasks -> TaskState \cup {None}]
      /\ owner \in [Tasks -> Owners \cup {None}]
      /\ kind \in [Tasks -> {"send", "stream", "reject", None}]
  BY DEF TypeOK
<1>1. ASSUME NEW u \in Tasks, Receive(u)
      PROVE  u # t /\ \A v \in Tasks : v # u => /\ pc'[v] = pc[v] /\ status'[v] = status[v]
                                             /\ owner'[v] = owner[v] /\ kind'[v] = kind[v]
  BY <1>0, <1>1 DEF Receive, ReceiveInvalid, ReceiveRejected, ReceiveSend, ReceiveStream
<1>2. ASSUME NEW u \in Tasks, ModuleReturns(u) \/ TimeoutElapses(u)
      PROVE  /\ pc[u] = "run" /\ pc' = [pc EXCEPT ![u] = "save"]
             /\ \A v \in Tasks : v # u => status'[v] = status[v]
             /\ UNCHANGED <<owner, kind>>
  BY <1>0, <1>2 DEF ModuleReturns, TimeoutElapses
<1>3. ASSUME NEW u \in Tasks, HandlerStep(u) \/ Disconnect(u)
      PROVE  /\ UNCHANGED <<owner, kind, status>>
             /\ \/ pc[u] = "submit"
                \/ pc[u] = "run" /\ pc' = [pc EXCEPT ![u] = "gone"]
                \/ pc[u] # "run" /\ pc'[u] \notin {"idle", "submit", "run"}
             /\ \A v \in Tasks : v # u => pc'[v] = pc[v]
  BY <1>0, <1>3 DEF HandlerStep, SaveSubmitted, SaveFinal, SaveFinalFails, NotifyMessage,
                    SendLastEvent, Disconnect
<1>4. ASSUME NEW c \in Calls, (\E r \in Requests : LookUp(c, r)) \/ CallStep(c) \/ DropCall(c)
      PROVE  UNCHANGED messageVars
  BY <1>4 DEF LookUp, CallStep, SignalToken, WriteCanceled, NotifyCanceled, PutConfig,
              RemoveConfig, WriteFails, DropCall
<1>5. ASSUME NEW x \in Notifiers, Deliver(x) PROVE UNCHANGED messageVars
  BY <1>5 DEF Deliver
<1> QED BY <1>0, <1>1, <1>2, <1>3, <1>4, <1>5 DEF Next, messageVars

\* Nothing takes back what backs an answer.
LEMMA BackedStable ==
  ASSUME TypeOK, Next, NEW o \in Owners, NEW t \in Tasks, Backed(o, t)
  PROVE  Backed(o, t)'
<1>0. /\ store \in [Owners -> [Tasks -> Task \cup {None}]]
      /\ pc[t] \notin {"idle", "submit"}
      /\ None \notin Task
      /\ \A u \in Tasks : pc[u] \notin {"idle", "refused"} => owner[u] \in Owners
      /\ \A u \in Tasks : pc[u] = "save" => status[u] \in TaskState
  BY RequestAssumption DEF TypeOK, Backed
<1>1. CASE UNCHANGED store
  BY <1>0, <1>1, MessageStep DEF Backed
<1>2. ASSUME NEW u \in Tasks, SaveSubmitted(u), pc[u] = "submit",
             store' = [store EXCEPT ![owner[u]][u] =
                         [state |-> "SUBMITTED", has_result |-> FALSE]]
      PROVE  Backed(o, t)'
  <2>1. store'[o][t] = store[o][t]
    BY <1>0, <1>2
  <2> QED BY <1>0, <2>1, MessageStep DEF Backed
<1>3. ASSUME NEW u \in Tasks, SaveFinal(u), pc[u] = "save",
             store' = [store EXCEPT ![owner[u]][u] = FinalTask(u)]
      PROVE  Backed(o, t)'
  <2>1. /\ owner[u] \in Owners /\ status' = status
        /\ pc'[u] = "notify" /\ FinalTask(u) \in Task /\ FinalTask(u).state = status[u]
    BY <1>0, <1>3 DEF SaveFinal, FinalTask, Task, TypeOK
  <2>2. CASE u = t /\ owner[u] = o
    <3>1. store'[o][t] = FinalTask(u)
      BY <1>0, <1>3, <2>1, <2>2
    <3> QED BY <1>0, <2>1, <2>2, <3>1 DEF Backed
  <2>3. CASE ~ (u = t /\ owner[u] = o)
    <3>1. store'[o][t] = store[o][t]
      BY <1>0, <1>3, <2>1, <2>3
    <3> QED BY <1>0, <3>1, MessageStep DEF Backed
  <2> QED BY <2>2, <2>3
<1>4. ASSUME NEW c \in Calls, WriteCanceled(c), cpc[c] = "write",
             store' = [store EXCEPT ![req[c].owner][req[c].task] =
                         [seen[c] EXCEPT !.state = "CANCELED"]]
      PROVE  Backed(o, t)'
  <2>1. /\ req[c].owner \in Owners /\ req[c].task \in Tasks /\ seen[c] \in Task
    BY <1>4, RequestAssumption DEF TypeOK
  <2>2. CASE req[c].task = t /\ req[c].owner = o
    <3>1. store'[o][t] = [seen[c] EXCEPT !.state = "CANCELED"]
      BY <1>0, <1>4, <2>1, <2>2
    <3>2. store'[o][t] \in Task /\ store'[o][t].state = "CANCELED"
      BY <2>1, <3>1 DEF Task, TaskState
    <3> QED BY <1>0, <3>2, MessageStep DEF Backed
  <2>3. CASE ~ (req[c].task = t /\ req[c].owner = o)
    <3>1. store'[o][t] = store[o][t]
      BY <1>0, <1>4, <2>1, <2>3
    <3> QED BY <1>0, <3>1, MessageStep DEF Backed
  <2> QED BY <2>2, <2>3
<1> QED BY <1>1, <1>2, <1>3, <1>4, StoreStep

\* How a step may move a message/send.
LEMMA SendStep ==
  ASSUME TypeOK, Next, NEW t \in Tasks, kind'[t] = "send"
  PROVE  \/ pc[t] = "idle" /\ pc'[t] = "submit" /\ owner'[t] \in Owners /\ UNCHANGED store
         \/ /\ kind[t] = "send" /\ owner'[t] = owner[t]
            /\ pc'[t] \in {"notify", "last", "done"} => pc[t] \in {"notify", "last", "done"}
                                                       \/ SaveFinal(t)
            /\ pc'[t] \in {"submit", "run", "save", "failed"} =>
                 pc[t] \in {"submit", "run", "save", "failed"}
<1>0. /\ pc \in [Tasks -> {"idle", "submit", "run", "save", "notify", "last"} \cup Ended]
      /\ owner \in [Tasks -> Owners \cup {None}]
      /\ kind \in [Tasks -> {"send", "stream", "reject", None}]
  BY DEF TypeOK
<1> DEFINE Same(u) == pc'[u] = pc[u] /\ owner'[u] = owner[u] /\ kind'[u] = kind[u]
<1>1. ASSUME NEW u \in Tasks, Receive(u)
      PROVE  /\ \A v \in Tasks : v # u => Same(v)
             /\ \/ pc'[u] = "refused" /\ owner'[u] = owner[u] /\ kind'[u] = kind[u]
                \/ kind'[u] # "send"
                \/ /\ pc[u] = "idle" /\ pc'[u] = "submit" /\ owner'[u] \in Owners
                   /\ UNCHANGED store
  BY <1>0, <1>1 DEF Receive, ReceiveInvalid, ReceiveRejected, ReceiveSend, ReceiveStream
<1>2. ASSUME NEW u \in Tasks, \/ ModuleReturns(u) \/ TimeoutElapses(u) \/ HandlerStep(u)
                             \/ Disconnect(u)
      PROVE  /\ \A v \in Tasks : v # u => Same(v)
             /\ UNCHANGED <<owner, kind>>
             /\ \/ pc[u] \in {"submit", "run"} /\ pc'[u] \in {"run", "save", "gone"}
                \/ pc[u] = "save" /\ pc'[u] = "gone"
                \/ SaveFinal(u) /\ pc'[u] = "notify"
                \/ pc[u] = "save" /\ kind[u] = "send" /\ pc'[u] = "failed"
                \/ kind[u] # "send"
                \/ pc[u] = "notify" /\ pc'[u] \in {"done", "gone"}
                \/ pc[u] = "last" /\ pc'[u] = "done"
  BY <1>0, <1>2 DEF ModuleReturns, TimeoutElapses, HandlerStep, SaveSubmitted,
                    SaveFinalFails, NotifyMessage, SendLastEvent, Disconnect, SaveFinal
<1>3. ASSUME NEW c \in Calls, (\E r \in Requests : LookUp(c, r)) \/ CallStep(c) \/ DropCall(c)
      PROVE  UNCHANGED messageVars
  BY <1>3 DEF LookUp, CallStep, SignalToken, WriteCanceled, NotifyCanceled, PutConfig,
              RemoveConfig, WriteFails, DropCall
<1>4. ASSUME NEW x \in Notifiers, Deliver(x) PROVE UNCHANGED messageVars
  BY <1>4 DEF Deliver
<1> DEFINE Goal ==
      \/ pc[t] = "idle" /\ pc'[t] = "submit" /\ owner'[t] \in Owners /\ UNCHANGED store
      \/ /\ kind[t] = "send" /\ owner'[t] = owner[t]
         /\ pc'[t] \in {"notify", "last", "done"} => pc[t] \in {"notify", "last", "done"}
                                                       \/ SaveFinal(t)
         /\ pc'[t] \in {"submit", "run", "save", "failed"} =>
              pc[t] \in {"submit", "run", "save", "failed"}
<1>5. ASSUME NEW u \in Tasks, Receive(u) PROVE Goal
  BY <1>1, <1>5
<1>6. ASSUME NEW u \in Tasks, \/ ModuleReturns(u) \/ TimeoutElapses(u) \/ HandlerStep(u)
                             \/ Disconnect(u)
      PROVE  Goal
  <2>1. CASE u = t
    BY <1>2, <1>6, <2>1 DEF SaveFinal
  <2>2. CASE u # t
    BY <1>2, <1>6, <2>2
  <2> QED BY <2>1, <2>2
<1>7. ASSUME UNCHANGED messageVars PROVE Goal
  BY <1>7 DEF messageVars
<1> QED BY <1>3, <1>4, <1>5, <1>6, <1>7 DEF Next

\* How a step may move a call, and when its first read found a task.
LEMMA CallMoves ==
  ASSUME TypeOK, Next, NEW c \in Calls
  PROVE  \/ cpc'[c] = cpc[c] /\ req'[c] = req[c]
         \/ /\ cpc[c] = "idle" /\ req'[c] \in Requests /\ UNCHANGED messageVars
            /\ cpc'[c] \in {"signal", "put", "remove"} \cup Answered
            /\ cpc'[c] = "signal" => store[req'[c].owner][req'[c].task] # None
            /\ cpc'[c] \in {"put", "remove"} => req'[c].op # "cancel"
            /\ cpc'[c] # "ok"
         \/ /\ cpc[c] # "idle" /\ req'[c] = req[c]
            /\ cpc'[c] \in {"signal", "write"} => cpc[c] = "signal"
            /\ cpc'[c] = "notify" => cpc[c] = "write" /\ WriteCanceled(c)
            /\ cpc'[c] = "ok" => cpc[c] \in {"notify", "put", "remove"}
            /\ cpc'[c] \notin {"put", "remove"}
<1>0. /\ cpc \in [Calls -> {"idle", "signal", "write", "notify", "put", "remove"} \cup Answered]
      /\ req \in [Calls -> Requests \cup {None}]
      /\ store \in [Owners -> [Tasks -> Task \cup {None}]]
  BY DEF TypeOK
<1> DEFINE Goal ==
      \/ cpc'[c] = cpc[c] /\ req'[c] = req[c]
      \/ /\ cpc[c] = "idle" /\ req'[c] \in Requests /\ UNCHANGED messageVars
         /\ cpc'[c] \in {"signal", "put", "remove"} \cup Answered
         /\ cpc'[c] = "signal" => store[req'[c].owner][req'[c].task] # None
         /\ cpc'[c] \in {"put", "remove"} => req'[c].op # "cancel"
         /\ cpc'[c] # "ok"
      \/ /\ cpc[c] # "idle" /\ req'[c] = req[c]
         /\ cpc'[c] \in {"signal", "write"} => cpc[c] = "signal"
         /\ cpc'[c] = "notify" => cpc[c] = "write" /\ WriteCanceled(c)
         /\ cpc'[c] = "ok" => cpc[c] \in {"notify", "put", "remove"}
         /\ cpc'[c] \notin {"put", "remove"}
<1>1. ASSUME NEW d \in Calls, NEW r \in Requests, LookUp(d, r) PROVE Goal
  <2>1. /\ cpc[d] = "idle" /\ req' = [req EXCEPT ![d] = r] /\ UNCHANGED messageVars
        /\ \A e \in Calls : e # d => cpc'[e] = cpc[e]
        /\ \/ cpc'[d] = "internal"
           \/ cpc'[d] = TaskReadBy(r, store[r.owner][r.task])
    BY <1>0, <1>1 DEF LookUp, handle_get
  <2>2. /\ store[r.owner][r.task] \in Task \cup {None}
        /\ r.op \in {"cancel", "set", "delete"}
    BY <1>0, RequestAssumption
  <2>3. /\ cpc'[d] \in {"signal", "put", "remove", "internal", "notfound", "notcancelable"}
        /\ cpc'[d] = "signal" => store[r.owner][r.task] # None
        /\ cpc'[d] \in {"put", "remove"} => r.op # "cancel"
    BY <2>1, <2>2 DEF TaskReadBy
  <2> QED BY <1>0, <2>1, <2>3 DEF Answered
<1>2. ASSUME NEW d \in Calls, CallStep(d) \/ DropCall(d) PROVE Goal
  <2>1. CASE d = c
    BY <1>0, <1>2, <2>1 DEF CallStep, DropCall, SignalToken, WriteCanceled, NotifyCanceled,
                            PutConfig, RemoveConfig, WriteFails
  <2>2. CASE d # c
    BY <1>0, <1>2, <2>2 DEF CallStep, DropCall, SignalToken, WriteCanceled, NotifyCanceled,
                            PutConfig, RemoveConfig, WriteFails
  <2> QED BY <2>1, <2>2
<1>3. ASSUME NEW t \in Tasks, \/ Receive(t) \/ HandlerStep(t) \/ ModuleReturns(t)
                             \/ TimeoutElapses(t) \/ Disconnect(t)
      PROVE  Goal
  <2>1. UNCHANGED callVars
    BY <1>3 DEF Receive, ReceiveInvalid, ReceiveRejected, ReceiveSend, ReceiveStream,
                HandlerStep, SaveSubmitted, SaveFinal, SaveFinalFails, NotifyMessage,
                SendLastEvent, ModuleReturns, TimeoutElapses, Disconnect
  <2> QED BY <2>1 DEF callVars
<1>4. ASSUME NEW x \in Notifiers, Deliver(x) PROVE Goal
  BY <1>4 DEF Deliver, callVars
<1> QED BY <1>1, <1>2, <1>3, <1>4 DEF Next

\* Where a delivery comes from.
LEMMA PostStep ==
  ASSUME TypeOK, Next, NEW x \in Notifiers, posts'[x] # None
  PROVE  \/ /\ posts[x] # None
            /\ posts'[x].owner = posts[x].owner /\ posts'[x].task = posts[x].task
         \/ /\ x \in Tasks /\ pc[x] = "notify"
            /\ posts'[x].owner = owner[x] /\ posts'[x].task = x
         \/ /\ x \in Calls /\ cpc[x] = "notify"
            /\ posts'[x].owner = req[x].owner /\ posts'[x].task = req[x].task
<1>0. posts \in [Notifiers -> Delivery \cup {None}]
  BY DEF TypeOK, WebhooksTypeOK
<1>1. ASSUME UNCHANGED posts
      PROVE  posts[x] # None /\ posts'[x].owner = posts[x].owner /\ posts'[x].task = posts[x].task
  BY <1>1
<1>2. ASSUME NEW y \in Notifiers, NEW o, NEW t, NEW s, notify_push(y, o, t, s)
      PROVE  \/ posts'[x] = posts[x]
             \/ y = x /\ posts'[x].owner = o /\ posts'[x].task = t
  BY <1>0, <1>2 DEF notify_push
<1>3. ASSUME NEW t \in Tasks, NotifyMessage(t)
      PROVE  \/ posts'[x] = posts[x]
             \/ /\ x \in Tasks /\ pc[x] = "notify"
                /\ posts'[x].owner = owner[x] /\ posts'[x].task = x
  BY <1>2, <1>3 DEF NotifyMessage, Notifiers
<1>4. ASSUME NEW c \in Calls, NotifyCanceled(c)
      PROVE  \/ posts'[x] = posts[x]
             \/ /\ x \in Calls /\ cpc[x] = "notify"
                /\ posts'[x].owner = req[x].owner /\ posts'[x].task = req[x].task
  BY <1>2, <1>4 DEF NotifyCanceled, Notifiers
<1>5. ASSUME NEW y \in Notifiers, Deliver(y)
      PROVE  posts[x] # None /\ posts'[x].owner = posts[x].owner /\ posts'[x].task = posts[x].task
  <2>1. PICK p \in Delivery : /\ posts' = [posts EXCEPT ![y] = p]
                              /\ p.owner = posts[y].owner /\ p.task = posts[y].task
    BY <1>0, <1>5, AttemptKeeps DEF Deliver
  <2>3. CASE x = y
    BY <1>0, <1>5, <2>1, <2>3 DEF Deliver, Attempt
  <2>4. CASE x # y
    BY <1>0, <2>1, <2>4
  <2> QED BY <2>3, <2>4
<1>6. \/ UNCHANGED posts
      \/ \E t \in Tasks : NotifyMessage(t)
      \/ \E c \in Calls : NotifyCanceled(c)
      \/ \E y \in Notifiers : Deliver(y)
  BY DEF Next, Receive, HandlerStep, CallStep, ReceiveInvalid, ReceiveRejected, ReceiveSend,
         ReceiveStream, SaveSubmitted, SaveFinal, SaveFinalFails, SendLastEvent,
         ModuleReturns, TimeoutElapses, Disconnect, LookUp, SignalToken, WriteCanceled,
         PutConfig, RemoveConfig, WriteFails, DropCall, webhookVars
<1> QED BY <1>1, <1>3, <1>4, <1>5, <1>6

\* The write of a cancel backs its answer.
LEMMA WriteBacks ==
  ASSUME TypeOK, AnswerInv, NEW c \in Calls, WriteCanceled(c)
  PROVE  Backed(req[c].owner, req[c].task)'
<1>1. /\ req[c].owner \in Owners /\ req[c].task \in Tasks /\ seen[c] \in Task
      /\ None \notin Task /\ pc[req[c].task] \notin {"idle", "submit"}
      /\ UNCHANGED <<messageVars, req>>
      /\ store \in [Owners -> [Tasks -> Task \cup {None}]]
  BY RequestAssumption DEF TypeOK, AnswerInv, WriteCanceled
<1>2. store'[req[c].owner][req[c].task] = [seen[c] EXCEPT !.state = "CANCELED"]
  BY <1>1 DEF WriteCanceled, save
<1>3. [seen[c] EXCEPT !.state = "CANCELED"] \in Task
  BY <1>1 DEF Task, TaskState
<1>4. [seen[c] EXCEPT !.state = "CANCELED"].state = "CANCELED"
  BY <1>1 DEF Task
<1> QED BY <1>1, <1>2, <1>3, <1>4 DEF Backed, messageVars

\* The final write of a handler backs its answer.
LEMMA FinalBacks ==
  ASSUME TypeOK, NEW t \in Tasks, SaveFinal(t)
  PROVE  Backed(owner[t], t)'
<1>1. /\ owner[t] \in Owners /\ status[t] \in TaskState /\ None \notin Task
      /\ store \in [Owners -> [Tasks -> Task \cup {None}]]
      /\ UNCHANGED <<owner, status>> /\ pc'[t] = "notify"
  BY RequestAssumption DEF TypeOK, SaveFinal
<1>2. store'[owner[t]][t] = FinalTask(t)
  BY <1>1 DEF SaveFinal, save
<1>3. FinalTask(t) \in Task /\ FinalTask(t).state = status[t]
  BY <1>1 DEF FinalTask, Task
<1> QED BY <1>1, <1>2, <1>3 DEF Backed

\* Each step keeps what was answered and posted backed by the store.
LEMMA AnswerNext == TypeOK /\ OwnerInv /\ AnswerInv /\ [Next]_vars => AnswerInv'
<1> SUFFICES ASSUME TypeOK, OwnerInv, AnswerInv, Next PROVE AnswerInv'
  BY DEF AnswerInv, Backed, vars, messageVars, callVars, webhookVars
<1>0. /\ store \in [Owners -> [Tasks -> Task \cup {None}]]
      /\ None \notin Task
      /\ \A u \in Tasks : pc[u] \notin {"idle", "refused"} => owner[u] \in Owners
      /\ \A c \in Calls : cpc[c] # "idle" => req[c].owner \in Owners /\ req[c].task \in Tasks
      /\ \A r \in Requests : r.owner \in Owners /\ r.task \in Tasks
      /\ posts \in [Notifiers -> Delivery \cup {None}]
      /\ \A d \in Delivery : d.owner \in Owners /\ d.task \in Tasks
  BY RequestAssumption DEF TypeOK, WebhooksTypeOK, Delivery
<1>1. (\A o \in Owners, t \in Tasks : store[o][t] # None => pc[t] \notin {"idle", "submit"})'
  <2> SUFFICES ASSUME NEW o \in Owners, NEW t \in Tasks, store'[o][t] # None
               PROVE  pc'[t] \notin {"idle", "submit"}
    OBVIOUS
  <2>1. CASE pc[t] \notin {"idle", "submit"}
    BY <2>1, MessageStep
  <2>2. CASE store[o][t] # None
    BY <2>1, <2>2 DEF AnswerInv
  <2>3. ASSUME NEW u \in Tasks, SaveSubmitted(u), pc[u] = "submit", store[o][t] = None,
               store' = [store EXCEPT ![owner[u]][u] =
                           [state |-> "SUBMITTED", has_result |-> FALSE]]
        PROVE  pc'[t] \notin {"idle", "submit"}
    <3>1. u = t
      BY <1>0, <2>3
    <3>2. pc'[t] = "run"
      BY <2>3, <3>1 DEF SaveSubmitted, TypeOK
    <3> QED BY <3>2
  <2>4. ASSUME NEW u \in Tasks, SaveFinal(u), pc[u] = "save", store[o][t] = None,
               store' = [store EXCEPT ![owner[u]][u] = FinalTask(u)]
        PROVE  pc'[t] \notin {"idle", "submit"}
    <3>1. u = t
      BY <1>0, <2>4
    <3> QED BY <2>1, <2>4, <3>1
  <2>5. ASSUME NEW c \in Calls, WriteCanceled(c), cpc[c] = "write", store[o][t] = None,
               store' = [store EXCEPT ![req[c].owner][req[c].task] =
                           [seen[c] EXCEPT !.state = "CANCELED"]]
        PROVE  pc'[t] \notin {"idle", "submit"}
    <3>1. req[c].task = t
      BY <1>0, <2>5
    <3> QED BY <2>1, <2>5, <3>1 DEF AnswerInv
  <2> QED BY <2>2, <2>3, <2>4, <2>5, StoreStep
<1>2. (\A c \in Calls : cpc[c] \in {"signal", "write"} => pc[req[c].task] \notin {"idle", "submit"})'
  <2> SUFFICES ASSUME NEW c \in Calls, cpc'[c] \in {"signal", "write"}
               PROVE  pc'[req'[c].task] \notin {"idle", "submit"}
    OBVIOUS
  <2>1. req'[c].task \in Tasks /\ pc[req'[c].task] \notin {"idle", "submit"}
    BY <1>0, CallMoves DEF AnswerInv, Answered
  <2> QED BY <2>1, MessageStep
<1>3. (\A c \in Calls : cpc[c] = "notify" \/ (cpc[c] = "ok" /\ req[c].op = "cancel")
         => Backed(req[c].owner, req[c].task))'
  <2> SUFFICES ASSUME NEW c \in Calls,
                      cpc'[c] = "notify" \/ (cpc'[c] = "ok" /\ req'[c].op = "cancel")
               PROVE  Backed(req[c].owner, req[c].task)' 
    OBVIOUS
  <2>1. /\ req'[c] = req[c] /\ cpc[c] # "idle"
        /\ \/ WriteCanceled(c)
           \/ cpc[c] = "notify" \/ (cpc[c] = "ok" /\ req[c].op = "cancel")
    BY CallMoves DEF AnswerInv, Answered
  <2>2. CASE WriteCanceled(c)
    BY <2>2, WriteBacks
  <2>3. CASE Backed(req[c].owner, req[c].task)
    <3> DEFINE o == req[c].owner
               t == req[c].task
    <3>1. o \in Owners /\ t \in Tasks
      BY <1>0, <2>1
    <3>2. /\ store'[o][t] # None
          /\ store'[o][t].state \in {status'[t], "CANCELED"}
          /\ pc'[t] \notin {"idle", "submit"}
          /\ pc'[t] = "run" => store'[o][t].state = "CANCELED"
      BY <2>3, <3>1, BackedStable DEF Backed
    <3> QED BY <2>1, <3>2 DEF Backed
  <2> QED BY <2>1, <2>2, <2>3 DEF AnswerInv
<1>4. (\A t \in Tasks : kind[t] = "send" /\ pc[t] \in {"notify", "last", "done"} => Backed(owner[t], t))'
  <2> SUFFICES ASSUME NEW t \in Tasks, kind'[t] = "send", pc'[t] \in {"notify", "last", "done"}
               PROVE  Backed(owner[t], t)'
    OBVIOUS
  <2>1. /\ kind[t] = "send" /\ owner'[t] = owner[t]
        /\ pc[t] \in {"notify", "last", "done"} \/ SaveFinal(t)
    BY SendStep
  <2>2. CASE SaveFinal(t)
    BY <2>2, FinalBacks
  <2>3. CASE pc[t] \in {"notify", "last", "done"}
    <3>1. Backed(owner[t], t) /\ owner[t] \in Owners
      BY <1>0, <2>1, <2>3 DEF AnswerInv
    <3> DEFINE o == owner[t]
    <3>2. /\ store'[o][t] # None
          /\ store'[o][t].state \in {status'[t], "CANCELED"}
          /\ pc'[t] \notin {"idle", "submit"}
          /\ pc'[t] = "run" => store'[o][t].state = "CANCELED"
      BY <3>1, BackedStable DEF Backed
    <3> QED BY <2>1, <3>2 DEF Backed
  <2> QED BY <2>1, <2>2, <2>3
<1>5. (\A t \in Tasks : kind[t] = "send" /\ pc[t] \in {"submit", "run", "save", "failed"} =>
         \/ store[owner[t]][t] = None
         \/ store[owner[t]][t].state \in {"SUBMITTED", "CANCELED"})'
  <2> SUFFICES ASSUME NEW t \in Tasks, kind'[t] = "send",
                      pc'[t] \in {"submit", "run", "save", "failed"}
               PROVE  \/ store'[owner'[t]][t] = None
                      \/ store'[owner'[t]][t].state \in {"SUBMITTED", "CANCELED"}
    OBVIOUS
  <2>1. CASE pc[t] = "idle" /\ owner'[t] \in Owners /\ UNCHANGED store
    BY <2>1 DEF AnswerInv
  <2>2. CASE /\ kind[t] = "send" /\ owner'[t] = owner[t]
             /\ pc[t] \in {"submit", "run", "save", "failed"}
    <3> DEFINE o == owner[t]
    <3>1. /\ o \in Owners
          /\ store[o][t] = None \/ store[o][t].state \in {"SUBMITTED", "CANCELED"}
      BY <1>0, <2>2 DEF AnswerInv
    <3>2. CASE UNCHANGED store
      BY <2>2, <3>1, <3>2
    <3>3. ASSUME NEW u \in Tasks, SaveSubmitted(u), pc[u] = "submit",
                 store' = [store EXCEPT ![owner[u]][u] =
                             [state |-> "SUBMITTED", has_result |-> FALSE]]
          PROVE  store'[o][t] = None \/ store'[o][t].state \in {"SUBMITTED", "CANCELED"}
      BY <1>0, <3>1, <3>3
    <3>4. ASSUME NEW u \in Tasks, SaveFinal(u), pc[u] = "save",
                 store' = [store EXCEPT ![owner[u]][u] = FinalTask(u)]
          PROVE  store'[o][t] = None \/ store'[o][t].state \in {"SUBMITTED", "CANCELED"}
      <4>1. u # t
        BY <3>4 DEF SaveFinal, TypeOK
      <4> QED BY <1>0, <3>1, <3>4, <4>1
    <3>5. ASSUME NEW c \in Calls, WriteCanceled(c), cpc[c] = "write",
                 store' = [store EXCEPT ![req[c].owner][req[c].task] =
                             [seen[c] EXCEPT !.state = "CANCELED"]]
          PROVE  store'[o][t] = None \/ store'[o][t].state \in {"SUBMITTED", "CANCELED"}
      <4>1. [seen[c] EXCEPT !.state = "CANCELED"].state = "CANCELED"
        BY <3>5 DEF TypeOK, Task
      <4> HIDE DEF o
      <4> QED BY <1>0, <3>1, <3>5, <4>1
    <3> QED BY <2>2, <3>2, <3>3, <3>4, <3>5, StoreStep
  <2> QED BY <2>1, <2>2, SendStep
<1>6. (\A c \in Calls : cpc[c] \in {"put", "remove"} => req[c].op # "cancel")'
  BY CallMoves DEF AnswerInv
<1>7. (\A x \in Tasks : posts[x] # None => pc[x] # "idle")'
  <2> SUFFICES ASSUME NEW x \in Tasks, posts'[x] # None PROVE pc'[x] # "idle"
    OBVIOUS
  <2>1. pc[x] # "idle"
    BY PostStep, WebhookAssumption DEF AnswerInv, Notifiers
  <2>2. ASSUME pc[x] = "submit" PROVE pc'[x] # "idle"
    BY <2>2 DEF TypeOK, Next, Receive, HandlerStep, CallStep, ReceiveInvalid, ReceiveRejected,
         ReceiveSend, ReceiveStream, SaveSubmitted, SaveFinal, SaveFinalFails, NotifyMessage,
         SendLastEvent, ModuleReturns, TimeoutElapses, Disconnect, LookUp, SignalToken,
         WriteCanceled, NotifyCanceled, PutConfig, RemoveConfig, WriteFails, DropCall,
         Deliver, messageVars
  <2> QED BY <2>1, <2>2, MessageStep
<1>8. (\A x \in Notifiers : posts[x] # None /\ (x \in Tasks => kind[x] = "send")
         => Backed(posts[x].owner, posts[x].task))'
  <2> SUFFICES ASSUME NEW x \in Notifiers, posts'[x] # None, x \in Tasks => kind'[x] = "send"
               PROVE  Backed(posts[x].owner, posts[x].task)'
    OBVIOUS
  <2> DEFINE o == posts'[x].owner
             t == posts'[x].task
  <2>1. x \in Tasks => kind[x] = "send"
    <3>1. ASSUME x \in Tasks PROVE kind[x] = "send"
      <4>1. pc[x] # "idle"
        BY <3>1, PostStep, WebhookAssumption DEF AnswerInv
      <4> QED BY <3>1, <4>1, SendStep
    <3> QED BY <3>1
  <2>2. Backed(o, t) /\ o \in Owners /\ t \in Tasks
    <3>1. CASE /\ posts[x] # None
               /\ o = posts[x].owner /\ t = posts[x].task
      BY <1>0, <2>1, <3>1 DEF AnswerInv
    <3>2. CASE x \in Tasks /\ pc[x] = "notify" /\ o = owner[x] /\ t = x
      BY <1>0, <2>1, <3>2 DEF AnswerInv
    <3>3. CASE x \in Calls /\ cpc[x] = "notify" /\ o = req[x].owner /\ t = req[x].task
      BY <1>0, <3>3 DEF AnswerInv
    <3> QED BY <3>1, <3>2, <3>3, PostStep
  <2>3. /\ store'[o][t] # None
        /\ store'[o][t].state \in {status'[t], "CANCELED"}
        /\ pc'[t] \notin {"idle", "submit"}
        /\ pc'[t] = "run" => store'[o][t].state = "CANCELED"
    <3> HIDE DEF o, t
    <3> QED BY <2>2, BackedStable DEF Backed
  <2> QED BY <2>3 DEF Backed
<1> QED BY <1>1, <1>2, <1>3, <1>4, <1>5, <1>6, <1>7, <1>8 DEF AnswerInv

\* What a caller was answered is what the store holds, or a cancellation.
THEOREM AnswersHold == Spec => []AnswersMatchStore
<1>1. AnswerInv => AnswersMatchStore
  BY DEF AnswerInv, AnswersMatchStore, Backed
<1> QED BY <1>1, TypeCorrect, OwnerInit, OwnerNext, AnswerInit, AnswerNext, PTL DEF Spec

\* A webhook is never told an outcome the store did not take.
THEOREM NoticesHold == Spec => []NoticesFollowStore
<1>1. AnswerInv => NoticesFollowStore
  BY DEF AnswerInv, NoticesFollowStore, Backed
<1> QED BY <1>1, TypeCorrect, OwnerInit, OwnerNext, AnswerInit, AnswerNext, PTL DEF Spec
=============================================================================
