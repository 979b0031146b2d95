------------------------------ MODULE Webhooks ------------------------------
(***************************************************************************)
(* Push-notification webhooks: the owner-scoped PushConfigStore, the       *)
(* notify_push call the task handlers end with, and the delivery task it   *)
(* spawns. TaskServer extends this module and takes these operators into   *)
(* its own steps.                                                          *)
(*                                                                         *)
(* A notifier is a request that ends in at most one notify_push call. The  *)
(* delivery it spawns keeps the URL it read: later changes of the config   *)
(* do not reach it. Neither the request nor the HTTP client has a timeout, *)
(* so a POST that is accepted and never answered holds it for ever.        *)
(***************************************************************************)
EXTENDS Naturals, TaskStates

CONSTANTS
  Owners,       \* principals, the anonymous one included
  Tasks,        \* task ids
  Urls,         \* webhook URLs
  Calls,        \* task-addressed requests (tasks/cancel and the webhook ones)
  MaxAttempts,  \* POST attempts of one delivery (3 in the code)
  None          \* no config, no delivery

ASSUME WebhookAssumption ==
  /\ MaxAttempts \in Nat \ {0}
  /\ None \notin Urls
  /\ None \notin Owners
  /\ Tasks \cap Calls = {}

VARIABLES
  configs,  \* configs[o][t]: the webhook o registered for task t, or None
  posts     \* posts[x]: the delivery notifier x spawned, or None

webhookVars == <<configs, posts>>

\* A message is named by the task it creates, so it may notify as a task.
Notifiers == Tasks \cup Calls

\* left: the attempts it may still make; hung: its POST never returns.
Delivery == [owner : Owners, task : Tasks, url : Urls, state : TaskState,
             left : 0..MaxAttempts, hung : BOOLEAN]

WebhooksTypeOK ==
  /\ configs \in [Owners -> [Tasks -> Urls \cup {None}]]
  /\ posts \in [Notifiers -> Delivery \cup {None}]

WebhooksInit ==
  /\ configs = [o \in Owners |-> [t \in Tasks |-> None]]
  /\ posts = [x \in Notifiers |-> None]

save_config(o, t, u) == configs' = [configs EXCEPT ![o][t] = u]

delete_config(o, t) == configs' = [configs EXCEPT ![o][t] = None]

\* Reads the config and spawns a delivery of state s to the URL found. With no
\* config, and when the config store cannot be read, nothing is spawned.
notify_push(x, o, t, s) ==
  /\ \/ /\ configs[o][t] # None
        /\ posts' = [posts EXCEPT ![x] =
             [owner |-> o, task |-> t, url |-> configs[o][t], state |-> s,
              left |-> MaxAttempts, hung |-> FALSE]]
     \/ UNCHANGED posts
  /\ UNCHANGED configs

\* Mutants of Attempt: one POST too many; a retry budget that is rearmed.
AttemptUnguarded(x) ==
  /\ posts[x] # None
  /\ ~ posts[x].hung
  /\ \/ posts' = [posts EXCEPT ![x].left = 0]
     \/ posts' = [posts EXCEPT ![x].left = @ - 1]
     \/ posts' = [posts EXCEPT ![x].hung = TRUE]
  /\ UNCHANGED configs

AttemptRearmed(x) ==
  /\ posts[x] # None
  /\ posts[x].left > 0 /\ ~ posts[x].hung
  /\ \/ posts' = [posts EXCEPT ![x].left = IF @ = 1 THEN MaxAttempts ELSE @ - 1]
     \/ posts' = [posts EXCEPT ![x].hung = TRUE]
  /\ UNCHANGED configs

\* One POST of x's delivery. A success ends it; a refusal, an error status or
\* a lost answer uses up one attempt; one that never returns is its last.
Attempt(x) ==
  /\ posts[x] # None
  /\ posts[x].left > 0 /\ ~ posts[x].hung
  /\ \/ posts' = [posts EXCEPT ![x].left = 0]
     \/ posts' = [posts EXCEPT ![x].left = @ - 1]
     \/ posts' = [posts EXCEPT ![x].hung = TRUE]
  /\ UNCHANGED configs
=============================================================================
