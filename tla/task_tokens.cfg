SPECIFICATION Spec
CONSTANTS
  None = None
  alice = alice
  bob = bob
  u1 = u1
  Owners = {alice}
  Tasks = {t1, t2}
  Calls = {c1}
  Urls = {u1}
  MaxAttempts = 3
  Requests <- AllRequests
\* The bounded requests are all answered in the end: the server then waits.
CHECK_DEADLOCK FALSE
INVARIANTS
  TokensAreLive
  RunningIsCancelable
PROPERTIES
  MessagesEnd
  CallsEnd
  DeliveriesEnd
