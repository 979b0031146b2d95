SPECIFICATION Spec
CONSTANTS
  None = None
  alice = alice
  bob = bob
  u1 = u1
  Owners = {alice}
  Tasks = {t1}
  Calls = {c1, c2}
  Urls = {u1}
  MaxAttempts = 2
  Requests <- AllRequests
CHECK_DEADLOCK FALSE
PROPERTIES
  ResultsSurvive
