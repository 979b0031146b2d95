SPECIFICATION RoundTripSpec
CONSTANTS
  None = None
  alice = alice
  u1 = u1
  Owners = {alice}
  Tasks = {t1}
  Calls = {c1}
  Reads = {g1, g2}
  Urls = {u1}
  MaxAttempts = 1
  Requests <- Cancels
  Failures <- SomeFailures
SYMMETRY Symmetry
\* Every exchange is posted once.
CHECK_DEADLOCK FALSE
INVARIANTS
  ViewsMoveForward
  
