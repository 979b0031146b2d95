SPECIFICATION Spec
CONSTANTS
  None = None
  alice = alice
  bob = bob
  u1 = u1
  Owners = {alice, bob}
  Tasks = {t1}
  Calls = {c1, c2, c3}
  Urls = {u1}
  MaxAttempts = 2
  Requests <- AllRequests
SYMMETRY CallSymmetry
CHECK_DEADLOCK FALSE
INVARIANTS
  TypeOK
  SignalledByOwner
  OwnerScoped
  AnswersMatchStore
  NoticesFollowStore
PROPERTIES
  SettledIsFinal
