SPECIFICATION Spec
CONSTANTS
  None = None
  Owners = {alice, bob}
  Keys = {k1, k2}
  Values = {v1, v2}
INVARIANTS TypeOK NoEmptyBucket
PROPERTIES KeepsContract
