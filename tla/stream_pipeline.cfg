SPECIFICATION Spec
CONSTANTS
  None = None
  Capacity = 2
  MaxChunks = 5
CHECK_DEADLOCK FALSE
INVARIANTS
  TypeOK
  CompletedIsWhole
  FinalReadAfterWrite
PROPERTIES
  ReadsSession
  StreamEnds
