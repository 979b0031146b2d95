SPECIFICATION Spec
CONSTANT MaxBytes = 7
INVARIANTS
    TypeOK
    YieldsInOrder
    NothingLost
CHECK_DEADLOCK FALSE
