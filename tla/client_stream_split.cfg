SPECIFICATION Spec
CONSTANT MaxBytes = 7
INVARIANT
    EventsIntact
CHECK_DEADLOCK FALSE
