SPECIFICATION Spec
CONSTANTS
    None = None
    Fetches = {f1, f2, f3}
    Ttl = 2
    Timeout = 2
    MaxTime = 5
    MaxVersion = 1
SYMMETRY Symmetry
INVARIANTS
    TypeOK
    AnswerAgeBounded
    NeverGoesBack
CHECK_DEADLOCK FALSE
