SPECIFICATION Spec
CONSTANTS
    Sec = 3
    to_min = 3
    MaxTo = 25
    MaxTime = 34
INVARIANTS NotEarly DeadlineBounded FewRounds SpinIsFraction
PROPERTIES CallEnds
CHECK_DEADLOCK FALSE
