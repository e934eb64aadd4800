SPECIFICATION Spec
CONSTANTS
    Thread = {t1, t2, t3}
    Source = {c1, c2}
    MaxPdu = 2
    max_ = 2
INVARIANTS PoolTypeOK AcceptedHaveRun
PROPERTIES AcceptedRuns DestructorReturns ReaderCatchesUp
CHECK_DEADLOCK FALSE
