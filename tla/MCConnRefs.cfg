SPECIFICATION Spec
CONSTANTS
    Worker = {w1, w2}
    Listener = listener
    Poll = poll
    MaxConn = 3
    MaxPdu = 3
    MaxQueue = 1
SYMMETRY WorkerSymmetry
INVARIANTS RefTypeOK RefExact NoUseAfterFree NoLockCycle AllFreed
CHECK_DEADLOCK FALSE
