CONSTANTS
    MaxXid = 7
    MaxConn = 2
    MaxNonce = 2
    MaxCalls = 1
    Retrans = TRUE
    Lossy = TRUE
    Timeouts = FALSE
    Cancels = FALSE
    Worker = {w1, w2}
SYMMETRY WorkerSymmetry
SPECIFICATION Spec
INVARIANTS AtMostOnce
CHECK_DEADLOCK FALSE
