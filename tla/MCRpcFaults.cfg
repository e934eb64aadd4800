CONSTANTS
    MaxXid = 3
    MaxConn = 2
    MaxNonce = 2
    MaxCalls = 2
    Retrans = TRUE
    Lossy = FALSE
    Timeouts = FALSE
    Cancels = FALSE
    Worker = {w1, w2}
SYMMETRY WorkerSymmetry
SPECIFICATION Spec
INVARIANTS TypeOK AtMostOnce ReplyKept
PROPERTY ImplementsService
CHECK_DEADLOCK FALSE
