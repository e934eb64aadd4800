CONSTANTS
    MaxXid = 3
    MaxConn = 2
    MaxNonce = 2
    MaxCalls = 2
    Retrans = FALSE
    Lossy = FALSE
    Timeouts = TRUE
    Cancels = FALSE
    Worker = {w1, w2}
SYMMETRY WorkerSymmetry
SPECIFICATION Spec
PROPERTY ImplementsService
CHECK_DEADLOCK FALSE
