CONSTANTS
    MaxXid = 2
    MaxConn = 1
    MaxNonce = 2
    MaxCalls = 2
    Retrans = TRUE
    Lossy = FALSE
    Timeouts = TRUE
    Cancels = TRUE
    Worker = {w1}
SPECIFICATION FairSpec
PROPERTIES CallReturns CancelReturns ImplementsService
CHECK_DEADLOCK FALSE
