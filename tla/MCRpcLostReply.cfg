CONSTANTS
    MaxXid = 2
    MaxConn = 2
    MaxNonce = 1
    MaxCalls = 1
    Retrans = TRUE
    Lossy = FALSE
    Timeouts = FALSE
    Cancels = FALSE
    Worker = {w1, w2}
SPECIFICATION FairSpec
PROPERTY AnsweredOnLiveChannel
CHECK_DEADLOCK FALSE
