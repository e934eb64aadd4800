SPECIFICATION Spec
CONSTANTS
    Fd = {6}
    PipeFd = 5
    Sender = {s1, s2}
    Closer = closer
    MaxSend = 2
    MaxSize = 2
    Space = 1
    Lossy = TRUE
    MaxIn = 2
INVARIANTS ConnTypeOK RemovedIsQuiet PdusWhole AbortIsRace
PROPERTIES SendReturns BreakNoticed
CHECK_DEADLOCK FALSE
