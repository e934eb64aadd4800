SPECIFICATION Spec
CONSTANTS
    Base = 4
    DEFAULT_RPC_SZ = 25
    Type = {"char", "short", "int", "ull", "string", "vector"}
    MaxArgs = 2
    Values <- MCValues
    ReqHeader <- MCReqHeader
    Ret <- MCRet
INVARIANTS MarshallTypeOK NoOverrun ReadsWhatWasWritten RefusalIsMismatch FaultIsWrap
CHECK_DEADLOCK FALSE
