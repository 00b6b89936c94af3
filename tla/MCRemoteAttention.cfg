SPECIFICATION RpcSpec
CONSTANTS
    r1 = r1
    r2 = r2
    Request = {r1, r2}
    Uuid <- OwnUuids
    MaxCalls = 2
    MayTimeout = TRUE
    MayBreak = TRUE
    None = None
CHECK_DEADLOCK FALSE
INVARIANTS OwnResult
PROPERTIES CallEnds
