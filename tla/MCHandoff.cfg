SPECIFICATION MCSpec
CONSTANTS
    Request = {r1}
    PDepth = 2
    DDepth = 2
    ReadMayFail = TRUE
    HandshakeMayFail = TRUE
    MayAbortEarly = FALSE
INVARIANTS NoTransferCrash ReadKeepsBlocks LoadedIsValid
PROPERTIES EveryLoadEnds BlocksReturn
