SPECIFICATION MCSpec
CONSTANTS
    Short = {s1, s2, s3}
    Long = {l1}
    None = None
    MaxReqs = 3
    MaxLen = 15
    Chunk = 2
    MaxSteps = 9
    ShortSteps = 3
    ShortPrompts = {3}
    LongPrompts = {7, 8, 9, 10, 11}
    BlockSize = 2
    FirstN = 1
    LastM = 3
    Consumer = TRUE
    Reorders = TRUE
    MayFinish = {s1, s2, s3}
    MayUnschedule = TRUE
    MayPreempt = TRUE
SYMMETRY RequestSymmetry
CHECK_DEADLOCK FALSE
INVARIANTS BatchInv ReadsOwnKV
