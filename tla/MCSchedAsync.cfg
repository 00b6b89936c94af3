SPECIFICATION FairSpec
CONSTANTS
    Request <- ThreeRequests
    Block <- FourBlocks
    NullBlock = 0
    BlockSize = 2
    MaxModelLen = 6
    HeadSize = 2
    TailSize = 2
    NumPromptTokens <- ShortPrompts
    MaxTokens <- ShortOutputs
    Priority <- LastIsUrgent
    RemotePrefill = {}
    RemoteDecode = {}
    Policy = "priority"
    MaxNumRunningReqs = 3
    MaxNumScheduledTokens = 4
    LongThreshold = 100
    MaxNumLongRequests = 1
    ReserveFullISL = TRUE
    AsyncScheduling = TRUE
    RecomputeKVLoadFailures = FALSE
INVARIANTS StepExact TokensHaveBlocks PlaceholdersMatch NoCrash
PROPERTIES EventuallyFinished
