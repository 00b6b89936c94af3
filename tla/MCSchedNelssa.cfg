SPECIFICATION SchedSpec
CONSTANTS
    Request <- ThreeRequests
    Block <- SixBlocks
    NullBlock = 0
    BlockSize = 2
    MaxModelLen = 10
    HeadSize = 2
    TailSize = 4
    NumPromptTokens <- LongShortLong
    MaxTokens <- LongOutputs
    Priority <- SamePriority
    RemotePrefill = {1, 2}
    RemoteDecode = {3}
    Policy = "fcfs"
    MaxNumRunningReqs = 3
    MaxNumScheduledTokens = 3
    LongThreshold = 6
    MaxNumLongRequests = 1
    ReserveFullISL = TRUE
    AsyncScheduling = FALSE
    RecomputeKVLoadFailures = TRUE
INVARIANTS KVInv RequestsAccounted HeadAndTailResident LongMemoryBounded TransferKeepsBlocks
PROPERTIES ProtectedKeepsRunning
