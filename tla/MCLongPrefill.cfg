SPECIFICATION LongSpec
CONSTANTS
    r1 = r1
    r2 = r2
    Request = {r1, r2}
    Prompted = r1
    NumLayers = 2
    NumChunks <- ManyAndOne
    Torn = Torn
    Prompts <- PromptLengths
    Threshold = 130
    Chunks = {70}
    BlockSize = 16
    FirstN = 16
    LastM = 64
    FilterFirstN = 16
    FilterLastM = 64
    MaxTokens = 1
    MaxPreemptions = 1
CHECK_DEADLOCK FALSE
INVARIANTS HandOverComplete OffloadInv CopiesNotStale
