SPECIFICATION PrefixSpec
CONSTANTS
    Request = {1, 2, 3}
    Tokens <- SharedPrefix
    PromptLen <- SharedPrefixLen
    NumBlocks = 4
    BlockSize = 2
    Budget = 4
    LongPrefill = 0
    Policy = "fcfs"
    Priority <- LastFirst
    Aborted = {2}
    MaxResets = 1
    None = None
INVARIANTS PoolInv OwnKV
