SPECIFICATION MCSpec
CONSTANTS
    r1 = r1
    r2 = r2
    a = a
    b = b
    c = c
    Key = {a, b, c}
    NumBlocks = 2
    CachePolicies = {"lru", "arc"}
    Scale = 2
    Request = {r1, r2}
    OffloadKeys <- TwoRequests
    RemoteDecode = {r2}
    Aborted = {r1, r2}
    Resets = TRUE
    PrefixCaching = {TRUE, FALSE}
    MaxPreemptions = 1
INVARIANTS ManagerInv TransfersSafe
PROPERTIES ImplementsOffloadCache
