SPECIFICATION QueueSpec
CONSTANTS
    Block <- FourBlocks
    Blocks <- InOrder
    FakeHead = 0
    FakeTail = 5
    None = 6
INVARIANTS LinksConsistent
PROPERTIES ImplementsQueue
