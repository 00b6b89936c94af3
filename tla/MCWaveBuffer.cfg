SPECIFICATION WaveSpec
CONSTANTS
    Size <- MCSize
    BuiltFirst = 4
    BlockSize = 2
    Capacity = 3
    BufferSize = 4
    NProbe = 2
    UpdateNProbe = 1
    StaticStart = 1
    StaticEnd = 1
    Splits = 3
    MaxContext = 16
INVARIANTS WaveInv AttendsRetrieved
