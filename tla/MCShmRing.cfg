SPECIFICATION FairRingSpec
CONSTANTS
    NReaders = 2
    MaxChunks = 2
    MaxMessages = 3
INVARIANTS NoTornRead
PROPERTIES RingIsBroadcastQueue EveryMessageArrives
