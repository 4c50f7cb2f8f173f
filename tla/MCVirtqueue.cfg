SPECIFICATION ShimSpec
CONSTANTS
    QueueSize = 2
    IdxMod = 4
    MaxChain = 2
    Bufs = {b1, b2, b3}
    NoBuf = NoBuf
    NULL = NULL
INVARIANTS
    DescriptorsPartitioned
    ShimMatchesQueue
PROPERTIES
    QueueIsExchange
    EveryRequestReaped
