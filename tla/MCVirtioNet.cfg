SPECIFICATION NicFairSpec
CONSTANTS
    Size = 2
    TxBoxes = {x1, x2, x3}
    Frames = {f1, f2}
    Nothing = Nothing
INVARIANTS
    FramesIntact
    TxBuffersAlive
PROPERTIES
    BuffersRecycled
