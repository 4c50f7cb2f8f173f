SPECIFICATION FairSpec
CONSTANTS
    Buses <- ThreeBuses
    QSize = 3
    CidMod = 4
    Frames <- FiveFrames
    Statuses = {0, 1, 2}
    MaxReads = 5
    None = None
INVARIANTS
    PhaseTellsNew
PROPERTIES
    OkMeansRead
    BringUpEnds
CHECK_DEADLOCK FALSE
