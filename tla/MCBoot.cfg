SPECIFICATION FairSpec
CONSTANTS
    FRAME_SIZE = 2
    HEAP_CAP = 4
    ARRAY = 2
    VB = VB
    OWN = OWN
    NONE = NONE
    Pages <- SomePages
    Machines <- SomeMachines
    MAX_CPUS = 3
    MaxTarget = 4
    MaxChanges = 2
    MaxDma = 1
INVARIANTS SlotsApart UpIsReady FramesOnce HostHasOnlyBallooned BalloonConsistent
PROPERTIES BootEnds
CHECK_DEADLOCK FALSE
