SPECIFICATION FairSpec
CONSTANTS
    Machines <- FiveMachines
    ERing = 6
    EpRing = 3
    Usages = {4, 45}
    MaxKeys = 2
    MaxReports = 1
    MaxPsc = 1
    None = None
INVARIANTS
    EventsInOrder
PROPERTIES
    CompletionIsOwn
    
    KeysArrive
CHECK_DEADLOCK FALSE
