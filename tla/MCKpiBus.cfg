SPECIFICATION BusSpec
CONSTANTS
    Drivers = {d1, d2}
    Others <- Places
    NoBar = {d2}
    SLOT_COUNT = 3
    MaxVecs = 2
    Concurrent = FALSE
    None = None
    Machines <- FiveMachines
    MinVirtio = 2
INVARIANTS
    HandlerOfSender
    DeclinedIsClean
    
PROPERTIES
    KeptDevices
    ChangesHeard
CHECK_DEADLOCK FALSE
