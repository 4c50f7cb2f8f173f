SPECIFICATION KeyboardFairSpec

CONSTANTS
    DrainBudget = 2
    MaxStrokes = 4

CHECK_DEADLOCK FALSE

INVARIANTS
    TextIsWhatWasTyped
PROPERTIES
    NeverWedged
