SPECIFICATION FairSpec
CONSTANTS
    t1 = t1
    t2 = t2
    Tasks <- MCTasks
    Idle = Idle
    Boot = Boot
    NoTask = NoTask
    Spawners <- Stacks
    SliceTicks = 2
    TickMod = 4
INVARIANTS
    BoxOwnership
    SwitchIntoSavedFrame
    RunqueueNeverReentered
PROPERTIES
    SliceKept
    ReadyRuns
