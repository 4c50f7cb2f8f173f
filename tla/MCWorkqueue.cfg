SPECIFICATION WorkFairSpec
CONSTANTS
    w1 = w1
    w2 = w2
    w3 = w3
    t1 = t1
    t2 = t2
    Irq = Irq
    Runner = Runner
    NoOne = NoOne
    Works <- ThreeWorks
    Callers <- TwoTasks
    Cancellers <- OneTask
    Cancellable <- OneWork
INVARIANTS
    QueuedOnce
    NeverStranded
PROPERTIES
    QueuedRuns
