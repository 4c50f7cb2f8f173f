SPECIFICATION WorkFairSpec
CONSTANTS
    w1 = w1
    w2 = w2
    w3 = w3
    t1 = t1
    t2 = t2
    Irq = Irq
    Runner = Runner
    NoOne = NoOne
    Works <- OneWork
    Callers <- TaskAndIrq
    Cancellers <- Nobody
    Cancellable <- Nobody
PROPERTIES
    IrqReturns
CHECK_DEADLOCK FALSE
