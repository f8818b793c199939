CONSTANTS
    c1 = c1
    c2 = c2
    w1 = w1
    w2 = w2
    Client = {c1}
    Dispatcher = {w1}
    MaxTxn = 2
    MaxCrashes = 0
    MaxFailures = 1
SPECIFICATION Spec
INVARIANTS
    FailedLeavesNoTrace
CHECK_DEADLOCK FALSE
