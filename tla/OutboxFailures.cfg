CONSTANTS
    c1 = c1
    c2 = c2
    w1 = w1
    w2 = w2
    Client = {c1, c2}
    Dispatcher = {w1, w2}
    MaxTxn = 3
    MaxCrashes = 1
    MaxFailures = 2
SYMMETRY ProcessSymmetry
SPECIFICATION Spec
INVARIANTS
    AnsweredDurable
    MarkedWasSunk
    SunkInOrder
CHECK_DEADLOCK FALSE
