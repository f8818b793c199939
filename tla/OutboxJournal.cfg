CONSTANTS
    c1 = c1
    c2 = c2
    w1 = w1
    w2 = w2
    Client = {c1}
    Dispatcher = {w1, w2}
    MaxTxn = 3
    MaxCrashes = 2
    MaxFailures = 0
SPECIFICATION FairSpec
PROPERTIES
    ImplementsJournal
    SucceededAnnounced
CHECK_DEADLOCK FALSE
