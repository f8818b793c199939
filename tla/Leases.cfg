CONSTANTS
    Node = {1}
    d1 = d1
    d2 = d2
    s1 = s1
    ra = ra
    rb = rb
    Digest = {d1, d2}
    NoDigest = NoDigest
    SampleId = {s1}
    ReleaseId = {ra, rb}
    Inputs <- TwoReleaseInputs
    MaxTime = 1
    ClockMoves <- ForwardOnly
    KeepReceivedAt = FALSE
    FileBacked = FALSE
    LeaseTTL = 1
    MaxAttempts = 2
    MaxEpoch = 2
SYMMETRY ReleaseSymmetry
SPECIFICATION WorkersSpec
INVARIANTS
    LastClaimWins
    OneResultPerEntry
    LivePlanBaselineCurrent
    OneLivePlanPerNode
    AppliedVersionExplained
    ServedPlanStands
PROPERTIES
    ReclaimAfterExpiry
    NodesMoveForward
