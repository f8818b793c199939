CONSTANTS
    Node = {1, 2, 3}
    d1 = d1
    s1 = s1
    s2 = s2
    s3 = s3
    ra = ra
    Digest = {d1}
    NoDigest = NoDigest
    SampleId = {s1, s2, s3}
    ReleaseId = {ra}
    Inputs <- OneReleaseInputs
    MaxTime = 1
    ClockMoves <- ForwardOnly
    KeepReceivedAt = FALSE
    FileBacked = FALSE
    LeaseTTL = 1
    MaxAttempts = 2
    MaxEpoch = 1
SYMMETRY SampleSymmetry
SPECIFICATION CatchupSpec
INVARIANTS
    TypeOK
    LivePlanReleaseStands
    WaveBarrier
    PlansConserved
    CatchupViewTruthful
PROPERTIES
    CatchupMovesForward
