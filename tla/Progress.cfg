CONSTANTS
    Node = {1, 2}
    d1 = d1
    d2 = d2
    s1 = s1
    s2 = s2
    s3 = s3
    ra = ra
    rb = rb
    Digest = {d1}
    NoDigest = NoDigest
    SampleId = {s1, s2}
    ReleaseId = {ra}
    Inputs <- TimedInputs
    MaxTime = 3
    ClockMoves <- ForwardOnly
    KeepReceivedAt = FALSE
    FileBacked = FALSE
SPECIFICATION FairSpec
PROPERTIES
    OpenWaveResolves
    ObservationResolves
    RollbackCompletes
