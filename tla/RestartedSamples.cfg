CONSTANTS
    Node = {1, 2}
    d1 = d1
    d2 = d2
    s1 = s1
    s2 = s2
    s3 = s3
    ra = ra
    rb = rb
    Digest = {d1}
    NoDigest = NoDigest
    SampleId = {s1}
    ReleaseId = {ra}
    Inputs <- TimedInputs
    MaxTime = 1
    ClockMoves <- ForwardOnly
    KeepReceivedAt = FALSE
    FileBacked = TRUE
SPECIFICATION Spec
INVARIANTS
    SamplesRecordable
