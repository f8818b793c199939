CONSTANTS
    Node = {1, 2}
    d1 = d1
    d2 = d2
    s1 = s1
    s2 = s2
    s3 = s3
    ra = ra
    rb = rb
    Digest = {d1}
    NoDigest = NoDigest
    SampleId = {s1, s2}
    ReleaseId = {ra}
    Inputs <- TimedInputs
    MaxTime = 2
    ClockMoves <- ForwardOnly
    KeepReceivedAt = TRUE
    FileBacked = FALSE
SPECIFICATION Spec
PROPERTIES
    SamplesWithinWindow
