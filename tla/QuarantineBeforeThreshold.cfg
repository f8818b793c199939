CONSTANTS
    Node = {1, 2, 3}
    d1 = d1
    d2 = d2
    s1 = s1
    s2 = s2
    s3 = s3
    ra = ra
    rb = rb
    Digest = {d1}
    NoDigest = NoDigest
    SampleId = {s1, s2, s3}
    ReleaseId = {ra}
    Inputs <- StrictInputs
    MaxTime = 1
    ClockMoves <- ForwardOnly
    KeepReceivedAt = FALSE
    FileBacked = FALSE
SYMMETRY SampleSymmetry
SPECIFICATION Spec
INVARIANTS
    QuarantineLimitImmediate
