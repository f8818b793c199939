CONSTANTS
    Node = {1}
    d1 = d1
    d2 = d2
    s1 = s1
    ra = ra
    rb = rb
    Digest = {d1, d2}
    NoDigest = NoDigest
    SampleId = {s1}
    ReleaseId = {ra, rb}
    Inputs <- WatchedInputs
    MaxTime = 1
    ClockMoves <- ForwardOnly
    KeepReceivedAt = FALSE
    FileBacked = FALSE
SYMMETRY ReleaseSymmetry
SPECIFICATION FleetSpec
INVARIANTS
    FleetTypeOK
    KnownVersions
PROPERTIES
    RestoresWhatRan
