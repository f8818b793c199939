CONSTANTS
    Node = {1, 2, 3}
    d1 = d1
    d2 = d2
    s1 = s1
    s2 = s2
    s3 = s3
    ra = ra
    rb = rb
    Digest = {d1}
    NoDigest = NoDigest
    SampleId = {s1, s2, s3}
    ReleaseId = {ra}
    Inputs <- ObservedInputs
    MaxTime = 2
    ClockMoves <- ForwardAndBack
    KeepReceivedAt = FALSE
    FileBacked = TRUE
SYMMETRY SampleSymmetry
SPECIFICATION Spec
INVARIANTS
    TypeOK
    NoBreachWhileObserving
    ThresholdStartsWindow
    WavesInOrder
    RollbackJustifiedAndComplete
    NoticesExactlyOnce
    PauseReasonTruthful
    ProgressShowsWhoMayReport
    HealthViewTruthful
PROPERTIES
    PromotionPassedObservation
    WithdrawalIsFinal
    ImplementsLifecycle
