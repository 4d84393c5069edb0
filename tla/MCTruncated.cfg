\* A retry after the segments of a transcription were refused.
CONSTANTS
    A = A
    P = P
    Q = Q
    C = C
    D = D
    Clients = {C}
    Roles <- SubmitOrRetry
    Workers = {A, P}
    Lanes <- OnePerLane
    SlowWork = FALSE
    Redelivery = FALSE
    SegmentErrors = TRUE
    TaskIdErrors = FALSE
    MaxJobs = 2
    InlineDiarization = FALSE
    CleanupEnabled = TRUE
    FailureKinds = {"other"}
    ReviewAfter = 2
    HandoffLimit = 1
SPECIFICATION Spec
INVARIANTS NoTruncatedTranscript
CHECK_DEADLOCK FALSE
