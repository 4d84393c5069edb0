\* Every entry point but cancellation, one at a time; two processes on the post lane, inline diarization, no cleanup, timely work.
CONSTANTS
    A = A
    P = P
    Q = Q
    C = C
    D = D
    Clients = {C}
    Roles <- Serial
    Workers = {P, Q}
    Lanes <- TwoOnPost
    SlowWork = FALSE
    Redelivery = FALSE
    SegmentErrors = FALSE
    TaskIdErrors = FALSE
    MaxJobs = 3
    InlineDiarization = TRUE
    CleanupEnabled = FALSE
    FailureKinds = {"transient", "other"}
    ReviewAfter = 2
    HandoffLimit = 1
SPECIFICATION Spec
INVARIANTS TypeOK CompletedHasProducts FailedMeansIdle NoDuplicateChunks NumbersIncrease ReviewIsReached
CHECK_DEADLOCK FALSE
