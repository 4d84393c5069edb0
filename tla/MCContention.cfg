\* Channel requests, promotion and cancellation that race with the reaper and a submission; messages delivered again.
CONSTANTS
    A = A
    P = P
    Q = Q
    C = C
    D = D
    Clients = {C, D}
    Roles <- Contention
    Workers = {P}
    Lanes <- AudioOnly
    SlowWork = FALSE
    Redelivery = TRUE
    SegmentErrors = FALSE
    TaskIdErrors = FALSE
    MaxJobs = 2
    InlineDiarization = FALSE
    CleanupEnabled = TRUE
    FailureKinds = {}
    ReviewAfter = 2
    HandoffLimit = 1
SPECIFICATION Spec
INVARIANTS OneActiveAttempt
PROPERTIES AttemptsTakeTurns
CHECK_DEADLOCK FALSE
