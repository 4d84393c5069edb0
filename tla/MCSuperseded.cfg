\* A worker that outlives its attempt.
CONSTANTS
    A = A
    P = P
    Q = Q
    C = C
    D = D
    Clients = {C}
    Roles <- SubmitOrReap
    Workers = {A, P}
    Lanes <- OnePerLane
    SlowWork = TRUE
    Redelivery = FALSE
    SegmentErrors = FALSE
    TaskIdErrors = FALSE
    MaxJobs = 2
    InlineDiarization = FALSE
    CleanupEnabled = TRUE
    FailureKinds = {"other"}
    ReviewAfter = 2
    HandoffLimit = 1
SPECIFICATION Spec
INVARIANTS SupersededStaysSettled
CHECK_DEADLOCK FALSE
