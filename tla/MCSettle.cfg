\* The attempts of a batch and of a user, to the end; task ids whose commit is refused.
CONSTANTS
    A = A
    P = P
    Q = Q
    C = C
    D = D
    Clients = {C}
    Roles <- OneAtATime
    Workers = {P}
    Lanes <- OneForAll
    SlowWork = FALSE
    Redelivery = FALSE
    SegmentErrors = TRUE
    TaskIdErrors = TRUE
    MaxJobs = 2
    InlineDiarization = FALSE
    CleanupEnabled = TRUE
    FailureKinds = {"other"}
    ReviewAfter = 2
    HandoffLimit = 1
SPECIFICATION FairSpec
PROPERTIES SettledIsFinal AttemptsSettle
CHECK_DEADLOCK FALSE
