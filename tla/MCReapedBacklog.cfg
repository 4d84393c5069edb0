\* The reaper beside a request.
CONSTANTS
    C = C
    D = D
    V = V
    W = W
    Clients = {C, D}
    Roles <- UserAndCare
    Workers = {V}
    MaxJobs = 2
    BatchSize = 2
    ActiveLimit = 1
    TaskIdErrors = FALSE
SPECIFICATION Spec
INVARIANTS LimitKept
CHECK_DEADLOCK FALSE
