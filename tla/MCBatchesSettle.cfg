\* The reaper or the operator beside a user; two attempts in two batches, of one request or of two.
CONSTANTS
    C = C
    D = D
    V = V
    W = W
    Clients = {C, D}
    Roles <- UserAndCare
    Workers = {V}
    MaxJobs = 2
    BatchSize = 1
    ActiveLimit = 1
    TaskIdErrors = TRUE
SPECIFICATION CareSpec
PROPERTIES BatchesSettle
CHECK_DEADLOCK FALSE
