\* Requests of up to five attempts in three batches, cancellations, two tasks at a time.
CONSTANTS
    C = C
    D = D
    V = V
    W = W
    Clients = {C}
    Roles <- UserOnly
    Workers = {V, W}
    MaxJobs = 5
    BatchSize = 2
    ActiveLimit = 1
    TaskIdErrors = FALSE
SPECIFICATION Spec
SYMMETRY Alike
INVARIANTS TypeOK LimitKept SettledBatchIsDone FinishedBatchIsSettled BatchesInOrder
CHECK_DEADLOCK FALSE
