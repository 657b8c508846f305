CONSTANTS
    Jobs = {j1}
    Workers = {w1, w2}
    NoJob = NoJob
    NoWorker = NoWorker
    Results = {"plain"}
    MaxInterruptions = 2
    Limits <- EncodeLimits
SPECIFICATION Spec
INVARIANTS RowsLegal AtMostOneRunner QueuedIsRecoverable
PROPERTIES GiveBackOwnClaim RetryIsDelivered
SYMMETRY WorkerSymmetry
CHECK_DEADLOCK FALSE
