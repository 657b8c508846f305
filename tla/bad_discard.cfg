CONSTANTS
    Jobs = {j1}
    Workers = {w1, w2}
    NoJob = NoJob
    NoWorker = NoWorker
    Results = {"ladder"}
    MaxInterruptions = 2
    Limits <- OneLoss
SPECIFICATION Spec
INVARIANTS ReadyIsStored
SYMMETRY WorkerSymmetry
CHECK_DEADLOCK FALSE
