CONSTANTS
    Jobs = {j1}
    Workers = {w1, w2}
    NoJob = NoJob
    NoWorker = NoWorker
    Results = {"ladder"}
    MaxInterruptions = 2
    Limits <- DeleteLimits
SPECIFICATION Spec
INVARIANTS RecordedIsStored ReadyIsStored
PROPERTIES ImplementsLifecycle
SYMMETRY WorkerSymmetry
CHECK_DEADLOCK FALSE
