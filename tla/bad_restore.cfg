CONSTANTS
    Jobs = {j1}
    Workers = {w1}
    NoJob = NoJob
    NoWorker = NoWorker
    Results = {"plain"}
    MaxInterruptions = 2
    Limits <- OneTrash
SPECIFICATION Spec
PROPERTIES EmptiesOnlyTrash
CHECK_DEADLOCK FALSE
