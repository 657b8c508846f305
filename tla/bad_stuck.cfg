CONSTANTS
    Jobs = {j1}
    Workers = {w1}
    NoJob = NoJob
    NoWorker = NoWorker
    Results = {"plain"}
    MaxInterruptions = 2
    Limits <- OneCrash
SPECIFICATION FairSpec
PROPERTIES JobSettles
CHECK_DEADLOCK FALSE
