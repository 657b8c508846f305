CONSTANTS
    Jobs = {j1}
    Workers = {w1}
    NoJob = NoJob
    NoWorker = NoWorker
    Results = {"ladder"}
    MaxInterruptions = 2
    Limits <- LadderLimits
SPECIFICATION FairSpec
INVARIANTS TypeOK
PROPERTIES LadderSettles
CHECK_DEADLOCK FALSE
