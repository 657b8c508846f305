CONSTANTS
    Jobs = {j1}
    Workers = {w1}
    NoJob = NoJob
    NoWorker = NoWorker
    Results = {"plain"}
    MaxInterruptions = 2
    Limits <- DeliveryLimits
SPECIFICATION FairSpec
PROPERTIES JobSettles SourceGoes
CHECK_DEADLOCK FALSE
