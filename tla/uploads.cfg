CONSTANTS
    Sessions = {s1}
    Requests = {r1, r2}
    NoRequest = NoRequest
    NoSession = NoSession
    MaxOpen = 1
    MaxEtag = 2
    Limits <- UploadLimits
SPECIFICATION FairSpec
INVARIANTS TypeOK JobHasSource CompletedIsQueued
PROPERTIES AbortIsFinal SlotIsFreed StrayGoes
