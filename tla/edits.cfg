SPECIFICATION Spec
CONSTANTS
    MaxEdits = 2
    Files <- MCFiles
    Requests <- MCRequests
    MaxHeight = 1080
    MaxDuration = 300
    MaxEvents = 2
INVARIANTS TypeOK ApiAndWorkerAgree OfferedIsAccepted LibraryIsPlayable OutputAsAsked WaitingIsServed
PROPERTIES StartsFromOriginal
CHECK_DEADLOCK FALSE
