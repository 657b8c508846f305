CONSTANTS
    Helpers = {h1, h2}
    MaxHelpers = 2
    MaxPieces = 2
    Limits <- PieceLimits
SPECIFICATION FairSpec
INVARIANTS TypeOK JoinsOwnPieces
PROPERTIES AttemptEnds
CHECK_DEADLOCK FALSE
