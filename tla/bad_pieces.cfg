CONSTANTS
    Helpers = {h1, h2}
    MaxHelpers = 2
    MaxPieces = 2
    Limits <- StragglerLimits
SPECIFICATION Spec
INVARIANT JoinsOwnPieces
CHECK_DEADLOCK FALSE
