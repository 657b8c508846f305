CONSTANTS
    SEGMENT_SECONDS = 2
    Workers = {w1, w2}
    Videos <- MCVideos
    Files <- MCFiles
    Encoded <- MCEncoded
    MAX_FPS = 1
    MAX_HEIGHT = 2160
    CHUNK_SECONDS = 2
    PIECE_SECONDS = 3
    MIN_DURATION = 5
    AV1_POPULAR_VIEWS = 2
    MaxPlays = 2
    MaxStops = 1
    MaxCrashes = 1
    MaxTroubles = 1
    NoOne = NoOne
SPECIFICATION Spec
INVARIANTS TypeOK PiecesJoinAsOne LadderIsWellFormed MasterListsStored MasterReadsRight WholeSegmentsStart AtMostOneLateEncode
PROPERTIES NothingUnlisted RenditionSettles
CHECK_DEADLOCK FALSE
