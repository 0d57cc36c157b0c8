SPECIFICATION Spec
CHECK_DEADLOCK FALSE
CONSTANTS
    MaxTimeLost = 2
    OtherStreams <- MCOtherStreams
    MaxFrameId = 6
    MaxId = 3
INVARIANTS
    UniqueIds
    ShownTracksAreFresh
    ExpiredTracksLeave
PROPERTIES
    LostTracksAreKept
    GoneForGood
