SPECIFICATION Spec
CHECK_DEADLOCK FALSE
CONSTANTS
    MaxAge = 2
    NInit = 2
    Budget = 3
    ReidInterval = 1
    MaxFrames = 7
    MaxDets = 2
    MaxId = 4
INVARIANTS
    GalleryFollowsTracks
    DrawnIdsAreRecent
    StaleTracksLeave
    IdsShownWhenSteady
