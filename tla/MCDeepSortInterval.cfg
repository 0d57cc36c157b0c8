SPECIFICATION Spec
CHECK_DEADLOCK FALSE
CONSTANTS
    MaxAge = 30
    NInit = 2
    Budget = 100
    ReidInterval = 3
    MaxFrames = 8
    MaxDets = 1
    MaxId = 4
INVARIANT IdsShownWhenSteady
