SPECIFICATION FairSpec
CONSTANTS
    N = 5
    B = 4
    MaxFrames = 5
    MaxQbufErrors = 0
PROPERTIES
    FramesCollected
