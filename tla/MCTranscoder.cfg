SPECIFICATION FairSpec
CONSTANTS
    N = 2
    B = 3
    MaxFrames = 4
    MaxQbufErrors = 1
INVARIANTS
    SlotExclusive
    BufferOwnership
    FaithfulStream
    TrackerInOrder
    CameraNotStarved
    DrainedAtClose
PROPERTIES
    FramesCollected
    StopReturns
