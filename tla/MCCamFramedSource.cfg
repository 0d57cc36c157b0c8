SPECIFICATION FairSpec
INVARIANTS
    GapFree
    DataAnnounced
    CleanJoinStartsAtIdr
PROPERTIES
    InOrder
    WaiterIsServed
CONSTANTS
    Clients <- MCClients
    MaxFrames = 5
    Idr <- MCIdr
