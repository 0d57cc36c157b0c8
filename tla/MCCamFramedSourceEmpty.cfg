SPECIFICATION Spec
INVARIANT DeliverHasData
CONSTANTS
    Clients <- MCClients
    MaxFrames = 5
    Idr <- MCIdr
