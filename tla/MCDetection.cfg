SPECIFICATION DetectionSpec
CONSTANTS
    Workers = {1, 2}
    Inputs <- MCInputs
    ClassNum = 2
    LabelFiles = {1, 2}
    ConfThreshold = 5
    NmsThreshold = 45
    MaxResults = 3
    ModelSize = 16
    Pads <- MCPads
    Scale <- MCScale
    MaxFailures = 1
    Nothing = Nothing
INVARIANTS
    LabelsReadyForAll
    NonMaximumSuppressed
    ResultsAreRanked
    OwnFeature
