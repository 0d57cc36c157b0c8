SPECIFICATION FairSpec
CONSTANTS
    Files <- MCFiles
    strtol <- MCstrtol
INVARIANTS
    RunningStreamsAreComplete
    FailedStreamsOwnNothing
    StopPrecedesDestruction
PROPERTIES
    ParsedAsWritten
    ReadyStreamsAreServed
