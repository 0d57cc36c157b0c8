SPECIFICATION Spec
CONSTANTS
    Files <- MCFiles
    strtol <- MCstrtol
INVARIANT CameraFailureDoesNotCrash
