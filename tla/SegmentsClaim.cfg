\* The same run without its watcher.
SPECIFICATION Spec
CONSTANTS
    Anchor = 1
    Total = 5
    CkptSteps = {3, 5}
    ProgressEvery = 1
    HotLimit = 2
    N = 3
    B = 2
    MaxSegments = 2
PROPERTIES
    CompletedArmIsDone
CHECK_DEADLOCK FALSE
