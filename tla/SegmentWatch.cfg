\* Two arms of four steps after the anchor, checkpoints at 3 and 5, every step a
\* progress point, two hot samples stop; steps of two windows over a corpus of
\* three, so that the epoch ends inside a step; two segments, the second watched.
SPECIFICATION WatchSpec
CONSTANTS
    Anchor = 1
    Total = 5
    CkptSteps = {3, 5}
    ProgressEvery = 1
    HotLimit = 2
    N = 3
    B = 2
    MaxSegments = 2
    WatchSeg = 2
INVARIANTS
    ResumeExact
    BankedDigestsAgree
    EqualBudget
    CollectorSeesFinals
    DemosPreempt
    HeatIsBounded
PROPERTIES
    FailureIsReported
CHECK_DEADLOCK FALSE
