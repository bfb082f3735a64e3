\* Two layers of one expert with a weight and a bias, two workers with tasks of
\* one row, two builds, samples of two rows.
SPECIFICATION FairSpec
CONSTANTS
    L = 2
    E = 1
    T = 2
    Split = {0}
    Versions = {1, 2}
    Size <- SizeOf
    ChunkSize = 1
    NWORKERS = 2
    SampleN = 2
    MaxBuilds = 2
INVARIANTS
    CompletedBuildVerifies
    AcceptedStoreServes
PROPERTIES
    BuildEnds
CHECK_DEADLOCK FALSE
