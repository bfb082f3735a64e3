\* The A/A run and one more row of the matrix, one run of the 120b leg, one of a
\* sibling.
SPECIFICATION FairSpec
CONSTANTS
    Rows <- RowsOf
    AA = 1
    Poll = 1
    InlinePoll = 2
    Yield = 5
    StatsPoll = 2
    EnginePoll = 1
    ChainPoll = 4
    Gap = 1
    Settle = 5
    Hash = 2
INVARIANTS
    EngineGuarded
    OrphanCleared
    NeverCompete
PROPERTIES
    HandsOver
CHECK_DEADLOCK FALSE
