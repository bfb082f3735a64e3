\* The same night; the claim about the siblings.
SPECIFICATION Spec
CONSTANTS
    Rows <- RowsOf
    AA = 1
    Poll = 1
    InlinePoll = 2
    Yield = 5
    StatsPoll = 2
    EnginePoll = 1
    ChainPoll = 4
    Gap = 1
    Settle = 5
    Hash = 2
PROPERTIES
    SiblingsLockUntouched
CHECK_DEADLOCK FALSE
