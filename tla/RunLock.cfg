\* One leg behind each kind of wrapper, two runs each.
SPECIFICATION FairSpec
CONSTANTS
    ob1b = ob1b
    ob2 = ob2
    ob3 = ob3
    gate1 = gate1
    Legs = {ob1b, ob3, gate1}
    Poll <- PollOf
    Limit <- LimitOf
    Yield <- YieldOf
    Runs <- RunsOf
    RamFirst = {ob3}
    Unguarded = {gate1}
INVARIANTS
    LockHasHolder
    RamCheckHolds
    YieldGivesWay
PROPERTIES
    ImplementsBoxLock
    NoEndlessWait
    LockComesBack
CHECK_DEADLOCK FALSE
