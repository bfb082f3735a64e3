\* The generation gate of ob5b1 and a sibling.
SPECIFICATION Spec
CONSTANTS
    ob1b = ob1b
    ob2 = ob2
    ob3 = ob3
    gate1 = gate1
    Legs = {ob1b, gate1}
    Poll <- PollOf
    Limit <- LimitOf
    Yield <- YieldOf
    Runs <- RunsOf
    RamFirst = {}
    Unguarded = {gate1}
INVARIANTS
    ReleasedAfterRun
CHECK_DEADLOCK FALSE
