\* Two layers of three experts, two of them resident, over seven tokens with
\* micro-batches of three over windows of two: the calls start at 0, 3 and 6, so
\* calls straddle a boundary, one starts at a boundary, where it may evict, and
\* the last is short.  Every log of the first layer; the second layer's is the
\* first's, expert by expert or shifted by one.
SPECIFICATION Spec
CONSTANTS
    E = 3
    K = 2
    H = 2
    Picks = 1
    Add = 65536
    L = 2
    Budget = 7
    Ubatch = 3
    MaxToken = 4
ACTION_CONSTRAINT
    SecondFollows
INVARIANTS
    PhysIsResident
    AgreesWithSimulator
    LeaseLedger
    PromotionsAreChurn
PROPERTIES
    ImplementsDecayPolicy
CHECK_DEADLOCK FALSE
