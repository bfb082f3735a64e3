\* A table of one ROW and one CLAIM of the same leg, all tables that two edits
\* make of it.
SPECIFICATION Spec
CONSTANTS
    ROW_KEYS <- RowKeys
    CLAIM_KEYS <- ClaimKeys
    Table <- TableOfRecord
    Surface <- TheSurface
    Faults <- FaultSet
    MaxEdits = 2
INVARIANTS
    AcceptedIsComplete
    EachFaultItsRule
CHECK_DEADLOCK FALSE
