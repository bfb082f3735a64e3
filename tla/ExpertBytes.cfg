\* Two layers of three experts in two expert tensors, slices of 19 and 22
\* bytes on pages of 4 from every base.  Two faults in the file and three route
\* calls: a layer's second call releases what the other layer's leased.
SPECIFICATION Spec
CONSTANTS
    E = 3
    L = 2
    ExpertSuffixes = {"gate", "down"}
    PerLayerCount = 1
    TokenEmbd = "embd"
    Output = "head"
    OutputNorm = "norm"
    Vocab = 4
    EB = 2
    HT = 2
    NonExpertBytes = 24
    DataStart = 8
    ResidentAlways = 32
    Gate = 19
    Down = 22
    PAGE = 4
    ALIGN = 1
    K = 1
    MaxFaults = 2
    MaxCalls = 3
INVARIANTS
    FileAccounted
    NeighbourKept
    OnlyEdgesStay
    PeakWithinBar
    CallsBalance
CHECK_DEADLOCK FALSE
