\* Every log of six tokens with two picks out of three experts, one of them
\* resident, windows of two tokens; micro-batches that are one token, tile the
\* window, straddle a boundary, hold two boundaries, hold the whole log.  The
\* engine runs the log in two layers, all of it prompt or the last two tokens
\* generated, and the file it leaves is damaged at the beginning, at the end of
\* a layer and near its end.
SPECIFICATION MCSpec
CONSTANTS
    E = 3
    K = 1
    H = 2
    Picks = 2
    Add = 65536
    Budget = 6
    Ubatches = {1, 2, 3, 5, 7}
    Slidings = {1, 3}
    L = 2
    T = 6
    Prompts = {4, 6}
    Spots = {1, 6, 10}
INVARIANTS
    MatchesSimulator
    ReadingsDifferByChurn
    GatesAgree
    DamageShows
    LeasesRederived
    ReplayPredictsRun
    ChunksRead
    SchedulesCompared
CHECK_DEADLOCK FALSE
