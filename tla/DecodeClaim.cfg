\* A micro-batch of two tokens over windows of three: U <= H, and the second
\* micro-batch straddles the first boundary.
SPECIFICATION Spec
CONSTANTS
    E = 3
    K = 1
    H = 3
    Picks = 1
    Add = 65536
    Budget = 6
    Ubatches = {2}
    Slidings = {3}
INVARIANTS
    ReadingsIdenticalUpToH
CHECK_DEADLOCK FALSE
