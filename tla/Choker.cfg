\* Two slots for three peers, which come, go and change their mind; fair timer and
\* sampling.
SPECIFICATION FairSpec
CONSTANTS
    p1 = p1
    p2 = p2
    p3 = p3
    Peers = {p1, p2, p3}
    ActiveSize = 2
    Operations = {"remove", "stop"}
CHECK_DEADLOCK FALSE
INVARIANTS
    UnchokedBound
    UnchokedAreActive
    SlotsUsed
PROPERTIES
    NobodyStarves
