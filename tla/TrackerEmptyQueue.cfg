\* One thread: an answer that crosses with its own retransmission.
SPECIFICATION Spec
CONSTANTS
    t1 = t1
    t2 = t2
    t3 = t3
    t4 = t4
    r1 = r1
    r2 = r2
    None = None
    Tids <- ThreeTids
    Receivers = {r1}
    NumThreads = 1
    MaxSending = 1
    MaxNet = 1
SYMMETRY Symmetry
CHECK_DEADLOCK FALSE
INVARIANTS
    TopNotOnEmpty
