\* One thread: losses, duplicates, stale and late answers, errors; a fair-lossy network.
SPECIFICATION FairSpec
CONSTANTS
    t1 = t1
    t2 = t2
    t3 = t3
    t4 = t4
    r1 = r1
    r2 = r2
    None = None
    Tids <- FourTids
    Receivers = {r1}
    NumThreads = 1
    MaxSending = 1
    MaxNet = 1
CHECK_DEADLOCK FALSE
INVARIANTS
    FailsOnlyWhenCrossed
    ChainUnbroken
    
PROPERTIES
    AnnounceIdentified
    ConnectAnswered
