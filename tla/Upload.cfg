\* Two threads; fair handlers and reads.
SPECIFICATION FairSpec
CONSTANTS
    p1 = p1
    p2 = p2
    i1 = i1
    i2 = i2
    r1 = r1
    r2 = r2
    Nothing = Nothing
    Outgoing = {p1}
    Incoming = {p2}
    Pieces = {i1, i2}
    Requests = {r1, r2}
    Asker <- MCAsker
    Asked <- MCAsked
    NumThreads = 2
    MaxChokes = 2
CHECK_DEADLOCK FALSE
INVARIANTS
    BuffersOwned
    EveryPeerTold
PROPERTIES
    RequestsAnswered
