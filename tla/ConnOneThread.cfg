\* One thread, fair handlers and socket; the handshake and one message may be written in two bites.
SPECIFICATION FairSpec
CONSTANTS
    m1 = m1
    m2 = m2
    k1 = k1
    caller = caller
    Handshake = Handshake
    Bitfield = Bitfield
    Msgs = {m1, m2}
    KeepAlives = {k1}
    Splittable = {Handshake, m1}
    Callers = {caller}
    NumThreads = 1
    MaxFrames = 1
CHECK_DEADLOCK FALSE
INVARIANTS
    SentOnce
    KeepAliveNotForgotten
    SendOrder
    OneReader
PROPERTIES
    Delivered
