\* Two threads, every race on the handshake flags and the queue.
SPECIFICATION Spec
CONSTANTS
    m1 = m1
    m2 = m2
    k1 = k1
    caller = caller
    Handshake = Handshake
    Bitfield = Bitfield
    Msgs = {m1}
    KeepAlives = {k1}
    Splittable = {Handshake, m1}
    Callers = {caller}
    NumThreads = 2
    MaxFrames = 1
CHECK_DEADLOCK FALSE
INVARIANTS
    HandshakeFirst
