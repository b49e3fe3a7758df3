SPECIFICATION MCSpec
CONSTANTS
    Callers = {a1, a2}
    Streams = {u1}
    Conns = {k1, k2}
    MaxCalls = 2
    None = None
INVARIANTS
    OwnAnswer
    AtMostOnce
    NothingServedAfterShutdown
PROPERTIES
    CallsAndShutdownReturn
CHECK_DEADLOCK FALSE
