SPECIFICATION MCSpec
CONSTANTS
    t1 = t1
    Nodes = {n1, n2}
    Tasks = {t1, t2}
    Local = n1
    None = None
    Loads = {0, 1}
    LoadLimit = 1
    ChanCap = 1
    MaxRetries = 2
    Slack = 0
    Timers = {w1}
    Heard = {n2}
    MaxClears = 1
    MaxUpdates = 2
INVARIANTS UnassignedIsPending OnlyLateStranded
PROPERTIES HeardNotRemoved SilentRemoved 
CHECK_DEADLOCK FALSE
