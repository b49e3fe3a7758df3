SPECIFICATION StopSpec
CONSTANTS
    Tasks = {t1, t2}
    Handlers = {h1}
    Downloads = {w1, w2}
    Monitors = {m1, m2}
    Deaf = {t2}
    None = None
    Workers <- MCWorkers
    MaxLimit = 1
    InitLimit = 1
    Priorities = {0}
    Offsets = {}
    ClientOps = {"Remove"}
PROPERTIES
    StopTerminates
    DownloadingEnds
CHECK_DEADLOCK FALSE
