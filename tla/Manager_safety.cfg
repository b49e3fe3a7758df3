SPECIFICATION MSpec
CONSTANTS
    Tasks = {t1, t2}
    Handlers = {h1}
    Downloads = {w1, w2}
    Monitors = {}
    Deaf = {}
    None = None
    Workers <- MCWorkers
    MaxLimit = 2
    InitLimit = 1
    Priorities = {0}
    Offsets = {}
    ClientOps = {"Remove", "Pause", "Resume", "SetMaxConcurrent", "Purge", "RemoveStopped"}
INVARIANTS
    RunningIsRegistered
    LateReportsCounted
    StoppedForGood
PROPERTIES
    FinishedStaysFinished
SYMMETRY Symmetry
CHECK_DEADLOCK FALSE
