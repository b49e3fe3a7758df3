SPECIFICATION MCSpec
CONSTANTS
    t1 = t1
    h1 = h1
    Tasks = {t1, t2}
    Handlers = {h1, h2}
    Autosave = auto
    None = None
    MaxRev = 2
    MaxFaults = 1
    MaxRestarts = 1
INVARIANTS ToldIsDurable RemovedLeavesNoFile
CHECK_DEADLOCK FALSE
