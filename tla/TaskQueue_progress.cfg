SPECIFICATION FairSpec
CONSTANTS
    Tasks = {t1, t2, t3}
    Handlers = {h1, h2}
    Workers = {w1}
    MaxLimit = 2
    InitLimit = 1
    Priorities = {0}
    Offsets <- MCOffsets
    ClientOps = {"Pause", "Resume", "SetMaxConcurrent", "ChangePosition", "SetPriority"}
INVARIANTS
    FreeSlotNoticed
PROPERTIES
    WaitingTaskStarts
