SPECIFICATION Spec
CONSTANTS
    Tasks = {t1, t2, t3, t4}
    Handlers = {h1, h2}
    Workers = {w1}
    MaxLimit = 1
    InitLimit = 1
    Priorities = {0, 1}
    Offsets <- MCOffsets
    ClientOps = {"Remove", "Pause", "Resume", "SetMaxConcurrent", "ChangePosition"}
INVARIANTS
    HeapSound
    PendingTracked
    RunningCounted
    OvershootBounded
PROPERTIES
    ReorderMovesOne
SYMMETRY Symmetry
