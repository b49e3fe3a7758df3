SPECIFICATION FairSpec
CONSTANTS
    Conns = {c1, c2}
    FileSize = 5
    PieceLength = 4
    BlockLength = 2
    MinSteal = 2
    ReadSizes = {1, 2}
    Urls = 1
    MaxRetries = 1
    Adaptive = TRUE
    Resumes = TRUE
    Cancels = TRUE
    Faults = {"timeout", "error", "noRange", "short"}
    NoOne = NoOne
INVARIANTS
    CompleteIsWritten
    SuccessMeansComplete
    OneWorkerPerPiece
PROPERTIES
    CancelledReturns
    OnlyLeaksAndStallsHang
CHECK_DEADLOCK FALSE
