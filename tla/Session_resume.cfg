SPECIFICATION PSpec
CONSTANTS
    NumBlocks = 2
    BlockLen = 2
    PieceBlocks = 1
    Configs <- MCConfigs
    MaxRetries = 1
    MaxRestarts = 2
    MaxTotal = 6
    Faults = {"timeout", "error", "cut"}
    None = None
    Protocols = {"http", "metalink", "ftp", "sftp", "webdav", "s3", "torrent"}
INVARIANTS
    ResumeSound
    SessionComplete
CHECK_DEADLOCK FALSE
