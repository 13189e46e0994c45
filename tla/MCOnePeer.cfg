SPECIFICATION LiveSpec
CONSTANTS
    Fds <- MCNineFds
    Peers = {a}
    NoPeer = NoPeer
    Kinds = {"answer", "file", "script"}
    FileLens = {0, 3}
    FileBuf = 2
    MaxEvents = 4
    Resets = TRUE
    Expiry = FALSE
    MaxRequests = 2
CHECK_DEADLOCK FALSE
INVARIANTS
    NextRequestAfterWholeAnswer
    WatchedWithReason
PROPERTIES
    HangsUpAfterAnswer
    RequestsEnd
