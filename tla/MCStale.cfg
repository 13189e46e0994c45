SPECIFICATION Spec
CONSTANTS
    Fds <- MCFourteenFds
    Peers = {a, b, c}
    NoPeer = NoPeer
    Kinds = {"file", "script"}
    FileLens = {1}
    FileBuf = 1
    MaxEvents = 3
    Resets = FALSE
    Expiry = FALSE
    MaxRequests = 1
SYMMETRY MCSymmetric
CONSTRAINT MCOneSilentScript
CHECK_DEADLOCK FALSE
PROPERTIES
    HangsUpAfterAnswer
