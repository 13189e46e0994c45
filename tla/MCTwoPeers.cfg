SPECIFICATION Spec
CONSTANTS
    Fds <- MCEightFds
    Peers = {a, b}
    NoPeer = NoPeer
    Kinds = {"file", "script"}
    FileLens = {1}
    FileBuf = 2
    MaxEvents = 3
    Resets = FALSE
    Expiry = TRUE
    MaxRequests = 1
SYMMETRY MCSymmetric
CHECK_DEADLOCK FALSE
INVARIANTS
    DescriptorsOwned
