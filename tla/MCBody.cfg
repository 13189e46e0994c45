SPECIFICATION Spec
CONSTANTS
    Fds <- MCSevenFds
    Pids = {p1}
    NoProc = NoProc
    Threshold = 1
    HeaderKinds = {"length"}
    PipeCap = 1
    MaxBody = 1
    MaxBacklog = 2
    MaxClients = 1
INVARIANTS
    BodyReachesScript
