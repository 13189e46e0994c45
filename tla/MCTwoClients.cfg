SPECIFICATION Spec
CONSTANTS
    Fds <- MCNineFds
    Pids = {p1, p2}
    NoProc = NoProc
    Threshold = 1
    HeaderKinds = {"length"}
    PipeCap = 1
    MaxBody = 0
    MaxBacklog = 2
    MaxClients = 2
SYMMETRY Symmetric
INVARIANTS
    ClientsAgree
    ChildrenWatched
    OneOwner
