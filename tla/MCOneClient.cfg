SPECIFICATION FairSpec
CONSTANTS
    Fds <- MCSevenFds
    Pids = {p1}
    NoProc = NoProc
    Threshold = 1
    HeaderKinds = {"bad", "length", "nolength"}
    PipeCap = 1
    MaxBody = 2
    MaxBacklog = 3
    MaxClients = 1
INVARIANTS
    TablesAgree
    PausedHasBacklog
    RelayUndisturbed
    ClientArmed
PROPERTIES
    ReuseAfterWholeOutput
    ImplementsExchange
    ExchangeProgress
    EveryChildCollected
