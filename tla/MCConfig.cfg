SPECIFICATION Spec
CONSTANTS
    ServerValues <- MCServerValues
    LocationValues <- MCLocationValues
    Paths = {"www", "pub", "none"}
    NoPath = "nil"
    Directories = {"www", "pub"}
    AnyAddress = "any"
    DefaultIndex = "html"
    SizeUnits <- MCSizeUnits
    TimeUnits <- MCTimeUnits
    Day = 240
    SizeMax = 255
    MaxServers = 3
    MaxLocations = 2
CONSTRAINT MCTogether
CHECK_DEADLOCK FALSE
INVARIANTS
    LimitsInForce
    RootsAreThere
    EveryServerListens
