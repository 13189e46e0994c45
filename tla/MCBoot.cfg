SPECIFICATION LiveSpec
CONSTANTS
    StopsAt <- MCEverywhere
    MaxFaults = 3
INVARIANTS
    ServedSiteIsInstalled
PROPERTIES
    SetUpOnce
    BootCompletes
CHECK_DEADLOCK FALSE
