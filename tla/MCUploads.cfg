SPECIFICATION LiveSpec
CONSTANTS
    Asks <- MCAsks
    MaxBody = 20
    DiskFaults = TRUE
    Leaves = TRUE
    MaxAsks = 3
CHECK_DEADLOCK FALSE
INVARIANTS
    AcknowledgedUploadIsWhole
    UploadConserved
    NoStrayFile
PROPERTIES
    AnswersFit
    RequestsAnswered
