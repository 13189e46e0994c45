SPECIFICATION Spec
CONSTANTS
    Config <- MCConfig
    Resolution = 1
    MaxSamples = 4
    Gaps <- MCGaps
    MaxRequests = 5
CHECK_DEADLOCK FALSE
INVARIANTS
    HistoryIsWindow
    RateIsLimited
    SilenceLifts
    BrowsersPass
