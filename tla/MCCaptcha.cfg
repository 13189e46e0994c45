SPECIFICATION Spec
CONSTANTS
    Fingerprints = {f, g}
    NoFingerprint = NoFingerprint
    Tokens = {t1, t2, t3}
    NoToken = NoToken
    MaxEntries = 2
    TTL = 2
    MaxTime = 5
SYMMETRY MCSymmetric
CHECK_DEADLOCK FALSE
INVARIANTS
    StoreBounded
PROPERTIES
    HonoursOnlyFreshOwn
    ClearedIsNotChallenged
