CONSTANTS
    KeepPrev = 2
    Processes = {p1}
    MaxKeys = 4
    MaxCrashes = 2
SPECIFICATION Spec
INVARIANTS PairsMatch GraceNeverLost GraceTokensVerify TornPairsSignOlder
CHECK_DEADLOCK FALSE
