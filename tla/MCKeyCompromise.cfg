CONSTANTS
    KeepPrev = 2
    Processes = {p1}
    MaxKeys = 3
    MaxCrashes = 0
SPECIFICATION CompromiseSpec
INVARIANT PreviousKeyRevoked
CHECK_DEADLOCK FALSE
