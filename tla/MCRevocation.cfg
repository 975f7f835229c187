CONSTANTS
    Workers = {w1}
    Tokens = {t1}
    Calls = {c1, c2, c3}
    Free = Free
    TTL = 1
    MaxTime = 3
SPECIFICATION FairSpec
INVARIANTS TypeOK BoundedStaleness RevokedHereRejectsHere
PROPERTIES CopyNeverForgets CallsEnd
CHECK_DEADLOCK FALSE
