CONSTANTS
    Requests = {r1}
    Deciders = {p1, p2}
    Listers = {}
    EmailConfigured = TRUE
    LinkTTL = 2
    TTLs = {1}
    MaxTime = 1
SPECIFICATION ServiceSpec
PROPERTY SingleUse
CHECK_DEADLOCK FALSE
