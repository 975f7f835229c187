CONSTANTS
    Requests = {r1}
    Deciders = {p1, p2}
    Listers = {s1}
    EmailConfigured = TRUE
    LinkTTL = 2
    TTLs = {1}
    MaxTime = 3
SYMMETRY CallSymmetry
SPECIFICATION ServiceSpec
INVARIANTS ApprovalsTypeOK ColumnsAgree OnlyOverdueExpires ListedRowsWereFresh DeliveredOnce
PROPERTY SettledIsFinal
CHECK_DEADLOCK FALSE
