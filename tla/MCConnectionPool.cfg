CONSTANTS
    Calls = {c1, c2, c3}
    Kinds <- ThreeKinds
    PoolSize = 2
    Free = Free
SPECIFICATION FairSpec
INVARIANTS NoHoldAndWait ResultLostOnlyAfterVerdict
PROPERTY CallsEnd
CHECK_DEADLOCK FALSE
