CONSTANTS
    Requests = {r1}
    Deciders = {p1}
    Listers = {s1}
    EmailConfigured = FALSE
    LinkTTL = 1
    MaxTime = 2
    BlockCap = 1
    RequestShapes <- BriefOrPolicy
    SettingsSet <- EnforcingOnly
    Capabilities <- BrokerOnly
    BrokerCapabilities <- BrokerCaps
SPECIFICATION FairSpec
PROPERTIES HandlerEnds VerdictIsTaken OverdueIsSwept
CHECK_DEADLOCK FALSE
