CONSTANTS
    Requests = {r1}
    Deciders = {p1,p2}
    Listers = {s1}
    EmailConfigured = FALSE
    LinkTTL = 2
    MaxTime = 2
    BlockCap = 1
    RequestShapes <- BriefOnly
    SettingsSet <- EnforcingOnly
    Capabilities <- BrokerOnly
    BrokerCapabilities <- BrokerCaps
VIEW UnreadView
SYMMETRY CallSymmetry
SPECIFICATION Spec
INVARIANT HumanVerdictIsReal
PROPERTIES RecordsMoveForward ImplementsGate
CHECK_DEADLOCK FALSE
