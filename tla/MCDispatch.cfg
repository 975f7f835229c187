CONSTANTS
    Requests = {r1}
    Deciders = {p1}
    Listers = {}
    EmailConfigured = TRUE
    LinkTTL = 2
    MaxTime = 3
    BlockCap = 2
    RequestShapes <- AllShapes
    SettingsSet <- BothSettings
    Capabilities <- Caps
    BrokerCapabilities <- BrokerCaps
VIEW UnreadView
SPECIFICATION Spec
INVARIANTS RanUnderApproval ShadowIsInert RecordsAgree ApprovedIsCarriedOut FallbackIsSafe
CHECK_DEADLOCK FALSE
