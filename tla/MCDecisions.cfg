CONSTANTS
    Limit = 2
    Admissions <- MCAdmissions
    Arrivals <- MCArrivals
    Routings <- MCRoutings
    Cooldowns <- MCCooldowns
    RunnerCalls <- MCRunnerCalls
SPECIFICATION Spec
INVARIANTS
    LanesAreSound SandboxWritesStayInside CredentialsAreSound RightOnesAreAsked
    CooldownIsExact RunnerCallsAreSound
