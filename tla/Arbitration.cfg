SPECIFICATION FairSpec
CONSTANTS
    Out = {o1}
    In = {i1}
    Expiry <- MCExpiry
    OutDelta = 0
    InDelta = 1
    Scenarios <- MCScenarios
    MaxHeight = 3
    MaxCrashes = 2
    CrashWindows = {"launched", "resolved"}
INVARIANT TypeOK
INVARIANT FailedWhenSafe
INVARIANT UpstreamAnswered
PROPERTY ChannelResolves
CHECK_DEADLOCK FALSE
