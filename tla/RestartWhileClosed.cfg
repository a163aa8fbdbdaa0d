SPECIFICATION Spec
CONSTANTS
    Out = {o1}
    In = {i1}
    Expiry <- MCExpiry
    OutDelta = 0
    InDelta = 1
    Scenarios <- LockedIn
    MaxHeight = 3
    MaxCrashes = 1
    CrashWindows = {"closed"}
INVARIANT UpstreamAnswered
CHECK_DEADLOCK FALSE
