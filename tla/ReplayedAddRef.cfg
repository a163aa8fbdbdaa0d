SPECIFICATION Spec
CONSTANTS
    Packages <- Together
    Invalid = {}
    MayExpire = {}
    QuitDrops = FALSE
    MaxCrashes = 1
    MaxInFlaps = 0
    MaxOutFlaps = 0
    MaxWriteErrs = 0
INVARIANT AckFilterExact
CHECK_DEADLOCK FALSE
