SPECIFICATION Spec
CONSTANTS
    Packages <- OneEach
    Invalid = {}
    MayExpire = {1}
    QuitDrops = FALSE
    MaxCrashes = 0
    MaxInFlaps = 0
    MaxOutFlaps = 1
    MaxWriteErrs = 0
INVARIANT KeystonesContiguous
CHECK_DEADLOCK FALSE
