SPECIFICATION Spec
CONSTANTS
    Packages <- WithInvalid
    Invalid = {3}
    MayExpire = {2}
    QuitDrops = TRUE
    MaxCrashes = 1
    MaxInFlaps = 1
    MaxOutFlaps = 1
    MaxWriteErrs = 0
INVARIANT TypeOK
INVARIANT ResponseRoutable
INVARIANT AckFilterExact
INVARIANT KeystonesAccepted
PROPERTY ImplementsHtlcForward
CHECK_DEADLOCK FALSE
