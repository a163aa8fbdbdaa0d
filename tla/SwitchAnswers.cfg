SPECIFICATION FairSpec
CONSTANTS
    Packages <- OneEach
    Invalid = {}
    MayExpire = {1}
    QuitDrops = FALSE
    MaxCrashes = 1
    MaxInFlaps = 1
    MaxOutFlaps = 0
    MaxWriteErrs = 1
PROPERTY EveryHtlcAnswered
PROPERTY CircuitsReclaimed
CHECK_DEADLOCK FALSE
