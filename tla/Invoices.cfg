SPECIFICATION Spec
CONSTANTS
    HTLCs = {1, 2, 3}
    ChanOf <- MCChanOf
    Amt <- MCAmt
    Total <- TwoTotals
    Expiry <- MCExpiry
    Value = 2
    HodlChoices = {TRUE, FALSE}
    FinalCltvDelta = 2
    BlockExpiryDelta = 1
    GcCanceled = FALSE
    MayCancelSet = TRUE
    TimerRaces = FALSE
    MaxHeight = 2
    MaxInvoices = 2
    MaxFlaps = 1
    MaxCrashes = 1
INVARIANT TypeOK
INVARIANT PreimageOnlyWhenPaid
INVARIANT FailedIsNotPaid
INVARIANT HeldHtlcsHearBack
INVARIANT ResolutionsExpected
INVARIANT HeldSetsAreTimed
PROPERTY ExpirySparesOthers
CHECK_DEADLOCK FALSE
