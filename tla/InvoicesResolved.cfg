SPECIFICATION FairSpec
CONSTANTS
    HTLCs = {1, 2, 3}
    ChanOf <- MCChanOf
    Amt <- MCAmt
    Total <- TwoTotals
    Expiry <- MCExpiry
    Value = 2
    HodlChoices = {TRUE, FALSE}
    FinalCltvDelta = 2
    BlockExpiryDelta = 1
    GcCanceled = TRUE
    MayCancelSet = TRUE
    TimerRaces = FALSE
    MaxHeight = 2
    MaxInvoices = 1
    MaxFlaps = 1
    MaxCrashes = 1
PROPERTY EveryHtlcResolved
CHECK_DEADLOCK FALSE
