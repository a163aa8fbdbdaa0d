SPECIFICATION Spec
CONSTANTS
    HTLCs = {1, 2, 3}
    ChanOf <- MCChanOf
    Amt <- MCAmt
    Total <- OneSet
    Expiry <- MCExpiry
    Value = 2
    HodlChoices = {FALSE}
    FinalCltvDelta = 2
    BlockExpiryDelta = 1
    GcCanceled = FALSE
    MayCancelSet = FALSE
    TimerRaces = TRUE
    MaxHeight = 2
    MaxInvoices = 1
    MaxFlaps = 1
    MaxCrashes = 0
INVARIANT HeldHtlcsHearBack
CHECK_DEADLOCK FALSE
