SPECIFICATION FairSpec
CONSTANTS
    Opener = opener
    Acceptor = acceptor
    Balance <- MCBalance
    MaxAdds <- MCMaxAdds
    OpenerBalance = 40
    AcceptorBalance = 20
    OpenerAdds = 0
    AcceptorAdds = 1
    InitFeePerKw = 1
    FeeRates = {2,3}
    HtlcAmts = {5}
    ResolveTypes = {"Settle"}
    MaxFeeUpdates = 2
    BatchSize = 10
    Reserve = 2
    CommitWeight = 1
    HTLCWeight = 1
    FeePerKwFloor = 1
    MinHTLC = 1
    MaxPendingAmount = 20
    MaxAcceptedHtlcs = 3
    Used = TRUE
    LinkMayStop = FALSE
    MaxReconnects = 1
INVARIANT CommitSigsVerify
PROPERTY UpdatesLockIn
CHECK_DEADLOCK FALSE
