SPECIFICATION Spec
CONSTANTS
    Opener = opener
    Acceptor = acceptor
    Balance <- MCBalance
    MaxAdds <- MCMaxAdds
    OpenerBalance = 13
    AcceptorBalance = 20
    OpenerAdds = 1
    AcceptorAdds = 2
    InitFeePerKw = 1
    FeeRates = {}
    HtlcAmts = {5}
    ResolveTypes = {"Settle", "Fail"}
    MaxFeeUpdates = 0
    BatchSize = 2
    Reserve = 2
    CommitWeight = 1
    HTLCWeight = 2
    FeePerKwFloor = 1
    MinHTLC = 1
    MaxPendingAmount = 20
    MaxAcceptedHtlcs = 3
    Used = FALSE
    LinkMayStop = TRUE
    MaxReconnects = 2
INVARIANT TypeOK
INVARIANT CapacityConserved
INVARIANT CommitmentsAffordable
INVARIANT CommitSigsVerify
INVARIANT ResyncSucceeds
INVARIANT RestoreSucceeds
INVARIANT ChainsOnDisk
INVARIANT CommitmentOnRecord
INVARIANT ForwardedExactlyOnce
PROPERTY ForwardOnlyIrrevocable
PROPERTY ImplementsCommitChains
CHECK_DEADLOCK FALSE
