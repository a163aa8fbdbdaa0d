SPECIFICATION FairSpec
CONSTANTS
    Opener = opener
    Acceptor = acceptor
    OpenerAdds = 1
    AcceptorAdds = 0
    OpenerRequests = 2
    AcceptorRequests = 1
    MaxAdds <- MCMaxAdds
    MaxRequests <- MCMaxRequests
    Outcomes = {"resolve", "hold", "forward"}
    MayClose = TRUE
INVARIANT TypeOK
INVARIANT StfuRespected
INVARIANT QuiescentIsSettled
INVARIANT InitiatorAgreed
INVARIANT AppliedOnce
INVARIANT DeferredHaveResume
PROPERTY QuiescenceEnds
PROPERTY StfuGoesOut
CHECK_DEADLOCK FALSE
