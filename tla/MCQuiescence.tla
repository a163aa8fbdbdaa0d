---------------------------- MODULE MCQuiescence ----------------------------
(* Small instances of Quiescence for TLC. *)
EXTENDS Quiescence

CONSTANTS OpenerAdds, AcceptorAdds, OpenerRequests, AcceptorRequests

ByNode(x, y) == [n \in {Opener, Acceptor} |-> IF n = Opener THEN x ELSE y]

MCMaxAdds == ByNode(OpenerAdds, AcceptorAdds)
MCMaxRequests == ByNode(OpenerRequests, AcceptorRequests)
=============================================================================
