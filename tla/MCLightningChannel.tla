------------------------- MODULE MCLightningChannel -------------------------
(* Small instances of LightningChannel for TLC. *)
EXTENDS LightningChannel

CONSTANTS OpenerBalance, AcceptorBalance, OpenerAdds, AcceptorAdds

ByNode(x, y) == [n \in {Opener, Acceptor} |-> IF n = Opener THEN x ELSE y]

MCBalance == ByNode(OpenerBalance, AcceptorBalance)
MCMaxAdds == ByNode(OpenerAdds, AcceptorAdds)
=============================================================================
