----------------------------- MODULE HtlcForward -----------------------------
(***************************************************************************)
(* What a forwarding node owes itself, for any number of HTLCs: an         *)
(* incoming HTLC is forwarded at most once, while it is still unanswered;  *)
(* it is settled only once the next peer has claimed the forwarded HTLC,   *)
(* and failed only when nothing was forwarded or the forwarded HTLC has    *)
(* failed.  One commitment may move several HTLCs at once.  Module         *)
(* SwitchForward implements this specification.                            *)
(***************************************************************************)
CONSTANT HTLC

VARIABLES
    in,   \* HTLC -> its fate on the incoming channel
    out   \* HTLC -> its fate on the outgoing channel

InFates == {"none", "live", "settled", "failed"}
OutFates == {"none", "live", "claimed", "failed"}

FInit ==
    /\ in = [h \in HTLC |-> "none"]
    /\ out = [h \in HTLC |-> "none"]

\* What a step may do to the outgoing side of an HTLC.
OutMove(h) ==
    \/ out'[h] = out[h]
    \/ out[h] = "none" /\ in[h] = "live" /\ in'[h] = "live" /\ out'[h] = "live"
    \/ out[h] = "live" /\ out'[h] \in {"claimed", "failed"}

\* What a step may do to the incoming side of an HTLC.
InMove(h) ==
    \/ in'[h] = in[h]
    \/ in[h] = "none" /\ in'[h] = "live"
    \/ in[h] = "live" /\ out[h] = "claimed" /\ in'[h] = "settled"
    \/ in[h] = "live" /\ out[h] \in {"none", "failed"} /\ in'[h] = "failed"

FNext ==
    /\ in' \in [HTLC -> InFates]
    /\ out' \in [HTLC -> OutFates]
    /\ \A h \in HTLC : InMove(h) /\ OutMove(h)

FSpec == FInit /\ [][FNext]_<<in, out>>

FTypeOK == in \in [HTLC -> InFates] /\ out \in [HTLC -> OutFates]

(***************************************************************************)
(* No HTLC costs the node money: one that was failed back is not live or   *)
(* claimed downstream, and one that was settled was claimed downstream.    *)
(***************************************************************************)
NoLoss ==
    \A h \in HTLC :
        /\ in[h] = "failed" => out[h] \in {"none", "failed"}
        /\ in[h] = "settled" => out[h] = "claimed"
=============================================================================
