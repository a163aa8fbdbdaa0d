--------------------------- MODULE AbstractProofs ---------------------------
(***************************************************************************)
(* What the two abstract specifications promise: CommitChains, which       *)
(* LightningChannel implements, and HtlcForward, which SwitchForward       *)
(* implements.  They share no state.                                       *)
(***************************************************************************)
EXTENDS CommitChains, HtlcForward, TLAPS

-----------------------------------------------------------------------------
(* CommitChains: the window of the two chains, whatever heights are reached. *)

HeightsOK == /\ tail \in [Node -> Int]
             /\ tip \in [Node -> Int]
             /\ cur \in [Node -> Int]

WindowInv == HeightsOK /\ InWindow

\* The heights start equal, so the window holds at first.
LEMMA InitWindow == ASSUME InitHeight \in Int
                    PROVE  Init => WindowInv
  BY DEF Init, WindowInv, HeightsOK, InWindow, Node, Other

\* The other node of the other node: the two windows do not mix.
LEMMA OtherNode == ASSUME Opener # Acceptor, NEW n \in Node
                   PROVE  /\ Other(n) \in Node
                          /\ Other(n) # n
                          /\ Other(Other(n)) = n
                          /\ \A m \in Node : m = n \/ m = Other(n)
  BY DEF Node, Other

\* Every step of either node keeps both windows: a signature is given only
\* when the last one was settled, and a commitment counts as revoked only
\* when its owner has moved on.
LEMMA NextWindow == ASSUME Opener # Acceptor, WindowInv, [Next]_chainVars
                    PROVE  WindowInv'
<1> USE DEF WindowInv, HeightsOK, InWindow
<1>1. CASE UNCHANGED chainVars
  BY <1>1 DEF chainVars
<1>2. ASSUME NEW n \in Node, Sign(n)
      PROVE  WindowInv'
  BY <1>2, OtherNode DEF Sign, CanSign
<1>3. ASSUME NEW n \in Node, Revoke(n)
      PROVE  WindowInv'
  BY <1>3, OtherNode DEF Revoke, CanRevoke
<1>4. ASSUME NEW n \in Node, RevokeAndSign(n)
      PROVE  WindowInv'
  BY <1>4, OtherNode DEF RevokeAndSign, CanRevoke, CanSign
<1>5. ASSUME NEW n \in Node, Advance(n)
      PROVE  WindowInv'
  BY <1>5, OtherNode DEF Advance, CanAdvance
<1>6. ASSUME NEW n \in Node, AdvanceAndSign(n)
      PROVE  WindowInv'
  BY <1>6, OtherNode DEF AdvanceAndSign, CanAdvance
<1> QED
  BY <1>1, <1>2, <1>3, <1>4, <1>5, <1>6 DEF Next

\* However long the channel is used, a node's own commitment is one its peer
\* has on record and has not seen revoked, and no node signs more than one
\* commitment ahead (the revocation window of SignNextCommitment and
\* ReceiveRevocation).
THEOREM WindowHolds == ASSUME Opener # Acceptor, InitHeight \in Int
                       PROVE  Spec => []InWindow
<1>1. Init => WindowInv
  BY InitWindow
<1>2. WindowInv /\ [Next]_chainVars => WindowInv'
  BY NextWindow
<1>3. WindowInv => InWindow
  BY DEF WindowInv
<1> QED
  BY <1>1, <1>2, <1>3, PTL DEF Spec

-----------------------------------------------------------------------------
(* HtlcForward: a node that forwards as it allows never loses an HTLC's      *)
(* value.                                                                    *)

Safe == FTypeOK /\ NoLoss

\* Nothing has been offered at first.
LEMMA InitSafe == FInit => Safe
  BY DEF FInit, Safe, FTypeOK, NoLoss, InFates, OutFates

\* A step answers an HTLC only by its fate downstream, and once the HTLC is
\* answered that fate no longer changes: a new forward needs a live HTLC that
\* stays live, and only a live forward may be claimed or failed.
LEMMA NextSafe == ASSUME Safe, [FNext]_<<in, out>>
                  PROVE  Safe'
<1>1. CASE UNCHANGED <<in, out>>
  BY <1>1 DEF Safe, FTypeOK, NoLoss
<1>2. CASE FNext
  <2>1. FTypeOK'
    BY <1>2 DEF FNext, FTypeOK
  <2>2. ASSUME NEW h \in HTLC, in'[h] = "failed"
        PROVE  out'[h] \in {"none", "failed"}
    BY <1>2, <2>2 DEF FNext, InMove, OutMove, Safe, NoLoss
  <2>3. ASSUME NEW h \in HTLC, in'[h] = "settled"
        PROVE  out'[h] = "claimed"
    BY <1>2, <2>3 DEF FNext, InMove, OutMove, Safe, NoLoss
  <2> QED
    BY <2>1, <2>2, <2>3 DEF Safe, NoLoss
<1> QED
  BY <1>1, <1>2

\* Whatever the number of HTLCs, one that was failed back is neither live nor
\* claimed downstream, and one that was settled was claimed there.  The switch,
\* its circuit map and its links implement this specification (the property
\* ImplementsHtlcForward of SwitchForward).
THEOREM ForwardingNeverLoses == FSpec => [](FTypeOK /\ NoLoss)
<1>1. FInit => Safe
  BY InitSafe
<1>2. Safe /\ [FNext]_<<in, out>> => Safe'
  BY NextSafe
<1> QED
  BY <1>1, <1>2, PTL DEF FSpec, Safe
=============================================================================
