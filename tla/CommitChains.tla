---------------------------- MODULE CommitChains ----------------------------
(***************************************************************************)
(* What the two commitment chains of a channel promise, whatever is on the *)
(* commitments and however the messages travel.                            *)
(*                                                                         *)
(* Each node holds one commitment of its own (cur).  Of its peer's chain   *)
(* it holds the oldest commitment that is not revoked (tail) and the       *)
(* newest it signed (tip).  A node signs only when the peer's last         *)
(* commitment is settled, moves to a commitment only when it was signed,   *)
(* and counts the peer's old one as revoked only when the peer has moved.  *)
(***************************************************************************)
EXTENDS Integers

CONSTANTS Opener, Acceptor, InitHeight

Node == {Opener, Acceptor}
Other(n) == IF n = Opener THEN Acceptor ELSE Opener

VARIABLES tail, tip, cur

chainVars == <<tail, tip, cur>>

Init == /\ tail = [n \in Node |-> InitHeight]
        /\ tip = [n \in Node |-> InitHeight]
        /\ cur = [n \in Node |-> InitHeight]

CanSign(n) == tip[n] = tail[n]
CanRevoke(n) == tip[Other(n)] = cur[n] + 1
CanAdvance(n) == tip[n] = tail[n] + 1 /\ cur[Other(n)] = tip[n]

\* SignNextCommitment: one commitment ahead of the peer's tail, no more.
Sign(n) == /\ CanSign(n)
           /\ tip' = [tip EXCEPT ![n] = @ + 1]
           /\ UNCHANGED <<tail, cur>>

\* ReceiveNewCommitment and RevokeCurrentCommitment.
Revoke(n) == /\ CanRevoke(n)
             /\ cur' = [cur EXCEPT ![n] = @ + 1]
             /\ UNCHANGED <<tail, tip>>

\* The same, answered with a signature of our own in the same handler.
RevokeAndSign(n) == /\ CanRevoke(n) /\ CanSign(n)
                    /\ cur' = [cur EXCEPT ![n] = @ + 1]
                    /\ tip' = [tip EXCEPT ![n] = @ + 1]
                    /\ UNCHANGED tail

\* ReceiveRevocation: the peer's tail is revoked.
Advance(n) == /\ CanAdvance(n)
              /\ tail' = [tail EXCEPT ![n] = @ + 1]
              /\ UNCHANGED <<tip, cur>>

\* The same, followed by the next signature.
AdvanceAndSign(n) == /\ CanAdvance(n)
                     /\ tail' = [tail EXCEPT ![n] = @ + 1]
                     /\ tip' = [tip EXCEPT ![n] = @ + 1]
                     /\ UNCHANGED cur

Next == \E n \in Node :
           \/ Sign(n) \/ Revoke(n) \/ RevokeAndSign(n)
           \/ Advance(n) \/ AdvanceAndSign(n)

Spec == Init /\ [][Next]_chainVars

\* A node's own commitment is always one its peer has on record and has not
\* seen revoked, and the peer is at most one signature ahead.
InWindow == \A n \in Node : /\ tail[n] <= cur[Other(n)]
                            /\ cur[Other(n)] <= tip[n]
                            /\ tip[n] <= tail[n] + 1
=============================================================================
