--------------------------- MODULE CommitIndices ---------------------------
(***************************************************************************)
(* The update logs and commitment chains of lnwallet.LightningChannel, cut *)
(* down to which updates are on which commitment.  A channel c is          *)
(*   c.log[p]   the updates of party p, oldest first, each an "Add" or the *)
(*              removal ("Rmv") of an HTLC of the other party              *)
(*   c.own      how many of each party's are on our own commitment         *)
(*   c.peer     the same for the peer's commitments, oldest first: its     *)
(*              current one and maybe one it has not answered yet          *)
(* and parties are named from the node's own point of view.                *)
(***************************************************************************)
EXTENDS Subsequences, SequencesExt

Party == {"Local", "Remote"}

NewChannel == [log  |-> [Local |-> <<>>, Remote |-> <<>>],
               own  |-> [Local |-> 0, Remote |-> 0],
               peer |-> <<[Local |-> 0, Remote |-> 0]>>]

LogIndex(c, p) == Len(c.log[p])
AppendUpdates(c, p, types) == [c EXCEPT !.log[p] = @ \o types]

\* oweCommitment(Local)
OweCommitment(c) == \/ LogIndex(c, "Local") # Last(c.peer).Local
                    \/ c.own.Remote # Last(c.peer).Remote

\* NumPendingUpdates(p, _) is zero on both commitments.
NoDanglingUpdates(c, p) == LogIndex(c, p) = c.own[p]
                             /\ LogIndex(c, p) = Last(c.peer)[p]

HasUnackedCommitment(c) == Len(c.peer) > 1

\* SignNextCommitment: all of our updates, and the peer's on our commitment.
SignNextCommitment(c) ==
    [c EXCEPT !.peer = Append(@, [Local  |-> LogIndex(c, "Local"),
                                  Remote |-> c.own.Remote])]

\* ReceiveNewCommitment and RevokeCurrentCommitment: all of the peer's
\* updates, and ours on its oldest commitment.
NextOwn(c) == [Local |-> Head(c.peer).Local, Remote |-> LogIndex(c, "Remote")]
RevokeCurrentCommitment(c) == [c EXCEPT !.own = NextOwn(c)]

\* ReceiveRevocation
ReceiveRevocation(c) == [c EXCEPT !.peer = Tail(@)]

\* How many HTLCs of the peer the revocation locks in: its forwarding package.
LockedInAdds(c) ==
    Cardinality({i \in (c.peer[1].Remote + 1)..c.peer[2].Remote : c.log.Remote[i] = "Add"})
=============================================================================
