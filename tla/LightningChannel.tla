-------------------------- MODULE LightningChannel --------------------------
(***************************************************************************)
(* The channel state machine of lnwallet/channel.go, run by two links      *)
(* (htlcswitch/link.go) that talk over one connection.                     *)
(*                                                                         *)
(* Each node keeps two update logs (its own updates and the peer's) and    *)
(* two commitment chains (its own commitments and the peer's) in memory,   *)
(* and the part of them that channeldb persists on disk.  Updates are      *)
(* exchanged freely; commit_sig signs a new commitment of the receiver,    *)
(* revoke_and_ack gives up the receiver's previous one.  A connection may  *)
(* drop at any moment at either end: the memory of the node is then lost,  *)
(* rebuilt from disk at the next connection (NewLightningChannel) and      *)
(* brought in line with the peer's by channel_reestablish.                 *)
(*                                                                         *)
(* What a commitment transaction is made of is kept (balances, fee, HTLCs  *)
(* and its height); keys, scripts and signatures are not: a signature is   *)
(* the content it was made for, and it verifies iff the receiver builds    *)
(* the same content.  All HTLCs are above the dust limits, and no splice   *)
(* is pending.                                                             *)
(***************************************************************************)
EXTENDS Integers, Sequences, FiniteSets, SequencesExt, FiniteSetsExt,
        Subsequences

CONSTANTS
    Opener,           \* the node that funded the channel and pays its fees
    Acceptor,         \* its peer
    Balance,          \* [Node -> Nat], initial balances, before the fee
    InitFeePerKw,     \* fee rate of the initial commitments
    FeeRates,         \* the fee rates update_fee may propose
    HtlcAmts,         \* the amounts of HTLCs
    Reserve,          \* channel reserve, of both parties
    CommitWeight,     \* weight of a commitment without HTLCs
    HTLCWeight,       \* weight an HTLC adds to it
    FeePerKwFloor,    \* chainfee.FeePerKwFloor
    MinHTLC,          \* smallest HTLC either party accepts
    MaxPendingAmount, \* largest value in flight either party accepts
    MaxAcceptedHtlcs, \* most HTLCs in flight either party accepts
    MaxAdds,          \* bound: [Node -> Nat], HTLCs a node offers
    BatchSize,        \* unsigned updates that make a node sign at once
    ResolveTypes,     \* how HTLCs are removed: "Settle", "Fail" or both
    MaxFeeUpdates,    \* bound: update_fee messages the opener makes up
    Used,             \* whether the channel starts with a fee update behind it
    LinkMayStop,      \* whether a link may be stopped inside a handler
    MaxReconnects     \* bound: how often the connection is set up again

Node == {Opener, Acceptor}
Other(n) == IF n = Opener THEN Acceptor ELSE Opener
Capacity == Balance[Opener] + Balance[Acceptor]

\* lntypes.ChannelParty, and a value for each party (lntypes.Dual).
Party == {"Local", "Remote"}
CounterParty(p) == IF p = "Local" THEN "Remote" ELSE "Local"
Both(x) == [Local |-> x, Remote |-> x]

\* The party that opened the channel, seen from n (channelState.Initiator).
Initiator(n) == IF n = Opener THEN "Local" ELSE "Remote"

NoDiff == [none |-> TRUE]
NoMem == [none |-> TRUE]

VARIABLES
    mem,        \* mem[n]:  update logs and commitment chains in memory
    disk,       \* disk[n]: what channeldb holds for the channel
    net,        \* net[n]:  messages on their way to n, oldest first
    link,       \* link[n]: "down", "sync", "up" or why the link failed
    feeUpdates, \* how many update_fee messages the opener made up
    reconnects  \* how often the connection was set up again

vars == <<mem, disk, net, link, feeUpdates, reconnects>>

Failures == {"badUpdate", "badCommit", "badSig", "badRevocation",
             "syncError", "panic"}

ASSUME BalanceAssumption == Balance \in [Node -> Nat]
ASSUME NodeAssumption == Opener # Acceptor
ASSUME AmountAssumption ==
    /\ HtlcAmts \subseteq Nat /\ FeeRates \subseteq Nat /\ InitFeePerKw \in Nat
    /\ CommitWeight \in Nat /\ HTLCWeight \in Nat
ASSUME TypeAssumption == ResolveTypes \subseteq {"Settle", "Fail"} /\ Used \in BOOLEAN
ASSUME BoundAssumption == MaxFeeUpdates \in Nat /\ MaxReconnects \in Nat

-----------------------------------------------------------------------------
(* Commitments and update logs. *)

\* A paymentDescriptor.  HtlcIndex is the HTLC an Add creates, or the parent
\* a Settle or Fail (MalformedFail included) removes.
Descriptor(type, idx, htlc, amt) ==
    [EntryType |-> type, LogIndex |-> idx, HtlcIndex |-> htlc, Amount |-> amt,
     add |-> Both(0), rmv |-> Both(0)]

\* newUpdateLog
NewUpdateLog(logIndex, htlcCounter) ==
    [logIndex |-> logIndex, htlcCounter |-> htlcCounter, list |-> <<>>,
     modified |-> {}]

\* lookupHtlc, as the set of Adds with that index: empty or a singleton.
LookupHtlc(log, h) ==
    {e \in Range(log.list) : e.EntryType = "Add" /\ e.HtlcIndex = h}

\* appendHtlc
AppendHtlc(log, pd) ==
    [log EXCEPT !.list = Append(@, pd), !.htlcCounter = @ + 1,
                !.logIndex = @ + 1]

\* appendUpdate
AppendUpdate(log, pd) ==
    [log EXCEPT !.list = Append(@, pd), !.logIndex = @ + 1]

\* appendFeeUpdate: the newest fee update is overwritten while neither chain
\* has committed to it.
AppendFeeUpdate(log, pd) ==
    LET fees == {k \in DOMAIN log.list : log.list[k].EntryType = "FeeUpdate"}
    IN  IF fees # {} /\ log.list[Max(fees)].add = Both(0)
        THEN [log EXCEPT !.list[Max(fees)].Amount = pd.Amount]
        ELSE AppendUpdate(log, pd)

\* markHtlcModified
MarkHtlcModified(log, h) == [log EXCEPT !.modified = @ \cup {h}]

\* compactLogs: entries both chains are past are dropped, with their parents.
CompactLogs(logs, localTail, remoteTail) ==
    LET done(e) == /\ e.EntryType # "Add"
                   /\ e.rmv.Local # 0 /\ e.rmv.Remote # 0
                   /\ remoteTail >= e.rmv.Remote
                   /\ localTail >= e.rmv.Local
        gone(p) == {e.HtlcIndex : e \in
                      {x \in Range(logs[CounterParty(p)].list) :
                          done(x) /\ x.EntryType # "FeeUpdate"}}
        keep(p, e) == IF e.EntryType = "Add" THEN e.HtlcIndex \notin gone(p)
                                             ELSE ~done(e)
        compact(p) == [logs[p] EXCEPT
                         !.list = SubsequenceAt(@, {k \in DOMAIN @ : keep(p, @[k])}),
                         !.modified = @ \ gone(p)]
    IN  [Local |-> compact("Local"), Remote |-> compact("Remote")]

\* FeeForWeight of a commitment with k HTLCs.
CommitFee(feePerKw, k) == feePerKw * (CommitWeight + HTLCWeight * k)

\* commitmentChain: oldest (unrevoked) commitment first.
ChainTail(chain) == Head(chain)
ChainTip(chain) == Last(chain)
HasUnackedCommitment(chain) == Len(chain) > 1

-----------------------------------------------------------------------------
(* The commitment a set of updates leads to. *)

\* fetchHTLCView: the updates of both logs below the given indices.
FetchHTLCView(m, upTo) ==
    LET below(p) == {k \in DOMAIN m.logs[p].list :
                        m.logs[p].list[k].LogIndex < upTo[p]}
    IN  [p \in Party |-> SubsequenceAt(m.logs[p].list, below(p))]

Resolutions(view, p) ==
    {e \in Range(view[p]) : e.EntryType \in {"Settle", "Fail"}}

\* The Adds of p no update of the counterparty removes in this view.
LiveAdds(view, p) ==
    {e \in Range(view[p]) :
        /\ e.EntryType = "Add"
        /\ \A r \in Resolutions(view, CounterParty(p)) :
               r.HtlcIndex # e.HtlcIndex}

Amount(entries) == MapThenSumSet(LAMBDA e : e.Amount, entries)

\* fetchParent succeeds for every removal: its Add is known, and on the chain.
ParentsFound(m, view, whose) ==
    \A p \in Party : \A r \in Resolutions(view, p) :
        \E a \in LookupHtlc(m.logs[CounterParty(p)], r.HtlcIndex) :
            a.add[whose] # 0

\* Mutant: a settle is paid out again in every later view that has it.
SettlesEveryTime(view, whose, p) ==
      Amount({e \in Resolutions(view, p) : e.EntryType = "Settle"})
    + Amount({e \in Resolutions(view, CounterParty(p)) :
                  e.EntryType = "Fail" /\ e.rmv[whose] = 0})
    - Amount({e \in LiveAdds(view, p) : e.add[whose] = 0})

\* What the updates new to the chain `whose` move to or from p.
BalanceDelta(view, whose, p) ==
      Amount({e \in Resolutions(view, p) :
                  e.EntryType = "Settle" /\ e.rmv[whose] = 0})
    + Amount({e \in Resolutions(view, CounterParty(p)) :
                  e.EntryType = "Fail" /\ e.rmv[whose] = 0})
    - Amount({e \in LiveAdds(view, p) : e.add[whose] = 0})

\* Mutant: the first fee update of the view counts.
FirstFeePerKw(updates, tip) ==
    LET fees == {k \in DOMAIN updates : updates[k].EntryType = "FeeUpdate"}
    IN  IF fees = {} THEN tip.feePerKw ELSE updates[Min(fees)].Amount

\* The rate of the last fee update in the opener's log, or the chain's.
ViewFeePerKw(updates, tip) ==
    LET fees == {k \in DOMAIN updates : updates[k].EntryType = "FeeUpdate"}
    IN  IF fees = {} THEN tip.feePerKw ELSE updates[Max(fees)].Amount

\* computeView: balances before the commitment fee, HTLCs and fee rate.  It
\* fails (ok = FALSE) on an unknown parent or an overdrawn balance.
ComputeView(m, n, whose, view) ==
    LET tip    == ChainTip(m.chains[whose])
        refund == [p \in Party |-> IF p = Initiator(n) THEN tip.fee ELSE 0]
        bal    == [p \in Party |->
                     tip.balance[p] + refund[p] + BalanceDelta(view, whose, p)]
    IN  [ok       |-> /\ ParentsFound(m, view, whose)
                      /\ \A p \in Party : bal[p] >= 0,
         balance  |-> bal,
         feePerKw |-> ViewFeePerKw(view[Initiator(n)], tip),
         adds     |-> [p \in Party |-> LiveAdds(view, p)]]

NumHTLCs(v) == Cardinality(v.adds.Local) + Cardinality(v.adds.Remote)

\* Mutant: the opener leaves no buffer.
ChargeWithoutBuffer(v, buffer) == CommitFee(v.feePerKw, NumHTLCs(v))

\* applyCommitFee: the fee, and the buffer an opener keeps for the peer's
\* HTLCs when it adds one of its own, must leave a positive balance.
Charge(v, buffer) ==
    CASE buffer = "FeeBuffer" -> 2 * CommitFee(v.feePerKw, NumHTLCs(v) + 1)
      [] buffer = "AdditionalHtlc" -> CommitFee(v.feePerKw, NumHTLCs(v) + 1)
      [] OTHER -> CommitFee(v.feePerKw, NumHTLCs(v))

\* The checks of validateCommitmentSanity on a view v that costs its payer
\* the charge, given the balances of the commitment before.
ViewSane(v, payer, charge, before) ==
    LET after == [v.balance EXCEPT ![payer] = @ - charge]
    IN  /\ v.ok
        /\ v.feePerKw >= FeePerKwFloor
        /\ charge < v.balance[payer]
        /\ \A p \in Party : after[p] < before[p] => after[p] >= Reserve
        /\ \A p \in Party :
              /\ \A e \in v.adds[p] : e.Amount # 0 /\ e.Amount >= MinHTLC
              /\ Amount(v.adds[p]) <= MaxPendingAmount
              /\ Cardinality(v.adds[p]) <= MaxAcceptedHtlcs

\* Only the opener, who pays the fee, keeps a buffer.
ViewAffordable(v, n, buffer, before) ==
    ViewSane(v, Initiator(n),
             Charge(v, IF n = Opener THEN buffer ELSE "NoBuffer"), before)

\* validateCommitmentSanity
CommitmentSane(m, n, whose, view, buffer) ==
    ViewAffordable(ComputeView(m, n, whose, view), n, buffer,
                   ChainTip(m.chains[whose]).balance)

\* setCommitHeight, for the entries of the view the chain does not have yet.
SetCommitHeights(m, whose, upTo, height) ==
    LET set(e) ==
          CASE e.EntryType = "Add" /\ e.add[whose] = 0 ->
                 [e EXCEPT !.add[whose] = height]
            [] e.EntryType \in {"Settle", "Fail"} /\ e.rmv[whose] = 0 ->
                 [e EXCEPT !.rmv[whose] = height]
            [] e.EntryType = "FeeUpdate" /\ e.add[whose] = 0 ->
                 [e EXCEPT !.add[whose] = height, !.rmv[whose] = height]
            [] OTHER -> e
        mark(p) == [k \in DOMAIN m.logs[p].list |->
                      IF m.logs[p].list[k].LogIndex < upTo[p]
                      THEN set(m.logs[p].list[k]) ELSE m.logs[p].list[k]]
    IN  [m EXCEPT !.logs = [p \in Party |-> [@[p] EXCEPT !.list = mark(p)]]]

\* createUnsignedCommitmentTx: the commitment a view leads to.  The opener
\* pays the fee, with all it has if need be.
CommitmentOf(v, n, height, upTo, htlcIndex) ==
    LET fee == CommitFee(v.feePerKw, NumHTLCs(v))
    IN  [height   |-> height,
         indices  |-> upTo,
         htlcIndex |-> htlcIndex,
         balance  |-> [v.balance EXCEPT ![Initiator(n)] =
                         IF fee > @ THEN 0 ELSE @ - fee],
         fee      |-> fee,
         feePerKw |-> v.feePerKw,
         outputs  |-> [p \in Party |->
                         {[HtlcIndex |-> e.HtlcIndex, LogIndex |-> e.LogIndex,
                           Amount |-> e.Amount] : e \in v.adds[p]}]]

\* fetchCommitmentView: the next commitment of the chain.
CommitmentView(m, n, whose, upTo, htlcIndex) ==
    CommitmentOf(ComputeView(m, n, whose, FetchHTLCView(m, upTo)), n,
                 ChainTip(m.chains[whose]).height + 1, upTo, htlcIndex)

\* What a signature commits to: the transaction, named from the signed
\* node's own point of view.
TxOf(c, owner) ==
    [height  |-> c.height,
     balance |-> [p \in Party |->
                    c.balance[IF owner = "Local" THEN p ELSE CounterParty(p)]],
     fee     |-> c.fee,
     outputs |-> [p \in Party |->
                    {<<o.HtlcIndex, o.Amount>> : o \in
                       c.outputs[IF owner = "Local" THEN p
                                                    ELSE CounterParty(p)]}]]

-----------------------------------------------------------------------------
(* The methods of LightningChannel that move the chains.  They act on the  *)
(* memory m and the disk state d of node n.                                *)

\* toLogUpdate: the wire message, which names the HTLC a removal is for but
\* not its amount, and its place in the log.
ToLogUpdate(e) ==
    [EntryType |-> e.EntryType, LogIndex |-> e.LogIndex,
     HtlcIndex |-> e.HtlcIndex,
     Amount |-> IF e.EntryType \in {"Settle", "Fail"} THEN 0 ELSE e.Amount]

LogUpdates(list, Test(_)) ==
    LET picked == SubsequenceAt(list, {k \in DOMAIN list : Test(list[k])})
    IN  [k \in DOMAIN picked |-> ToLogUpdate(picked[k])]

\* The updates of the list from log index first on.
UpdatesFrom(first, updates) ==
    SubsequenceAt(updates,
                  {k \in DOMAIN updates : updates[k].LogIndex >= first})

\* oweCommitment(Local): updates the peer's newest commitment does not have.
OweCommitment(m) ==
    \/ m.logs.Local.logIndex # ChainTip(m.chains.Remote).indices.Local
    \/ ChainTip(m.chains.Local).indices.Remote
          # ChainTip(m.chains.Remote).indices.Remote

\* NumPendingUpdates(Local, Remote)
NumPendingUpdates(m) ==
    m.logs.Local.logIndex - ChainTip(m.chains.Remote).indices.Local

\* SignNextCommitment covers all of our updates, and those of the peer that
\* our own oldest commitment has.
SignIndices(m) == [Local  |-> m.logs.Local.logIndex,
                   Remote |-> ChainTail(m.chains.Local).indices.Remote]
SignHtlcIndices(m) == [Local  |-> m.logs.Local.htlcCounter,
                       Remote |-> ChainTail(m.chains.Local).htlcIndex.Remote]

\* Mutant: the diff leaves out the removals it signs.
DiffOfAdds(m, c) ==
    [commit  |-> c,
     updates |-> LogUpdates(m.logs.Local.list,
                            LAMBDA e : e.add.Remote = c.height)]

\* createCommitDiff: the commitment, and our updates that are new with it.
CreateCommitDiff(m, c) ==
    [commit  |-> c,
     updates |-> LogUpdates(m.logs.Local.list,
                    LAMBDA e : \/ e.add.Remote = c.height
                               \/ e.rmv.Remote = c.height)]

\* Mutant: the diff is not written.
SkipDiff(d, diff) == [d EXCEPT !.lastWasRevoke = FALSE]

\* AppendRemoteCommitChain
AppendRemoteCommitChain(d, diff) ==
    [d EXCEPT !.diff = diff, !.lastWasRevoke = FALSE]

\* The commitment c, whose heights m has, is signed.
SignCommitment(m, d, c) ==
    [m    |-> [m EXCEPT !.chains.Remote = Append(@, c)],
     d    |-> AppendRemoteCommitChain(d, CreateCommitDiff(m, c)),
     msgs |-> <<[type |-> "commit_sig", tx |-> TxOf(c, "Remote")]>>,
     fail |-> ""]

\* SignNextCommitment.  The next height of the chain is known in advance.
SignNextCommitment(m, d, n) ==
    SignCommitment(
        SetCommitHeights(m, "Remote", SignIndices(m),
                         ChainTip(m.chains.Remote).height + 1),
        d,
        CommitmentView(m, n, "Remote", SignIndices(m), SignHtlcIndices(m)))

\* Mutant: the revocation window is not looked at.
SignAnytime(m, d, n) ==
    IF CommitmentSane(m, n, "Remote", FetchHTLCView(m, SignIndices(m)),
                      "NoBuffer")
    THEN SignNextCommitment(m, d, n)
    ELSE [m |-> m, d |-> d, msgs |-> <<>>, fail |-> "badCommit"]

\* updateCommitTx: nothing happens while the revocation window is exhausted.
UpdateCommitTx(m, d, n) ==
    IF HasUnackedCommitment(m.chains.Remote)
    THEN [m |-> m, d |-> d, msgs |-> <<>>, fail |-> ""]
    ELSE IF CommitmentSane(m, n, "Remote",
                           FetchHTLCView(m, SignIndices(m)), "NoBuffer")
    THEN SignNextCommitment(m, d, n)
    ELSE [m |-> m, d |-> d, msgs |-> <<>>, fail |-> "badCommit"]

\* ReceiveNewCommitmentBatch covers all of the peer's updates, and those of
\* ours that its oldest commitment has.
RecvIndices(m) == [Local  |-> ChainTail(m.chains.Remote).indices.Local,
                   Remote |-> m.logs.Remote.logIndex]
RecvHtlcIndices(m) == [Local  |-> ChainTail(m.chains.Remote).htlcIndex.Local,
                       Remote |-> m.logs.Remote.htlcCounter]

ReceiveNewCommitment(m, n) ==
    [SetCommitHeights(m, "Local", RecvIndices(m),
                      ChainTip(m.chains.Local).height + 1)
       EXCEPT !.chains.Local = Append(@,
          CommitmentView(m, n, "Local", RecvIndices(m), RecvHtlcIndices(m)))]

\* Mutant: updates acked but not signed are not stored.
ForgetAcked(m) == <<>>

\* getUnsignedAckedUpdates
UnsignedAckedUpdates(m) ==
    LogUpdates(m.logs.Remote.list,
        LAMBDA e :
            /\ e.LogIndex >= ChainTail(m.chains.Remote).indices.Remote
            /\ e.LogIndex < ChainTail(m.chains.Local).indices.Remote)

\* UpdateCommitment: our new commitment c, the peer's updates on it that we
\* have not signed for, and, of ours, those it does not have.
UpdateCommitment(d, c, unsignedAcked) ==
    [d EXCEPT !.local = c,
              !.ackedKey = TRUE,
              !.unsignedAcked = unsignedAcked,
              !.lastWasRevoke = TRUE,
              !.remoteUnsigned = UpdatesFrom(c.indices.Local, @)]

\* The state once the oldest of our commitments is given up for c.
MoveTo(m, d, c) ==
    [m    |-> m,
     d    |-> UpdateCommitment(d, c, UnsignedAckedUpdates(m)),
     msgs |-> <<[type |-> "revoke_and_ack", height |-> c.height - 1]>>]

\* RevokeCurrentCommitment
RevokeCurrentCommitment(m, d) ==
    MoveTo([m EXCEPT !.chains.Local = Tail(@)], d, m.chains.Local[2])

\* Mutant: an update on our own commitment alone counts as locked in.
ForwardEarly(m) ==
    LET fresh(h) == h.Local = ChainTail(m.chains.Local).height /\ h.Local > 0
        entries == Range(m.logs.Remote.list)
    IN  [adds |-> {e.HtlcIndex : e \in
                     {x \in entries : x.EntryType = "Add" /\ fresh(x.add)}},
         rmvs |-> {e.HtlcIndex : e \in
                     {x \in entries : x.EntryType \in {"Settle", "Fail"}
                                        /\ fresh(x.rmv)}}]

\* The peer's updates a revocation locks in on both chains: they go to the
\* switch, in the forwarding package of the peer's new height.
FreshlyLockedIn(m) ==
    LET height == ChainTail(m.chains.Remote).height + 1
        fresh(h) == /\ h.Remote = height
                    /\ h.Local > 0
                    /\ ChainTail(m.chains.Local).height >= h.Local
        entries == Range(m.logs.Remote.list)
    IN  [adds |-> {e.HtlcIndex : e \in
                     {x \in entries : x.EntryType = "Add" /\ fresh(x.add)}},
         rmvs |-> {e.HtlcIndex : e \in
                     {x \in entries : x.EntryType \in {"Settle", "Fail"}
                                        /\ fresh(x.rmv)}}]

\* unsignedLocalUpdates
UnsignedLocalUpdates(m) ==
    LogUpdates(m.logs.Local.list,
        LAMBDA e :
            /\ e.EntryType # "Add"
            /\ e.LogIndex < ChainTip(m.chains.Remote).indices.Local
            /\ e.LogIndex >= ChainTail(m.chains.Local).indices.Local)

\* Mutant: the forwarding package is not written.
AdvanceWithoutFwdPkg(d, fwdPkg, updates) ==
    [d EXCEPT !.remote = d.diff.commit, !.diff = NoDiff,
              !.remoteUnsigned = updates]

\* AdvanceCommitChainTail: the pending commitment becomes the tail, with the
\* forwarding package.  It returns before it stores our updates the peer has
\* not signed when no list of unsigned acked updates was ever stored.
AdvanceCommitChainTail(d, fwdPkg, updates) ==
    [d EXCEPT !.remote = d.diff.commit,
              !.diff = NoDiff,
              !.fwdPkgs = Append(@, fwdPkg),
              !.unsignedAcked = UpdatesFrom(d.diff.commit.indices.Remote, @),
              !.remoteUnsigned = IF d.ackedKey THEN updates ELSE @]

\* ReceiveRevocation
ReceiveRevocation(m, d) ==
    LET m2 == [m EXCEPT !.chains.Remote = Tail(@)]
    IN  [m |-> [m2 EXCEPT !.logs = CompactLogs(@,
                    ChainTail(m2.chains.Local).height,
                    ChainTail(m2.chains.Remote).height)],
         d |-> AdvanceCommitChainTail(d, FreshlyLockedIn(m),
                                      UnsignedLocalUpdates(m))]

-----------------------------------------------------------------------------
(* Rebuilding memory from disk: NewLightningChannel. *)

RemovedBy(updates) ==
    {u.HtlcIndex : u \in {x \in Range(updates) :
                             x.EntryType \in {"Settle", "Fail"}}}

\* A removal read back from disk takes its amount from the Add it removes.
Restored(u, parents, heights) ==
    LET parent == CHOOSE a \in LookupHtlc(parents, u.HtlcIndex) : TRUE
        pd == Descriptor(u.EntryType, u.LogIndex, u.HtlcIndex, u.Amount)
    IN  CASE u.EntryType = "Add" -> [pd EXCEPT !.add = heights]
          [] u.EntryType = "FeeUpdate" -> [pd EXCEPT !.add = heights,
                                                     !.rmv = heights]
          [] OTHER -> [pd EXCEPT !.Amount = parent.Amount, !.rmv = heights]

\* restoreStateLogs, first part: the HTLCs of the two commitments.  A remote
\* height is that of the oldest commitment of the peer that has the HTLC.
RestoredHtlcs(d, p) ==
    LET c == IF p = "Remote" THEN d.local ELSE d.remote
        onRemote(h) ==
          CASE \/ \E o \in d.remote.outputs.Remote : o.HtlcIndex = h
               \/ h \in RemovedBy(d.remoteUnsigned) -> d.remote.height
            [] OTHER ->
                 IF d.diff # NoDiff
                    /\ \E o \in d.diff.commit.outputs.Remote : o.HtlcIndex = h
                 THEN d.diff.commit.height ELSE 0
        onLocal(h) ==
          IF \/ \E o \in d.local.outputs.Local : o.HtlcIndex = h
             \/ h \in RemovedBy(d.unsignedAcked)
          THEN d.local.height ELSE 0
        pd(o) == [Descriptor("Add", o.LogIndex, o.HtlcIndex, o.Amount)
                    EXCEPT !.add =
                      IF p = "Remote"
                      THEN [Local |-> c.height, Remote |-> onRemote(o.HtlcIndex)]
                      ELSE [Local |-> onLocal(o.HtlcIndex), Remote |-> c.height]]
        sorted == SubsequenceAt([k \in 1..c.indices[p] |->
                                   CHOOSE o \in c.outputs[p] : o.LogIndex = k - 1],
                                {o.LogIndex + 1 : o \in c.outputs[p]})
    IN  [k \in DOMAIN sorted |-> pd(sorted[k])]

Htlcs(d) ==
    [Local  |-> [NewUpdateLog(d.remote.indices.Local, d.remote.htlcIndex.Local)
                   EXCEPT !.list = RestoredHtlcs(d, "Local")],
     Remote |-> [NewUpdateLog(d.local.indices.Remote, d.local.htlcIndex.Remote)
                   EXCEPT !.list = RestoredHtlcs(d, "Remote")]]

Pending(d) == IF d.diff = NoDiff THEN <<>> ELSE d.diff.updates

\* restorePendingLocalUpdates: our updates of the commitment not yet acked.
RestorePendingLocalUpdates(logs, d) ==
    LET new == Pending(d)
    IN  [logs EXCEPT
           !.Local.list = @ \o [k \in DOMAIN new |->
               Restored(new[k], logs.Remote,
                        [Local |-> 0, Remote |-> d.diff.commit.height])],
           !.Local.logIndex = @ + Len(new),
           !.Local.htlcCounter = @ + Cardinality({k \in DOMAIN new :
                                         new[k].EntryType = "Add"}),
           !.Remote.modified = @ \cup RemovedBy(new)]

\* restorePendingRemoteUpdates: updates of the peer that are on our
\* commitment and maybe on its pending one, Adds excepted.
RestorePendingRemoteUpdates(logs, d) ==
    LET new == SubsequenceAt(d.unsignedAcked,
                   {k \in DOMAIN d.unsignedAcked :
                       d.unsignedAcked[k].EntryType # "Add"})
        signedAt(u) == IF d.diff # NoDiff
                          /\ u.LogIndex < d.diff.commit.indices.Remote
                       THEN d.diff.commit.height ELSE 0
    IN  [logs EXCEPT
           !.Remote.list = @ \o [k \in DOMAIN new |->
               Restored(new[k], logs.Local, [Local |-> d.local.height,
                                             Remote |-> signedAt(new[k])])],
           !.Local.modified = @ \cup RemovedBy(new)]

\* restorePeerLocalUpdates: updates of ours the peer has still to sign.
RestorePeerLocalUpdates(logs, d) ==
    LET new == d.remoteUnsigned
    IN  [logs EXCEPT
           !.Local.list = @ \o [k \in DOMAIN new |->
               Restored(new[k], logs.Remote,
                        [Local |-> 0, Remote |-> d.remote.height])],
           !.Remote.modified = @ \cup RemovedBy(new)]

\* restoreStateLogs
RestoredLogs(d) ==
    RestorePeerLocalUpdates(
        RestorePendingRemoteUpdates(
            RestorePendingLocalUpdates(Htlcs(d), d), d), d)

\* restoreCommitState
RestoredChains(d) ==
    [Local  |-> <<d.local>>,
     Remote |-> IF d.diff = NoDiff THEN <<d.remote>>
                                   ELSE <<d.remote, d.diff.commit>>]

\* NewLightningChannel
RestoredMem(d) == [logs |-> RestoredLogs(d), chains |-> RestoredChains(d)]

\* The places where restoring panics or fails: a pending update out of place
\* in the log, an Add out of place, an unknown parent, an update nobody signed.
Restorable(d) ==
    LET pending == Pending(d)
        addsBefore(k) == {j \in 1..(k - 1) : pending[j].EntryType = "Add"}
        incoming == {o.HtlcIndex : o \in d.local.outputs.Remote}
        outgoing == {o.HtlcIndex : o \in d.remote.outputs.Local}
                      \cup {u.HtlcIndex : u \in
                              {x \in Range(pending) : x.EntryType = "Add"}}
    IN  /\ \A k \in DOMAIN pending :
              /\ pending[k].LogIndex = d.remote.indices.Local + k - 1
              /\ pending[k].EntryType = "Add" =>
                    pending[k].HtlcIndex = d.remote.htlcIndex.Local
                                             + Cardinality(addsBefore(k))
        /\ RemovedBy(pending) \subseteq incoming
        /\ RemovedBy(d.remoteUnsigned) \subseteq incoming
        /\ RemovedBy(d.unsignedAcked) \subseteq outgoing
        /\ \A u \in Range(d.unsignedAcked) :
              u.LogIndex < d.local.indices.Remote

-----------------------------------------------------------------------------
(* The initial state: a channel just opened, or one that has been through  *)
(* one fee update of the opener, locked in on both sides.                  *)

Past == IF Used THEN 1 ELSE 0

\* The funding flow leaves the opener a balance the first fee is paid from.
ASSUME FundingAssumption == CommitFee(InitFeePerKw, 0) <= Balance[Opener]

InitCommit(n) ==
    LET fee == CommitFee(InitFeePerKw, 0)
        of(p) == IF p = "Local" THEN n ELSE Other(n)
    IN  [height   |-> Past,
         indices  |-> [p \in Party |-> IF of(p) = Opener THEN Past ELSE 0],
         htlcIndex |-> Both(0),
         balance  |-> [p \in Party |->
                         Balance[of(p)] - (IF of(p) = Opener THEN fee ELSE 0)],
         fee      |-> fee,
         feePerKw |-> InitFeePerKw,
         outputs  |-> Both({})]

InitDisk(n) ==
    [local |-> InitCommit(n), remote |-> InitCommit(n), diff |-> NoDiff,
     unsignedAcked |-> <<>>, remoteUnsigned |-> <<>>, ackedKey |-> Used,
     lastWasRevoke |-> Used /\ n = Opener,
     fwdPkgs |-> [k \in 1..Past |-> [adds |-> {}, rmvs |-> {}]]]

Init ==
    /\ disk = [n \in Node |-> InitDisk(n)]
    /\ mem = [n \in Node |-> RestoredMem(InitDisk(n))]
    /\ net = [n \in Node |-> <<>>]
    /\ link = [n \in Node |-> "up"]
    /\ feeUpdates = 0
    /\ reconnects = 0

-----------------------------------------------------------------------------
(* Actions of the links. *)

\* What n leaves in its inbox and sends: a peer whose link is gone gets none.
Exchange(n, inbox, msgs) ==
    [net EXCEPT ![n] = inbox,
                ![Other(n)] = IF link[Other(n)] \in {"sync", "up"}
                              THEN @ \o msgs ELSE @]

\* The effect of a step of n: r holds its memory, disk and messages.
Apply(n, inbox, r) ==
    /\ mem' = [mem EXCEPT ![n] = r.m]
    /\ disk' = [disk EXCEPT ![n] = r.d]
    /\ net' = Exchange(n, inbox, r.msgs)
    /\ link' = IF r.fail = "" THEN link ELSE [link EXCEPT ![n] = r.fail]
    /\ UNCHANGED reconnects

Fail(n, inbox, why) ==
    /\ link' = [link EXCEPT ![n] = why]
    /\ net' = [net EXCEPT ![n] = inbox]
    /\ UNCHANGED <<mem, disk, feeUpdates, reconnects>>

Update(type, htlc, amt) ==
    [type |-> "update", EntryType |-> type, HtlcIndex |-> htlc, Amount |-> amt]

\* Messages sent before those of a later step.
After(msgs, r) == [r EXCEPT !.msgs = msgs \o @]

\* validateAddHtlc: our HTLC fits on both next commitments, with a buffer.
ValidateAddHtlc(m, n, pd) ==
    LET with(upTo) == [FetchHTLCView(m, upTo) EXCEPT !.Local = Append(@, pd)]
    IN  /\ CommitmentSane(m, n, "Remote", with(SignIndices(m)), "FeeBuffer")
        /\ CommitmentSane(m, n, "Local",
               with([Local |-> m.logs.Local.logIndex,
                     Remote |-> m.logs.Remote.logIndex]), "FeeBuffer")

\* tryBatchUpdateCommitTx: a full batch is signed for.
TryBatchUpdateCommitTx(m, d, n) ==
    IF NumPendingUpdates(m) < BatchSize
    THEN [m |-> m, d |-> d, msgs |-> <<>>, fail |-> ""]
    ELSE UpdateCommitTx(m, d, n)

\* handleDownstreamUpdateAdd: an HTLC that does not fit goes back to the
\* switch and changes nothing here.
AddHTLC(n, amt) ==
    LET log == mem[n].logs.Local
        pd  == Descriptor("Add", log.logIndex, log.htlcCounter, amt)
    IN  /\ link[n] = "up"
        /\ log.htlcCounter < MaxAdds[n]
        /\ ValidateAddHtlc(mem[n], n, pd)
        /\ Apply(n, net[n], After(<<Update("Add", pd.HtlcIndex, amt)>>,
              TryBatchUpdateCommitTx(
                 [mem[n] EXCEPT !.logs.Local = AppendHtlc(@, pd)],
                 disk[n], n)))
        /\ UNCHANGED feeUpdates

\* SettleHTLC and FailHTLC, for an HTLC that is known and not yet removed.
Removable(m, h) == LookupHtlc(m.logs.Remote, h) # {}
                     /\ h \notin m.logs.Remote.modified

RemoveHTLC(m, h, type) ==
    [m EXCEPT
       !.logs.Local = AppendUpdate(@,
          Descriptor(type, @.logIndex, h,
                     (CHOOSE a \in LookupHtlc(m.logs.Remote, h) : TRUE).Amount)),
       !.logs.Remote = MarkHtlcModified(@, h)]

\* processLocalUpdateFulfillHTLC and processLocalUpdateFailHTLC, for an HTLC
\* the switch got in a forwarding package.
ResolveHTLC(n, h, type) ==
    /\ link[n] = "up"
    /\ \E pkg \in Range(disk[n].fwdPkgs) : h \in pkg.adds
    /\ Removable(mem[n], h)
    /\ Apply(n, net[n], After(<<Update(type, h, 0)>>,
                UpdateCommitTx(RemoveHTLC(mem[n], h, type), disk[n], n)))
    /\ UNCHANGED feeUpdates

\* availableCommitmentBalance(AdditionalHtlc) of the opener for a view.
AvailableOn(v) ==
    LET balance == v.balance.Local - Reserve
        charge  == Charge(v, "AdditionalHtlc")
    IN  IF v.ok /\ charge < balance THEN balance - charge ELSE 0

\* validateFeeRate, with the next views of both commitments: the fee of the
\* next local commitment is affordable at the new rate.
FeeRateValid(rate, local, remote, tip) ==
    /\ rate >= FeePerKwFloor
    /\ CommitFee(rate, NumHTLCs(local))
          <= Min({AvailableOn(local), AvailableOn(remote)})
               + CommitFee(tip.feePerKw, NumHTLCs(local))

\* updateChannelFee: UpdateFee (validateFeeRate), update_fee, updateCommitTx.
UpdateFee(n, rate) ==
    LET m    == mem[n]
        tip  == ChainTip(m.chains.Local)
        view == FetchHTLCView(m, [Local |-> m.logs.Local.logIndex,
                                  Remote |-> tip.indices.Remote])
        fee  == [m EXCEPT !.logs.Local = AppendFeeUpdate(@,
                    Descriptor("FeeUpdate", @.logIndex, 0, rate))]
    IN  /\ link[n] = "up" /\ n = Opener
        /\ feeUpdates < MaxFeeUpdates
        /\ rate # tip.feePerKw
        /\ FeeRateValid(rate, ComputeView(m, n, "Local", view),
                        ComputeView(m, n, "Remote", view), tip)
        /\ feeUpdates' = feeUpdates + 1
        /\ Apply(n, net[n], After(<<Update("FeeUpdate", 0, rate)>>,
                                  UpdateCommitTx(fee, disk[n], n)))

\* The batch ticker runs while updates of ours are unsigned.
BatchTick(n) ==
    /\ link[n] = "up"
    /\ NumPendingUpdates(mem[n]) > 0
    /\ ~HasUnackedCommitment(mem[n].chains.Remote)
    /\ Apply(n, net[n], UpdateCommitTx(mem[n], disk[n], n))
    /\ UNCHANGED feeUpdates

\* A message of the given type is next at n.
Receives(n, type) ==
    link[n] = "up" /\ net[n] # <<>> /\ Head(net[n]).type = type

\* ReceiveHTLC
AcceptHTLC(m, n, u) ==
    LET log == m.logs.Remote
        pd  == Descriptor("Add", log.logIndex, log.htlcCounter, u.Amount)
        view == [FetchHTLCView(m, RecvIndices(m)) EXCEPT
                   !.Remote = Append(@, pd)]
    IN  [ok |-> u.HtlcIndex = log.htlcCounter
                  /\ CommitmentSane(m, n, "Local", view, "NoBuffer"),
         m  |-> [m EXCEPT !.logs.Remote = AppendHtlc(@, pd)]]

\* ReceiveHTLCSettle and ReceiveFailHTLC
AcceptResolution(m, u) ==
    LET found == LookupHtlc(m.logs.Local, u.HtlcIndex)
    IN  [ok |-> found # {} /\ u.HtlcIndex \notin m.logs.Local.modified,
         m  |-> [m EXCEPT
                   !.logs.Remote = AppendUpdate(@,
                       Descriptor(u.EntryType, @.logIndex, u.HtlcIndex,
                                  (CHOOSE a \in found : TRUE).Amount)),
                   !.logs.Local = MarkHtlcModified(@, u.HtlcIndex)]]

\* ReceiveUpdateFee
AcceptFee(m, n, u) ==
    [ok |-> n # Opener /\ u.Amount >= FeePerKwFloor,
     m  |-> [m EXCEPT !.logs.Remote = AppendFeeUpdate(@,
                Descriptor("FeeUpdate", @.logIndex, 0, u.Amount))]]

\* processRemoteUpdateAddHTLC, ...FulfillHTLC, ...FailHTLC, ...UpdateFee
ReceiveUpdate(n) ==
    LET u == Head(net[n])
        r == CASE u.EntryType = "Add" -> AcceptHTLC(mem[n], n, u)
               [] u.EntryType = "FeeUpdate" -> AcceptFee(mem[n], n, u)
               [] OTHER -> AcceptResolution(mem[n], u)
    IN  /\ Receives(n, "update")
        /\ IF r.ok
           THEN /\ mem' = [mem EXCEPT ![n] = r.m]
                /\ net' = [net EXCEPT ![n] = Tail(@)]
                /\ UNCHANGED <<disk, link, feeUpdates, reconnects>>
           ELSE Fail(n, Tail(net[n]), "badUpdate")

\* A handler that goes on with r; or, the link being stopped first, ends with
\* what it had by then: its messages are out, its memory is lost.
SignOrStop(n, r) ==
    \/ /\ OweCommitment(r.m)
       /\ Apply(n, Tail(net[n]), After(r.msgs, UpdateCommitTx(r.m, r.d, n)))
       /\ UNCHANGED feeUpdates
    \/ /\ ~OweCommitment(r.m)
       /\ Apply(n, Tail(net[n]), [m |-> r.m, d |-> r.d, msgs |-> r.msgs,
                                  fail |-> ""])
       /\ UNCHANGED feeUpdates
    \/ /\ LinkMayStop /\ reconnects < MaxReconnects
       /\ mem' = [mem EXCEPT ![n] = NoMem]
       /\ disk' = [disk EXCEPT ![n] = r.d]
       /\ net' = Exchange(n, <<>>, r.msgs)
       /\ link' = [link EXCEPT ![n] = "down"]
       /\ UNCHANGED <<feeUpdates, reconnects>>

\* processRemoteCommitSig: ReceiveNewCommitment, RevokeCurrentCommitment and,
\* if a signature is owed, updateCommitTx.
ReceiveCommitSig(n) ==
    LET m == mem[n]
        sane == CommitmentSane(m, n, "Local",
                    FetchHTLCView(m, RecvIndices(m)), "NoBuffer")
        m2 == ReceiveNewCommitment(m, n)
    IN  /\ Receives(n, "commit_sig")
        /\ CASE ~sane -> Fail(n, Tail(net[n]), "badCommit")
             [] sane /\ Head(net[n]).tx
                          # TxOf(ChainTip(m2.chains.Local), "Local") ->
                  Fail(n, Tail(net[n]), "badSig")
             [] OTHER -> SignOrStop(n, RevokeCurrentCommitment(m2, disk[n]))

\* processRemoteRevokeAndAck: ReceiveRevocation and, if a signature is owed,
\* updateCommitTx.
ReceiveRevokeAndAck(n) ==
    LET m == mem[n]
        r == ReceiveRevocation(m, disk[n])
    IN  /\ Receives(n, "revoke_and_ack")
        /\ IF /\ HasUnackedCommitment(m.chains.Remote)
              /\ Head(net[n]).height = ChainTail(m.chains.Remote).height
           THEN SignOrStop(n, [m |-> r.m, d |-> r.d, msgs |-> <<>>])
           ELSE Fail(n, Tail(net[n]), "badRevocation")

-----------------------------------------------------------------------------
(* Losing and setting up the connection. *)

\* The link of n is stopped: what is in memory or on its way to n is lost.
Disconnect(n) ==
    /\ link[n] \in {"sync", "up"}
    /\ reconnects < MaxReconnects
    /\ link' = [link EXCEPT ![n] = "down"]
    /\ net' = [net EXCEPT ![n] = <<>>]
    /\ mem' = [mem EXCEPT ![n] = NoMem]
    /\ UNCHANGED <<disk, feeUpdates, reconnects>>

\* ChanSyncMsg
ChanSyncMsg(d) ==
    [type |-> "channel_reestablish",
     NextLocalCommitHeight |-> d.local.height + 1,
     RemoteCommitTailHeight |-> d.remote.height]

\* Mutant: the channel is not loaded again.
ReconnectUnloaded ==
    /\ \A n \in Node : link[n] = "down"
    /\ reconnects < MaxReconnects
    /\ reconnects' = reconnects + 1
    /\ net' = [n \in Node |-> <<ChanSyncMsg(disk[Other(n)])>>]
    /\ link' = [n \in Node |-> "sync"]
    /\ UNCHANGED <<mem, disk, feeUpdates>>

\* Both nodes load the channel from disk and send channel_reestablish first.
Reconnect ==
    /\ \A n \in Node : link[n] = "down"
    /\ reconnects < MaxReconnects
    /\ reconnects' = reconnects + 1
    /\ IF \A n \in Node : Restorable(disk[n])
       THEN /\ mem' = [n \in Node |-> RestoredMem(disk[n])]
            /\ net' = [n \in Node |-> <<ChanSyncMsg(disk[Other(n)])>>]
            /\ link' = [n \in Node |-> "sync"]
       ELSE /\ link' = [n \in Node |-> IF Restorable(disk[n]) THEN "down"
                                                             ELSE "panic"]
            /\ UNCHANGED <<mem, net>>
    /\ UNCHANGED <<disk, feeUpdates>>

\* Mutant: a revocation the peer lacks is not sent again.
NoResend(m, d, n, msg) ==
    [m |-> m, d |-> d, msgs |-> <<>>, fail |-> ""]

\* ProcessChanSyncMsg, first switch: our revocation is sent again if the peer
\* lacks it, with a signature if one is owed and the window is open.
RevocationResend(m, d, n, msg) ==
    LET local  == ChainTail(m.chains.Local).height
        revoke == <<[type |-> "revoke_and_ack", height |-> local - 1]>>
        same   == [m |-> m, d |-> d, msgs |-> <<>>, fail |-> ""]
    IN  CASE msg.RemoteCommitTailHeight = local -> same
          [] msg.RemoteCommitTailHeight + 1 = local /\ OweCommitment(m) ->
               After(revoke, UpdateCommitTx(m, d, n))
          [] msg.RemoteCommitTailHeight + 1 = local /\ ~OweCommitment(m) ->
               [same EXCEPT !.msgs = revoke]
          [] OTHER -> [same EXCEPT !.fail = "syncError"]

\* The updates and the signature of the commitment the peer did not get.
CommitResend(d) ==
    LET ups == d.diff.updates
    IN  [k \in DOMAIN ups |-> Update(ups[k].EntryType, ups[k].HtlcIndex,
                                     ups[k].Amount)]
        \o <<[type |-> "commit_sig", tx |-> TxOf(d.diff.commit, "Remote")]>>

\* r with the commitment sent before or after the revocation, as they went
\* out first.
WithCommitment(r, d) ==
    [r EXCEPT !.msgs = IF r.d.lastWasRevoke THEN CommitResend(d) \o @
                                            ELSE @ \o CommitResend(d)]

\* Mutant: off by one, a commitment the peer has is sent again.
ResendKnown(r, m, d, next) ==
    IF r.fail = "" /\ d.diff # NoDiff THEN WithCommitment(r, d) ELSE r

\* ProcessChanSyncMsg, second switch: the commitment is sent again if the
\* peer lacks it.  The heights are those from before a new signature.
CommitmentResend(r, m, d, next) ==
    LET tip  == ChainTip(m.chains.Remote).height
        tail == ChainTail(m.chains.Remote).height
    IN  CASE r.fail # "" -> r
          [] r.fail = "" /\ next = tip + 1 -> r
          [] r.fail = "" /\ next = tip /\ next > tail -> WithCommitment(r, d)
          [] OTHER -> [r EXCEPT !.fail = "syncError"]

\* ProcessChanSyncMsg
ProcessChanSyncMsg(m, d, n, msg) ==
    CommitmentResend(RevocationResend(m, d, n, msg), m, d,
                     msg.NextLocalCommitHeight)

\* The link goes up with what ProcessChanSyncMsg returned, or fails.
Resume(n, r) ==
    /\ mem' = [mem EXCEPT ![n] = r.m]
    /\ disk' = [disk EXCEPT ![n] = r.d]
    /\ net' = Exchange(n, Tail(net[n]), r.msgs)
    /\ link' = [link EXCEPT ![n] = IF r.fail = "" THEN "up" ELSE r.fail]
    /\ UNCHANGED <<feeUpdates, reconnects>>

\* syncChanStates
SyncChanStates(n) ==
    /\ link[n] = "sync"
    /\ net[n] # <<>>
    /\ Resume(n, ProcessChanSyncMsg(mem[n], disk[n], n, Head(net[n])))

-----------------------------------------------------------------------------
Handlers(n) ==
    \/ ReceiveUpdate(n)
    \/ ReceiveCommitSig(n)
    \/ ReceiveRevokeAndAck(n)
    \/ SyncChanStates(n)
    \/ BatchTick(n)

Next ==
    \/ \E n \in Node : \E amt \in HtlcAmts : AddHTLC(n, amt)
    \/ \E n \in Node : \E h \in 0..(MaxAdds[Other(n)] - 1) :
          \E type \in ResolveTypes : ResolveHTLC(n, h, type)
    \/ \E n \in Node : \E rate \in FeeRates : UpdateFee(n, rate)
    \/ \E n \in Node : ReceiveUpdate(n)
    \/ \E n \in Node : ReceiveCommitSig(n)
    \/ \E n \in Node : ReceiveRevokeAndAck(n)
    \/ \E n \in Node : SyncChanStates(n)
    \/ \E n \in Node : BatchTick(n)
    \/ \E n \in Node : Disconnect(n)
    \/ Reconnect

Spec == Init /\ [][Next]_vars

\* Handlers(n) is enabled: a message is next at a running link, or its batch
\* ticker runs and the window is open.
CanHandle(n) ==
    \/ link[n] \in {"sync", "up"} /\ net[n] # <<>>
    \/ /\ link[n] = "up" /\ NumPendingUpdates(mem[n]) > 0
       /\ ~HasUnackedCommitment(mem[n].chains.Remote)

\* The peer is gone: the connection of n ends too.
Notice(n) == link[Other(n)] = "down" /\ Disconnect(n)

\* A running link handles its messages and its batch ticker (weak fairness of
\* Handlers, with its enabling condition written out), one whose peer is gone
\* notices, and a connection that is lost is set up again.
Fairness == /\ \A n \in Node : []<>~CanHandle(n) \/ []<><<Handlers(n)>>_vars
            /\ \A n \in Node : WF_vars(Notice(n))
            /\ WF_vars(Reconnect)

FairSpec == Spec /\ Fairness

-----------------------------------------------------------------------------
(* Properties. *)

IsCommitment(c) ==
    /\ DOMAIN c = {"height", "indices", "htlcIndex", "balance", "fee",
                   "feePerKw", "outputs"}
    /\ {c.height, c.fee, c.feePerKw} \subseteq Nat
    /\ \A p \in Party : {c.indices[p], c.htlcIndex[p], c.balance[p]}
                            \subseteq Nat
    /\ \A p \in Party : \A o \in c.outputs[p] :
          {o.HtlcIndex, o.LogIndex, o.Amount} \subseteq Nat

\* Every persisted commitment is well formed, with balances that are never
\* negative (MilliSatoshi is unsigned: computeView must catch an underflow),
\* and memory is there exactly while a link runs.
TypeOK ==
    /\ link \in [Node -> {"down", "sync", "up"} \cup Failures]
    /\ feeUpdates \in 0..MaxFeeUpdates
    /\ reconnects \in 0..MaxReconnects
    /\ \A n \in Node :
          /\ IsCommitment(disk[n].local) /\ IsCommitment(disk[n].remote)
          /\ disk[n].diff # NoDiff => IsCommitment(disk[n].diff.commit)
          /\ link[n] \in {"sync", "up"} => mem[n] # NoMem

\* The commitments n has on disk: those of the peer, and all.
PeersOnDisk(n) == {disk[n].remote} \cup
                  (IF disk[n].diff = NoDiff THEN {} ELSE {disk[n].diff.commit})
OnDisk(n) == {disk[n].local} \cup PeersOnDisk(n)
Outputs(c, p) == {o.HtlcIndex : o \in c.outputs[p]}
Total(c) == c.balance.Local + c.balance.Remote + c.fee
              + Amount(c.outputs.Local) + Amount(c.outputs.Remote)

\* No commitment creates or loses money: balances, HTLCs and fee always add
\* up to the capacity, whatever order updates, fees and removals came in.
CapacityConserved == \A n \in Node : \A c \in OnDisk(n) : Total(c) = Capacity

\* Two nodes running this code never disagree about a commitment: a received
\* signature is always for the commitment the receiver builds, across lost
\* connections, restored logs and retransmissions.  A disagreement makes
\* processRemoteCommitSig force close the channel.
CommitSigsVerify == \A n \in Node : link[n] # "badSig"

\* Updates both sides made at the same time never add up to a commitment that
\* validateCommitmentSanity rejects, on signing or on receiving: the buffers
\* the opener leaves (FeeBuffer, AdditionalHtlc) pay for the peer's HTLC.
CommitmentsAffordable == \A n \in Node : link[n] # "badCommit"

\* channel_reestablish between two nodes that kept their state never ends in
\* ErrCannotSyncCommitChains or a data loss error, and every update and
\* revocation sent, or sent again after it, is one the receiver can apply.
ResyncSucceeds ==
    \A n \in Node : link[n] \notin {"syncError", "badUpdate", "badRevocation"}

\* What channeldb holds can always be loaded: none of the panics of
\* restorePendingLocalUpdates, no unknown parent, no unsigned remote update.
RestoreSucceeds == \A n \in Node : Restorable(disk[n]) /\ link[n] # "panic"

\* The commitment chains a running link works on are the ones it would load
\* after a crash: SignNextCommitment, RevokeCurrentCommitment and
\* ReceiveRevocation never leave memory and disk apart, however they end.
ChainsOnDisk ==
    \A n \in Node : link[n] \in {"sync", "up"} =>
                        mem[n].chains = RestoredChains(disk[n])

\* The commitment a node could broadcast is one its peer has on record, as
\* the current or the pending one: the peer can always tell it apart from a
\* revoked one, and knows every HTLC on it.
CommitmentOnRecord ==
    \A n \in Node :
        TxOf(disk[n].local, "Local") \in
            {TxOf(c, "Remote") : c \in PeersOnDisk(Other(n))}

\* The newest commitment of the peer that d holds (commitChains.Remote.tip).
TipHeight(d) == IF d.diff = NoDiff THEN d.remote.height ELSE d.diff.commit.height

\* Heights only: the two nodes as CommitChains sees them, on disk.
Heights == INSTANCE CommitChains WITH
    InitHeight <- Past,
    tail <- [n \in Node |-> disk[n].remote.height],
    tip  <- [n \in Node |-> TipHeight(disk[n])],
    cur  <- [n \in Node |-> disk[n].local.height]

\* The channel implements CommitChains: a signature is only given when the
\* last one was answered, a commitment only given up for a signed one, and
\* only counted as revoked when the peer moved on, across every crash.
ImplementsCommitChains == Heights!Spec

Forwarded(d) == UNION {pkg.adds : pkg \in Range(d.fwdPkgs)}
Returned(d) == UNION {pkg.rmvs : pkg \in Range(d.fwdPkgs)}

\* Every HTLC of the peer that is on both chains went to the switch in exactly
\* one forwarding package, and so did every removal of one of our own HTLCs:
\* none is lost and none is repeated across restarts (ReceiveRevocation).
ForwardedExactlyOnce ==
    \A n \in Node :
        LET d == disk[n]
            pkgs == d.fwdPkgs
        IN  /\ \A i, j \in DOMAIN pkgs : i # j =>
                  /\ pkgs[i].adds \cap pkgs[j].adds = {}
                  /\ pkgs[i].rmvs \cap pkgs[j].rmvs = {}
            /\ Forwarded(d) = 0..(d.remote.htlcIndex.Remote - 1)
            /\ Returned(d) = 0..(d.remote.htlcIndex.Local - 1)
                               \ Outputs(d.remote, "Local")

\* The outputs of p's HTLCs, from n's side, on each commitment of either node
\* that is not revoked.
UnrevokedOutputs(d, n, p) ==
    LET OnDiff(c, party) == IF c = NoDiff THEN {} ELSE {Outputs(c.commit, party)}
        peer  == d[Other(n)]
        theirs == IF p = "Local" THEN "Remote" ELSE "Local"
    IN  {Outputs(d[n].local, p), Outputs(d[n].remote, p),
         Outputs(peer.local, theirs)}
          \cup OnDiff(d[n].diff, p) \cup OnDiff(peer.diff, theirs)

\* An HTLC goes to the switch only once it is on every commitment of either
\* party that is not revoked: whichever is broadcast, it can be claimed.  The
\* removal of one of our HTLCs goes back to the switch only once none of them
\* has it any more: the incoming HTLC it was forwarded from can be failed
\* without the outgoing one being claimed.
ForwardOnlyIrrevocable ==
    [][\A n \in Node :
         /\ \A h \in Forwarded(disk'[n]) \ Forwarded(disk[n]) :
               \A outs \in UnrevokedOutputs(disk', n, "Remote") : h \in outs
         /\ \A h \in Returned(disk'[n]) \ Returned(disk[n]) :
               \A outs \in UnrevokedOutputs(disk', n, "Local") : h \notin outs]_vars

\* Both nodes are connected and hold the same updates on both commitments.
Synced ==
    /\ \A n \in Node :
          /\ link[n] = "up"
          /\ ~HasUnackedCommitment(mem[n].chains.Remote)
          /\ ~OweCommitment(mem[n])
    /\ \A n \in Node : mem[n].logs.Local.logIndex =
                          mem[Other(n)].logs.Remote.logIndex

\* Once no more updates are made and the connection stays up, every update
\* gets locked in on both commitments, without anyone doing anything more.
UpdatesLockIn == <>[]Synced
=============================================================================
