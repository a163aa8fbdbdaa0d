# TLA+ verification of the Lightning node

This directory holds a TLA+ development of the core of the node, the parts
that move money: the channel state machine (`lnwallet`, `channeldb`,
`htlcswitch/link.go`), quiescence (`htlcswitch/quiescer.go`), which stops it
for a splice, forwarding between channels (`htlcswitch/switch.go`,
`circuit_map.go`, `mailbox.go`), invoices (`invoices/`), and what happens when
a channel goes on chain (`contractcourt/channel_arbitrator.go`). The modules
are translated from the source; `PROJECT.json` names, for every definition, the
lines it stands for. TLC checks small instances, TLAPS proves some of the
results for every value of the constants.

Run TLC as `tlc -workers 2 -config ChannelReconnect.cfg MCLightningChannel`,
TLAPS as `tlapm LightningChannelProofs.tla`.

## 1. Inventory

### The parts of the system and how they interact

| Component | State it keeps | Operations | Talks to |
|---|---|---|---|
| Channel state machine, `lnwallet/channel.go` | two update logs, two commitment chains (own and peer's) | AddHTLC, SettleHTLC, FailHTLC, UpdateFee and their Receive counterparts; SignNextCommitment, ReceiveNewCommitment, RevokeCurrentCommitment, ReceiveRevocation, ProcessChanSyncMsg | called by the link; writes channeldb |
| Update logs and chains, `update_log.go`, `commitment_chain.go`, `payment_descriptor.go` | entries with the heights at which each chain took them up | append, replace a fee update, mark, remove, compact | inside the channel |
| Channel persistence, `channeldb/channel.go`, `forwarding_package.go` | both commitments, the pending commit diff, updates acked and not signed by either side, forwarding packages and their filters | UpdateCommitment, AppendRemoteCommitChain, AdvanceCommitChainTail (one database transaction each), ChanSyncMsg, SetFwdFilter, AckAddHtlcs, AckSettleFails | read by NewLightningChannel and by the link at start |
| Link, `htlcswitch/link.go` | one goroutine's event loop; held messages, hodl map, keystone batch, tickers | a handler per message of the peer, packet of the switch, ticker, resolution and request | peer connection, mailbox, switch, invoice registry, splice machine |
| Quiescence, `htlcswitch/quiescer.go` | who asked, stfu sent and received, resume queue, timer | InitStfu, RecvStfu, SendOwedStfu, OnResume, Resume, RefuseInit | the link; the mutex is also taken by the switch |
| Splice machine, `lnwallet/splice`, `link_splice.go` | the splice in progress, abortSent | quiesced, negotiation, signing, locking, tx_abort | asks the link for quiescence and to resume, on a goroutine of its own |
| Mailbox, `htlcswitch/mailbox.go` | packets and messages for one link | add, deliver, ack, reset, fail on expiry | switch to link |
| Switch and circuit map, `switch.go`, `circuit_map.go` | circuits pending, opened, closing and, on disk, adds and keystones | CommitCircuits, OpenCircuits, CloseCircuit, DeleteCircuits, TrimOpenCircuits; route, respond, reforward | all links |
| Invoices, `invoices/` | the invoice record, HTLC subscriptions, release timers, expiry queues | notify an HTLC, settle, cancel, release, expire, delete | link (exit hop), user, chain |
| On-chain resolution, `contractcourt` | arbitrator state, commit set, resolutions and resolvers in a log | chain events, state steps, resolver steps, relaunch | chain notifier, sweeper, switch |
| Cooperative close, `lnwallet/chancloser` | closing state, offers | shutdown, flush, offer, RBF | peer, link |
| Payments and routing, gossip, watchtowers, funding, sweeper, notifier, offers, RPC | see `PROJECT.json` | | |

A payment crosses the parts like this. The incoming link locks the HTLC in on
every commitment that can still be published, writes it to a forwarding
package and hands it to the switch or, at the last hop, to the invoice
registry. The switch commits a circuit for it and puts a packet in the mailbox
of the outgoing link; that link adds the HTLC to its log, writes the keystone
that names the outgoing HTLC, and signs. The answer comes back as a settle or
a fail, finds its circuit through the keystone, is signed for by the incoming
link, and only then are filters, mailbox and circuit cleaned up. If a channel
goes on chain meanwhile, the arbitrator gives the switch the answer.

### What is hard about it

* **Crash and reconnection.** A channel's memory is rebuilt from five pieces
  on disk, each written at a different step; circuits, keystones, package
  filters and commitments are four databases' worth of separate writes; the
  arbitrator writes its log piece by piece. A crash may fall between any two.
* **Interleaving.** Both sides of a channel add, remove, re-price and sign at
  any time, and each works out the other's commitment from its own logs. The
  invoice registry's event loop doesn't take the registry's mutex.
* **Stale state.** Indices of HTLCs that were never signed are used again;
  expiry entries outlive their invoice.
* **Numeric edges.** The opener pays for HTLCs it has not seen yet.
* **Two goroutines end quiescence** on each side, and the peer's messages
  race with both.
* **Liveness.** An owed signature, an owed stfu, a held HTLC, a half-open
  circuit: each has one place that takes it up again; missed there, nobody
  does.

`PROJECT.json` lists each of these as a hazard at its line, with the
properties that would catch it.

### What makes each component correct

* Channel: both nodes build the same commitment from the same messages
  (`CommitSigsVerify`), no money is made or lost (`CapacityConserved`), a
  commitment the opener can't pay for is never reached
  (`CommitmentsAffordable`), an HTLC or its removal is passed on exactly once
  and only when irrevocable (`ForwardedExactlyOnce`,
  `ForwardOnlyIrrevocable`), everything is eventually locked in
  (`UpdatesLockIn`).
* Persistence and resynchronisation: what a link works on is what it would
  load (`ChainsOnDisk`), loading never fails (`RestoreSucceeds`), every
  reestablish succeeds and nothing is sent again that can't be applied
  (`ResyncSucceeds`), the commitment a node could publish is one the peer
  knows and has not seen revoked (`CommitmentOnRecord`,
  `ImplementsCommitChains`).
* Quiescence: nobody breaks the other's, two known cases apart
  (`StfuRespected`), the channel is settled while it lasts
  (`QuiescentIsSettled`), both agree who won
  (`InitiatorAgreed`), what was put off is taken up exactly once
  (`DeferredHaveResume`, `AppliedOnce`), requests are answered and quiescence
  ends (`StfuGoesOut`, `QuiescenceEnds`).
* Switch, circuit map, mailboxes: an HTLC is forwarded at most once and
  answered as its outgoing HTLC was, so forwarding costs the node nothing
  (`ImplementsHtlcForward`); a response always finds its way home
  (`ResponseRoutable`); keystones are never refused (`KeystonesAccepted`);
  packages are neither replayed for ever nor given up early
  (`AckFilterExact`); every HTLC is answered and every circuit reclaimed
  (`EveryHtlcAnswered`, `CircuitsReclaimed`).
* Invoices: the preimage is given only for the full price
  (`PreimageOnlyWhenPaid`), what is recorded as paid is not failed
  (`FailedIsNotPaid`), every HTLC held hears back (`HeldHtlcsHearBack`,
  `ResolutionsExpected`), in time (`HeldSetsAreTimed`, `EveryHtlcResolved`),
  and an expiry spares a later invoice of the same hash
  (`ExpirySparesOthers`).
* Arbitrator: an HTLC is failed upstream only when the peer can't be paid for
  it (`FailedWhenSafe`), a channel is declared resolved only when every HTLC
  of any of its commitments was answered (`UpstreamAnswered`), and it is
  resolved in the end (`ChannelResolves`).

## 2. The modules

| Module | What it is |
|---|---|
| `CommitChains` | abstract: the heights of the two chains and the revocation window |
| `LightningChannel` | two links running `lnwallet.LightningChannel`, with disk, restart and resynchronisation |
| `CommitIndices` | the channel cut down to which updates are on which commitment, as operators |
| `Quiescence` | two links with their quiescers, mailboxes, held messages and the end of a splice |
| `HtlcForward` | abstract: what forwarding promises for an incoming HTLC and its outgoing one |
| `CircuitMap` | the circuit map, memory and disk, as operators, one per method |
| `SwitchForward` | two links, the mailboxes between them, the switch and the circuit map |
| `InvoiceRegistry` | the registry, its event loop, the expiry watcher and the links' hodl queues, for one payment hash |
| `ChannelArbitrator` | one channel's arbitrator, its log, its resolvers and the chain |
| `MC...` | give the constants of a module that a cfg can't write their values for TLC |
| `Subsequences` | the elements of a sequence at given places, as an operator that can be proved about |
| `SumTheorems` | lemmas: what a fold computes, by smallest counterexample; which elements a subsequence has |
| `UpdateLogProofs` | lemmas: what the operations of one node of `LightningChannel` keep of its logs and commitments |
| `AbstractProofs`, `LightningChannelProofs`, `QuiescenceProofs`, `SwitchForwardProofs`, `InvoiceRegistryProofs`, `ChannelArbitratorProofs` | theorems |

### LightningChannel

State: `mem[n]` is the `LightningChannel` object (`logs` = localUpdateLog and
remoteUpdateLog, `chains` = localCommitChain and remoteCommitChain), `disk[n]`
the channel's buckets (`local` and `remote` commitment, `diff` = the pending
CommitDiff, `unsignedAcked`, `remoteUnsigned`, `ackedKey` = whether the key
exists, `lastWasRevoke`, `fwdPkgs`), `net[n]` the messages on their way to
`n`, `link[n]` the state of its link.

| Action | Code |
|---|---|
| `AddHTLC` | handleDownstreamUpdateAdd, AddHTLC, and the signature of a full batch |
| `ResolveHTLC` | processLocalUpdateFulfillHTLC / FailHTLC, SettleHTLC, FailHTLC |
| `UpdateFee` | updateChannelFee, validateFeeRate, UpdateFee |
| `BatchTick` | the batch ticker of htlcManager |
| `ReceiveUpdate` | processRemoteUpdate* and ReceiveHTLC, ReceiveHTLCSettle, ReceiveFailHTLC, ReceiveUpdateFee |
| `ReceiveCommitSig` | processRemoteCommitSig: verify, revoke, sign if owed |
| `ReceiveRevokeAndAck` | processRemoteRevokeAndAck: advance, forward, sign if owed |
| `Disconnect`, `Reconnect` | Stop and Start; memory is lost and rebuilt from disk |
| `SyncChanStates` | syncChanStates, ProcessChanSyncMsg, resumeLink |

A handler is one action, database writes included, except that a link may be
stopped after `revoke_and_ack` and before its own signature
(`LinkMayStop`), the one place where a handler writes twice with a message in
between. A signature is the content it was made for; it verifies when the
receiver builds the same content (`TxOf`, seen from the owner's side). Amounts
are exact: the commitment fee is charged to the opener, and the checks of
validateCommitmentSanity (reserve, fee buffer, HTLC count, value in flight)
are all there. A view that refers to an HTLC its log doesn't have
(fetchParent) fails the link, as in the code.

`CommitChains` is what the heights promise; `ImplementsCommitChains` shows
that `LightningChannel` implements it, with `tail`, `tip` and `cur` read off
`disk`, so that restarts and resynchronisation are stutters.

### Quiescence

`CommitIndices` keeps the logs as sequences of "Add" and "Rmv" and, for each
commitment, how many entries of each party are on it; that is all stfu looks
at (`noDanglingUpdates`). `Quiescence` adds, per node, the quiescer `q` with
its fields by their names, the mailbox `mail` (a packet is new, applied or
dropped), HTLCs out at the switch or on hold (`work`), the messages held for
resume (`held`), `peerTxSigs` (`txSigs`) and the splice machine's queue
(`mach`).

| Action | Code |
|---|---|
| `HandleQuiescenceReq` | handleQuiescenceReq, InitStfu |
| `HandleDownstreamPkt` | handleDownstreamPkt: dropped while updates can't be sent |
| `HandleHtlcResolution` | processHodlQueue, processHtlcResolution |
| `HandleUpstreamMsg`, `ReplayHeld` | handleUpstreamMsg, hold, replayHeld, processUpstreamMsg and its handlers |
| `Quiesced`, `MachineHandleTxAbort` | the machine's quiesced, endQuiescence and handleTxAbort |
| `ResumeQuiescence` | resumeQuiescence: hooks, Reset, ResetPackets, owed signature |
| `Timeout` | the quiescer's timer and the timer of held messages |
| `ShutdownReceived` | RefuseInit, called as the message is read |

`Shutdown` is the closer's message, sent from the link's OnCommitOnce hook
(`peer/brontide.go`). External and modelled by how the code uses them: the
connection (ordered, may be cut) and the switch that makes packets
(`SwitchPacket`).

A request may be made at any moment, before the peer has resumed from the last
round too, and an HTLC on hold is settled without a look at the quiescer, as in
the code; `work.late` records that such a settle came after our stfu. Both can
fail the link, and `StfuRespected` says that nothing else does.

### CircuitMap, SwitchForward and HtlcForward

`CircuitMap` has the circuit map as a record: `pending`, `opened` and `closed`
in memory, `adds` and `keys` (the two buckets) on disk, and an operator per
method, including what a restart rebuilds (`NewCircuitMap`: restore and trim;
the clean-up of closed channels is left out).

`SwitchForward` follows HTLCs from an incoming channel to an outgoing one and
back. The channels are kept by what is durable: which HTLCs a signed commitment
answers (`inCh.fate`), its pending commit diff, the forwarding packages with
`FwdFilter` and `AckFilter`, and the outgoing HTLCs with their responses
(`outCh`). The rest is memory: the interceptable switch and the two goroutines
of the switch (`sw.icpt`, `sw.route`, `sw.plex`), the mailboxes and the links.

| Action | Code |
|---|---|
| `LockIn`, `ProcessRemoteAdds` | ReceiveRevocation writes the package; processRemoteAdds, SetFwdFilter |
| `ForwardPackets`, `ForwardPacketsWriteError` | interceptable switch, ForwardPackets, CommitCircuits and its failed write |
| `RouteAdd`, `RejectAdd` | routeAsync, handlePacketAdd |
| `DownstreamAdd`, `DownstreamFailAdd`, `ExpireAdd` | handleDownstreamPkt; FailAdd; the mailbox's expiry |
| `OpenKeystones`, `SignOut`, `NoWindow` | updateCommitTx: OpenCircuits, SignNextCommitment, or an exhausted window |
| `RemoteFulfill`, `LockInResponse` | a pipelined settle; responses of a locked-in package |
| `HandleResponse`, `HandleFailedAdd`, `AckPendingSettleFails` | closeCircuit, handlePacketSettle / Fail, ackSettleFail |
| `DownstreamReply`, `SignIn`, `AckDownStreamPackets` | the incoming link: the reply, the signature with its acks, the clean-up after it |
| `InLinkDown`, `InLinkUp`, `OutLinkFlaps`, `OutLinkUp` | Stop and Start of the links; syncChanStates, resolveFwdPkgs, TrimOpenCircuits |
| `Crash` | the daemon stops; NewCircuitMap, reforwardResponses |

Keystones and signature, and signature and clean-up, are separate actions,
because they are separate writes. `HtlcForward` has, per HTLC, the fate of the
incoming and of the outgoing HTLC and says when each may change;
`ImplementsHtlcForward` maps them to `inCh.fate` and `OutFate`, where an HTLC
that was sent twice has a fate `HtlcForward` never allows. Two outgoing HTLCs
for one incoming, a fail of an HTLC that is live downstream, and a settle of
one that was not claimed are all violations. The two channels share no state
with `LightningChannel`; that module shows what this one takes for granted, that
a signed commitment is either retransmitted or answered.

### InvoiceRegistry

State: the record on disk (`inv`), what each link did with its HTLC (`htlc`),
`hodlSubscriptions` (`subs`), the links' hodl queues (`queue`), the call that
holds the mutex (`call`), `autoReleaseHeap` (`timers`), the HTLC the event
loop has canceled and not yet announced (`release`), and the two queues of the
expiry watcher (`watch`).

| Action | Code |
|---|---|
| `NotifyUnknown`, `NotifyReplay`, `NotifyUpdate`, `NotifyCancelSet` | notifyExitHopHtlcLocked up to the database update: unknown invoice, resolveReplayedHtlc, updateMpp / updateLegacy, the settlement interceptor |
| `NotifyReturn` | its rest: subscribe, timer, expiry, notify the subscribers |
| `CancelSingleHtlc`, `ReleaseHtlc` | invoiceEventLoop: the database update without the mutex, then notifyHodlSubscribers |
| `AddInvoice`, `SettleHodlInvoice`, `CancelByUser`, `DeleteCanceledInvoice` | the user's calls |
| `CancelNextExpiredInvoice`, `CancelNextHeightExpiredInvoice`, `NewBlock` | the expiry watcher |
| `ProcessHodlQueue`, `CommitRemoval`, `LinkFlap`, `Crash` | the links; HodlUnsubscribeAll; restart with scanInvoicesOnStart |

### ChannelArbitrator

State: the three commitments as the link left them (`chan`, one of
`Scenarios`: each HTLC absent, dust or an output on each), the chain
(`height`, `chain`), what the sweeper has (`swept`), the preimage beacon
(`known`), the answers given to the switch (`told`), the log and close summary
(`disk`), the attendant (`arb`, with a program counter between its writes) and
the resolver goroutines (`active`, `signals`).

| Action | Code |
|---|---|
| `HandleBlockbeat`, `UserForceClose`, `HandleClose` | channelAttendant's cases |
| `LogContractResolutions`, `InsertConfirmedCommitSet`, `MarkChannelClosed` | the writes of handleLocalForceCloseEvent and its siblings, one action each |
| `StepDefault` ... `StepFullyResolved`, `CommitState` | stateStep, one per state; CommitState in advanceState |
| `ContestExpires`, `ClaimCleanUp`, `ContestMistaken`, `TimeoutFails`, `CheckpointAnswered`, `ContestClaims`, `ContestAbandons`, `SuccessSpent`, `SweepConfirms` | the resolvers, by their checkpoints |
| `ResolveContract`, `ResolutionSignal` | the end of resolveContract, the attendant's answer |
| `Crash`, `Restart` | Start, progressStateMachineAfterRestart, relaunchResolvers |
| `Confirm`, `PeerSpends`, `WeSpend`, `NewBlock`, `LearnPreimage` | the chain and the witness beacon (external) |

The choice of actions (`checkCommitChainActions`, `checkLocalChainActions`,
`checkRemoteChainActions`, `deferDustHTLCsLiveOnRemote`,
`checkRemoteDanglingActions`, `constructChainActions`) is a set of operators of
the same names. The chain watcher is the event it reports.

Three places where the model is coarser than the code. `Lagging` is an
assumption about time: a contest resolver, which has a block subscription of
its own (`htlc_outgoing_contest_resolver.go:131`), acts on the block that ends
it before the next block or a spend of ours; nothing in the code makes them
wait for it. `StepContractClosed` gives its answers to the switch and writes
its resolvers in one action (`channel_arbitrator.go:1372-1402`); a crash between
the two repeats the step, as one just before it does. And a contest whose
invoice interceptor fails ends until the next start
(`htlc_incoming_contest_resolver.go:359`), which `ContestClaims` leaves out.

## 3. The runs

| Run | Instance | Shows |
|---|---|---|
| `ChannelReconnect` | 1 HTLC of an opener close to its reserve, 2 of the acceptor, batches of 2, 2 reconnections at any step, stops inside a handler | conservation, affordable commitments, exactly-once and irrevocable forwarding, resynchronisation, disk and memory agree, refinement of `CommitChains` |
| `ChannelLiveness` | 2 fee updates at two rates, 1 HTLC of the acceptor, 1 reconnection, fair | both sides use the same fee update; every update is locked in |
| `QuiescentRounds` | 1 HTLC, which may be settled, held or forwarded, 2 + 1 requests at any moment, a shutdown, fair | the safety properties of quiescence, over two rounds and beside a close; an owed stfu goes out and is taken, quiescence ends |
| `SwitchForwarding` | 3 HTLCs in packages of 1 and 2, one the link rejects, one that may expire; a crash, a restart of each link, packets dropped on a quit signal | refinement of `HtlcForward`, circuits, keystones and filters |
| `SwitchAnswers` | 2 HTLCs, one may expire; a crash, a restart of the incoming link, a failed write, fair | every HTLC is answered, every circuit deleted |
| `Invoices` | 3 HTLCs on 2 channels with 2 set totals, normal or hold, 2 invoices under the hash, an interceptor, a link restart, a crash | the safety properties of the registry |
| `InvoicesResolved` | the same HTLCs, 1 invoice deleted when canceled, a link restart, a crash, fair | every HTLC is settled or failed in the end |
| `Arbitration` | 19 channel states, every close that is possible in them, 2 crashes, fair | HTLCs failed only when safe, none unanswered, the channel is resolved |

Every property has a mutant: a plausible slip in one definition (a dropped
guard, a forgotten write, a wrong order) under which TLC finds the property
violated, in the same run.

**Bounds and why they suffice.** All bounds are constants.

* Channel (`MaxAdds`, `MaxFeeUpdates`, `MaxReconnects`): an exchange involves
  at most two unsigned batches and one unacknowledged commitment per side, so
  two HTLCs of one node and one of the other already produce every overlap of
  an update, a signature and a revocation in both directions; the second is
  needed for compaction and for one HTLC to be locked in while another is not.
  Two reconnections let a resynchronisation itself be interrupted. Two fee
  updates let the second replace the first or follow it. Amounts are small and
  of one size: the properties compare sums, and the limits are set so that
  each check both passes and fails.
* Quiescence (`MaxAdds`, `MaxRequests`): two rounds let a leftover of the first
  disturb the second, and the second request of one node meet a peer that has
  not resumed from the first. One HTLC is added by one node and removed by the
  other, so both make updates. The safety properties are theorems for any
  bounds; a run with an HTLC of each node passes as well (1,141,981 states for the
  safety properties alone).
* Switch (`Packages`, `MaxCrashes`, `MaxInFlaps`, `MaxOutFlaps`,
  `MaxWriteErrs`): two packages and one with two HTLCs let a package be half
  done, the outgoing link batch two keystones, and an index be used again; one
  crash together with one restart of each link puts a restart inside the
  recovery from another.
* Invoices (`MaxHeight`, `MaxInvoices`, `MaxFlaps`, `MaxCrashes`): two HTLCs
  complete a set, the third arrives beside or after it, and disagrees about
  the total; a second invoice meets what the first left in the watcher.
* Arbitrator (`MaxHeight`, `MaxCrashes`, `Scenarios`): the HTLCs are decided
  one by one, so one of each direction, in every position the commitments
  allow, is enough; both crashes may fall in one step, in recovery too.

Deadlock is not checked: a channel on which nobody wants anything, or whose
bounds are used up, rightly rests.

**Fairness.** `LightningChannel`: a running link takes its next event (its
event loop has no other way to spend its time), a node whose peer is gone
notices (the connection's reads fail), and connections are set up again
(`server.go` reconnects to peers with channels). Nobody is obliged to add or
resolve an HTLC. Weak fairness of the handlers is written with its enabling
condition spelled out (`CanHandle`), because TLC can't evaluate ENABLED of the
handlers' primed records. `Quiescence`: links, machines and timers run; a
splice that won has no fairness at all, so `QuiescenceEnds` rests on the timer.
The splice machine's own limit on an unanswered stfu is left out: with it
`StfuGoesOut` would hold whatever the links did. `SwitchForward`: the
goroutines of links, mailboxes and switch run, links come up again, and the
outgoing peer revokes and answers, which the expiry of the HTLC obliges it to;
no expiry, restart, crash or error is ever forced. `InvoiceRegistry`: links,
event loop and watcher run, timers fire and blocks come; the user need not do
anything. `ChannelArbitrator`: the attendant and the resolver goroutines run, a
node that went down is started again, blocks come, and what the sweeper
publishes confirms if nothing else spends the output; no close and no claim of
the peer is forced.

### What the violations show

Four runs end in a counterexample; each is a finding with the line it
contradicts.

* `ReplayedAddRef`: after a restart the Adds of a package are numbered by
  their place among those not acknowledged, so the second HTLC of a package
  acknowledges the first one's place. Its own stays clear, the package is
  replayed at every start, and its circuit is gone: with `MaxCrashes` 2 the same
  instance violates `ImplementsHtlcForward`, an answered HTLC is sent again. In `SwitchForwarding` the second HTLC of the package
  of two is the rejected one.
* `KeystoneGap`: the outgoing link writes the keystones of two Adds and goes
  down before it signs. The first Add expires in the mailbox, its failure is
  signed for upstream, and its circuit is deleted, keystone included. The
  keystone of the second stays, with a gap below it, and TrimOpenCircuits stops
  at the gap, which its comment says there never is (`circuit_map.go:746`). With
  `SwitchForwarding`'s properties on the same packages and `MayExpire` {1, 2}
  `ImplementsHtlcForward` is violated, with a third HTLC and `MayExpire` {1}
  `KeystonesAccepted` and `ResponseRoutable` too.
* `ReplayRacesRelease`: a link that restarts notifies its HTLC while the event
  loop, without the mutex, is releasing it; the call answers from what it read
  before and the link holds an HTLC nobody will resolve. `TimerRaces` false
  keeps release and call apart in the other runs.
* `RestartWhileClosed`: a restart in StateContractClosed runs its step with
  chainTrigger, under which there are no actions before an HTLC's deadline; no
  resolver is created and the channel is declared resolved. `CrashWindows`
  without "closed" keeps crashes out of that moment in `Arbitration`.

### Known limits

These further cases are reachable in the code and in the model; the runs leave
them out by their constants. Each is reproduced by giving the named run the
constants below and checking the property.

| Case | Constants | Violated |
|---|---|---|
| The logs are rebuilt with the pending diff before older updates the peer has yet to sign; with a fee update in each, the older one wins (`channel.go:1915`) | `ChannelLiveness` with no HTLCs, `LinkMayStop` TRUE | `CommitSigsVerify` |
| AdvanceCommitChainTail skips a write while `unsignedAckedUpdatesKey` was never written (`channeldb/channel.go:3858`) | `ChannelLiveness` with no HTLCs, 1 fee update, `Used` FALSE | `CommitSigsVerify` |
| A link stopped between revoking and signing owes a signature that resynchronisation doesn't give (`channel.go:4815`) | `ChannelLiveness` with 1 HTLC of the opener, no fee updates, `LinkMayStop` TRUE | `UpdatesLockIn` |
| validateFeeRate keeps room for one HTLC of the peer at the old rate only, against its comment (`channel.go:9847`) | `ChannelReconnect` with opener balance 6, 1 HTLC of the acceptor, 1 fee update to rate 2, `Used` TRUE, no reconnections | `CommitmentsAffordable` |
| routeAsync takes the link's quit signal after the circuit was committed: the half-open circuit's replays are dropped (`switch.go:966`) | `SwitchAnswers` with `QuitDrops` TRUE | `EveryHtlcAnswered` |
| A second legacy payment to a hold invoice gets no expiry entry of its own (`invoice_expiry_watcher.go:131`) | `Invoices` with `Total <- PaidTwice`, `Value` 1 | `HeldSetsAreTimed` |
| A resolver checkpointed as resolved whose contract is still in the log, and a contest that was launched and not yet swapped: after a crash there the channel waits for ever (`channel_arbitrator.go:2772`, `htlc_outgoing_contest_resolver.go:41`) | `Arbitration` | `ChannelResolves` excuses these two moments (`crashes.at`) |

Of quiescence three cases are part of the properties instead, because the model
has no bound that leaves them out: an stfu that reaches a peer that has not
resumed from the last round is refused and fails the link (`quiescer.go:210`), a
hold invoice resolved after our stfu sends an update (`link.go:4276`), and what
was put off for an stfu that a shutdown withdraws has no resume
(`quiescer.go:520`). `StfuRespected`, `QuiescentIsSettled` and
`DeferredHaveResume` name them, and say that there are no others.

The deadlock of the quiescer's Resume with the switch (`quiescer.go:574`) is a
hazard no property covers: it needs the mutex and the unbuffered channels as
state.

## 4. What is proved

### The abstract specifications (AbstractProofs)

**`WindowHolds`**: `Spec => []InWindow` for `CommitChains`, any starting
height: the commitment a node would publish is one its peer signed and holds no
revocation for, and no node is more than one signature ahead. With heights typed
as integers `InWindow` is inductive by itself. It holds of the channel through
`ChannelImplementsCommitChains`.

**`ForwardingNeverLoses`**: in `HtlcForward`, for any set of HTLCs, one that was
failed back is neither live nor claimed downstream, and one that was settled was
claimed there. With the types of the fates `NoLoss` is inductive (`Safe`): a
fate downstream changes only from live, or from none while the incoming HTLC is
live and stays so. `SwitchForwardProofs` proves that the switch implements
`HtlcForward`.

### UpdateLogProofs and LightningChannelProofs

For any balances, amounts, fee rates and batch size, and any number of updates,
link failures and reconnections:

| Theorem | Property |
|---|---|
| `TypeCorrect` | `TypeOK` |
| `CapacityIsConserved` | `CapacityConserved` |
| `RestoreAlwaysSucceeds` | `RestoreSucceeds` |
| `ForwardsOnce` | `ForwardedExactlyOnce` |
| `ChainsAreOnDisk` | `ChainsOnDisk` |
| `ChannelImplementsCommitChains` | `ImplementsCommitChains` |

None is inductive: what a commitment holds is computed from the logs, the logs
are compacted while it is still on record, and after a crash they are put
together again from the commitments and the lists of updates on disk. The
invariant `ChannelInv` therefore says how memory and disk fit together.

* `Book`: the updates of a node's logs, without the heights they are marked
  with, are a book of which each commitment on record is a page (`Booked`,
  `Covers`): its outputs are the HTLCs added below its index on one side and not
  removed below its index on the other, an HTLC is on it iff its number is below
  the commitment's HTLC index, and its balances, HTLCs and fee add up to the
  capacity. Updates are numbered in the order of the log (`Ordered`), every
  removal is of an HTLC in the other log, for its amount, and the only one
  (`Matched`). Our updates reach the peer's commitments first and the peer's
  ours (`Staged`). No update since the peer's oldest commitment is missing
  (`Complete`), and the three lists on disk hold exactly what a restart will
  need (`Kept`).
* `Sound(m, d)`: the logs of memory `m` are such a book of disk `d`, its chains
  are `RestoredChains(d)`, and the heights of each entry say on which
  commitments it is (`Marked`).
* `Sent`: the forwarding packages are disjoint, and together hold every HTLC of
  the peer below the remote commitment's HTLC index and every HTLC of ours that
  has left it.
* `OnRecord(d)`: there is some book of which the disk is a record. A running
  link has a sound memory; a link that is down has only its disk, and
  `SoundRestore` shows that what NewLightningChannel builds from any disk on
  record is sound. That is the longest argument: `LedgerRestoring` and
  `BookLoaded` say which part of the book the restored logs are (an entry that
  is not loaded is spent: it is on every commitment), `LogsRead` and
  `PlacedTogether` that every entry is loaded once and marked with its heights,
  and `LedgerRestorable` that each removal finds its HTLC.

`UpdateLogProofs` shows that each operation of a running link keeps `Sound`:
new entries (`SoundAdd`, `SoundAcceptAdd`, `SoundRemove`,
`SoundAcceptResolution`), fee updates, which may amend an entry in place
(`SoundFee`, `SoundAcceptFee`), and the three that move a commitment
(`SoundSign`, `SoundRevoke`, `SoundAdvance`, the last with the compaction of the
logs). `NextCommitment` is the lemma about money: what computeView makes of the
newest commitment's balances and the entries that are not on it yet is the
balance of the next page. Sums are taken over sets of HTLCs with `SumTheorems`;
the parts of a log are written with `SubsequenceAt` of module `Subsequences`,
for which there are lemmas, not with `SelectSeq`, for which the provers have
none. `LightningChannelProofs` adds the restart, the messages and
resynchronisation, and has one step per action.

`ChainsAreOnDisk` came first and rests on a smaller invariant, `ChainsInv`: the
fields of disks and memories, and that the chains of a running link are exactly
`RestoredChains` of its disk.

For the refinement `HeightsInv` joins, for each direction, that the peer's own
height is at the remote tail or tip of the node (`Window`), and that each
message under way was possible to send (`Known`): a commit_sig is for no height
above the sender's tip, and a revoke_and_ack for a height the sender has left.
These are monotone in the sender's heights, so that what was lost and is sent
again, and what resynchronisation sends, keeps them. An accepted commit_sig is
for the receiver's next height, and an accepted revocation for the tail, so with
the window each step of a node is one of `CommitChains` or a stutter.

Assumed: `Opener # Acceptor`, balances, amounts and rates that are natural
numbers, bounds that are, and that the opener's balance pays for the first
commitment (`FundingAssumption`, which the funding flow checks).

### QuiescenceProofs

All safety invariants of `Quiescence`, for any number of HTLCs, packets and
requests on either side, with settles, ties, repeated rounds and a shutdown at
any moment. No theorem has a hypothesis.

| Theorem | Property |
|---|---|
| `TypeCorrect` | `TypeOK` |
| `NeverFails` | `StfuRespected` |
| `Settled` | `QuiescentIsSettled` |
| `OneInitiator` | `InitiatorAgreed` |
| `NotAppliedAgain` | `AppliedOnce` |
| `DeferredAreResumed` | `DeferredHaveResume` |

The invariant `IInv` is about the two nodes and everything between them. What
is on its way to a node is what its link holds followed by what is on the wire
(`Pipe`). For each direction it says:

* `Chan`: the updates read and those under way are the sender's log, in order,
  and a signature under way covers exactly the updates before it; what is on a
  node's commitments only grows, the peer's own commitment is one the node has
  on record, and at most one signature or its revocation is under way;
* `Quiet`: when the receiver reads an stfu the sender's updates are on all
  commitments, and updates the sender made after it are late settles or come
  behind the tx_abort that ended its quiescence;
* `Rounds`: how the quiescers, the machines and the messages that begin and end
  quiescence fit together. `Token` says where the one tx_abort of a round, or its
  echo, is: on its way out, read, echoed, or read back. Either both nodes are in
  the same round (`Level`), or one has resumed and the other's resume is still to
  come (`Ahead`). In the second case the stfu of the next round may be behind
  the tx_abort, where it is read in time, or be there before the resume, which
  is the one case in which an stfu is refused;
* `HeldOK`: what a link holds waits for its resume and has no tx_abort in it;
* `BoxFits`: packets applied and still in the mailbox are not yet signed for.

A handler is a composition of operators on a result record (`SignIfOwed` of
`ProcessOrDefer` of ...). `Link` says that a result is good for a node, one
lemma per operator shows that it stays so, and one lemma per action puts them
together. `DeferredAreResumed` has an argument of its own over `IInv`: what is
deferred or dropped while updates can't be sent, and that only a resume or the
peer's shutdown ends that.

Assumed: `Opener # Acceptor`, and `OutcomesAssumption`.

### SwitchForwardProofs

All of the switch's safety properties and its refinement of `HtlcForward`, for
any packages, with any number of forwarded HTLCs in each, any that the link
rejects, and any number of crashes, link restarts, expiries and failed writes.

| Theorem | What holds | Hypotheses on the behaviour |
|---|---|---|
| `TypeCorrect` | `TypeOK` | `[]ReplaysInPlace`, `[]KeystonesContiguous` |
| `EveryResponseFindsItsWay` | `ResponseRoutable` | the same |
| `FiltersAreExact` | `AckFilterExact` | the same |
| `SwitchImplementsHtlcForward` | `ImplementsHtlcForward` | the same |
| `SwitchNeverLoses` | `NoLoss` of `HtlcForward` | the same |
| `NoKeystoneGap` | `KeystonesContiguous` | `[]ReplaysInPlace`; an Add that expires has no keystone |
| `KeystonesNeverRefused` | `KeystonesAccepted` | the same as `NoKeystoneGap` |

The hypotheses are on what happens, not on the constants, and each excludes no
more than the defect a violation run shows; without either the properties are
false:

* `ReplaysInPlace`: the package the link processes next has no acknowledged Add
  before one that is not. processRemoteAdds numbers a replayed Add by its place
  among the unacknowledged ones (`link.go:3470`), and only then is that its place
  in the package. Packages with several forwarded Adds, answered in any order,
  satisfy it as long as no restart falls while only a later one is open;
  `ReplayedAddRef` is the counterexample.
* `KeystonesContiguous`: the keystones above the committed HTLCs are contiguous,
  as the comment at TrimOpenCircuits says (`circuit_map.go:746`). `KeystoneGap` is
  the counterexample, and `NoKeystoneGap` proves that it is the only one: as long
  as no Add expires in the mailbox after its keystone was written (which it can
  only while the outgoing link is down), there is no gap. `KeystonesNeverRefused`
  rests on that weaker hypothesis, not on the absence of gaps.

None of the properties is inductive. `IInv` joins, over the types:

* `RefsOK`: every packet carries the reference of its own Add;
* `OutLinkOK`, `KeysOK`: what the outgoing link has logged is the part of the
  mailbox before its head, each Add once, and the keystones it opened and is
  about to open are exactly numbered as its log is;
* `CircuitsOK`, `SentOK`: memory and disk agree, a circuit and its keystone
  name each other, an HTLC is sent once and keeps its circuit at its index
  while unanswered;
* `PlaceOK`, `IcptOK`: an unanswered HTLC is in one place at a time, on its way
  out, being failed back, or sent; one on its way out has a circuit that this
  process committed (not loaded from disk), so that a replay of it is dropped
  and not failed;
* `PkgsOK`, `InLinkOK`: packages acknowledge exactly the answered HTLCs, and
  only the commitment that may be sent again holds circuits of answered ones;
* `RepliesOK`, `ResponsesOK`: a reply in a mailbox, in a log or on its way says
  what became of the HTLC downstream, and a failure without an outgoing HTLC is
  for one that can no longer be sent (`Dead`).

The heart is `PlaceOK` with `RepliesOK`: once a failure of an Add is on its way
back no copy of the Add is left that could still be sent. The no-gap hypothesis
is used where TrimOpenCircuits runs, in OutLinkUp and at the start after a Crash:
it must remove every keystone that no commitment carries. For the refinement each action is shown to move the
fates as `InMove` and `OutMove` allow, from the invariant before and after it.
`SubsequenceAt`, `Kept` and `UnresolvedPkgs` are written by position, not with
`SelectSeq`, so that lemmas about them can be proved.

Assumed: `PackagesAssumption` (an HTLC is in one package, once) and
`BoundsAssumption`.

### InvoiceRegistryProofs

All of the registry's safety properties, for any finite set of HTLCs with any
amounts, totals and expiries, any invoice value and any number of restarts.

| Theorem | Property | Hypothesis |
|---|---|---|
| `TypeCorrect` | `TypeOK` | |
| `PreimagePaidFor` | `PreimageOnlyWhenPaid` | |
| `ResolutionsAwaited` | `ResolutionsExpected` | |
| `ExpirySpares` | `ExpirySparesOthers` | |
| `FailuresAreUnpaid` | `FailedIsNotPaid` | `~TimerRaces` |
| `HeldHtlcsHear` | `HeldHtlcsHearBack` | `~TimerRaces` |
| `HeldSetsTimed` | `HeldSetsAreTimed` | every HTLC is multi-part |

The last three need their hypotheses: `ReplayRacesRelease` is the
counterexample with `TimerRaces`, and a second legacy payment to a hold invoice
the one without the other (known limits). The first invariant, `IInv`, joins

* `StateOK`: types, and `InvoiceOK`, how the record's state, its HTLCs and
  `amtPaid` belong together (an open invoice has none settled, a settled one
  has `amtPaid` equal to the sum of those and no less than the value);
* `CallOK`: what the call that holds the mutex is about to say agrees with the
  record it has written: it settles only what the record has settled;
* `QueueOK`: one resolution per HTLC, for a link that holds it;
* `SettledOK`: a link that settles is backed by a settled record.

`PreimageOnlyWhenPaid` alone is not inductive because links settle on what a
call or a queue told them earlier. That a settled record is never undone while
a settle is on its way is the heart of the proof. `FailedOK` and `HeldOK`
(with `~TimerRaces`, relative to `IInv`) say the same of failures and of what
is still to be told, `TimedOK` and `WatchedOK` where the timers and expiry
entries of held sets are, the call under way included.

`amtPaid` is a sum over a set, defined with the fold of the community
modules. `SumTheorems` proves what that fold computes: that it is a number, and
what adding or removing an element does to it. Induction over data is done there
by the smallest counterexample (`SmallestSubset`), because the library's
induction theorems take an operator as a parameter, which the installed provers
cannot instantiate.

### ChannelArbitratorProofs

`DustHasNoOutput`, `NoHtlcForgotten` and `ConfirmedFailsAreSafe` are about the
arbitrator's choice of actions, for any HTLCs, expiries, deltas, height and
commitments: what is failed as dust before anything confirmed has an output on
no commitment that may confirm; once a commitment confirmed, under a close
trigger, every outgoing HTLC on it, or on another the peer holds, is answered
or gets a resolver; what is failed then has no output on the confirmed
commitment, and its preimage is unknown unless it was dust there.

On them rest the theorems about the whole state machine, resolvers, crashes and
restarts included, for any finite set of HTLCs and any chain height:

* `TypeCorrect`: `TypeOK`;
* `FailsAreSafe`: `FailedWhenSafe`, no HTLC is failed back that the peer has
  been or can still be paid for;
* `EveryoneAnswered`: `UpstreamAnswered`, if `"closed" \notin CrashWindows`.
  `RestartWhileClosed` is the counterexample without that hypothesis.

`IInv` is `Typed`, `ChainOK` (an output exists only if the confirmed commitment
has it, and the preimage of a settled HTLC is known), `LogOK` (what the log says
of the close is what happened, and how far the attendant is allowed to be ahead
of the log at each of its program points), `FailOK` (the property, and before
any confirmation the stronger `NeverPays`: no commitment at all may pay the
peer, since the one that confirms is not known yet), and `CountOK` (each
pending signal was a contract of the log). `UpstreamAnswered` also needs `AInv`:
`KindsOK` (a contract in the log stands for an answer to come or one given),
`OwedOK` (in StateWaitingFullResolution every HTLC is answered or in the log,
after it all are answered) and `TriggerOK` (the step of StateContractClosed
runs with a close trigger, which is what a restart there loses).

Assumed: `DeltasAreHeights`, and `ScenariosAssumption`: an outgoing HTLC on our
commitment is on one of the peer's, and on both if the peer settled it. The
channel guarantees that: an Add of ours is signed for the peer first, and its
removal by the peer reaches our commitment first.

### What is only model-checked

Liveness (`UpdatesLockIn`, `EveryHtlcAnswered`, `ChannelResolves`,
`QuiescenceEnds`, `StfuGoesOut` and their like) is outside the prover's reach.
Of the channel, five safety properties have no theorem. `CommitSigsVerify` and
`CommitmentsAffordable` are false for some values of the constants (known
limits), and hold on `ChannelReconnect` for its values; a theorem would need
hypotheses that describe those cases away. `ResyncSucceeds`, `CommitmentOnRecord`
and `ForwardOnlyIrrevocable` compare the contents of the commitments of the two
nodes, for which `HeightsInv` would have to say what a signature under way
covers. Of the switch, what happens once one of its two hypotheses failed is
only model-checked.

## 5. What is not modelled

Of the modelled components:

* Channel: dust and dust exposure, keys, scripts, musig nonces, aux data,
  pending splices (batches of commitments), the closing and breach
  transactions of `lnwallet/channel.go`; data-loss protection and restored
  channels; onion processing and forwarding policy. MalformedFail acts as
  Fail, NoOpAdd as Add; `isForwarded` is left out because the height test
  beside it implies it.
* Quiescence: fee updates, the limits on held messages, `awaitingLock`,
  `AssumeQuiescent` after a reconnection (losing the connection ends a
  behaviour), and the quiescer's mutex.
* Switch: locally initiated payments and the resolutions an arbitrator hands
  in, the choice among several links, dust thresholds, forwarding events, an
  interceptor that holds HTLCs, garbage collection of finished packages,
  channels that close under their circuits, and cleanupSpuriousResponse, whose
  case (a reply for an HTLC already answered) only the replay of
  `ReplayedAddRef` produces.
* Invoices: AMP, keysend, several payment hashes (they share only the
  goroutines), the subscriptions of clients.
* Arbitrator: anchors, fees and sweeping, taproot data, second-level
  transactions apart from the output they spend, reorganisations, the breach
  arbitrator's own transactions.

Components not modelled at all are in `PROJECT.json`, each with its reason.
Most of the repository's lines are generated code, RPC, serialisation, database
backends, path finding and wiring; they hold no protocol state of their own, or
state TLC can't enumerate.

## 6. Plan

1. Done: `CommitChains`, `LightningChannel`, `CommitIndices`, `Quiescence`;
   `CircuitMap`, `SwitchForward`, `HtlcForward`, `InvoiceRegistry`,
   `ChannelArbitrator`; the theorems of section 4.
2. Theorems next: `CommitmentOnRecord` and `ForwardOnlyIrrevocable`, by adding
   to `HeightsInv` which commitment a signature under way is for.
3. Models next: `SpliceSession` over `Quiescence` (negotiation,
   tx_signatures, reestablish with AssumeQuiescent, splice_locked);
   `RbfCloser`; AMP sets; payment attempts (`payments/db`) over the answers of
   `SwitchForward`; the quiescer's mutex beside the forwarder, for the
   deadlock of Resume.
