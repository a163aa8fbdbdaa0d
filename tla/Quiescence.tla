----------------------------- MODULE Quiescence -----------------------------
(***************************************************************************)
(* Quiescence: the stfu handshake of htlcswitch/quiescer.go, the way the   *)
(* two links of a channel drive it, and its end.                           *)
(*                                                                         *)
(* A node asks for quiescence on behalf of its splice machine.  Its stfu   *)
(* goes out once its own updates are on both commitments; the peer's       *)
(* answer is held back until the same is true there.  While quiescent a    *)
(* link makes no update: packets of the switch stay in the mailbox and     *)
(* HTLCs that get locked in are processed on resume.                       *)
(*                                                                         *)
(* Of what the splice machine does with a quiescent channel only the end   *)
(* is modelled: the side that won gives up (endQuiescence), sends tx_abort *)
(* and resumes; the peer's machine echoes it and resumes too.  Machine and *)
(* link are separate goroutines, so the peer's updates may come before the *)
(* link was told to resume: they are held.  The connection is never set up *)
(* again here: losing it ends the behaviour.                               *)
(***************************************************************************)
EXTENDS CommitIndices

CONSTANTS
    Opener, Acceptor,
    MaxAdds,      \* bound: [Node -> Nat], HTLCs the switch sends through n
    MaxRequests,  \* bound: [Node -> Nat], requests for quiescence of n
    Outcomes,     \* what comes of an HTLC locked in: see ProcessRemoteAdds
    MayClose      \* whether a node may send shutdown

Node == {Opener, Acceptor}
Other(n) == IF n = Opener THEN Acceptor ELSE Opener

VARIABLES
    ch,       \* ch[n]:    the channel, see CommitIndices
    q,        \* q[n]:     the QuiescerLive
    mail,     \* mail[n]:  packets of the switch the mailbox holds for the link
    work,     \* work[n]:  HTLCs forwarded to the switch, or on hold; whether one
              \*           was settled although updates could not be sent (late)
    held,     \* held[n]:  messages the link can't take up yet
    replay,   \* replay[n]: the link is taking up held messages
    txSigs,   \* txSigs[n]: peerTxSigs
    mach,     \* mach[n]:  the splice machine
    asked,    \* asked[n]: requests for quiescence made
    shut,     \* shut[n]:  n sent shutdown ("sent"), and its peer read it ("read")
    net,      \* net[n]:   messages on their way to n, oldest first
    conn      \* "up", "down", or why the connection was dropped

vars == <<ch, q, mail, work, held, replay, txSigs, mach, asked, shut, net, conn>>

ASSUME NodesDiffer == Opener # Acceptor
ASSUME OutcomesAssumption == Outcomes \subseteq {"resolve", "forward", "hold"}

-----------------------------------------------------------------------------
(* QuiescerLive. *)

NewQuiescer == [localInit |-> FALSE, remoteInit |-> FALSE, sent |-> FALSE,
                received |-> FALSE, refuse |-> FALSE, timer |-> FALSE,
                req |-> "none", resumeQueue |-> 0]

OweStfu(k) == (k.received \/ k.localInit) /\ ~k.sent
IsQuiescent(k) == k.sent /\ k.received

\* CanSendUpdates, CanRecvUpdates
CanSendUpdates(k) == ~k.sent /\ ~k.localInit
CanRecvUpdates(k) == ~k.received

\* The opener wins a tie.
QuiescenceInitiator(k, n) ==
    CASE k.localInit /\ k.remoteInit ->
           IF n = Opener THEN "Local" ELSE "Remote"
      [] k.localInit /\ ~k.remoteInit -> "Local"
      [] ~k.localInit /\ k.remoteInit -> "Remote"
      [] OTHER -> "error"

\* Mutant: nothing limits the time the channel is quiescent.
AnswerOnly(k, n) ==
    IF IsQuiescent(k) /\ k.req = "pending"
    THEN [k EXCEPT !.req = QuiescenceInitiator(k, n)] ELSE k

\* tryResolveStfuReq and startTimeout, once both stfu are exchanged.
ResolveAndStartTimeout(k, n) ==
    IF ~IsQuiescent(k) THEN k
    ELSE [k EXCEPT !.timer = TRUE,
                   !.req = IF @ = "pending" THEN QuiescenceInitiator(k, n)
                                            ELSE @]

\* recvStfu: it may come once, and as an answer only to ours.
StfuValid(k, init) == ~k.received /\ (k.sent \/ init)
RecvStfu(k, n, init) ==
    ResolveAndStartTimeout([k EXCEPT !.received = TRUE, !.remoteInit = init], n)

\* Mutant: a request that comes after our stfu is taken for a tie.
InitLate(k, n) ==
    IF k.refuse \/ k.localInit THEN [k EXCEPT !.req = "refused"]
    ELSE [k EXCEPT !.localInit = TRUE, !.req = "pending"]

\* initStfu.  A second request is answered at once: with an error, or with
\* the peer's win.
InitStfu(k, n) ==
    CASE k.refuse \/ k.localInit -> [k EXCEPT !.req = "refused"]
      [] ~k.refuse /\ ~k.localInit /\ k.sent ->
           [k EXCEPT !.req = IF IsQuiescent(k) THEN QuiescenceInitiator(k, n)
                                               ELSE "refused"]
      [] OTHER -> [k EXCEPT !.localInit = TRUE, !.req = "pending"]

\* RefuseInit: no more requests, and one whose stfu is owed is withdrawn.
RefuseInit(k) ==
    IF k.localInit /\ ~k.sent
    THEN [k EXCEPT !.refuse = TRUE, !.localInit = FALSE,
                   !.req = IF @ = "pending" THEN "refused" ELSE @]
    ELSE [k EXCEPT !.refuse = TRUE]

\* resume, after its hooks: back to the initial state, no timeout.
Reset(k) == [k EXCEPT !.localInit = FALSE, !.remoteInit = FALSE,
                      !.sent = FALSE, !.received = FALSE, !.timer = FALSE,
                      !.resumeQueue = 0]

-----------------------------------------------------------------------------
(* What a step of a link does: r holds its channel c, quiescer k, mailbox  *)
(* box, HTLCs w and the messages it sends.                                 *)

State(n) == [c |-> ch[n], k |-> q[n], box |-> mail[n], w |-> work[n],
             msgs |-> <<>>]

Send(r, m) == [r EXCEPT !.msgs = Append(@, m)]

Stfu(init) == [type |-> "stfu", Initiator |-> init]

\* sendOwedStfu
SendOwedStfu(r, n) ==
    IF ~OweStfu(r.k) THEN r
    ELSE [Send(r, Stfu(r.k.localInit)) EXCEPT
            !.k = ResolveAndStartTimeout([r.k EXCEPT !.sent = TRUE], n)]

\* Mutant: stfu does not wait for our updates to be on the peer's commitment.
SendOwedStfuEarly(r, n) ==
    IF LogIndex(r.c, "Local") = Last(r.c.peer).Local
    THEN SendOwedStfu(r, n) ELSE r

\* The stfu we owe goes out when our updates are on both commitments.
SendOwedStfuIfClean(r, n) ==
    IF NoDanglingUpdates(r.c, "Local") THEN SendOwedStfu(r, n) ELSE r

\* Updates of ours, k of the same kind.
MakeUpdates(r, type, k) ==
    [r EXCEPT !.c = AppendUpdates(@, "Local", [i \in 1..k |-> type]),
              !.msgs = @ \o [i \in 1..k |-> [type |-> "update", kind |-> type]]]

\* Mutant: packets are acked only when the next commitment is signed.
SignWithoutAck(r) ==
    IF HasUnackedCommitment(r.c) THEN r
    ELSE Send([r EXCEPT !.c = SignNextCommitment(r.c)],
              [type |-> "commit_sig",
               indices |-> [Local  |-> r.c.own.Remote,
                            Remote |-> LogIndex(r.c, "Local")]])

\* Mutant: the revocation window is not looked at.
SignAnytime(r) ==
    Send([r EXCEPT !.c = SignNextCommitment(r.c)],
         [type |-> "commit_sig",
          indices |-> [Local |-> r.c.own.Remote, Remote |-> LogIndex(r.c, "Local")]])

\* updateCommitTx: the packets signed for leave the mailbox
\* (ackDownStreamPackets).  The signature is for the peer's view.
UpdateCommitTx(r) ==
    IF HasUnackedCommitment(r.c) THEN r
    ELSE Send([r EXCEPT !.c = SignNextCommitment(r.c),
                        !.box = SubsequenceAt(@, {i \in DOMAIN @ : @[i].at # "applied"})],
              [type |-> "commit_sig",
               indices |-> [Local  |-> r.c.own.Remote,
                            Remote |-> LogIndex(r.c, "Local")]])

SignIfOwed(r) == IF OweCommitment(r.c) THEN UpdateCommitTx(r) ELSE r

\* processRemoteAdds: each HTLC of the package is settled or failed at once,
\* goes to the switch, or is held for its invoice.
ProcessRemoteAdds(r, outcomes) ==
    LET number(what) == Cardinality({i \in DOMAIN outcomes : outcomes[i] = what})
    IN  [MakeUpdates(r, "Rmv", number("resolve")) EXCEPT
            !.w.forward = @ + number("forward"), !.w.hold = @ + number("hold")]

\* Mutant: HTLCs locked in are processed although updates can't be sent.
ProcessAtOnce(r, adds, outcomes) == ProcessRemoteAdds(r, outcomes)

\* processRemoteRevokeAndAck: HTLCs that got locked in are processed, or kept
\* for resume if we can't send updates.
ProcessOrDefer(r, adds, outcomes) ==
    IF CanSendUpdates(r.k) THEN ProcessRemoteAdds(r, outcomes)
    ELSE [r EXCEPT !.k.resumeQueue = @ + adds]

-----------------------------------------------------------------------------
Init ==
    /\ ch = [n \in Node |-> NewChannel]
    /\ q = [n \in Node |-> NewQuiescer]
    /\ mail = [n \in Node |-> <<>>]
    /\ work = [n \in Node |-> [forward |-> 0, hold |-> 0, added |-> 0, late |-> FALSE]]
    /\ held = [n \in Node |-> <<>>]
    /\ replay = [n \in Node |-> FALSE]
    /\ txSigs = [n \in Node |-> FALSE]
    /\ mach = [n \in Node |-> [inbox |-> <<>>, abortSent |-> FALSE,
                               resuming |-> FALSE]]
    /\ asked = [n \in Node |-> 0]
    /\ shut = [n \in Node |-> "no"]
    /\ net = [n \in Node |-> <<>>]
    /\ conn = "up"

\* The link of n ends its step with r; inbox and waiting are left to it.
Apply(n, r, inbox, waiting) ==
    /\ ch' = [ch EXCEPT ![n] = r.c]
    /\ q' = [q EXCEPT ![n] = r.k]
    /\ mail' = [mail EXCEPT ![n] = r.box]
    /\ work' = [work EXCEPT ![n] = r.w]
    /\ net' = [net EXCEPT ![n] = inbox, ![Other(n)] = @ \o r.msgs]
    /\ held' = [held EXCEPT ![n] = waiting]

\* stfuFailf and failf: the connection is dropped.
FailLink(why) ==
    /\ conn' = why
    /\ UNCHANGED <<ch, q, mail, work, held, replay, txSigs, mach, asked, shut,
                   net>>

\* The link's goroutine is free to take the next event.
LinkFree(n) == conn = "up" /\ ~replay[n]

-----------------------------------------------------------------------------
(* Events of the link that do not come from the peer. *)

\* A packet for the link: an HTLC to offer, or the fate of one it forwarded.
SwitchPacket(n, type) ==
    /\ conn = "up"
    /\ IF type = "Add"
       THEN work[n].added < MaxAdds[n] /\ shut[n] = "no"
       ELSE work[n].forward > 0
    /\ mail' = [mail EXCEPT ![n] = Append(@, [kind |-> type, at |-> "new"])]
    /\ work' = IF type = "Add" THEN [work EXCEPT ![n].added = @ + 1]
                              ELSE [work EXCEPT ![n].forward = @ - 1]
    /\ UNCHANGED <<ch, q, held, replay, txSigs, mach, asked, shut, net, conn>>

\* handleDownstreamPkt: a packet that comes while we can't send updates is
\* dropped, and stays in the mailbox.  Removals are signed for at once.
HandleDownstreamPkt(n) ==
    /\ LinkFree(n)
    /\ \E i \in DOMAIN mail[n] :
         /\ mail[n][i].at = "new"
         /\ \A j \in 1..(i - 1) : mail[n][j].at # "new"
         /\ LET at(x) == [State(n) EXCEPT !.box[i].at = x]
                made == MakeUpdates(at("applied"), mail[n][i].kind, 1)
            IN  Apply(n, CASE ~CanSendUpdates(q[n]) -> at("dropped")
                           [] CanSendUpdates(q[n])
                                /\ mail[n][i].kind = "Add" -> made
                           [] OTHER -> UpdateCommitTx(made),
                      net[n], held[n])
    /\ UNCHANGED <<replay, txSigs, mach, asked, shut, conn>>

\* The batch ticker runs while updates of ours are unsigned.
BatchTick(n) ==
    /\ LinkFree(n)
    /\ LogIndex(ch[n], "Local") # Last(ch[n].peer).Local
    /\ ~HasUnackedCommitment(ch[n])
    /\ Apply(n, UpdateCommitTx(State(n)), net[n], held[n])
    /\ UNCHANGED <<replay, txSigs, mach, asked, shut, conn>>

\* handleHtlcResolution: an HTLC on hold is settled or failed, without a look
\* at the quiescer.
HandleHtlcResolution(n) ==
    /\ LinkFree(n)
    /\ work[n].hold > 0
    /\ Apply(n, UpdateCommitTx(MakeUpdates(
                    [State(n) EXCEPT !.w.hold = @ - 1,
                                     !.w.late = @ \/ ~CanSendUpdates(q[n])],
                    "Rmv", 1)),
             net[n], held[n])
    /\ UNCHANGED <<replay, txSigs, mach, asked, shut, conn>>

\* handleQuiescenceReq, for a splice of ours.
HandleQuiescenceReq(n) ==
    /\ LinkFree(n)
    /\ asked[n] < MaxRequests[n]
    /\ q[n].req = "none" /\ shut[n] = "no"
    /\ asked' = [asked EXCEPT ![n] = @ + 1]
    /\ Apply(n, SendOwedStfuIfClean(
                   [State(n) EXCEPT !.k = InitStfu(@, n)], n),
             net[n], held[n])
    /\ UNCHANGED <<replay, txSigs, mach, shut, conn>>

-----------------------------------------------------------------------------
(* Messages of the peer. *)

\* processUpstreamMsg: an update waits for our resume, once the peer ended
\* its quiescence.
MustWait(n, m) == /\ m.type = "update"
                  /\ ~CanRecvUpdates(q[n])
                  /\ txSigs[n]

\* heldForResume
HeldForResume(n) == held[n] # <<>> /\ MustWait(n, Head(held[n]))

\* An update the peer may send.
ReceiveUpdate(n, m, inbox, waiting) ==
    /\ m.type = "update"
    /\ IF CanRecvUpdates(q[n])
       THEN /\ Apply(n, [State(n) EXCEPT
                           !.c = AppendUpdates(@, "Remote", <<m.kind>>)],
                     inbox, waiting)
            /\ UNCHANGED <<replay, txSigs, mach, asked, shut, conn>>
       ELSE FailLink("update after stfu")

\* Mutant: a stfu that had to wait is forgotten.
CommitSigWithoutStfu(n, m, inbox, waiting) ==
    /\ m.type = "commit_sig"
    /\ m.indices = NextOwn(ch[n])
    /\ Apply(n, SignIfOwed(Send([State(n) EXCEPT
                                   !.c = RevokeCurrentCommitment(@)],
                                [type |-> "revoke_and_ack"])),
             inbox, waiting)
    /\ UNCHANGED <<replay, txSigs, mach, asked, shut, conn>>

\* processRemoteCommitSig: revoke, sign if owed, send the stfu we owe.
ReceiveCommitSig(n, m, inbox, waiting) ==
    /\ m.type = "commit_sig"
    /\ IF m.indices = NextOwn(ch[n])
       THEN /\ Apply(n, SendOwedStfuIfClean(SignIfOwed(
                           Send([State(n) EXCEPT
                                   !.c = RevokeCurrentCommitment(@)],
                                [type |-> "revoke_and_ack"])), n),
                     inbox, waiting)
            /\ UNCHANGED <<replay, txSigs, mach, asked, shut, conn>>
       ELSE FailLink("bad signature")

\* processRemoteRevokeAndAck
ReceiveRevokeAndAck(n, m, inbox, waiting) ==
    /\ m.type = "revoke_and_ack"
    /\ \E outcomes \in [1..LockedInAdds(ch[n]) -> Outcomes] :
          Apply(n, SignIfOwed(ProcessOrDefer(
                      [State(n) EXCEPT !.c = ReceiveRevocation(@)],
                      LockedInAdds(ch[n]), outcomes)),
                inbox, waiting)
    /\ UNCHANGED <<replay, txSigs, mach, asked, shut, conn>>

\* handleStfu
HandleStfu(n, m, inbox, waiting) ==
    /\ m.type = "stfu"
    /\ IF /\ NoDanglingUpdates(ch[n], "Remote")
          /\ StfuValid(q[n], m.Initiator)
       THEN /\ Apply(n, SendOwedStfuIfClean(
                           [State(n) EXCEPT
                              !.k = RecvStfu(@, n, m.Initiator)], n),
                     inbox, waiting)
            /\ UNCHANGED <<replay, txSigs, mach, asked, shut, conn>>
       ELSE FailLink("invalid stfu")

\* tx_abort: it ends the peer's quiescence, and the machine will end ours.
HandleTxAbort(n, m, inbox, waiting) ==
    /\ m.type = "tx_abort"
    /\ txSigs' = [txSigs EXCEPT ![n] = @ \/ IsQuiescent(q[n])]
    /\ mach' = [mach EXCEPT ![n].inbox = Append(@, m)]
    /\ Apply(n, State(n), inbox, waiting)
    /\ UNCHANGED <<replay, asked, shut, conn>>

Handle(n, m, inbox, waiting) ==
    \/ ReceiveUpdate(n, m, inbox, waiting)
    \/ ReceiveCommitSig(n, m, inbox, waiting)
    \/ ReceiveRevokeAndAck(n, m, inbox, waiting)
    \/ HandleStfu(n, m, inbox, waiting)
    \/ HandleTxAbort(n, m, inbox, waiting)

\* handleUpstreamMsg: messages behind a held one are held too, in order,
\* but not the one that ends the wait.
MustHold(n, m) ==
    IF held[n] # <<>> THEN ~(HeldForResume(n) /\ m.type = "tx_abort")
                      ELSE MustWait(n, m)

HandleUpstreamMsg(n) ==
    /\ LinkFree(n)
    /\ net[n] # <<>>
    /\ IF MustHold(n, Head(net[n]))
       THEN /\ Apply(n, State(n), Tail(net[n]), Append(held[n], Head(net[n])))
            /\ UNCHANGED <<replay, txSigs, mach, asked, shut, conn>>
       ELSE Handle(n, Head(net[n]), Tail(net[n]), held[n])

\* replayHeld, one message at a time.
ReplayHeld(n) ==
    /\ conn = "up" /\ replay[n]
    /\ IF held[n] = <<>> \/ HeldForResume(n)
       THEN /\ replay' = [replay EXCEPT ![n] = FALSE]
            /\ UNCHANGED <<ch, q, mail, work, held, txSigs, mach, asked, shut,
                           net, conn>>
       ELSE Handle(n, Head(held[n]), net[n], Tail(held[n]))

-----------------------------------------------------------------------------
(* The splice machine, and the end of quiescence. *)

TxAbort(reason) == [type |-> "tx_abort", reason |-> reason]

\* quiesced: the request is answered.  A splice that won and goes no further
\* ends quiescence (endQuiescence); one that lost leaves it to the peer.  The
\* answer is an event of the machine's queue as the peer's messages are: the
\* echo of an earlier tx_abort came before the stfu that gave it.
Quiesced(n) ==
    /\ conn = "up" /\ ~mach[n].resuming
    /\ q[n].req \in {"Local", "Remote", "refused", "error"}
    /\ q[n].req = "Local" => mach[n].inbox = <<>>
    /\ q' = [q EXCEPT ![n].req = "none"]
    /\ IF q[n].req = "Local"
       THEN /\ net' = [net EXCEPT ![Other(n)] = Append(@, TxAbort(TRUE))]
            /\ mach' = [mach EXCEPT ![n].abortSent = TRUE,
                                    ![n].resuming = TRUE]
       ELSE UNCHANGED <<net, mach>>
    /\ UNCHANGED <<ch, mail, work, held, replay, txSigs, asked, shut, conn>>

\* handleTxAbort of the machine: the echo of ours, or the peer's, which is
\* echoed and ends our quiescence.
MachineHandleTxAbort(n) ==
    /\ conn = "up" /\ ~mach[n].resuming /\ mach[n].inbox # <<>>
    /\ IF mach[n].abortSent
       THEN /\ mach' = [mach EXCEPT ![n].abortSent = FALSE,
                                    ![n].inbox = Tail(@)]
            /\ UNCHANGED net
       ELSE /\ mach' = [mach EXCEPT ![n].resuming = TRUE,
                                    ![n].inbox = Tail(@)]
            /\ net' = IF Head(mach[n].inbox).reason
                      THEN [net EXCEPT ![Other(n)] = Append(@, TxAbort(FALSE))]
                      ELSE net
    /\ UNCHANGED <<ch, q, mail, work, held, replay, txSigs, asked, shut, conn>>

\* Mutant: packets dropped while quiescent are not delivered again.
KeepDropped(box) == box

\* ResetPackets: all packets left are delivered again.
ResetPackets(box) == [i \in DOMAIN box |-> [box[i] EXCEPT !.at = "new"]]

\* resumeQuiescence: the hooks, the mailbox, a signature we owe.
ResumeQuiescence(n) ==
    /\ LinkFree(n)
    /\ mach[n].resuming
    /\ mach' = [mach EXCEPT ![n].resuming = FALSE]
    /\ replay' = [replay EXCEPT ![n] = TRUE]
    /\ IF IsQuiescent(q[n])
       THEN /\ txSigs' = [txSigs EXCEPT ![n] = FALSE]
            /\ \E outcomes \in [1..q[n].resumeQueue -> Outcomes] :
                  LET r == ProcessRemoteAdds(State(n), outcomes)
                  IN  Apply(n, SignIfOwed([r EXCEPT !.k = Reset(@),
                                                    !.box = ResetPackets(@)]),
                            net[n], held[n])
       ELSE UNCHANGED <<ch, q, mail, work, held, txSigs, net>>
    /\ UNCHANGED <<asked, shut, conn>>

\* The timeouts of the quiescer and of held messages drop the connection.
Timeout(n) ==
    /\ conn = "up"
    /\ q[n].timer \/ (LinkFree(n) /\ HeldForResume(n))
    /\ FailLink("down")

\* The closer sends shutdown from the link's OnCommitOnce hook, when the node owes
\* no signature, and not with a splice of its own under way (spliceUnlocked).
Shutdown(n) ==
    /\ MayClose /\ LinkFree(n)
    /\ \A m \in Node : shut[m] = "no"
    /\ q[n].req = "none" /\ ~OweCommitment(ch[n])
    /\ shut' = [shut EXCEPT ![n] = "sent"]
    /\ UNCHANGED <<ch, q, mail, work, held, replay, txSigs, mach, asked, net,
                   conn>>

\* ShutdownReceived, as the peer's message is read: before the link has
\* handled what came before it.
ShutdownReceived(n) ==
    /\ conn = "up" /\ shut[Other(n)] = "sent"
    /\ shut' = [shut EXCEPT ![Other(n)] = "read"]
    /\ q' = [q EXCEPT ![n] = RefuseInit(@)]
    /\ UNCHANGED <<ch, mail, work, held, replay, txSigs, mach, asked, net, conn>>

-----------------------------------------------------------------------------
Next ==
    \/ \E n \in Node : \E type \in {"Add", "Rmv"} : SwitchPacket(n, type)
    \/ \E n \in Node : HandleDownstreamPkt(n)
    \/ \E n \in Node : BatchTick(n)
    \/ \E n \in Node : HandleHtlcResolution(n)
    \/ \E n \in Node : HandleQuiescenceReq(n)
    \/ \E n \in Node : HandleUpstreamMsg(n)
    \/ \E n \in Node : ReplayHeld(n)
    \/ \E n \in Node : Quiesced(n)
    \/ \E n \in Node : MachineHandleTxAbort(n)
    \/ \E n \in Node : ResumeQuiescence(n)
    \/ \E n \in Node : Timeout(n)
    \/ \E n \in Node : Shutdown(n)
    \/ \E n \in Node : ShutdownReceived(n)

Spec == Init /\ [][Next]_vars

\* A link handles its events, a machine what it is told, and timers fire.  A
\* splice that won may take as long as it likes.
Fairness ==
    \A n \in Node :
        /\ WF_vars(HandleUpstreamMsg(n)) /\ WF_vars(ReplayHeld(n))
        /\ WF_vars(HandleDownstreamPkt(n)) /\ WF_vars(BatchTick(n))
        /\ WF_vars(MachineHandleTxAbort(n)) /\ WF_vars(ResumeQuiescence(n))
        /\ WF_vars(q[n].req # "Local" /\ Quiesced(n))
        /\ WF_vars(Timeout(n))

FairSpec == Spec /\ Fairness

-----------------------------------------------------------------------------
(* Properties. *)

MessageOK(m) ==
    \/ m.type = "update" /\ m.kind \in {"Add", "Rmv"}
    \/ m.type = "commit_sig" /\ m.indices \in [Party -> Nat]
    \/ m.type = "revoke_and_ack"
    \/ m.type = "stfu" /\ m.Initiator \in BOOLEAN
    \/ m.type = "tx_abort" /\ m.reason \in BOOLEAN

\* The peer's chain never has more than one commitment that waits for a
\* revocation, and only messages of the protocol are held or under way.
TypeOK ==
    /\ \A n \in Node :
          /\ Len(ch[n].peer) \in 1..2
          /\ q[n].req \in {"none", "pending", "Local", "Remote", "refused"}
          /\ \A i \in DOMAIN net[n] : MessageOK(net[n][i])
          /\ \A i \in DOMAIN held[n] : MessageOK(held[n][i])

\* How two nodes running this code fail the link for each other.  Every
\* signature finds the updates it covers: messages held for our resume are taken
\* up in the order they came (replayHeld).  An stfu is only refused when it comes
\* before our resume from the last quiescence, which our machine is told of or
\* knows of; never with updates still pending or as an answer to nothing
\* (stfuFailf).  No update follows a stfu, but for an HTLC on hold settled in
\* spite of it (handleHtlcResolution).
StfuRespected ==
    /\ conn # "bad signature"
    /\ conn = "invalid stfu" =>
          \E n \in Node : q[n].received /\ (mach[n].resuming \/ mach[n].inbox # <<>>)
    /\ conn = "update after stfu" => \E n \in Node : work[n].late

\* No update is on its way to a node, or held by it.
NoUpdateUnderWay ==
    \A n \in Node : \A i \in DOMAIN (held[n] \o net[n]) :
        (held[n] \o net[n])[i].type # "update"

\* While both nodes are quiescent nothing is under way on the channel: every
\* update is on both commitments of both nodes, no commitment waits to be
\* revoked, and no update, signature or revocation is on the wire.  A splice
\* signs the next funding's commitments from this state.  An update may only
\* be on its way if a machine has ended the splice, or the settle of an HTLC on
\* hold did not wait for the resume (handleHtlcResolution).
BothQuiescent == \A n \in Node : IsQuiescent(q[n])
QuiescentIsSettled ==
    BothQuiescent =>
        /\ (\A n \in Node : ~mach[n].resuming /\ ~work[n].late) => NoUpdateUnderWay
        /\ NoUpdateUnderWay =>
              \A n \in Node :
                  /\ ~HasUnackedCommitment(ch[n])
                  /\ \A p \in Party : NoDanglingUpdates(ch[n], p)
                  /\ ch[n].log.Local = ch[Other(n)].log.Remote
                  /\ \A i \in DOMAIN net[n] : net[n][i].type = "tx_abort"

\* The nodes agree on who started quiescence, ties included: exactly one of
\* them is told it may send splice_init (quiescenceInitiator).
InitiatorAgreed ==
    BothQuiescent =>
        {QuiescenceInitiator(q[n], n) : n \in Node} = {"Local", "Remote"}

\* A packet that made it into the channel is never delivered again when the
\* mailbox is reset on resume: it was acked when it was signed for.
AppliedOnce ==
    \A n \in Node : IsQuiescent(q[n]) =>
        \A i \in DOMAIN mail[n] : mail[n][i].at # "applied"

\* HTLCs whose processing was deferred, and packets that were dropped, always
\* have a resume to come that takes them up: the link is still quiescing, or the
\* peer's shutdown was read, which withdraws an stfu that is owed (RefuseInit).
DeferredHaveResume ==
    \A n \in Node :
        \/ q[n].resumeQueue > 0
        \/ \E i \in DOMAIN mail[n] : mail[n][i].at = "dropped"
      => ~CanSendUpdates(q[n]) \/ shut[Other(n)] = "read"

\* Quiescence ends, whatever the splice does: by resuming or with the
\* connection.
QuiescenceEnds ==
    \A n \in Node : IsQuiescent(q[n]) ~> (conn # "up" \/ ~IsQuiescent(q[n]))

\* Once a node asked for quiescence the channel becomes quiescent, the
\* request is refused or the connection ends: an stfu that has to wait for
\* updates to be locked in is sent when they are, and taken.
StfuGoesOut ==
    \A n \in Node : q[n].req = "pending" ~>
                        (conn # "up" \/ q[n].req # "pending")
=============================================================================
