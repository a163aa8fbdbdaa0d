---------------------------- MODULE SwitchForward ----------------------------
(***************************************************************************)
(* Forwarding HTLCs from one channel to another through the switch         *)
(* (htlcswitch/switch.go, link.go, mailbox.go, interceptable_switch.go     *)
(* with no interceptor registered, and the forwarding packages of          *)
(* channeldb/forwarding_package.go), with both links, the mailboxes        *)
(* between them and the circuit map of module CircuitMap.                  *)
(*                                                                         *)
(* The channels are modelled by what is durable about them: which HTLCs    *)
(* of the incoming channel have been answered by a signed commitment and   *)
(* which outgoing HTLCs a signed commitment carries.  The dance that       *)
(* commits them is module LightningChannel.  Links flap, mailbox packets   *)
(* time out and the daemon crashes between any two steps.                  *)
(***************************************************************************)
EXTENDS CircuitMap

CONSTANTS
    Packages,     \* the incoming forwarding packages: a sequence of sequences of HTLCs
    Invalid,      \* HTLCs that the incoming link itself fails back
    MayExpire,    \* HTLCs whose Add can outlive its deadline in the mailbox
    QuitDrops,    \* whether routeAsync ever prefers a link's quit signal to the forwarder
    MaxCrashes,   \* bounds the daemon's crashes
    MaxInFlaps,   \* bounds the incoming link's restarts
    MaxOutFlaps,  \* bounds the outgoing link's restarts
    MaxWriteErrs  \* bounds the failed writes of new circuits

HTLCs == UNION {Range(Packages[p]) : p \in DOMAIN Packages}

ASSUME PackagesAssumption ==
    /\ Packages \in Seq(Seq(Nat))
    /\ \A p, q \in DOMAIN Packages : \A i \in DOMAIN Packages[p], j \in DOMAIN Packages[q] :
          Packages[p][i] = Packages[q][j] => p = q /\ i = j

ASSUME BoundsAssumption ==
    /\ Invalid \subseteq HTLCs /\ MayExpire \subseteq HTLCs
    /\ QuitDrops \in BOOLEAN
    /\ MaxCrashes \in Nat /\ MaxInFlaps \in Nat /\ MaxOutFlaps \in Nat /\ MaxWriteErrs \in Nat

VARIABLES
    inCh,     \* durable: the incoming channel's HTLCs and forwarding packages
    outCh,    \* durable: the outgoing channel's HTLCs and forwarding packages
    cm,       \* the circuit map, memory and disk
    sw,       \* memory: packets inside the switch
    inBox,    \* memory: the incoming link's mailbox, HTLC -> reply
    outBox,   \* memory: the outgoing link's mailbox of Adds and its head
    inLink,   \* memory: the incoming link
    outLink,  \* memory: the outgoing link
    faults    \* how often each fault has happened

vars == <<inCh, outCh, cm, sw, inBox, outBox, inLink, outLink, faults>>

-----------------------------------------------------------------------------
(* Initial state and the parts that a restart resets.                      *)

InitInCh ==
    [fate |-> [h \in HTLCs |-> "none"],          \* none, live, settled or failed
     diff |-> [open |-> FALSE, circuits |-> {}],
     pkgs |-> [p \in DOMAIN Packages |-> [state |-> "none", fwd |-> {}, ack |-> {}]]]

InitSwitch == [icpt |-> << >>, route |-> << >>, plex |-> {}, pendingSettleFails |-> {}]

EmptyOutBox == [pkts |-> << >>, head |-> 1]

DownInLink ==
    [up |-> FALSE, todo |-> << >>, paused |-> FALSE, log |-> << >>, acking |-> FALSE,
     closing |-> {}]

DownOutLink == [up |-> FALSE, log |-> << >>, batch |-> << >>, signing |-> FALSE]

\* A commitment signed earlier may still await its revocation.
Init ==
    /\ inCh = InitInCh
    /\ \E w \in BOOLEAN : outCh = [htlcs |-> << >>, window |-> w, acked |-> {}]
    /\ cm = EmptyCircuits
    /\ sw = InitSwitch
    /\ inBox = << >>
    /\ outBox = EmptyOutBox
    /\ inLink = [DownInLink EXCEPT !.up = TRUE]
    /\ outLink = [DownOutLink EXCEPT !.up = TRUE]
    /\ faults = [crash |-> 0, inFlap |-> 0, outFlap |-> 0, writeErr |-> 0]

-----------------------------------------------------------------------------
(* Mailboxes.                                                              *)

\* AddPacket refuses a second reply for the same HTLC.
DeliverReply(box, h, reply) ==
    IF h \in DOMAIN box THEN box ELSE Overlay(box, [x \in {h} |-> reply])

\* failAddPacket hands failures straight to the incoming mailbox.
FailAddPackets(box, refs) ==
    Overlay([h \in DOMAIN refs |-> [fate |-> "failed", ref |-> refs[h], dest |-> 0]], box)

\* AddPacket appends an Add, unless the mailbox already holds it.
AddPacket(box, pkt) ==
    IF pkt \in Range(box.pkts) THEN box ELSE [box EXCEPT !.pkts = Append(@, pkt)]

\* The Adds of a mailbox that are of none of the HTLCs hs.
Kept(box, hs) == {i \in DOMAIN box.pkts : box.pkts[i].h \notin hs}

\* Mutant: the head stays where it was.
AckKeepHead(box, hs) == [box EXCEPT !.pkts = SubsequenceAt(@, Kept(box, hs))]

\* AckPacket removes the Adds of HTLCs hs and keeps the head on its packet.
AckPackets(box, hs) ==
    [pkts |-> SubsequenceAt(box.pkts, Kept(box, hs)),
     head |-> 1 + Cardinality({i \in Kept(box, hs) : i < box.head})]

\* ResetPackets redelivers everything that was not acknowledged.
ResetPackets(box) == [box EXCEPT !.head = 1]

\* FailAdd sends this through the switch after removing the Add.
FailAddPkt(pkt) == [type |-> "failAdd", h |-> pkt.h, ref |-> pkt.ref]

-----------------------------------------------------------------------------
(* The incoming link: forwarding packages to the switch.                   *)

InLinkIdle == inLink.up /\ inLink.todo = << >> /\ ~inLink.paused /\ ~inLink.acking

\* A revocation locks in the Adds of package p and writes its forwarding package.
LockIn(p) ==
    /\ InLinkIdle
    /\ inCh.pkgs[p].state = "none"
    /\ \A q \in 1..p - 1 : inCh.pkgs[q].state # "none"
    /\ inCh' = [inCh EXCEPT
                 !.pkgs[p].state = "LockedIn",
                 !.fate = [h \in HTLCs |-> IF h \in Range(Packages[p]) THEN "live" ELSE @[h]]]
    /\ inLink' = [inLink EXCEPT !.todo = <<p>>]
    /\ UNCHANGED <<outCh, cm, sw, inBox, outBox, outLink, faults>>

\* The Adds of a package that are not acknowledged, in order.
UnackedAdds(p) ==
    LET pkg == inCh.pkgs[p]
        unacked == {i \in DOMAIN Packages[p] :
                      ~(pkg.state = "Processed" /\ i \in pkg.ack)}
    IN  SubsequenceAt(Packages[p], unacked)

\* The reference an Add is processed under is its place among the unacknowledged.
SourceRefs(p) ==
    [h \in Range(UnackedAdds(p)) |->
       [pkg |-> p, idx |-> CHOOSE k \in DOMAIN UnackedAdds(p) : UnackedAdds(p)[k] = h]]

\* FailHTLC and SettleHTLC accept one removal of an HTLC that is in the channel.
Removable(h) == inCh.fate[h] = "live" /\ h \notin DOMAIN inLink.log

(***************************************************************************)
(* processRemoteAdds: Adds the link rejects are failed back in its own     *)
(* log, the others are marked in the forward filter and handed to the      *)
(* switch, except those whose reply waits in the mailbox (forwardBatch).   *)
(* The hand-over is a rendezvous with the interceptable switch's loop; a   *)
(* replay keeps the link paused until its circuits are reconciled.         *)
(***************************************************************************)
ProcessRemoteAdds ==
    /\ inLink.up /\ inLink.todo # << >>
    /\ sw.icpt = << >> /\ sw.route = << >>
    /\ LET p == Head(inLink.todo)
           refs == SourceRefs(p)
           fresh == inCh.pkgs[p].state = "LockedIn"
           rejected == {h \in DOMAIN refs \cap Invalid : Removable(h)}
           forwarded == {h \in DOMAIN refs \ Invalid :
                           fresh \/ refs[h].idx \in inCh.pkgs[p].fwd}
           Sent(h) == h \in forwarded /\ h \notin DOMAIN inBox
           adds == UnackedAdds(p)
           batch == SubsequenceAt(adds, {k \in DOMAIN adds : Sent(adds[k])})
       IN  /\ inCh' = IF fresh
                      THEN [inCh EXCEPT !.pkgs[p].state = "Processed",
                                        !.pkgs[p].fwd = {refs[h].idx : h \in forwarded}]
                      ELSE inCh
           /\ inLink' = [inLink EXCEPT
                          !.todo = Tail(@),
                          !.paused = ~fresh /\ batch # << >>,
                          !.log = Overlay(@, [h \in rejected |->
                                     [fate |-> "failed", ref |-> refs[h], dest |-> 0,
                                      circuit |-> FALSE]])]
           /\ sw' = [sw EXCEPT !.icpt = [k \in DOMAIN batch |->
                                           [h |-> batch[k], ref |-> refs[batch[k]]]]]
    /\ UNCHANGED <<outCh, cm, inBox, outBox, outLink, faults>>

-----------------------------------------------------------------------------
(* The switch.                                                             *)

\* ForwardPackets commits the batch's circuits; the failed ones go straight back.
ForwardPackets ==
    /\ sw.icpt # << >>
    /\ LET refs == [h \in {pkt.h : pkt \in Range(sw.icpt)} |->
                      (CHOOSE pkt \in Range(sw.icpt) : pkt.h = h).ref]
           adds == {k \in DOMAIN sw.icpt : sw.icpt[k].h \in CircuitAdds(cm, refs)}
       IN  /\ cm' = CommitCircuits(cm, refs)
           /\ inBox' = FailAddPackets(inBox, Restrict(refs, CircuitFails(cm, refs)))
           /\ sw' = [sw EXCEPT !.icpt = << >>, !.route = SubsequenceAt(sw.icpt, adds)]
    /\ inLink' = [inLink EXCEPT !.paused = FALSE]
    /\ UNCHANGED <<inCh, outCh, outBox, outLink, faults>>

\* The bucket write fails: the new circuits leave memory and all but drops fail.
ForwardPacketsWriteError ==
    /\ sw.icpt # << >>
    /\ faults.writeErr < MaxWriteErrs
    /\ faults' = [faults EXCEPT !.writeErr = @ + 1]
    /\ LET refs == [h \in {pkt.h : pkt \in Range(sw.icpt)} |->
                      (CHOOSE pkt \in Range(sw.icpt) : pkt.h = h).ref]
           fails == CircuitAdds(cm, refs) \cup CircuitFails(cm, refs)
       IN  /\ CircuitAdds(cm, refs) # {}
           /\ inBox' = FailAddPackets(inBox, Restrict(refs, fails))
           /\ sw' = [sw EXCEPT !.icpt = << >>]
    /\ inLink' = [inLink EXCEPT !.paused = FALSE]
    /\ UNCHANGED <<inCh, outCh, cm, outBox, outLink>>

\* handlePacketAdd puts the Add into the mailbox of an eligible link.
RouteAdd ==
    /\ sw.route # << >>
    /\ outLink.up
    /\ outBox' = AddPacket(outBox, Head(sw.route))
    /\ sw' = [sw EXCEPT !.route = Tail(@)]
    /\ UNCHANGED <<inCh, outCh, cm, inBox, inLink, outLink, faults>>

\* handlePacketAdd finds no eligible link, or one whose policy refuses the HTLC.
RejectAdd ==
    /\ sw.route # << >>
    /\ LET pkt == Head(sw.route)
       IN inBox' = FailAddPackets(inBox, [h \in {pkt.h} |-> pkt.ref])
    /\ sw' = [sw EXCEPT !.route = Tail(@)]
    /\ UNCHANGED <<inCh, outCh, cm, outBox, inLink, outLink, faults>>

(***************************************************************************)
(* handlePacketSettle and handlePacketFail for a response of the outgoing  *)
(* peer: closeCircuit finds the incoming HTLC and lets one response        *)
(* through; the reference of a response without circuit is acknowledged    *)
(* later.                                                                  *)
(***************************************************************************)
HandleResponse(pkt) ==
    /\ pkt.type \in {"settled", "failed"}
    /\ IF pkt.out \notin DOMAIN cm.opened
       THEN /\ sw' = [sw EXCEPT !.plex = @ \ {pkt},
                                !.pendingSettleFails = @ \cup {i \in {pkt.out} : pkt.dest}]
            /\ UNCHANGED <<cm, inBox>>
       ELSE LET h == cm.opened[pkt.out]
            IN  /\ sw' = [sw EXCEPT !.plex = @ \ {pkt}]
                /\ IF h \in cm.closed
                   THEN UNCHANGED <<cm, inBox>>
                   ELSE /\ cm' = CloseCircuit(cm, h)
                        /\ inBox' = DeliverReply(inBox, h,
                              [fate |-> pkt.type, ref |-> cm.pending[h].ref,
                               dest |-> IF pkt.dest THEN pkt.out ELSE 0])
    /\ UNCHANGED <<inCh, outCh, outBox, inLink, outLink, faults>>

\* handlePacketFail for an Add that the outgoing mailbox failed (FailCircuit).
HandleFailedAdd(pkt) ==
    /\ pkt.type = "failAdd"
    /\ sw' = [sw EXCEPT !.plex = @ \ {pkt}]
    /\ IF LookupCircuit(cm, pkt.h) /\ pkt.h \notin cm.closed
       THEN /\ cm' = CloseCircuit(cm, pkt.h)
            /\ inBox' = DeliverReply(inBox, pkt.h,
                           [fate |-> "failed", ref |-> pkt.ref, dest |-> 0])
       ELSE UNCHANGED <<cm, inBox>>
    /\ UNCHANGED <<inCh, outCh, outBox, inLink, outLink, faults>>

\* The forwarder's ticker acknowledges responses that found no circuit.
AckPendingSettleFails ==
    /\ sw.pendingSettleFails # {}
    /\ outCh' = [outCh EXCEPT !.acked = @ \cup sw.pendingSettleFails]
    /\ sw' = [sw EXCEPT !.pendingSettleFails = {}]
    /\ UNCHANGED <<inCh, cm, inBox, outBox, inLink, outLink, faults>>

-----------------------------------------------------------------------------
(* The outgoing link.                                                      *)

NextOutIndex == Len(outCh.htlcs) + 1

\* handleDownstreamUpdateAdd: AddHTLC gives the HTLC the next index of the log.
DownstreamAdd ==
    /\ outLink.up /\ ~outLink.signing
    /\ outBox.head <= Len(outBox.pkts)
    /\ LET h == outBox.pkts[outBox.head].h
           index == NextOutIndex + Len(outLink.log)
       IN  outLink' = [outLink EXCEPT !.log = Append(@, h),
                                      !.batch = Overlay(@, [i \in {index} |-> h])]
    /\ outBox' = [outBox EXCEPT !.head = @ + 1]
    /\ UNCHANGED <<inCh, outCh, cm, sw, inBox, inLink, faults>>

\* The channel refuses the HTLC, or the link is flushing or quiescent: FailAdd.
DownstreamFailAdd ==
    /\ outLink.up /\ ~outLink.signing
    /\ outBox.head <= Len(outBox.pkts)
    /\ LET pkt == outBox.pkts[outBox.head]
       IN  /\ outBox' = AckPackets(outBox, {pkt.h})
           /\ sw' = [sw EXCEPT !.plex = @ \cup {FailAddPkt(pkt)}]
    /\ UNCHANGED <<inCh, outCh, cm, inBox, inLink, outLink, faults>>

\* pktMailCourier: the deadline of the Add at the head passes undelivered.
ExpireAdd ==
    /\ outBox.head <= Len(outBox.pkts)
    /\ LET pkt == outBox.pkts[outBox.head]
       IN  /\ pkt.h \in MayExpire
           /\ outBox' = AckPackets(outBox, {pkt.h})
           /\ sw' = [sw EXCEPT !.plex = @ \cup {FailAddPkt(pkt)}]
    /\ UNCHANGED <<inCh, outCh, cm, inBox, inLink, outLink, faults>>

\* updateCommitTx: the commitment is signed and the Adds leave the mailbox.
SignOut ==
    /\ outLink.up /\ outLink.signing /\ outCh.window
    /\ outCh' = [outCh EXCEPT
                  !.htlcs = @ \o [k \in DOMAIN outLink.log |->
                                    [h |-> outLink.log[k], fate |-> "live"]],
                  !.window = FALSE]
    /\ outBox' = AckPackets(outBox, Range(outLink.log))
    /\ outLink' = [outLink EXCEPT !.log = << >>, !.signing = FALSE]
    /\ UNCHANGED <<inCh, cm, sw, inBox, inLink, faults>>

\* updateCommitTx: ErrNoWindow leaves the keystones open and the Adds in the mailbox.
NoWindow ==
    /\ outLink.up /\ outLink.signing /\ ~outCh.window
    /\ outLink' = [outLink EXCEPT !.signing = FALSE]
    /\ UNCHANGED <<inCh, outCh, cm, sw, inBox, outBox, inLink, faults>>

-----------------------------------------------------------------------------
(* The outgoing peer, external, and what the outgoing link does with its   *)
(* messages.                                                               *)

\* A revocation opens the window again.
RevokeOut ==
    /\ outLink.up /\ ~outCh.window
    /\ outCh' = [outCh EXCEPT !.window = TRUE]
    /\ UNCHANGED <<inCh, cm, sw, inBox, outBox, inLink, outLink, faults>>

\* processRemoteUpdateFulfillHTLC pipelines the settle, without a reference.
RemoteFulfill(i) ==
    /\ outLink.up /\ ~outLink.signing
    /\ outCh.htlcs[i].fate = "live"
    /\ outCh' = [outCh EXCEPT !.htlcs[i].fate = "claimed"]
    /\ sw' = [sw EXCEPT !.plex = @ \cup {[type |-> "settled", out |-> i, dest |-> FALSE]}]
    /\ UNCHANGED <<inCh, cm, inBox, outBox, inLink, outLink, faults>>

\* A revocation locks in the peer's response (processRemoteSettleFails).
LockInResponse(i) ==
    /\ outLink.up /\ ~outLink.signing
    /\ outCh.htlcs[i].fate \in {"live", "claimed"}
    /\ LET fate == IF outCh.htlcs[i].fate = "live" THEN "failed" ELSE "settled"
       IN  /\ outCh' = [outCh EXCEPT !.htlcs[i].fate = fate]
           /\ sw' = [sw EXCEPT !.plex = @ \cup {[type |-> fate, out |-> i, dest |-> TRUE]}]
    /\ UNCHANGED <<inCh, cm, inBox, outBox, inLink, outLink, faults>>

\* The locked-in responses whose reference has not been acknowledged.
UnackedSettleFails ==
    {[type |-> outCh.htlcs[i].fate, out |-> i, dest |-> TRUE] :
        i \in {j \in DOMAIN outCh.htlcs \ outCh.acked :
                 outCh.htlcs[j].fate \in {"settled", "failed"}}}

\* Fulfills that were not locked in are retransmitted by the peer.
ResentFulfills ==
    {[type |-> "settled", out |-> i, dest |-> FALSE] :
        i \in {j \in DOMAIN outCh.htlcs : outCh.htlcs[j].fate = "claimed"}}

-----------------------------------------------------------------------------
(* The incoming link: answering HTLCs.                                     *)

\* processLocalUpdateFulfillHTLC and processLocalUpdateFailHTLC.
DownstreamReply(h) ==
    /\ InLinkIdle
    /\ h \in DOMAIN inBox
    /\ Removable(h)
    /\ inLink' = [inLink EXCEPT
                    !.log = Overlay(@, [x \in {h} |->
                       [fate |-> inBox[h].fate, ref |-> inBox[h].ref, dest |-> inBox[h].dest,
                        circuit |-> TRUE]])]
    /\ UNCHANGED <<inCh, outCh, cm, sw, inBox, outBox, outLink, faults>>

\* Mutant: the Adds are left unacknowledged.
AckNoAdds(ch, refs) == ch

\* The references of a reply, acknowledged in the forwarding packages.
AckAdds(ch, refs) ==
    [ch EXCEPT !.pkgs = [p \in DOMAIN ch.pkgs |->
        [ch.pkgs[p] EXCEPT !.ack = @ \cup {r.idx : r \in {x \in refs : x.pkg = p}}]]]

AckSettleFails(ch, dests) == [ch EXCEPT !.acked = @ \cup (dests \ {0})]

(***************************************************************************)
(* updateCommitTx: signing commits the removals and, in the same           *)
(* transaction, acknowledges the Adds and the responses they answer.       *)
(***************************************************************************)
SignIn ==
    /\ InLinkIdle
    /\ DOMAIN inLink.log # {} /\ ~inCh.diff.open
    /\ LET log == inLink.log
           closed == {h \in DOMAIN log : log[h].circuit}
       IN  /\ inCh' = AckAdds(
                         [inCh EXCEPT
                           !.fate = [h \in HTLCs |-> IF h \in DOMAIN log THEN log[h].fate
                                                                         ELSE @[h]],
                           !.diff = [open |-> TRUE, circuits |-> closed]],
                         {log[h].ref : h \in DOMAIN log})
           /\ outCh' = AckSettleFails(outCh, {log[h].dest : h \in DOMAIN log})
           /\ inLink' = [inLink EXCEPT !.log = << >>, !.acking = TRUE, !.closing = closed]
    /\ UNCHANGED <<cm, sw, inBox, outBox, outLink, faults>>

\* ackDownStreamPackets deletes the circuits, then acknowledges the replies.
AckDownStreamPackets ==
    /\ inLink.up /\ inLink.acking
    /\ cm' = DeleteCircuits(cm, inLink.closing)
    /\ inBox' = Without(inBox, inLink.closing)
    /\ inLink' = [inLink EXCEPT !.acking = FALSE, !.closing = {}]
    /\ UNCHANGED <<inCh, outCh, sw, outBox, outLink, faults>>

\* The incoming peer revokes: the commitment is no longer sent again.
RevokeIn ==
    /\ inLink.up /\ ~inLink.acking /\ inCh.diff.open
    /\ inCh' = [inCh EXCEPT !.diff = InitInCh.diff]
    /\ UNCHANGED <<outCh, cm, sw, inBox, outBox, inLink, outLink, faults>>

-----------------------------------------------------------------------------
(* Restarts of the links and of the daemon.                                *)

(***************************************************************************)
(* Stopping the incoming link loses its log, and routeAsync may prefer the *)
(* link's quit signal to the forwarder: the rest of the batch is dropped.  *)
(***************************************************************************)
InLinkDown ==
    /\ inLink.up /\ ~inLink.acking
    /\ faults.inFlap < MaxInFlaps
    /\ inLink' = DownInLink
    /\ \E routed \in 0..Len(sw.route), accepted \in BOOLEAN :
          /\ QuitDrops \/ routed = Len(sw.route)
          /\ sw' = [sw EXCEPT !.route = SubSeq(@, 1, routed),
                              !.icpt = IF accepted THEN @ ELSE << >>]
    /\ faults' = [faults EXCEPT !.inFlap = @ + 1]
    /\ UNCHANGED <<inCh, outCh, cm, inBox, outBox, outLink>>

\* The packages with Adds that are not acknowledged.
UnresolvedPkgs ==
    {p \in DOMAIN Packages :
        inCh.pkgs[p].state # "none" /\ inCh.pkgs[p].ack # DOMAIN Packages[p]}

\* Mutant: circuits of a commitment that is sent again are not deleted.
InLinkUpWithoutSync ==
    /\ ~inLink.up
    /\ inLink' = [DownInLink EXCEPT
                    !.up = TRUE,
                    !.todo = SubsequenceAt([p \in DOMAIN Packages |-> p], UnresolvedPkgs)]
    /\ UNCHANGED <<inCh, outCh, cm, sw, inBox, outBox, outLink, faults>>

(***************************************************************************)
(* Starting the incoming link: a commitment that is sent again cleans up   *)
(* after its circuits (syncChanStates), then packages with Adds that are   *)
(* not acknowledged are processed again (resolveFwdPkgs).                  *)
(***************************************************************************)
InLinkUp ==
    /\ ~inLink.up
    /\ inLink' = [DownInLink EXCEPT
                    !.up = TRUE,
                    !.todo = SubsequenceAt([p \in DOMAIN Packages |-> p], UnresolvedPkgs)]
    /\ cm' = DeleteCircuits(cm, inCh.diff.circuits)
    /\ inBox' = Without(inBox, inCh.diff.circuits)
    /\ UNCHANGED <<inCh, outCh, sw, outBox, outLink, faults>>

\* Stopping the outgoing link; responses it was forwarding may be dropped.
OutLinkDown ==
    /\ outLink.up
    /\ outLink' = DownOutLink
    /\ outBox' = ResetPackets(outBox)
    /\ \E kept \in SUBSET sw.plex :
          /\ \A pkt \in sw.plex \ kept : pkt.type # "failAdd"
          /\ sw' = [sw EXCEPT !.plex = kept]
    /\ UNCHANGED <<inCh, outCh, cm, inBox, inLink>>

OutLinkFlaps ==
    /\ faults.outFlap < MaxOutFlaps
    /\ faults' = [faults EXCEPT !.outFlap = @ + 1]
    /\ OutLinkDown

(***************************************************************************)
(* updateCommitTx, first half: the keystones are written before anything   *)
(* is signed.  If they are refused, updateCommitTxOrFail fails the link.   *)
(***************************************************************************)
OpenKeystones ==
    /\ outLink.up /\ ~outLink.signing /\ outLink.log # << >>
    /\ IF DuplicateKeystone(cm, outLink.batch) \/ UnknownCircuit(cm, outLink.batch)
       THEN OutLinkDown
       ELSE /\ cm' = OpenCircuits(cm, outLink.batch)
            /\ outLink' = [outLink EXCEPT !.batch = << >>, !.signing = TRUE]
            /\ UNCHANGED <<inCh, outCh, sw, inBox, outBox, inLink>>
    /\ UNCHANGED faults

\* Mutant: the link starts without trimming its circuits.
OutLinkUpUntrimmed ==
    /\ ~outLink.up
    /\ outLink' = [DownOutLink EXCEPT !.up = TRUE]
    /\ sw' = [sw EXCEPT !.plex = @ \cup UnackedSettleFails \cup ResentFulfills]
    /\ UNCHANGED <<inCh, outCh, cm, inBox, outBox, inLink, faults>>

\* Starting the outgoing link trims its circuits and forwards responses again.
OutLinkUp ==
    /\ ~outLink.up
    /\ outLink' = [DownOutLink EXCEPT !.up = TRUE]
    /\ cm' = TrimOpenCircuits(cm, NextOutIndex)
    /\ sw' = [sw EXCEPT !.plex = @ \cup UnackedSettleFails \cup ResentFulfills]
    /\ UNCHANGED <<inCh, outCh, inBox, outBox, inLink, faults>>

(***************************************************************************)
(* The daemon restarts at any point: memory is lost, the circuit map is    *)
(* restored and trimmed, and Switch.Start forwards the responses that are  *)
(* not acknowledged (reforwardResponses).                                  *)
(***************************************************************************)
Crash ==
    /\ faults.crash < MaxCrashes
    /\ faults' = [faults EXCEPT !.crash = @ + 1]
    /\ cm' = NewCircuitMap(cm, NextOutIndex)
    /\ sw' = [InitSwitch EXCEPT !.plex = UnackedSettleFails]
    /\ inBox' = << >>
    /\ outBox' = EmptyOutBox
    /\ inLink' = DownInLink
    /\ outLink' = DownOutLink
    /\ UNCHANGED <<inCh, outCh>>

-----------------------------------------------------------------------------
Forwarding ==
    \/ \E p \in DOMAIN Packages : LockIn(p)
    \/ ProcessRemoteAdds
    \/ ForwardPackets
    \/ RouteAdd \/ RejectAdd
    \/ DownstreamAdd \/ DownstreamFailAdd
    \/ OpenKeystones \/ SignOut \/ NoWindow
    \/ RevokeOut

Answering ==
    \/ \E i \in DOMAIN outCh.htlcs : RemoteFulfill(i) \/ LockInResponse(i)
    \/ \E pkt \in sw.plex : HandleResponse(pkt) \/ HandleFailedAdd(pkt)
    \/ AckPendingSettleFails
    \/ \E h \in HTLCs : DownstreamReply(h)
    \/ SignIn \/ AckDownStreamPackets \/ RevokeIn

Faults ==
    \/ InLinkDown \/ OutLinkFlaps \/ Crash \/ ExpireAdd \/ ForwardPacketsWriteError

Next == Forwarding \/ Answering \/ InLinkUp \/ OutLinkUp \/ Faults

Spec == Init /\ [][Next]_vars

-----------------------------------------------------------------------------
(* Properties.                                                             *)

OutOf(h) == {i \in DOMAIN outCh.htlcs : outCh.htlcs[i].h = h}

Answered(h) == inCh.fate[h] \in {"settled", "failed"}

\* Fates, circuits, mailboxes and logs name HTLCs of the channels; the head is in its list.
TypeOK ==
    /\ inCh.fate \in [HTLCs -> {"none", "live", "settled", "failed"}]
    /\ \A p \in DOMAIN Packages : inCh.pkgs[p].state \in {"none", "LockedIn", "Processed"}
    /\ \A i \in DOMAIN outCh.htlcs :
          /\ outCh.htlcs[i].h \in HTLCs
          /\ outCh.htlcs[i].fate \in {"live", "claimed", "settled", "failed"}
    /\ DOMAIN cm.pending \subseteq HTLCs /\ DOMAIN cm.adds \subseteq HTLCs
    /\ Range(cm.opened) \subseteq HTLCs /\ cm.closed \subseteq HTLCs
    /\ DOMAIN inBox \subseteq HTLCs /\ DOMAIN inLink.log \subseteq HTLCs
    /\ outBox.head \in 1..Len(outBox.pkts) + 1

(***************************************************************************)
(* The way home: an outgoing HTLC whose incoming HTLC is unanswered has    *)
(* its circuit and keystone on disk and in memory, so a response finds the *)
(* channel it belongs to after any restart (circuit_map.go, OpenCircuits   *)
(* before SignNextCommitment in updateCommitTx).                           *)
(***************************************************************************)
ResponseRoutable ==
    \A i \in DOMAIN outCh.htlcs :
        LET h == outCh.htlcs[i].h
        IN  inCh.fate[h] = "live" =>
              /\ h \in DOMAIN cm.adds
              /\ i \in DOMAIN cm.keys /\ cm.keys[i] = h
              /\ i \in DOMAIN cm.opened /\ cm.opened[i] = h
              /\ LookupCircuit(cm, h) /\ cm.pending[h].out = i

(***************************************************************************)
(* The filters of a forwarding package tell the truth: an Add is           *)
(* acknowledged exactly when a signed commitment answers it (AckFilter of  *)
(* channeldb/forwarding_package.go), and a response only once its HTLC is  *)
(* answered (SettleFailFilter).                                            *)
(***************************************************************************)
AckFilterExact ==
    /\ \A p \in DOMAIN Packages : \A i \in DOMAIN Packages[p] :
          i \in inCh.pkgs[p].ack <=> Answered(Packages[p][i])
    /\ \A i \in outCh.acked : Answered(outCh.htlcs[i].h)

\* OpenCircuits never refuses the keystones of a link (ErrDuplicateKeystone, ErrUnknownCircuit).
KeystonesAccepted ==
    ~DuplicateKeystone(cm, outLink.batch) /\ ~UnknownCircuit(cm, outLink.batch)

\* The keystones that no commitment carries yet have no gap: TrimOpenCircuits stops at the
\* first index that is not open, "so there should never be disjoint segments of keystones
\* to trim" (circuit_map.go).
KeystonesContiguous ==
    \A i \in DOMAIN cm.opened : i >= NextOutIndex => NextOutIndex..i \subseteq DOMAIN cm.opened

\* The package the link processes next has no acknowledged Add before one that is not, so
\* processRemoteAdds numbers the Adds it processes as the package does: what the proofs
\* assume, and the run ReplayedAddRef shows can fail.
ReplaysInPlace ==
    inLink.todo # << >> =>
        LET p == Head(inLink.todo)
        IN  \A k \in DOMAIN UnackedAdds(p) : UnackedAdds(p)[k] = Packages[p][k]

\* What became of an HTLC downstream, as HtlcForward sees it.
OutFate(h) ==
    LET fates == {outCh.htlcs[i].fate : i \in OutOf(h)}
    IN  IF fates = {} THEN "none"
        ELSE IF Cardinality(OutOf(h)) > 1 THEN "twice"
        ELSE IF fates \subseteq {"claimed", "settled"} THEN "claimed"
        ELSE CHOOSE f \in fates : TRUE

Abstract == INSTANCE HtlcForward
    WITH HTLC <- HTLCs, in <- inCh.fate, out <- [h \in HTLCs |-> OutFate(h)]

(***************************************************************************)
(* Forwarding costs the node nothing: whatever links, mailboxes, switch    *)
(* and circuit map do, an HTLC is forwarded at most once and answered as   *)
(* its outgoing HTLC was (ForwardPackets, closeCircuit, updateCommitTx).   *)
(***************************************************************************)
ImplementsHtlcForward == Abstract!FSpec

(***************************************************************************)
(* Fairness: goroutines that can run do, peers reconnect, revoke and       *)
(* answer.  Expiry, crashes, flaps and write errors are never forced.      *)
(***************************************************************************)
Fairness ==
    /\ WF_vars(ProcessRemoteAdds) /\ WF_vars(ForwardPackets) /\ WF_vars(RouteAdd \/ RejectAdd)
    /\ WF_vars(DownstreamAdd \/ DownstreamFailAdd)
    /\ WF_vars(OpenKeystones) /\ WF_vars(SignOut) /\ WF_vars(NoWindow)
    /\ WF_vars(RevokeOut) /\ WF_vars(\E i \in DOMAIN outCh.htlcs : LockInResponse(i))
    /\ WF_vars(\E pkt \in sw.plex : HandleResponse(pkt) \/ HandleFailedAdd(pkt))
    /\ WF_vars(\E h \in HTLCs : DownstreamReply(h))
    /\ WF_vars(SignIn) /\ WF_vars(AckDownStreamPackets) /\ WF_vars(RevokeIn)
    /\ WF_vars(InLinkUp) /\ WF_vars(OutLinkUp)

FairSpec == Spec /\ Fairness

\* Every HTLC locked in is answered, whoever restarts (resolveFwdPkgs, reforwardResponses).
EveryHtlcAnswered ==
    \A h \in HTLCs : inCh.fate[h] = "live" ~> Answered(h)

\* The circuit of an answered HTLC is deleted for good (ackDownStreamPackets).
CircuitsReclaimed ==
    \A h \in HTLCs : Answered(h) ~> [](h \notin DOMAIN cm.pending /\ h \notin DOMAIN cm.adds)
=============================================================================
