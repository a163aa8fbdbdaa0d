----------------------- MODULE LightningChannelProofs -----------------------
(***************************************************************************)
(* Proofs about LightningChannel, for any balances, amounts, fee rates and *)
(* any number of updates and reconnections.                                *)
(***************************************************************************)
EXTENDS UpdateLogProofs

Running == {"sync", "up"}

\* Disk states and memories, as far as the proof needs to know them: which
\* fields they have.  The update logs may be anything.
HasFields(r, fields) == DOMAIN r = fields /\ r = [x \in DOMAIN r |-> r[x]]

IsDisk(d) ==
    HasFields(d, {"local", "remote", "diff", "unsignedAcked",
                  "remoteUnsigned", "ackedKey", "lastWasRevoke", "fwdPkgs"})

IsMem(m, d) == HasFields(m, {"logs", "chains"})
                 /\ m.chains = RestoredChains(d)

\* The inductive invariant behind ChainsOnDisk.
ChainsInv ==
    /\ DOMAIN mem = Node /\ mem = [n \in Node |-> mem[n]]
    /\ DOMAIN disk = Node /\ disk = [n \in Node |-> disk[n]]
    /\ DOMAIN link = Node /\ link = [n \in Node |-> link[n]]
    /\ \A n \in Node : IsDisk(disk[n])
    /\ \A n \in Node : link[n] \in Running => IsMem(mem[n], disk[n])

\* A restored chain has an unacked commitment iff a diff is on disk.
LEMMA Unacked ==
    ASSUME NEW d
    PROVE  HasUnackedCommitment(RestoredChains(d).Remote) <=> d.diff # NoDiff
BY DEF HasUnackedCommitment, RestoredChains

\* Setting commit heights touches the logs only.
LEMMA HeightsKeepChains ==
    ASSUME NEW m, NEW d, IsMem(m, d), NEW w, NEW upTo, NEW h
    PROVE  IsMem(SetCommitHeights(m, w, upTo, h), d)
BY DEF IsMem, HasFields, SetCommitHeights

\* A signature is on disk as it is in memory.
LEMMA SignKeepsChains ==
    ASSUME NEW m, NEW d, IsMem(m, d), IsDisk(d), d.diff = NoDiff,
           NEW n
    PROVE  LET r == SignNextCommitment(m, d, n)
           IN  IsDisk(r.d) /\ IsMem(r.m, r.d)
<1> DEFINE c == CommitmentView(m, n, "Remote", SignIndices(m),
                               SignHtlcIndices(m))
           s == SetCommitHeights(m, "Remote", SignIndices(m),
                                 ChainTip(m.chains.Remote).height + 1)
           diff == CreateCommitDiff(s, c)
           s2 == [s EXCEPT !.chains.Remote = Append(@, c)]
           d2 == AppendRemoteCommitChain(d, diff)
<1>1. IsMem(s, d)
  BY HeightsKeepChains
<1>2. diff # NoDiff /\ diff.commit = c
  BY DEF CreateCommitDiff, NoDiff
<1>a. SignNextCommitment(m, d, n).m = s2 /\ SignNextCommitment(m, d, n).d = d2
  BY DEF SignNextCommitment, SignCommitment
<1> HIDE DEF c, s, diff
<1>3. s.chains = [Local |-> <<d.local>>, Remote |-> <<d.remote>>]
  BY <1>1 DEF IsMem, RestoredChains
<1>4. HasFields(s2, {"logs", "chains"}) /\
      s2.chains = [Local |-> <<d.local>>, Remote |-> <<d.remote, c>>]
  BY <1>1, <1>3, AppendToOne DEF IsMem, HasFields
<1>5. /\ IsDisk(d2)
      /\ d2.diff = diff /\ d2.local = d.local /\ d2.remote = d.remote
  BY DEF IsDisk, HasFields, AppendRemoteCommitChain
<1>6. IsMem(s2, d2)
  BY <1>2, <1>4, <1>5 DEF IsMem, RestoredChains
<1> QED
  BY <1>5, <1>6, <1>a

\* So is a state updateCommitTx leaves, whether it signs or not.
LEMMA UpdateKeepsChains ==
    ASSUME NEW m, NEW d, IsMem(m, d), IsDisk(d), NEW n
    PROVE  LET r == UpdateCommitTx(m, d, n)
           IN  IsDisk(r.d) /\ IsMem(r.m, r.d)
<1>1. CASE HasUnackedCommitment(m.chains.Remote)
  BY <1>1 DEF UpdateCommitTx
<1>2. CASE ~HasUnackedCommitment(m.chains.Remote)
  <2> DEFINE sane == CommitmentSane(m, n, "Remote",
                         FetchHTLCView(m, SignIndices(m)), "NoBuffer")
  <2>1. d.diff = NoDiff
    BY <1>2, Unacked DEF IsMem
  <2>2. CASE ~sane
    BY <1>2, <2>2 DEF UpdateCommitTx
  <2>3. CASE sane
    <3>1. UpdateCommitTx(m, d, n) = SignNextCommitment(m, d, n)
      BY <1>2, <2>3 DEF UpdateCommitTx
    <3> QED
      BY <2>1, <3>1, SignKeepsChains
  <2> QED
    BY <2>2, <2>3
<1> QED
  BY <1>1, <1>2

\* What updateCommitTx returns has the fields of a result.
LEMMA UpdateFields ==
    ASSUME NEW m, NEW d, NEW n
    PROVE  HasFields(UpdateCommitTx(m, d, n), {"m", "d", "msgs", "fail"})
<1>1. HasFields(SignNextCommitment(m, d, n), {"m", "d", "msgs", "fail"})
  BY DEF SignNextCommitment, SignCommitment, HasFields
<1>2. ASSUME NEW why
      PROVE  HasFields([m |-> m, d |-> d, msgs |-> <<>>, fail |-> why],
                       {"m", "d", "msgs", "fail"})
  BY DEF HasFields
<1>3. \/ \E why : UpdateCommitTx(m, d, n) =
              [m |-> m, d |-> d, msgs |-> <<>>, fail |-> why]
      \/ UpdateCommitTx(m, d, n) = SignNextCommitment(m, d, n)
  BY DEF UpdateCommitTx
<1> QED
  BY <1>1, <1>2, <1>3

\* Messages put before those of a result change nothing else of it.
LEMMA AfterFields ==
    ASSUME NEW r, HasFields(r, {"m", "d", "msgs", "fail"}), NEW msgs
    PROVE  LET q == After(msgs, r)
           IN  /\ HasFields(q, {"m", "d", "msgs", "fail"})
               /\ q.m = r.m /\ q.d = r.d /\ q.fail = r.fail
BY DEF After, HasFields

\* A commitment received is on disk once the previous one is revoked.
LEMMA RevokeKeepsChains ==
    ASSUME NEW m, NEW d, IsMem(m, d), IsDisk(d), NEW n
    PROVE  LET r == RevokeCurrentCommitment(ReceiveNewCommitment(m, n), d)
           IN  IsDisk(r.d) /\ IsMem(r.m, r.d)
<1> DEFINE c == CommitmentView(m, n, "Local", RecvIndices(m),
                               RecvHtlcIndices(m))
           s == SetCommitHeights(m, "Local", RecvIndices(m),
                                 ChainTip(m.chains.Local).height + 1)
           m2 == [s EXCEPT !.chains.Local = Append(@, c)]
           m3 == [m2 EXCEPT !.chains.Local = Tail(@)]
           d2 == UpdateCommitment(d, c, UnsignedAckedUpdates(m3))
<1>1. IsMem(s, d)
  BY HeightsKeepChains
<1>2. ReceiveNewCommitment(m, n) = m2
  BY DEF ReceiveNewCommitment
<1>3. RevokeCurrentCommitment(m2, d).m = m3
      /\ RevokeCurrentCommitment(m2, d).d =
            UpdateCommitment(d, m2.chains.Local[2], UnsignedAckedUpdates(m3))
  BY DEF RevokeCurrentCommitment, MoveTo
<1> HIDE DEF c, s
<1> DEFINE remote == RestoredChains(d).Remote
<1>4. s.chains = [Local |-> <<d.local>>, Remote |-> remote]
  BY <1>1 DEF IsMem, RestoredChains
<1> HIDE DEF remote
<1>5. HasFields(m2, {"logs", "chains"}) /\
      m2.chains = [Local |-> <<d.local, c>>, Remote |-> remote]
  BY <1>1, <1>4, AppendToOne DEF IsMem, HasFields
<1> HIDE DEF m2
<1>6. HasFields(m3, {"logs", "chains"}) /\
      m3.chains = [Local |-> <<c>>, Remote |-> remote]
  BY <1>5 DEF HasFields
<1> HIDE DEF m3
<1>7. m2.chains.Local[2] = c
  BY <1>5
<1>8. /\ IsDisk(d2)
      /\ d2.local = c /\ d2.remote = d.remote /\ d2.diff = d.diff
  BY DEF IsDisk, HasFields, UpdateCommitment
<1>9. IsMem(m3, d2)
  BY <1>6, <1>8 DEF IsMem, RestoredChains, remote
<1> QED
  BY <1>2, <1>3, <1>7, <1>8, <1>9

\* A revocation received makes the pending commitment the peer's only one.
LEMMA AdvanceKeepsChains ==
    ASSUME NEW m, NEW d, IsMem(m, d), IsDisk(d), d.diff # NoDiff
    PROVE  LET r == ReceiveRevocation(m, d)
           IN  IsDisk(r.d) /\ IsMem(r.m, r.d)
<1> DEFINE m2 == [m EXCEPT !.chains.Remote = Tail(@)]
           logs == CompactLogs(m2.logs, ChainTail(m2.chains.Local).height,
                               ChainTail(m2.chains.Remote).height)
           m3 == [m2 EXCEPT !.logs = logs]
           d2 == AdvanceCommitChainTail(d, FreshlyLockedIn(m),
                                        UnsignedLocalUpdates(m))
<1>1. ReceiveRevocation(m, d).m = m3 /\ ReceiveRevocation(m, d).d = d2
  BY DEF ReceiveRevocation
<1>2. m.chains = [Local |-> <<d.local>>, Remote |-> <<d.remote, d.diff.commit>>]
  BY DEF IsMem, RestoredChains
<1>3. HasFields(m2, {"logs", "chains"}) /\
      m2.chains = [Local |-> <<d.local>>, Remote |-> <<d.diff.commit>>]
  BY <1>2 DEF IsMem, HasFields
<1> HIDE DEF m2, logs
<1>4. HasFields(m3, {"logs", "chains"}) /\ m3.chains = m2.chains
  BY <1>3 DEF HasFields
<1>5. /\ IsDisk(d2)
      /\ d2.local = d.local /\ d2.remote = d.diff.commit /\ d2.diff = NoDiff
  BY DEF IsDisk, HasFields, AdvanceCommitChainTail
<1>6. IsMem(m3, d2)
  BY <1>3, <1>4, <1>5 DEF IsMem, RestoredChains
<1> QED
  BY <1>1, <1>5, <1>6

\* ProcessChanSyncMsg may sign, and otherwise leaves the chains alone.
LEMMA SyncKeepsChains ==
    ASSUME NEW m, NEW d, IsMem(m, d), IsDisk(d), NEW n, NEW msg
    PROVE  LET r == ProcessChanSyncMsg(m, d, n, msg)
           IN  IsDisk(r.d) /\ IsMem(r.m, r.d)
<1> DEFINE r == RevocationResend(m, d, n, msg)
           local == ChainTail(m.chains.Local).height
           revoke == <<[type |-> "revoke_and_ack", height |-> local - 1]>>
           same == [m |-> m, d |-> d, msgs |-> <<>>, fail |-> ""]
           signed == After(revoke, UpdateCommitTx(m, d, n))
<1>1. r \in {same, signed, [same EXCEPT !.msgs = revoke],
             [same EXCEPT !.fail = "syncError"]}
  BY DEF RevocationResend
<1>2. HasFields(same, {"m", "d", "msgs", "fail"})
      /\ HasFields([same EXCEPT !.msgs = revoke], {"m", "d", "msgs", "fail"})
      /\ HasFields([same EXCEPT !.fail = "syncError"],
                   {"m", "d", "msgs", "fail"})
  BY DEF HasFields
<1>a. /\ same.m = m /\ same.d = d
      /\ [same EXCEPT !.msgs = revoke].m = m
      /\ [same EXCEPT !.msgs = revoke].d = d
      /\ [same EXCEPT !.fail = "syncError"].m = m
      /\ [same EXCEPT !.fail = "syncError"].d = d
  OBVIOUS
<1>3. /\ HasFields(signed, {"m", "d", "msgs", "fail"})
      /\ IsDisk(signed.d) /\ IsMem(signed.m, signed.d)
  BY UpdateFields, AfterFields, UpdateKeepsChains
<1> HIDE DEF r, signed, revoke
<1> HIDE DEF same
<1>4. /\ HasFields(r, {"m", "d", "msgs", "fail"})
      /\ IsDisk(r.d) /\ IsMem(r.m, r.d)
  <2>1. CASE r = signed
    BY <1>3, <2>1
  <2>2. CASE r # signed
    BY <1>1, <1>2, <1>a, <2>2
  <2> QED
    BY <2>1, <2>2
<1>5. LET q == ProcessChanSyncMsg(m, d, n, msg) IN q.m = r.m /\ q.d = r.d
  BY <1>4 DEF ProcessChanSyncMsg, CommitmentResend, WithCommitment, HasFields, r
<1> QED
  BY <1>4, <1>5

\* A step of one node that leaves its memory and disk in line keeps the
\* invariant.
LEMMA StepOfNode ==
    ASSUME ChainsInv, NEW n \in Node, NEW m, NEW d, NEW l,
           mem' = [mem EXCEPT ![n] = m],
           disk' = [disk EXCEPT ![n] = d],
           link' = [link EXCEPT ![n] = l],
           IsDisk(d),
           l \in Running => IsMem(m, d)
    PROVE  ChainsInv'
BY DEF ChainsInv

\* A handler's result that is in line with its disk keeps the invariant,
\* whether the link goes on or fails with it.
LEMMA ApplyKeepsInv ==
    ASSUME ChainsInv, NEW n \in Node, link[n] \in Running,
           NEW inbox, NEW r, Apply(n, inbox, r),
           IsDisk(r.d), IsMem(r.m, r.d)
    PROVE  ChainsInv'
<1>1. link' = [link EXCEPT ![n] = IF r.fail = "" THEN link[n] ELSE r.fail]
  BY DEF Apply, ChainsInv
<1> QED
  BY <1>1, StepOfNode DEF Apply

\* A handler that fails the link touches neither memory nor disk.
LEMMA FailKeepsInv ==
    ASSUME ChainsInv, NEW n \in Node, NEW inbox, NEW why \in Failures,
           Fail(n, inbox, why)
    PROVE  ChainsInv'
<1>1. mem' = [mem EXCEPT ![n] = mem[n]] /\ disk' = [disk EXCEPT ![n] = disk[n]]
  BY DEF Fail, ChainsInv
<1> QED
  BY <1>1, StepOfNode DEF Fail, Failures, Running, ChainsInv

\* A change of the update logs alone keeps the chains.
LEMMA LogsKeepChains ==
    ASSUME NEW m, NEW d, IsMem(m, d), NEW x, NEW y
    PROVE  /\ IsMem([m EXCEPT !.logs.Local = x], d)
           /\ IsMem([m EXCEPT !.logs.Remote = y], d)
           /\ IsMem([m EXCEPT !.logs.Local = x, !.logs.Remote = y], d)
           /\ IsMem([m EXCEPT !.logs.Remote = y, !.logs.Local = x], d)
BY DEF IsMem, HasFields

\* The rest of a handler: a signature, nothing, or the end of the link.
LEMMA SignOrStopKeepsInv ==
    ASSUME ChainsInv, NEW n \in Node, link[n] \in Running, NEW r,
           SignOrStop(n, r), IsDisk(r.d), IsMem(r.m, r.d)
    PROVE  ChainsInv'
<1>1. CASE Apply(n, Tail(net[n]), After(r.msgs, UpdateCommitTx(r.m, r.d, n)))
  <2>1. LET q == After(r.msgs, UpdateCommitTx(r.m, r.d, n))
        IN  IsDisk(q.d) /\ IsMem(q.m, q.d)
    BY UpdateKeepsChains, UpdateFields, AfterFields
  <2> QED
    BY <1>1, <2>1, ApplyKeepsInv
<1>2. CASE Apply(n, Tail(net[n]), [m |-> r.m, d |-> r.d, msgs |-> r.msgs,
                                   fail |-> ""])
  <2> DEFINE q == [m |-> r.m, d |-> r.d, msgs |-> r.msgs, fail |-> ""]
  <2>1. q.m = r.m /\ q.d = r.d
    OBVIOUS
  <2>2. Apply(n, Tail(net[n]), q)
    BY <1>2
  <2> HIDE DEF q
  <2> QED
    BY <2>1, <2>2, ApplyKeepsInv
<1>3. CASE /\ mem' = [mem EXCEPT ![n] = NoMem]
           /\ disk' = [disk EXCEPT ![n] = r.d]
           /\ link' = [link EXCEPT ![n] = "down"]
  BY <1>3, StepOfNode DEF Running
<1> QED
  BY <1>1, <1>2, <1>3 DEF SignOrStop

\* A fresh channel is loaded from what is on disk.
LEMMA InitChains == Init => ChainsInv
<1> SUFFICES ASSUME Init PROVE ChainsInv
  OBVIOUS
<1>1. ASSUME NEW n \in Node
      PROVE  IsDisk(InitDisk(n)) /\ IsMem(RestoredMem(InitDisk(n)), InitDisk(n))
  BY DEF IsDisk, IsMem, HasFields, InitDisk, RestoredMem
<1> QED
  BY <1>1 DEF Init, ChainsInv

\* One step per action.
LEMMA NextChains == ChainsInv /\ [Next]_vars => ChainsInv'
<1> SUFFICES ASSUME ChainsInv, [Next]_vars PROVE ChainsInv'
  OBVIOUS
<1>inv. \A n \in Node : IsDisk(disk[n]) /\
                        (link[n] \in Running => IsMem(mem[n], disk[n]))
  BY DEF ChainsInv
<1>0. CASE UNCHANGED vars
  BY <1>0 DEF vars, ChainsInv
<1>1. ASSUME NEW n \in Node, NEW amt, AddHTLC(n, amt) PROVE ChainsInv'
  <2>1. PICK x, msgs :
          Apply(n, net[n], After(msgs, TryBatchUpdateCommitTx(
                [mem[n] EXCEPT !.logs.Local = x], disk[n], n)))
    BY <1>1 DEF AddHTLC
  <2> DEFINE m2 == [mem[n] EXCEPT !.logs.Local = x]
             r == TryBatchUpdateCommitTx(m2, disk[n], n)
             same == [m |-> m2, d |-> disk[n], msgs |-> <<>>, fail |-> ""]
  <2>2. link[n] \in Running
    BY <1>1 DEF AddHTLC, Running
  <2>3. IsMem(m2, disk[n])
    BY <1>inv, <2>2, LogsKeepChains
  <2>4. r = same \/ r = UpdateCommitTx(m2, disk[n], n)
    BY DEF TryBatchUpdateCommitTx
  <2>5. /\ HasFields(same, {"m", "d", "msgs", "fail"})
        /\ same.m = m2 /\ same.d = disk[n]
    BY DEF HasFields
  <2>6. Apply(n, net[n], After(msgs, r))
    BY <2>1
  <2> HIDE DEF m2, same, r
  <2>7. /\ HasFields(r, {"m", "d", "msgs", "fail"})
        /\ IsDisk(r.d) /\ IsMem(r.m, r.d)
    BY <1>inv, <2>3, <2>4, <2>5, UpdateKeepsChains, UpdateFields
  <2>8. LET q == After(msgs, r) IN IsDisk(q.d) /\ IsMem(q.m, q.d)
    BY <2>7, AfterFields
  <2> QED
    BY <2>2, <2>6, <2>8, ApplyKeepsInv
<1>2. ASSUME NEW n \in Node, NEW h, NEW type, ResolveHTLC(n, h, type)
      PROVE  ChainsInv'
  <2>1. PICK x, y, msgs :
          Apply(n, net[n], After(msgs, UpdateCommitTx(
                [mem[n] EXCEPT !.logs.Local = x, !.logs.Remote = y],
                disk[n], n)))
    BY <1>2 DEF ResolveHTLC, RemoveHTLC
  <2> DEFINE m2 == [mem[n] EXCEPT !.logs.Local = x, !.logs.Remote = y]
  <2>2. link[n] \in Running
    BY <1>2 DEF ResolveHTLC, Running
  <2>3. IsMem(m2, disk[n])
    BY <1>inv, <2>2, LogsKeepChains
  <2> HIDE DEF m2
  <2>4. LET r == After(msgs, UpdateCommitTx(m2, disk[n], n))
        IN  IsDisk(r.d) /\ IsMem(r.m, r.d)
    BY <1>inv, <2>3, UpdateKeepsChains, UpdateFields, AfterFields
  <2> QED
    BY <2>1, <2>2, <2>4, ApplyKeepsInv DEF m2
<1>3. ASSUME NEW n \in Node, NEW rate, UpdateFee(n, rate) PROVE ChainsInv'
  <2>1. PICK x, msgs :
          Apply(n, net[n], After(msgs, UpdateCommitTx(
                [mem[n] EXCEPT !.logs.Local = x], disk[n], n)))
    BY <1>3 DEF UpdateFee
  <2> DEFINE m2 == [mem[n] EXCEPT !.logs.Local = x]
  <2>2. link[n] \in Running
    BY <1>3 DEF UpdateFee, Running
  <2>3. IsMem(m2, disk[n])
    BY <1>inv, <2>2, LogsKeepChains
  <2> HIDE DEF m2
  <2>4. LET r == After(msgs, UpdateCommitTx(m2, disk[n], n))
        IN  IsDisk(r.d) /\ IsMem(r.m, r.d)
    BY <1>inv, <2>3, UpdateKeepsChains, UpdateFields, AfterFields
  <2> QED
    BY <2>1, <2>2, <2>4, ApplyKeepsInv DEF m2
<1>4. ASSUME NEW n \in Node, BatchTick(n) PROVE ChainsInv'
  <2>1. link[n] \in Running
    BY <1>4 DEF BatchTick, Running
  <2> QED
    BY <1>4, <1>inv, <2>1, UpdateKeepsChains, ApplyKeepsInv DEF BatchTick
<1>5. ASSUME NEW n \in Node, ReceiveUpdate(n) PROVE ChainsInv'
  <2>1. link[n] \in Running
    BY <1>5 DEF ReceiveUpdate, Receives, Running
  <2>2. CASE Fail(n, Tail(net[n]), "badUpdate")
    BY <2>2, FailKeepsInv DEF Failures
  <2>3. ASSUME NEW m2, mem' = [mem EXCEPT ![n] = m2],
               UNCHANGED <<disk, link>>, IsMem(m2, disk[n])
        PROVE  ChainsInv'
    <3>1. /\ disk' = [disk EXCEPT ![n] = disk[n]]
          /\ link' = [link EXCEPT ![n] = link[n]]
      BY <2>3 DEF ChainsInv
    <3> QED
      BY <1>inv, <2>3, <3>1, StepOfNode
  <2> DEFINE u == Head(net[n])
  <2>4. /\ IsMem(AcceptHTLC(mem[n], n, u).m, disk[n])
        /\ IsMem(AcceptFee(mem[n], n, u).m, disk[n])
        /\ IsMem(AcceptResolution(mem[n], u).m, disk[n])
    BY <1>inv, <2>1, LogsKeepChains DEF AcceptHTLC, AcceptFee, AcceptResolution
  <2> HIDE DEF u
  <2>5. \/ Fail(n, Tail(net[n]), "badUpdate")
        \/ /\ mem' = [mem EXCEPT ![n] = AcceptHTLC(mem[n], n, u).m]
           /\ UNCHANGED <<disk, link>>
        \/ /\ mem' = [mem EXCEPT ![n] = AcceptFee(mem[n], n, u).m]
           /\ UNCHANGED <<disk, link>>
        \/ /\ mem' = [mem EXCEPT ![n] = AcceptResolution(mem[n], u).m]
           /\ UNCHANGED <<disk, link>>
    BY <1>5 DEF ReceiveUpdate, u
  <2> QED
    BY <2>2, <2>3, <2>4, <2>5
<1>6. ASSUME NEW n \in Node, ReceiveCommitSig(n) PROVE ChainsInv'
  <2> DEFINE r == RevokeCurrentCommitment(ReceiveNewCommitment(mem[n], n),
                                          disk[n])
  <2>1. link[n] \in Running
    BY <1>6 DEF ReceiveCommitSig, Receives, Running
  <2>2. \/ Fail(n, Tail(net[n]), "badCommit")
        \/ Fail(n, Tail(net[n]), "badSig")
        \/ SignOrStop(n, r)
    BY <1>6 DEF ReceiveCommitSig
  <2>3. IsDisk(r.d) /\ IsMem(r.m, r.d)
    BY <1>inv, <2>1, RevokeKeepsChains
  <2> HIDE DEF r
  <2> QED
    BY <2>1, <2>2, <2>3, FailKeepsInv, SignOrStopKeepsInv DEF Failures
<1>7. ASSUME NEW n \in Node, ReceiveRevokeAndAck(n) PROVE ChainsInv'
  <2> DEFINE q == ReceiveRevocation(mem[n], disk[n])
             r == [m |-> q.m, d |-> q.d, msgs |-> <<>>]
  <2>1. link[n] \in Running
    BY <1>7 DEF ReceiveRevokeAndAck, Receives, Running
  <2>2. \/ Fail(n, Tail(net[n]), "badRevocation")
        \/ /\ HasUnackedCommitment(mem[n].chains.Remote)
           /\ SignOrStop(n, r)
    BY <1>7 DEF ReceiveRevokeAndAck
  <2>3. CASE Fail(n, Tail(net[n]), "badRevocation")
    BY <2>3, FailKeepsInv DEF Failures
  <2>4. CASE HasUnackedCommitment(mem[n].chains.Remote) /\ SignOrStop(n, r)
    <3>1. disk[n].diff # NoDiff
      BY <1>inv, <2>1, <2>4, Unacked DEF IsMem
    <3>2. IsDisk(r.d) /\ IsMem(r.m, r.d)
      BY <1>inv, <2>1, <3>1, AdvanceKeepsChains
    <3> HIDE DEF r
    <3> QED
      BY <2>1, <2>4, <3>2, SignOrStopKeepsInv
  <2> QED
    BY <2>2, <2>3, <2>4
<1>8. ASSUME NEW n \in Node, SyncChanStates(n) PROVE ChainsInv'
  <2> DEFINE r == ProcessChanSyncMsg(mem[n], disk[n], n, Head(net[n]))
  <2>1. link[n] \in Running
    BY <1>8 DEF SyncChanStates, Running
  <2>2. IsDisk(r.d) /\ IsMem(r.m, r.d)
    BY <1>inv, <2>1, SyncKeepsChains
  <2>3. /\ mem' = [mem EXCEPT ![n] = r.m]
        /\ disk' = [disk EXCEPT ![n] = r.d]
        /\ link' = [link EXCEPT ![n] = IF r.fail = "" THEN "up" ELSE r.fail]
    BY <1>8 DEF SyncChanStates, Resume
  <2> HIDE DEF r
  <2> QED
    BY <2>2, <2>3, StepOfNode
<1>9. ASSUME NEW n \in Node, Disconnect(n) PROVE ChainsInv'
  <2>1. disk' = [disk EXCEPT ![n] = disk[n]]
    BY <1>9 DEF Disconnect, ChainsInv
  <2> QED
    BY <1>9, <1>inv, <2>1, StepOfNode DEF Disconnect, Running
<1>10. ASSUME Reconnect PROVE ChainsInv'
  <2>1. CASE \A n \in Node : Restorable(disk[n])
    BY <1>10, <1>inv, <2>1
      DEF Reconnect, ChainsInv, IsMem, HasFields, RestoredMem
  <2>2. CASE ~(\A n \in Node : Restorable(disk[n]))
    BY <1>10, <1>inv, <2>2 DEF Reconnect, ChainsInv, Running
  <2> QED
    BY <2>1, <2>2
<1> QED
  BY <1>0, <1>1, <1>2, <1>3, <1>4, <1>5, <1>6, <1>7, <1>8, <1>9, <1>10
    DEF Next

\* A crash never sets a node back: at every moment the commitment chains a
\* running link works on are the ones it would load from disk (NewLightning-
\* Channel after AppendRemoteCommitChain, UpdateCommitment and
\* AdvanceCommitChainTail), for any history of updates, failures and
\* reconnections.
THEOREM ChainsAreOnDisk == Spec => []ChainsOnDisk
<1>1. ChainsInv => ChainsOnDisk
  BY DEF ChainsInv, ChainsOnDisk, IsMem, Running
<1> QED
  BY <1>1, InitChains, NextChains, PTL DEF Spec

-----------------------------------------------------------------------------
(* Restoring the logs from disk: an update is read back as it was. *)

\* The Adds of the list of a log with index h, all for the same amount.
Parented(g, h, amt) ==
    /\ \E k \in DOMAIN g.list : IsAdd(g.list[k]) /\ g.list[k].HtlcIndex = h
    /\ \A k \in DOMAIN g.list : IsAdd(g.list[k]) /\ g.list[k].HtlcIndex = h => g.list[k].Amount = amt

\* An update read back from disk is the one that was written.
LEMMA ReadBack ==
    ASSUME NEW x \in Recs, NEW u, u = ToLogUpdate(x), NEW g, NEW hts \in Pairs,
           IsRmv(x) => Parented(g, x.HtlcIndex, x.Amount),
           NEW e, e = Restored(u, g, hts)
    PROVE  /\ e \in Entries /\ Core(e) = x /\ At(e) = hts
           /\ e.EntryType = "FeeUpdate" => e.rmv = e.add
           /\ IsAdd(e) => e.rmv = Both(0)
           /\ IsRmv(e) => e.add = Both(0)
<1>. DEFINE parent == CHOOSE a \in LookupHtlc(g, u.HtlcIndex) : TRUE
            pd == Descriptor(u.EntryType, u.LogIndex, u.HtlcIndex, u.Amount)
            z == Both(0)
<1>1. /\ x.EntryType \in Types /\ x.LogIndex \in Nat /\ x.HtlcIndex \in Nat /\ x.Amount \in Nat
      /\ x = [EntryType |-> x.EntryType, LogIndex |-> x.LogIndex, HtlcIndex |-> x.HtlcIndex, Amount |-> x.Amount]
  BY DEF Recs
<1>2. /\ u.EntryType = x.EntryType /\ u.LogIndex = x.LogIndex /\ u.HtlcIndex = x.HtlcIndex
      /\ IsRmv(x) => u.Amount = 0
      /\ ~IsRmv(x) => u.Amount = x.Amount
  BY DEF ToLogUpdate, IsRmv
<1>3. pd = [EntryType |-> x.EntryType, LogIndex |-> x.LogIndex, HtlcIndex |-> x.HtlcIndex, Amount |-> u.Amount,
            add |-> z, rmv |-> z]
  BY <1>2 DEF Descriptor
<1>4. z \in Pairs
  BY DEF Both, Pairs
<1>5. /\ x.EntryType = "Add" => e = [pd EXCEPT !.add = hts]
      /\ x.EntryType = "FeeUpdate" => e = [pd EXCEPT !.add = hts, !.rmv = hts]
      /\ x.EntryType \in {"Settle", "Fail"} => e = [pd EXCEPT !.Amount = parent.Amount, !.rmv = hts]
  BY <1>2 DEF Restored
<1>. HIDE DEF pd, z, parent
<1>6. CASE x.EntryType = "Add"
  <2>1. e = [EntryType |-> x.EntryType, LogIndex |-> x.LogIndex, HtlcIndex |-> x.HtlcIndex, Amount |-> x.Amount,
             add |-> hts, rmv |-> z]
    BY <1>2, <1>3, <1>5, <1>6 DEF IsRmv
  <2>2. e \in Entries /\ Core(e) = x
    BY <1>1, <1>4, <2>1 DEF Entries, Core
  <2>3. ~IsRmv(e) /\ e.EntryType # "FeeUpdate" /\ At(e) = hts /\ e.rmv = Both(0)
    BY <1>6, <2>1 DEF IsRmv, At, z
  <2>. QED  BY <2>2, <2>3
<1>7. CASE x.EntryType = "FeeUpdate"
  <2>1. e = [EntryType |-> x.EntryType, LogIndex |-> x.LogIndex, HtlcIndex |-> x.HtlcIndex, Amount |-> x.Amount,
             add |-> hts, rmv |-> hts]
    BY <1>2, <1>3, <1>5, <1>7 DEF IsRmv
  <2>2. e \in Entries /\ Core(e) = x
    BY <1>1, <1>4, <2>1 DEF Entries, Core
  <2>3. ~IsRmv(e) /\ ~IsAdd(e) /\ At(e) = hts /\ e.rmv = e.add
    BY <1>7, <2>1 DEF IsRmv, IsAdd, At
  <2>. QED  BY <2>2, <2>3
<1>8. CASE x.EntryType \in {"Settle", "Fail"}
  <2>1. parent.Amount = x.Amount
    <3>1. Parented(g, x.HtlcIndex, x.Amount)
      BY <1>8 DEF IsRmv
    <3>2. LookupHtlc(g, u.HtlcIndex) # {} /\ \A a \in LookupHtlc(g, u.HtlcIndex) : a.Amount = x.Amount
      BY <1>2, <3>1 DEF Parented, LookupHtlc, Range, IsAdd
    <3>3. parent \in LookupHtlc(g, u.HtlcIndex)
      BY <3>2 DEF parent
    <3>. QED  BY <3>2, <3>3
  <2>2. e = [EntryType |-> x.EntryType, LogIndex |-> x.LogIndex, HtlcIndex |-> x.HtlcIndex, Amount |-> x.Amount,
             add |-> z, rmv |-> hts]
    BY <1>2, <1>3, <1>5, <1>8, <2>1 DEF IsRmv
  <2>3. e \in Entries /\ Core(e) = x
    BY <1>1, <1>4, <2>2 DEF Entries, Core
  <2>4. e.EntryType # "FeeUpdate" /\ ~IsAdd(e) /\ At(e) = hts /\ e.add = Both(0)
    BY <1>8, <2>2 DEF IsRmv, IsAdd, At, z
  <2>. QED  BY <2>3, <2>4
<1>. QED  BY <1>1, <1>6, <1>7, <1>8 DEF Types

\* The updates u, each written for one of X, are read back as t, with the
\* heights hh; g is the log that has the Adds of the removals.
Reads(u, X, g, hh, t) ==
    /\ u \in Seq(Recs) /\ X \in SUBSET Recs
    /\ \A k \in DOMAIN u : hh[k] \in Pairs
    /\ \A k \in DOMAIN u : \E x \in X : u[k] = ToLogUpdate(x)
    /\ \A x \in X : ToLogUpdate(x) \in Range(u)
    /\ \A x \in X : IsRmv(x) => Parented(g, x.HtlcIndex, x.Amount)
    /\ Distinct(u)
    /\ t = [k \in DOMAIN u |-> Restored(u[k], g, hh[k])]

\* A list that is read back.
LEMMA ListRead ==
    ASSUME NEW u, NEW X, NEW g, NEW hh, NEW t, Reads(u, X, g, hh, t)
    PROVE  /\ t \in Seq(Entries) /\ DOMAIN t = DOMAIN u /\ Cores(t) = X /\ Distinct(t)
           /\ \A k \in DOMAIN t : /\ t[k] \in Entries /\ Core(t[k]) \in X /\ t[k].LogIndex = u[k].LogIndex
                                  /\ At(t[k]) = hh[k]
                                  /\ t[k].EntryType = "FeeUpdate" => t[k].rmv = t[k].add
                                  /\ IsAdd(t[k]) => t[k].rmv = Both(0)
                                  /\ IsRmv(t[k]) => t[k].add = Both(0)
<1>0. /\ u \in Seq(Recs) /\ X \in SUBSET Recs
      /\ \A k \in DOMAIN u : hh[k] \in Pairs
      /\ \A k \in DOMAIN u : \E x \in X : u[k] = ToLogUpdate(x)
      /\ \A x \in X : ToLogUpdate(x) \in Range(u)
      /\ \A x \in X : IsRmv(x) => Parented(g, x.HtlcIndex, x.Amount)
      /\ Distinct(u)
      /\ t = [k \in DOMAIN u |-> Restored(u[k], g, hh[k])]
  BY DEF Reads
<1>1. DOMAIN t = DOMAIN u /\ \A k \in DOMAIN u : t[k] = Restored(u[k], g, hh[k])
  BY <1>0
<1>2. ASSUME NEW k \in DOMAIN u, NEW x \in X, u[k] = ToLogUpdate(x)
      PROVE  /\ t[k] \in Entries /\ Core(t[k]) = x /\ At(t[k]) = hh[k] /\ t[k].LogIndex = u[k].LogIndex
             /\ t[k].EntryType = "FeeUpdate" => t[k].rmv = t[k].add
             /\ IsAdd(t[k]) => t[k].rmv = Both(0)
             /\ IsRmv(t[k]) => t[k].add = Both(0)
  <2>. DEFINE v == u[k]
              e == t[k]
              hts == hh[k]
  <2>1. /\ x \in Recs /\ v = ToLogUpdate(x) /\ hts \in Pairs /\ e = Restored(v, g, hts)
        /\ IsRmv(x) => Parented(g, x.HtlcIndex, x.Amount)
    BY <1>0, <1>1, <1>2
  <2>. HIDE DEF v, e, hts
  <2>2. /\ e \in Entries /\ Core(e) = x /\ At(e) = hts
        /\ e.EntryType = "FeeUpdate" => e.rmv = e.add
        /\ IsAdd(e) => e.rmv = Both(0)
        /\ IsRmv(e) => e.add = Both(0)
    BY ONLY <2>1, ReadBack
  <2>3. e.LogIndex = v.LogIndex
    BY <2>1, <2>2, CoreFacts, LogUpdateFacts
  <2>. QED  BY ONLY <2>2, <2>3 DEF v, e, hts
<1>3. \A k \in DOMAIN t : /\ t[k] \in Entries /\ Core(t[k]) \in X /\ t[k].LogIndex = u[k].LogIndex
                          /\ At(t[k]) = hh[k]
                          /\ t[k].EntryType = "FeeUpdate" => t[k].rmv = t[k].add
                          /\ IsAdd(t[k]) => t[k].rmv = Both(0)
                          /\ IsRmv(t[k]) => t[k].add = Both(0)
  BY ONLY <1>0, <1>1, <1>2
<1>4. \A x \in X : \E k \in DOMAIN t : Core(t[k]) = x
  <2>. SUFFICES ASSUME NEW x \in X PROVE \E k \in DOMAIN t : Core(t[k]) = x
    OBVIOUS
  <2>1. PICK k \in DOMAIN u : u[k] = ToLogUpdate(x)
    BY <1>0 DEF Range
  <2>. QED  BY <1>1, <1>2, <2>1
<1>5. Cores(t) = X
  BY <1>3, <1>4 DEF Cores
<1>6. t \in Seq(Entries)
  <2>1. DOMAIN u = 1..Len(u) /\ Len(u) \in Nat
    BY <1>0
  <2>2. t \in [1..Len(u) -> Entries]
    BY <1>0, <1>1, <1>3, <2>1
  <2>. QED  BY <2>1, <2>2
<1>7. Distinct(t)
  BY <1>0, <1>1, <1>3 DEF Distinct
<1>. QED  BY <1>1, <1>3, <1>5, <1>6, <1>7

\* The outputs of a commitment in the order of the log, which has n entries.
SortedOuts(n, outs) ==
    SubsequenceAt([k \in 1..n |-> CHOOSE o \in outs : o.LogIndex = k - 1], {o.LogIndex + 1 : o \in outs})

\* All of them are there, in order.
LEMMA SortedFacts ==
    ASSUME NEW n \in Nat, NEW outs \in SUBSET Outs, \A o \in outs : o.LogIndex < n,
           \A o, q \in outs : o.LogIndex = q.LogIndex => o = q,
           NEW t, t = SortedOuts(n, outs)
    PROVE  /\ t \in Seq(Outs) /\ Range(t) = outs
           /\ \A j, k \in DOMAIN t : j < k => t[j].LogIndex < t[k].LogIndex
<1>. DEFINE s == [k \in 1..n |-> CHOOSE o \in outs : o.LogIndex = k - 1]
            I == {o.LogIndex + 1 : o \in outs}
            S == {s[k] : k \in 1..n}
<1>1. \A o \in outs : o.LogIndex \in Nat
  BY DEF Outs
<1>2. I \subseteq 1..n
  BY <1>1
<1>3. \A o \in outs : s[o.LogIndex + 1] = o
  <2>. SUFFICES ASSUME NEW o \in outs PROVE s[o.LogIndex + 1] = o
    OBVIOUS
  <2>1. o.LogIndex + 1 \in 1..n /\ (o.LogIndex + 1) - 1 = o.LogIndex
    BY <1>1
  <2>2. s[o.LogIndex + 1] = CHOOSE q \in outs : q.LogIndex = (o.LogIndex + 1) - 1
    BY <2>1
  <2>3. s[o.LogIndex + 1] = CHOOSE q \in outs : q.LogIndex = o.LogIndex
    BY <2>1, <2>2
  <2>4. s[o.LogIndex + 1] \in outs /\ s[o.LogIndex + 1].LogIndex = o.LogIndex
    BY <2>3
  <2>. QED  BY <2>4
<1>4. s \in Seq(S) /\ I \in SUBSET (DOMAIN s) /\ t = SubsequenceAt(s, I)
  <2>1. DOMAIN s = 1..n /\ s \in [1..n -> S]
    OBVIOUS
  <2>2. t = SubsequenceAt(s, I)
    BY DEF SortedOuts
  <2>. HIDE DEF s, S, I
  <2>3. s \in Seq(S)
    BY <2>1
  <2>4. I \in SUBSET (DOMAIN s)
    BY ONLY <1>2, <2>1
  <2>. QED  BY <2>2, <2>3, <2>4
<1>11. I = {o.LogIndex + 1 : o \in outs}
  OBVIOUS
<1>. HIDE DEF s, S, I
<1>5. /\ t \in Seq(S) /\ Range(t) = {s[i] : i \in I}
      /\ \A j, k \in DOMAIN t : j < k => \E i, l \in I : i < l /\ t[j] = s[i] /\ t[k] = s[l]
  BY ONLY <1>4, Picked
<1>6. {s[i] : i \in I} = outs
  BY ONLY <1>3, <1>11
<1>7. Range(t) = outs
  BY <1>5, <1>6
<1>8. t \in Seq(Outs)
  <2>1. \A k \in DOMAIN t : t[k] \in Range(t)
    BY DEF Range
  <2>2. \A k \in DOMAIN t : t[k] \in Outs
    BY <1>7, <2>1
  <2>3. t \in [1..Len(t) -> Outs] /\ Len(t) \in Nat
    BY <1>5, <2>2
  <2>. QED  BY <2>3
<1>9. \A i \in I : s[i].LogIndex = i - 1 /\ i \in Nat
  BY ONLY <1>1, <1>3, <1>11
<1>10. \A j, k \in DOMAIN t : j < k => t[j].LogIndex < t[k].LogIndex
  BY ONLY <1>5, <1>9
<1>. QED  BY <1>7, <1>8, <1>10

\* The HTLC of an output, on the chains from the heights hts on.
AddEntry(o, hts) == [Descriptor("Add", o.LogIndex, o.HtlcIndex, o.Amount) EXCEPT !.add = hts]

\* The HTLCs X, on a log of n entries, are read back as t from the outputs
\* of a commitment, with the heights hh.
Loads(n, outs, X, hh, t) ==
    /\ n \in Nat /\ X \in SUBSET Recs /\ outs = {OutputOf(x) : x \in X}
    /\ \A x \in X : IsAdd(x) /\ x.LogIndex < n
    /\ \A x, y \in X : x.LogIndex = y.LogIndex => x = y
    /\ \A o \in outs : hh[o.HtlcIndex] \in Pairs
    /\ t = LET s == SortedOuts(n, outs) IN [k \in DOMAIN s |-> AddEntry(s[k], hh[s[k].HtlcIndex])]

\* The HTLCs of a commitment that are read back.
LEMMA HtlcsLoaded ==
    ASSUME NEW n, NEW outs, NEW X, NEW hh, NEW t, Loads(n, outs, X, hh, t)
    PROVE  /\ t \in Seq(Entries) /\ Cores(t) = X /\ Distinct(t)
           /\ \A k \in DOMAIN t : /\ t[k] \in Entries /\ Core(t[k]) \in X /\ At(t[k]) = hh[t[k].HtlcIndex]
                                  /\ IsAdd(t[k]) /\ t[k].rmv = Both(0)
<1>. DEFINE s == SortedOuts(n, outs)
<1>0. /\ n \in Nat /\ X \in SUBSET Recs /\ outs = {OutputOf(x) : x \in X}
      /\ \A x \in X : IsAdd(x) /\ x.LogIndex < n
      /\ \A x, y \in X : x.LogIndex = y.LogIndex => x = y
      /\ \A o \in outs : hh[o.HtlcIndex] \in Pairs
      /\ t = [k \in DOMAIN s |-> AddEntry(s[k], hh[s[k].HtlcIndex])]
  BY DEF Loads
<1>1. \A x \in Recs : /\ OutputOf(x) \in Outs /\ OutputOf(x).LogIndex = x.LogIndex /\ OutputOf(x).HtlcIndex = x.HtlcIndex
                      /\ OutputOf(x).Amount = x.Amount
  BY DEF OutputOf, Recs, Outs
<1>2. /\ outs \in SUBSET Outs /\ \A o \in outs : o.LogIndex < n
      /\ \A o, q \in outs : o.LogIndex = q.LogIndex => o = q
      /\ s = SortedOuts(n, outs)
  BY <1>0, <1>1
<1>. HIDE DEF s
<1>3. /\ s \in Seq(Outs) /\ Range(s) = outs
      /\ \A j, k \in DOMAIN s : j < k => s[j].LogIndex < s[k].LogIndex
  BY ONLY <1>0, <1>2, SortedFacts
<1>4. \A k \in DOMAIN s : \E x \in X : s[k] = OutputOf(x)
  <2>1. \A k \in DOMAIN s : s[k] \in Range(s)
    BY DEF Range
  <2>. QED  BY <1>0, <1>3, <2>1
<1>5. \A x \in X : \E k \in DOMAIN s : s[k] = OutputOf(x)
  <2>1. \A o \in Range(s) : \E k \in DOMAIN s : s[k] = o
    BY DEF Range
  <2>. QED  BY <1>0, <1>3, <2>1
<1>6. ASSUME NEW x \in Recs, IsAdd(x), NEW o, o = OutputOf(x), NEW hts \in Pairs, NEW e, e = AddEntry(o, hts)
      PROVE  e \in Entries /\ Core(e) = x /\ At(e) = hts /\ IsAdd(e) /\ e.rmv = Both(0) /\ e.HtlcIndex = o.HtlcIndex
             /\ e.LogIndex = o.LogIndex
  <2>. DEFINE z == Both(0)
  <2>1. o.LogIndex = x.LogIndex /\ o.HtlcIndex = x.HtlcIndex /\ o.Amount = x.Amount
    BY <1>1, <1>6
  <2>2. e = [EntryType |-> "Add", LogIndex |-> x.LogIndex, HtlcIndex |-> x.HtlcIndex, Amount |-> x.Amount,
             add |-> hts, rmv |-> z]
    BY <1>6, <2>1 DEF AddEntry, Descriptor
  <2>3. z \in Pairs
    BY DEF z, Both, Pairs
  <2>. HIDE DEF z
  <2>4. /\ x.EntryType = "Add" /\ x.LogIndex \in Nat /\ x.HtlcIndex \in Nat /\ x.Amount \in Nat
        /\ x = [EntryType |-> x.EntryType, LogIndex |-> x.LogIndex, HtlcIndex |-> x.HtlcIndex, Amount |-> x.Amount]
    BY <1>6 DEF Recs, IsAdd
  <2>5. e \in Entries /\ Core(e) = x
    BY <2>2, <2>3, <2>4 DEF Entries, Types, Core
  <2>6. At(e) = hts /\ IsAdd(e) /\ e.rmv = Both(0)
    BY <2>2 DEF At, IsAdd, IsRmv, z
  <2>. QED  BY <2>1, <2>2, <2>5, <2>6
<1>7. DOMAIN t = DOMAIN s /\ \A k \in DOMAIN s : t[k] = AddEntry(s[k], hh[s[k].HtlcIndex])
  BY <1>0
<1>8. ASSUME NEW k \in DOMAIN s, NEW x \in X, s[k] = OutputOf(x)
      PROVE  /\ t[k] \in Entries /\ Core(t[k]) = x /\ At(t[k]) = hh[t[k].HtlcIndex]
             /\ IsAdd(t[k]) /\ t[k].rmv = Both(0) /\ t[k].LogIndex = s[k].LogIndex
  <2>. DEFINE o == s[k]
              hts == hh[o.HtlcIndex]
              e == t[k]
  <2>1. x \in Recs /\ IsAdd(x) /\ o = OutputOf(x) /\ hts \in Pairs /\ e = AddEntry(o, hts)
    BY <1>0, <1>7, <1>8
  <2>. HIDE DEF o, hts, e
  <2>2. e \in Entries /\ Core(e) = x /\ At(e) = hts /\ IsAdd(e) /\ e.rmv = Both(0) /\ e.HtlcIndex = o.HtlcIndex
        /\ e.LogIndex = o.LogIndex
    BY ONLY <1>6, <2>1
  <2>. QED  BY ONLY <2>2 DEF o, hts, e
<1>9. \A k \in DOMAIN t : /\ t[k] \in Entries /\ Core(t[k]) \in X /\ At(t[k]) = hh[t[k].HtlcIndex]
                          /\ IsAdd(t[k]) /\ t[k].rmv = Both(0) /\ t[k].LogIndex = s[k].LogIndex
  BY ONLY <1>4, <1>7, <1>8
<1>10. Cores(t) = X
  BY <1>5, <1>7, <1>8, <1>9 DEF Cores
<1>11. t \in Seq(Entries)
  <2>1. DOMAIN t = 1..Len(s) /\ Len(s) \in Nat
    BY <1>3, <1>7
  <2>2. t \in [1..Len(s) -> Entries]
    BY <1>0, <1>9, <2>1
  <2>. QED  BY <2>1, <2>2
<1>12. Distinct(t)
  <2>1. \A j, k \in DOMAIN t : j \in Nat /\ k \in Nat
    BY <1>11
  <2>2. \A k \in DOMAIN s : s[k].LogIndex \in Nat
    <3>1. \A k \in DOMAIN s : s[k] \in Outs
      BY <1>3
    <3>. QED  BY <3>1 DEF Outs
  <2>3. \A j, k \in DOMAIN t : s[j].LogIndex = s[k].LogIndex => j = k
    BY <1>3, <1>7, <2>1, <2>2
  <2>. QED  BY <1>9, <2>3 DEF Distinct
<1>. QED  BY <1>9, <1>10, <1>11, <1>12

\* Two lists, one after the other.
Joins(s, t, u) == s \in Seq(Entries) /\ t \in Seq(Entries) /\ u = s \o t

\* What a list made of two consists of.
LEMMA Joined ==
    ASSUME NEW s, NEW t, NEW u, Joins(s, t, u)
    PROVE  /\ u \in Seq(Entries) /\ Cores(u) = Cores(s) \cup Cores(t)
           /\ Range(u) = Range(s) \cup Range(t)
           /\ Distinct(s) /\ Distinct(t) /\ (\A e \in Range(s) : \A f \in Range(t) : e.LogIndex # f.LogIndex) => Distinct(u)
<1>0. s \in Seq(Entries) /\ t \in Seq(Entries) /\ u = s \o t
  BY DEF Joins
<1>1. /\ u \in Seq(Entries) /\ DOMAIN u = 1..(Len(s) + Len(t)) /\ DOMAIN s = 1..Len(s) /\ DOMAIN t = 1..Len(t)
      /\ Len(s) \in Nat /\ Len(t) \in Nat
      /\ \A i \in 1..Len(s) : u[i] = s[i]
      /\ \A i \in 1..Len(t) : u[Len(s) + i] = t[i]
  BY <1>0
<1>2. \A i \in DOMAIN u : i \in Nat /\ (\/ i \in DOMAIN s /\ u[i] = s[i]
                                        \/ i > Len(s) /\ i - Len(s) \in DOMAIN t /\ u[i] = t[i - Len(s)])
  <2>. SUFFICES ASSUME NEW i \in DOMAIN u
                PROVE  i \in Nat /\ (\/ i \in DOMAIN s /\ u[i] = s[i]
                                     \/ i > Len(s) /\ i - Len(s) \in DOMAIN t /\ u[i] = t[i - Len(s)])
    OBVIOUS
  <2>1. CASE i <= Len(s)
    BY <1>1, <2>1
  <2>2. CASE ~(i <= Len(s))
    <3>1. i - Len(s) \in 1..Len(t) /\ Len(s) + (i - Len(s)) = i /\ i > Len(s)
      BY <1>1, <2>2
    <3>. QED  BY <1>1, <3>1
  <2>. QED  BY <2>1, <2>2
<1>3. /\ \A i \in DOMAIN s : i \in DOMAIN u /\ u[i] = s[i]
      /\ \A i \in DOMAIN t : Len(s) + i \in DOMAIN u /\ u[Len(s) + i] = t[i]
  BY <1>1
<1>4. Range(u) = Range(s) \cup Range(t)
  BY ONLY <1>2, <1>3 DEF Range
<1>5. Cores(u) = Cores(s) \cup Cores(t)
  BY ONLY <1>2, <1>3 DEF Cores
<1>6. ASSUME Distinct(s), Distinct(t), \A e \in Range(s) : \A f \in Range(t) : e.LogIndex # f.LogIndex
      PROVE  Distinct(u)
  <2>. SUFFICES ASSUME NEW i \in DOMAIN u, NEW j \in DOMAIN u, u[i].LogIndex = u[j].LogIndex PROVE i = j
    BY DEF Distinct
  <2>1. \A k \in DOMAIN s : \A l \in DOMAIN t : s[k].LogIndex # t[l].LogIndex
    BY <1>6 DEF Range
  <2>2. CASE i \in DOMAIN s /\ j \in DOMAIN s
    BY <1>3, <1>6, <2>2 DEF Distinct
  <2>3. CASE ~(i \in DOMAIN s) /\ ~(j \in DOMAIN s)
    <3>1. /\ i - Len(s) \in DOMAIN t /\ u[i] = t[i - Len(s)] /\ i \in Nat
          /\ j - Len(s) \in DOMAIN t /\ u[j] = t[j - Len(s)] /\ j \in Nat
      BY <1>2, <2>3
    <3>2. i - Len(s) = j - Len(s)
      BY <1>6, <3>1 DEF Distinct
    <3>. QED  BY <1>1, <3>1, <3>2
  <2>. QED  BY <1>2, <1>3, <2>1, <2>2, <2>3
<1>. QED  BY <1>1, <1>4, <1>5, <1>6

\* The places I numbered b, b + 1, ..., e - 1.
Numbers(I, num, b, e) ==
    /\ IsFiniteSet(I) /\ b \in Nat /\ e \in Nat /\ b <= e
    /\ \A i \in I : num[i] \in b..(e - 1)
    /\ \A i, j \in I : num[i] = num[j] => i = j
    /\ \A h \in b..(e - 1) : \E i \in I : num[i] = h

\* There are e - b of them.
LEMMA NumberedCount ==
    ASSUME NEW I, NEW num, NEW b, NEW e, Numbers(I, num, b, e)
    PROVE  Cardinality(I) = e - b
<1>0. /\ IsFiniteSet(I) /\ b \in Nat /\ e \in Nat /\ b <= e
      /\ \A i \in I : num[i] \in b..(e - 1)
      /\ \A i, j \in I : num[i] = num[j] => i = j
      /\ \A h \in b..(e - 1) : \E i \in I : num[i] = h
  BY DEF Numbers
<1>. DEFINE T == b..(e - 1)
            f == [i \in I |-> num[i]]
<1>1. f \in [I -> T] /\ (\A i, j \in I : f[i] = f[j] => i = j) /\ \A h \in T : \E i \in I : f[i] = h
  BY <1>0
<1>2. f \in Bijection(I, T)
  BY <1>1 DEF Bijection, Injection, Surjection, IsInjective
<1>3. ExistsBijection(I, T)
  BY <1>2 DEF ExistsBijection
<1>4. Cardinality(T) = Cardinality(I)
  BY <1>0, <1>3, FS_Bijection
<1>5. Cardinality(b..(e - 1)) = IF b > e - 1 THEN 0 ELSE (e - 1) - b + 1
  <2>1. b \in Int /\ e - 1 \in Int
    BY <1>0
  <2>. HIDE DEF T
  <2>. QED  BY ONLY <2>1, FS_Interval
<1>. QED  BY <1>0, <1>4, <1>5

\* The updates of u that are Adds, before place k.
AddsBefore(u, k) == {j \in 1..(k - 1) : u[j].EntryType = "Add"}

\* The HTLCs added by the updates u are numbered from b to e - 1.
Adding(u, b, e) ==
    /\ u \in Seq(Recs) /\ b \in Nat /\ e \in Nat /\ b <= e
    /\ \A k \in DOMAIN u : IsAdd(u[k]) => u[k].HtlcIndex \in b..(e - 1)
    /\ \A j, k \in DOMAIN u : IsAdd(u[j]) /\ IsAdd(u[k]) => (j < k <=> u[j].HtlcIndex < u[k].HtlcIndex)
    /\ \A h \in b..(e - 1) : \E k \in DOMAIN u : IsAdd(u[k]) /\ u[k].HtlcIndex = h

\* How many there are, in all and before one of them.
LEMMA AddsCounted ==
    ASSUME NEW u, NEW b, NEW e, Adding(u, b, e)
    PROVE  /\ Cardinality({k \in DOMAIN u : u[k].EntryType = "Add"}) = e - b
           /\ \A k \in DOMAIN u : IsAdd(u[k]) => Cardinality(AddsBefore(u, k)) = u[k].HtlcIndex - b
<1>0. /\ u \in Seq(Recs) /\ b \in Nat /\ e \in Nat /\ b <= e
      /\ \A k \in DOMAIN u : IsAdd(u[k]) => u[k].HtlcIndex \in b..(e - 1)
      /\ \A j, k \in DOMAIN u : IsAdd(u[j]) /\ IsAdd(u[k]) => (j < k <=> u[j].HtlcIndex < u[k].HtlcIndex)
      /\ \A h \in b..(e - 1) : \E k \in DOMAIN u : IsAdd(u[k]) /\ u[k].HtlcIndex = h
  BY DEF Adding
<1>1. DOMAIN u = 1..Len(u) /\ Len(u) \in Nat
  BY <1>0
<1>. DEFINE num == [k \in DOMAIN u |-> u[k].HtlcIndex]
            I == {k \in DOMAIN u : u[k].EntryType = "Add"}
<1>2. \A k \in DOMAIN u : (k \in I <=> IsAdd(u[k])) /\ num[k] = u[k].HtlcIndex /\ k \in Nat
  BY <1>1 DEF IsAdd
<1>3. \A j, k \in DOMAIN u : IsAdd(u[j]) /\ IsAdd(u[k]) /\ u[j].HtlcIndex = u[k].HtlcIndex => j = k
  <2>. SUFFICES ASSUME NEW j \in DOMAIN u, NEW k \in DOMAIN u, IsAdd(u[j]), IsAdd(u[k]), u[j].HtlcIndex = u[k].HtlcIndex
                PROVE  j = k
    OBVIOUS
  <2>1. u[k].HtlcIndex \in Nat
    BY <1>0
  <2>2. ~(j < k) /\ ~(k < j)
    BY <1>0, <2>1
  <2>. QED  BY <1>2, <2>2
<1>4. IsFiniteSet(1..Len(u))
  BY <1>1, FS_Interval
<1>5. Cardinality(I) = e - b
  <2>1. IsFiniteSet(I) /\ I \subseteq DOMAIN u
    BY <1>1, <1>4, FS_Subset
  <2>. HIDE DEF I, num
  <2>2. Numbers(I, num, b, e)
    <3>1. \A i \in I : num[i] \in b..(e - 1)
      BY ONLY <1>0, <1>2, <2>1
    <3>2. \A i, j \in I : num[i] = num[j] => i = j
      BY ONLY <1>2, <1>3, <2>1
    <3>3. \A h \in b..(e - 1) : \E i \in I : num[i] = h
      BY ONLY <1>0, <1>2
    <3>. QED  BY ONLY <1>0, <2>1, <3>1, <3>2, <3>3 DEF Numbers
  <2>. QED  BY ONLY <2>2, NumberedCount
<1>6. ASSUME NEW k \in DOMAIN u, IsAdd(u[k]) PROVE Cardinality(AddsBefore(u, k)) = u[k].HtlcIndex - b
  <2>. DEFINE J == AddsBefore(u, k)
              h == u[k].HtlcIndex
  <2>1. k \in 1..Len(u) /\ h \in b..(e - 1) /\ h \in Nat
    BY <1>0, <1>1, <1>6
  <2>2. \A j : j \in J <=> j \in DOMAIN u /\ IsAdd(u[j]) /\ j < k
    BY <1>1, <2>1 DEF AddsBefore, IsAdd
  <2>3. IsFiniteSet(J)
    <3>1. J \in SUBSET (1..Len(u))
      BY <1>1, <2>2
    <3>. QED  BY <1>4, <3>1, FS_Subset
  <2>. HIDE DEF J, h, num
  <2>4. Numbers(J, num, b, h)
    <3>1. \A i \in J : num[i] \in b..(h - 1)
      <4>1. \A i \in J : num[i] = u[i].HtlcIndex /\ u[i].HtlcIndex \in b..(e - 1) /\ u[i].HtlcIndex < h
        BY <1>0, <1>2, <1>6, <2>2 DEF h
      <4>. QED  BY <1>0, <2>1, <4>1
    <3>2. \A i, j \in J : num[i] = num[j] => i = j
      BY ONLY <1>2, <1>3, <2>2
    <3>3. \A g \in b..(h - 1) : \E i \in J : num[i] = g
      <4>. SUFFICES ASSUME NEW g \in b..(h - 1) PROVE \E i \in J : num[i] = g
        OBVIOUS
      <4>1. g \in b..(e - 1) /\ g < h
        BY <1>0, <2>1
      <4>2. PICK i \in DOMAIN u : IsAdd(u[i]) /\ u[i].HtlcIndex = g
        BY <1>0, <4>1
      <4>3. i < k
        BY <1>0, <1>6, <4>1, <4>2 DEF h
      <4>. QED  BY <1>2, <2>2, <4>2, <4>3
    <3>. QED  BY ONLY <1>0, <2>1, <2>3, <3>1, <3>2, <3>3 DEF Numbers
  <2>5. Cardinality(J) = h - b
    BY ONLY <2>4, NumberedCount
  <2>. QED  BY <2>5 DEF J, h
<1>. QED  BY <1>5, <1>6

-----------------------------------------------------------------------------
(* The book of a memory that is restored from disk. *)

\* The updates of K with index in first..last-1.
Between(K, first, last) == {x \in K : first <= x.LogIndex /\ x.LogIndex < last}

\* Those of our updates that are restored, and those of the peer.
OursHeld(K, d) == {x \in K.Local : ToLogUpdate(x) \in Range(d.remoteUnsigned)}
OursLoaded(K, d) ==
    LiveOn(K.Local, K.Remote, d.remote.indices.Local, d.remote.indices.Remote)
      \cup Between(K.Local, d.remote.indices.Local, TipOf(d).indices.Local)
      \cup OursHeld(K, d)
TheirsHeld(K, d) ==
    {x \in Between(K.Remote, d.remote.indices.Remote, d.local.indices.Remote) : ~IsAdd(x)}
TheirsLoaded(K, d) ==
    LiveOn(K.Remote, K.Local, d.local.indices.Remote, d.local.indices.Local) \cup TheirsHeld(K, d)

\* A book, and its indices as numbers: those of our commitment, of the peer's
\* and of the peer's newest.
Ledger(K, ix, hc, d) ==
    d \in Disks /\ K \in Books /\ ix \in Pairs /\ hc \in Pairs /\ Book(K, ix, hc, d)

\* The indices on disk are in order.
LEMMA IndicesInOrder ==
    ASSUME NEW K, NEW ix, NEW hc, NEW d, Ledger(K, ix, hc, d)
    PROVE  /\ d.local.indices.Local \in Nat /\ d.remote.indices.Local \in Nat /\ TipOf(d).indices.Local \in Nat
           /\ d.local.indices.Remote \in Nat /\ d.remote.indices.Remote \in Nat /\ TipOf(d).indices.Remote \in Nat
           /\ d.local.indices.Local <= d.remote.indices.Local /\ d.remote.indices.Local <= TipOf(d).indices.Local
           /\ d.remote.indices.Remote <= TipOf(d).indices.Remote /\ TipOf(d).indices.Remote <= d.local.indices.Remote
           /\ d.local.htlcIndex.Local \in Nat /\ d.remote.htlcIndex.Local \in Nat /\ TipOf(d).htlcIndex.Local \in Nat
           /\ d.local.htlcIndex.Remote \in Nat /\ d.remote.htlcIndex.Remote \in Nat /\ TipOf(d).htlcIndex.Remote \in Nat
           /\ d.local.htlcIndex.Local <= d.remote.htlcIndex.Local /\ d.remote.htlcIndex.Local <= TipOf(d).htlcIndex.Local
           /\ d.remote.htlcIndex.Remote <= TipOf(d).htlcIndex.Remote /\ TipOf(d).htlcIndex.Remote <= d.local.htlcIndex.Remote
           /\ TipOf(d).indices.Local <= ix.Local /\ TipOf(d).htlcIndex.Local <= hc.Local
           /\ d.local.indices.Remote <= ix.Remote /\ d.local.htlcIndex.Remote <= hc.Remote
<1>1. d \in Disks /\ K \in Books /\ ix \in Pairs /\ hc \in Pairs /\ Book(K, ix, hc, d)
  BY DEF Ledger
<1>2. Staged(d)
  BY <1>1, BookUse
<1>3. /\ d.local \in Commits(d) /\ d.remote \in Commits(d) /\ TipOf(d) \in Commits(d)
      /\ \A c \in Commits(d) :
                 /\ c.indices.Local <= ix.Local /\ c.indices.Remote <= ix.Remote
                 /\ c.htlcIndex.Local <= hc.Local /\ c.htlcIndex.Remote <= hc.Remote
                 /\ c.indices.Local \in Nat /\ c.indices.Remote \in Nat
                 /\ c.htlcIndex.Local \in Nat /\ c.htlcIndex.Remote \in Nat
  BY <1>1, BookFacts
<1>. QED  BY <1>2, <1>3 DEF Staged

\* The entries of a book, with the numbers they have.
LEMMA LedgerFacts ==
    ASSUME NEW K, NEW ix, NEW hc, NEW d, Ledger(K, ix, hc, d)
    PROVE  /\ K.Local \in SUBSET Recs /\ K.Remote \in SUBSET Recs
           /\ \A x \in K.Local : x.LogIndex \in Nat /\ x.HtlcIndex \in Nat /\ ToLogUpdate(x).LogIndex = x.LogIndex
           /\ \A x \in K.Remote : x.LogIndex \in Nat /\ x.HtlcIndex \in Nat /\ ToLogUpdate(x).LogIndex = x.LogIndex
           /\ \A x, y \in K.Local : x.LogIndex = y.LogIndex => x = y
           /\ \A x, y \in K.Remote : x.LogIndex = y.LogIndex => x = y
           /\ \A x, y \in K.Local : IsAdd(x) /\ IsAdd(y) /\ x.HtlcIndex = y.HtlcIndex => x = y
           /\ \A x, y \in K.Remote : IsAdd(x) /\ IsAdd(y) /\ x.HtlcIndex = y.HtlcIndex => x = y
           /\ \A x : ~(IsAdd(x) /\ IsRmv(x))
<1>1. d \in Disks /\ K \in Books /\ ix \in Pairs /\ hc \in Pairs /\ Book(K, ix, hc, d)
  BY DEF Ledger
<1>2. K.Local \in SUBSET Recs /\ K.Remote \in SUBSET Recs
  BY <1>1, BookFacts
<1>3. Ordered(K.Local, ix.Local, hc.Local) /\ Ordered(K.Remote, ix.Remote, hc.Remote)
  BY <1>1, BookUse
<1>4. \A x \in Recs : x.LogIndex \in Nat /\ x.HtlcIndex \in Nat /\ ToLogUpdate(x).LogIndex = x.LogIndex
  BY LogUpdateFacts DEF Recs
<1>5. ASSUME NEW A \in SUBSET Recs, NEW i, NEW h, Ordered(A, i, h)
      PROVE  /\ \A x, y \in A : x.LogIndex = y.LogIndex => x = y
             /\ \A x, y \in A : IsAdd(x) /\ IsAdd(y) /\ x.HtlcIndex = y.HtlcIndex => x = y
  <2>1. /\ \A x, y \in A : x.LogIndex = y.LogIndex => x = y
        /\ \A x, y \in A : IsAdd(x) /\ IsAdd(y) => (x.LogIndex < y.LogIndex <=> x.HtlcIndex < y.HtlcIndex)
    BY <1>5 DEF Ordered
  <2>2. \A x \in A : x.LogIndex \in Nat /\ x.HtlcIndex \in Nat
    BY <1>4, <1>5
  <2>3. ASSUME NEW x \in A, NEW y \in A, IsAdd(x), IsAdd(y), x.HtlcIndex = y.HtlcIndex PROVE x = y
    <3>1. ~(x.LogIndex < y.LogIndex) /\ ~(y.LogIndex < x.LogIndex)
      BY <2>1, <2>2, <2>3
    <3>. QED  BY <2>1, <2>2, <3>1
  <2>. QED  BY <2>1, <2>3
<1>6. \A x : ~(IsAdd(x) /\ IsRmv(x))
  BY DEF IsAdd, IsRmv
<1>7. /\ \A x, y \in K.Local : x.LogIndex = y.LogIndex => x = y
      /\ \A x, y \in K.Local : IsAdd(x) /\ IsAdd(y) /\ x.HtlcIndex = y.HtlcIndex => x = y
  <2>. DEFINE A == K.Local
              i == ix.Local
              h == hc.Local
  <2>1. A \in SUBSET Recs /\ Ordered(A, i, h)
    BY <1>2, <1>3
  <2>. HIDE DEF A, i, h
  <2>. QED  BY <1>5, <2>1 DEF A
<1>8. /\ \A x, y \in K.Remote : x.LogIndex = y.LogIndex => x = y
      /\ \A x, y \in K.Remote : IsAdd(x) /\ IsAdd(y) /\ x.HtlcIndex = y.HtlcIndex => x = y
  <2>. DEFINE A == K.Remote
              i == ix.Remote
              h == hc.Remote
  <2>1. A \in SUBSET Recs /\ Ordered(A, i, h)
    BY <1>2, <1>3
  <2>. HIDE DEF A, i, h
  <2>. QED  BY <1>5, <2>1 DEF A
<1>. QED  BY <1>2, <1>4, <1>6, <1>7, <1>8

\* Updates held on disk are in the book, in the range that is held.
LEMMA HeldFacts ==
    ASSUME NEW K, NEW ix, NEW hc, NEW d, Ledger(K, ix, hc, d)
    PROVE  /\ \A x \in OursHeld(K, d) : ~IsAdd(x) /\ d.local.indices.Local <= x.LogIndex /\ x.LogIndex < d.remote.indices.Local
           /\ \A u \in Range(d.remoteUnsigned) : \E x \in OursHeld(K, d) : u = ToLogUpdate(x)
           /\ \A x \in K.Local : /\ IsRmv(x) /\ d.local.indices.Local <= x.LogIndex /\ x.LogIndex < d.remote.indices.Local
                                 => x \in OursHeld(K, d)
<1>1. Kept(K, d)
  BY BookUse DEF Ledger
<1>2. K.Local \in SUBSET Recs
  BY LedgerFacts
<1>3. \A x \in K.Local : /\ ToLogUpdate(x).LogIndex = x.LogIndex
                         /\ IsAdd(ToLogUpdate(x)) <=> IsAdd(x)
                         /\ IsRmv(ToLogUpdate(x)) <=> IsRmv(x)
  BY <1>2, LogUpdateFacts
<1>4. /\ Range(d.remoteUnsigned) \subseteq Written(K.Local, d.local.indices.Local, d.remote.indices.Local)
      /\ \A u \in Range(d.remoteUnsigned) : ~IsAdd(u)
      /\ \A u \in Written(K.Local, d.local.indices.Local, d.remote.indices.Local) : IsRmv(u) => u \in Range(d.remoteUnsigned)
  BY <1>1 DEF Kept
<1>5. \A u : u \in Written(K.Local, d.local.indices.Local, d.remote.indices.Local) <=>
          \E x \in K.Local : u = ToLogUpdate(x) /\ d.local.indices.Local <= x.LogIndex /\ x.LogIndex < d.remote.indices.Local
  BY DEF Written
<1>6. \A x : x \in OursHeld(K, d) <=> x \in K.Local /\ ToLogUpdate(x) \in Range(d.remoteUnsigned)
  BY DEF OursHeld
<1>7. ASSUME NEW x \in OursHeld(K, d)
      PROVE  ~IsAdd(x) /\ d.local.indices.Local <= x.LogIndex /\ x.LogIndex < d.remote.indices.Local
  <2>1. x \in K.Local /\ ToLogUpdate(x) \in Range(d.remoteUnsigned)
    BY <1>6
  <2>2. PICK y \in K.Local : ToLogUpdate(x) = ToLogUpdate(y) /\ d.local.indices.Local <= y.LogIndex /\ y.LogIndex < d.remote.indices.Local
    BY ONLY <1>4, <1>5, <2>1
  <2>3. x.LogIndex = y.LogIndex
    BY <1>3, <2>1, <2>2
  <2>. QED  BY <1>3, <1>4, <2>1, <2>2, <2>3
<1>8. \A u \in Range(d.remoteUnsigned) : \E x \in OursHeld(K, d) : u = ToLogUpdate(x)
  BY ONLY <1>4, <1>5, <1>6
<1>9. \A x \in K.Local : IsRmv(x) /\ d.local.indices.Local <= x.LogIndex /\ x.LogIndex < d.remote.indices.Local => x \in OursHeld(K, d)
  BY ONLY <1>3, <1>4, <1>5, <1>6
<1>. QED  BY <1>7, <1>8, <1>9

\* What is on a commitment, as a book tells it.
LEMMA CoversUse ==
    ASSUME NEW A, NEW R, NEW ia, NEW ir, NEW ih, NEW outs, Covers(A, R, ia, ir, ih, outs)
    PROVE  /\ outs = {OutputOf(a) : a \in LiveOn(A, R, ia, ir)}
           /\ \A r \in R : \A a \in A : IsRmv(r) /\ r.LogIndex < ir /\ IsAdd(a) /\ a.HtlcIndex = r.HtlcIndex => a.LogIndex < ia
           /\ \A a \in A : IsAdd(a) => (a.LogIndex < ia <=> a.HtlcIndex < ih)
BY DEF Covers

\* The facts about a book that restoring it rests on, with A our updates, R
\* the peer's, H those of ours that are held on disk, and the indices of our
\* commitment (la, lr), of the peer's (ba, br) and of its newest (ta, tr).
Restoring(A, R, H, la, lr, ba, br, ta, tr) ==
    /\ la \in Nat /\ lr \in Nat /\ ba \in Nat /\ br \in Nat /\ ta \in Nat /\ tr \in Nat
    /\ la <= ba /\ ba <= ta /\ br <= tr /\ tr <= lr
    /\ \A x \in A : x.LogIndex \in Nat
    /\ \A x \in R : x.LogIndex \in Nat
    /\ \A x : ~(IsAdd(x) /\ IsRmv(x))
    /\ H \subseteq A /\ \A x \in H : ~IsAdd(x) /\ la <= x.LogIndex /\ x.LogIndex < ba
    /\ \A x \in A : IsRmv(x) /\ la <= x.LogIndex /\ x.LogIndex < ba => x \in H
    /\ \A r, s \in R : IsRmv(r) /\ IsRmv(s) /\ r.HtlcIndex = s.HtlcIndex => r = s
    /\ \A r, s \in A : IsRmv(r) /\ IsRmv(s) /\ r.HtlcIndex = s.HtlcIndex => r = s
    /\ \A r \in R : \A a \in A : IsRmv(r) /\ IsAdd(a) /\ a.HtlcIndex = r.HtlcIndex =>
          (r.LogIndex < lr => a.LogIndex < la) /\ (r.LogIndex < br => a.LogIndex < ba)
    /\ \A r \in A : \A a \in R : IsRmv(r) /\ IsAdd(a) /\ a.HtlcIndex = r.HtlcIndex /\ r.LogIndex < ta =>
          a.LogIndex < tr

\* A book on disk is such a book.
LEMMA LedgerRestoring ==
    ASSUME NEW K, NEW ix, NEW hc, NEW d, Ledger(K, ix, hc, d)
    PROVE  Restoring(K.Local, K.Remote, OursHeld(K, d), d.local.indices.Local, d.local.indices.Remote,
                     d.remote.indices.Local, d.remote.indices.Remote, TipOf(d).indices.Local, TipOf(d).indices.Remote)
<1>. DEFINE A == K.Local
            R == K.Remote
            H == OursHeld(K, d)
            la == d.local.indices.Local
            lr == d.local.indices.Remote
            ba == d.remote.indices.Local
            br == d.remote.indices.Remote
            ta == TipOf(d).indices.Local
            tr == TipOf(d).indices.Remote
<1>1. /\ la \in Nat /\ lr \in Nat /\ ba \in Nat /\ br \in Nat /\ ta \in Nat /\ tr \in Nat
      /\ la <= ba /\ ba <= ta /\ br <= tr /\ tr <= lr
  BY IndicesInOrder
<1>2. /\ \A x \in A : x.LogIndex \in Nat
      /\ \A x \in R : x.LogIndex \in Nat
      /\ \A x : ~(IsAdd(x) /\ IsRmv(x))
  BY LedgerFacts
<1>3. /\ \A x \in H : ~IsAdd(x) /\ la <= x.LogIndex /\ x.LogIndex < ba
      /\ \A x \in A : IsRmv(x) /\ la <= x.LogIndex /\ x.LogIndex < ba => x \in H
  BY HeldFacts
<1>4. H \subseteq A
  BY DEF OursHeld
<1>5. d \in Disks /\ K \in Books /\ ix \in Pairs /\ hc \in Pairs /\ Book(K, ix, hc, d)
  BY DEF Ledger
<1>6. /\ \A r, s \in R : IsRmv(r) /\ IsRmv(s) /\ r.HtlcIndex = s.HtlcIndex => r = s
      /\ \A r, s \in A : IsRmv(r) /\ IsRmv(s) /\ r.HtlcIndex = s.HtlcIndex => r = s
  <2>1. Matched(A, R) /\ Matched(R, A)
    BY <1>5, BookUse
  <2>. QED  BY <2>1 DEF Matched
<1>7. /\ d.local \in Commits(d) /\ d.remote \in Commits(d) /\ TipOf(d) \in Commits(d)
      /\ \A c \in Commits(d) :
            /\ Covers(A, R, c.indices.Local, c.indices.Remote, c.htlcIndex.Local, c.outputs.Local)
            /\ Covers(R, A, c.indices.Remote, c.indices.Local, c.htlcIndex.Remote, c.outputs.Remote)
  BY <1>5, BookFacts
<1>8. \A r \in R : \A a \in A : IsRmv(r) /\ IsAdd(a) /\ a.HtlcIndex = r.HtlcIndex =>
          (r.LogIndex < lr => a.LogIndex < la) /\ (r.LogIndex < br => a.LogIndex < ba)
  <2>1. /\ Covers(A, R, la, lr, d.local.htlcIndex.Local, d.local.outputs.Local)
        /\ Covers(A, R, ba, br, d.remote.htlcIndex.Local, d.remote.outputs.Local)
    BY <1>7
  <2>. HIDE DEF A, R, la, lr, ba, br
  <2>. QED  BY <2>1 DEF Covers
<1>9. \A r \in A : \A a \in R : IsRmv(r) /\ IsAdd(a) /\ a.HtlcIndex = r.HtlcIndex /\ r.LogIndex < ta =>
          a.LogIndex < tr
  <2>1. Covers(R, A, tr, ta, TipOf(d).htlcIndex.Remote, TipOf(d).outputs.Remote)
    BY <1>7
  <2>. HIDE DEF A, R, ta, tr
  <2>. QED  BY <2>1 DEF Covers
<1>. HIDE DEF A, R, H, la, lr, ba, br, ta, tr
<1>10. Restoring(A, R, H, la, lr, ba, br, ta, tr)
  BY ONLY <1>1, <1>2, <1>3, <1>4, <1>6, <1>8, <1>9 DEF Restoring
<1>. QED  BY <1>10 DEF A, R, H, la, lr, ba, br, ta, tr

\* The two sides that are restored.
OursOf(A, R, H, ba, br, ta) == LiveOn(A, R, ba, br) \cup Between(A, ba, ta) \cup H
TheirsOf(A, R, la, lr, br) == LiveOn(R, A, lr, la) \cup {x \in Between(R, br, lr) : ~IsAdd(x)}

\* What is left out of our updates, and that no removal loses its Add.
LEMMA OursKept ==
    ASSUME NEW A, NEW R, NEW H, NEW la, NEW lr, NEW ba, NEW br, NEW ta, NEW tr,
           Restoring(A, R, H, la, lr, ba, br, ta, tr), NEW B, NEW S,
           B = OursOf(A, R, H, ba, br, ta), S = TheirsOf(A, R, la, lr, br)
    PROVE  /\ B \subseteq A /\ \A x \in B : x.LogIndex < ta
           /\ \A x \in A \ B : x.LogIndex < ta =>
                 /\ x.LogIndex < ba
                 /\ IsRmv(x) => x.LogIndex < la
                 /\ IsAdd(x) => Gone(R, x.HtlcIndex, br)
           /\ \A r \in S : \A a \in A : IsRmv(r) /\ IsAdd(a) /\ a.HtlcIndex = r.HtlcIndex => a \in B /\ a.LogIndex < la /\ a \in LiveOn(A, R, ba, br)
           /\ \A a \in B : \A r \in R \ S : IsRmv(r) /\ IsAdd(a) /\ a.HtlcIndex = r.HtlcIndex => r.LogIndex >= lr
<1>. USE DEF Restoring
<1>1. \A x : x \in B <=> x \in A /\ (\/ IsAdd(x) /\ x.LogIndex < ba /\ ~Gone(R, x.HtlcIndex, br)
                                     \/ ba <= x.LogIndex /\ x.LogIndex < ta
                                     \/ x \in H)
  BY DEF OursOf, LiveOn, Between
<1>2. \A x : IsRmv(x) => (x \in S <=> x \in R /\ br <= x.LogIndex /\ x.LogIndex < lr)
  BY DEF TheirsOf, LiveOn, Between
<1>3. B \subseteq A /\ \A x \in B : x.LogIndex < ta
  BY <1>1
<1>4. ASSUME NEW x \in A, x \notin B, x.LogIndex < ta
      PROVE  /\ x.LogIndex < ba
             /\ IsRmv(x) => x.LogIndex < la
             /\ IsAdd(x) => Gone(R, x.HtlcIndex, br)
  BY <1>1, <1>4
<1>5. ASSUME NEW r \in S, NEW a \in A, IsRmv(r), IsAdd(a), a.HtlcIndex = r.HtlcIndex
      PROVE  a \in B /\ a.LogIndex < la /\ a \in LiveOn(A, R, ba, br)
  <2>1. r \in R /\ br <= r.LogIndex /\ r.LogIndex < lr
    BY <1>2, <1>5
  <2>2. a.LogIndex < la /\ a.LogIndex < ba
    BY <1>5, <2>1
  <2>3. ~Gone(R, a.HtlcIndex, br)
    BY <1>5, <2>1 DEF Gone
  <2>. QED  BY <1>1, <1>5, <2>2, <2>3 DEF LiveOn
<1>6. ASSUME NEW a \in B, NEW r \in R, r \notin S, IsRmv(r), IsAdd(a), a.HtlcIndex = r.HtlcIndex, ~(r.LogIndex >= lr)
      PROVE  FALSE
  <2>1. r.LogIndex < br
    BY <1>2, <1>6
  <2>2. Gone(R, a.HtlcIndex, br)
    BY <1>6, <2>1 DEF Gone
  <2>3. a \in A /\ a.LogIndex < ba
    BY <1>3, <1>6, <2>1
  <2>. QED  BY <1>1, <1>6, <2>2, <2>3
<1>. QED  BY <1>3, <1>4, <1>5, <1>6

\* The same for the peer's.
LEMMA TheirsKept ==
    ASSUME NEW A, NEW R, NEW H, NEW la, NEW lr, NEW ba, NEW br, NEW ta, NEW tr,
           Restoring(A, R, H, la, lr, ba, br, ta, tr), NEW B, NEW S,
           B = OursOf(A, R, H, ba, br, ta), S = TheirsOf(A, R, la, lr, br)
    PROVE  /\ S \subseteq R /\ \A x \in S : x.LogIndex < lr
           /\ \A x \in R \ S : x.LogIndex < lr =>
                 /\ ~IsAdd(x) => x.LogIndex < br
                 /\ IsAdd(x) => Gone(A, x.HtlcIndex, la)
           /\ \A r \in B : \A a \in R : IsRmv(r) /\ IsAdd(a) /\ a.HtlcIndex = r.HtlcIndex => a \in S /\ a \in LiveOn(R, A, lr, la)
           /\ \A a \in S : \A r \in A \ B : IsRmv(r) /\ IsAdd(a) /\ a.HtlcIndex = r.HtlcIndex => r.LogIndex >= ta
<1>. USE DEF Restoring
<1>1. \A x : IsRmv(x) => (x \in B <=> x \in A /\ ((ba <= x.LogIndex /\ x.LogIndex < ta) \/ x \in H))
  BY DEF OursOf, LiveOn, Between
<1>2. \A x : x \in S <=> x \in R /\ (\/ IsAdd(x) /\ x.LogIndex < lr /\ ~Gone(A, x.HtlcIndex, la)
                                     \/ ~IsAdd(x) /\ br <= x.LogIndex /\ x.LogIndex < lr)
  BY DEF TheirsOf, LiveOn, Between
<1>3. S \subseteq R /\ \A x \in S : x.LogIndex < lr
  BY <1>2
<1>4. ASSUME NEW x \in R, x \notin S, x.LogIndex < lr
      PROVE  /\ ~IsAdd(x) => x.LogIndex < br
             /\ IsAdd(x) => Gone(A, x.HtlcIndex, la)
  BY <1>2, <1>4
<1>5. ASSUME NEW r \in B, NEW a \in R, IsRmv(r), IsAdd(a), a.HtlcIndex = r.HtlcIndex
      PROVE  a \in S /\ a \in LiveOn(R, A, lr, la)
  <2>1. r \in A /\ la <= r.LogIndex /\ r.LogIndex < ta
    BY <1>1, <1>5
  <2>2. a.LogIndex < lr
    BY <1>5, <2>1
  <2>3. ~Gone(A, a.HtlcIndex, la)
    BY <1>5, <2>1 DEF Gone
  <2>. QED  BY <1>2, <1>5, <2>2, <2>3 DEF LiveOn
<1>6. ASSUME NEW a \in S, NEW r \in A, r \notin B, IsRmv(r), IsAdd(a), a.HtlcIndex = r.HtlcIndex, ~(r.LogIndex >= ta)
      PROVE  FALSE
  <2>1. r.LogIndex < la
    BY <1>1, <1>6
  <2>2. Gone(A, a.HtlcIndex, la)
    BY <1>6, <2>1 DEF Gone
  <2>. QED  BY <1>2, <1>6, <2>2
<1>. QED  BY <1>3, <1>4, <1>5, <1>6

\* The book that is restored.
LEMMA BookLoaded ==
    ASSUME NEW K, NEW ix, NEW hc, NEW d, Ledger(K, ix, hc, d), NEW L, NEW jx, NEW jc,
           L \in Books, L.Local = OursLoaded(K, d), L.Remote = TheirsLoaded(K, d),
           jx \in Pairs, jx.Local = TipOf(d).indices.Local, jx.Remote = d.local.indices.Remote,
           jc \in Pairs, jc.Local = TipOf(d).htlcIndex.Local, jc.Remote = d.local.htlcIndex.Remote
    PROVE  Book(L, jx, jc, d)
<1>. DEFINE A == K.Local
            R == K.Remote
            H == OursHeld(K, d)
            B == L.Local
            S == L.Remote
            la == d.local.indices.Local
            lr == d.local.indices.Remote
            ba == d.remote.indices.Local
            br == d.remote.indices.Remote
            ta == TipOf(d).indices.Local
            tr == TipOf(d).indices.Remote
<1>1. d \in Disks /\ K \in Books /\ ix \in Pairs /\ hc \in Pairs /\ Book(K, ix, hc, d)
  BY DEF Ledger
<1>2. Restoring(A, R, H, la, lr, ba, br, ta, tr)
  BY LedgerRestoring
<1>3. B = OursOf(A, R, H, ba, br, ta) /\ S = TheirsOf(A, R, la, lr, br)
  BY DEF OursLoaded, TheirsLoaded, TheirsHeld, OursOf, TheirsOf
<1>4. /\ la \in Nat /\ lr \in Nat /\ ba \in Nat /\ br \in Nat /\ ta \in Nat /\ tr \in Nat
      /\ la <= ba /\ ba <= ta /\ br <= tr /\ tr <= lr
      /\ \A x \in A : x.LogIndex \in Nat
      /\ \A x \in R : x.LogIndex \in Nat
      /\ \A x : ~(IsAdd(x) /\ IsRmv(x))
  BY ONLY <1>2 DEF Restoring
<1>5. Commits(d) = {d.local, d.remote, TipOf(d)}
  BY DEF Commits
<1>6. /\ d.local.htlcIndex.Local \in Nat /\ d.remote.htlcIndex.Local \in Nat /\ TipOf(d).htlcIndex.Local \in Nat
      /\ d.local.htlcIndex.Remote \in Nat /\ d.remote.htlcIndex.Remote \in Nat /\ TipOf(d).htlcIndex.Remote \in Nat
      /\ d.local.htlcIndex.Local <= d.remote.htlcIndex.Local /\ d.remote.htlcIndex.Local <= TipOf(d).htlcIndex.Local
      /\ d.remote.htlcIndex.Remote <= TipOf(d).htlcIndex.Remote /\ TipOf(d).htlcIndex.Remote <= d.local.htlcIndex.Remote
      /\ ta <= ix.Local /\ TipOf(d).htlcIndex.Local <= hc.Local
      /\ d.local.htlcIndex.Remote <= hc.Remote
  BY IndicesInOrder
<1>7. \A c \in Commits(d) : /\ c.indices.Local <= jx.Local /\ c.htlcIndex.Local <= jc.Local
                            /\ c.indices.Remote <= jx.Remote /\ c.htlcIndex.Remote <= jc.Remote
  BY <1>4, <1>5, <1>6
<1>8. /\ Covers(A, R, ta, tr, TipOf(d).htlcIndex.Local, TipOf(d).outputs.Local)
      /\ Covers(R, A, lr, la, d.local.htlcIndex.Remote, d.local.outputs.Remote)
  BY <1>1, BookFacts
<1>9. /\ \A a \in A : IsAdd(a) => (a.LogIndex < ta <=> a.HtlcIndex < jc.Local)
      /\ \A a \in R : IsAdd(a) => (a.LogIndex < lr <=> a.HtlcIndex < jc.Remote)
  BY <1>8 DEF Covers
<1>10. jx.Local = ta /\ jx.Remote = lr
  OBVIOUS
<1>11. /\ \A x : x < la /\ x \in Nat => \A c \in Commits(d) : x < c.indices.Local
       /\ \A x : x < br /\ x \in Nat => \A c \in Commits(d) : x < c.indices.Remote
  BY <1>4, <1>5
<1>12. d.remote.indices["Local"] = ba /\ d.remote.indices["Remote"] = br
  OBVIOUS
<1>. HIDE DEF A, R, H, B, S, la, lr, ba, br, ta, tr
<1>13. Prunes(A, R, B, S, jx.Local, jx.Remote, jc.Local, "Local", d)
  <2>1. /\ B \subseteq A /\ \A x \in B : x.LogIndex < ta
        /\ \A x \in A \ B : x.LogIndex < ta =>
              /\ x.LogIndex < ba
              /\ IsRmv(x) => x.LogIndex < la
              /\ IsAdd(x) => Gone(R, x.HtlcIndex, br)
        /\ \A r \in S : \A a \in A : IsRmv(r) /\ IsAdd(a) /\ a.HtlcIndex = r.HtlcIndex => a \in B
        /\ \A a \in B : \A r \in R \ S : IsRmv(r) /\ IsAdd(a) /\ a.HtlcIndex = r.HtlcIndex => r.LogIndex >= lr
    BY ONLY <1>2, <1>3, OursKept
  <2>2. \A x \in A \ B : x.LogIndex < ta => Spent(x, "Local", R, d)
    <3>. SUFFICES ASSUME NEW x \in A, x \notin B, x.LogIndex < ta PROVE Spent(x, "Local", R, d)
      OBVIOUS
    <3>1. CASE IsAdd(x)
      <4>1. PICK r \in R : IsRmv(r) /\ r.HtlcIndex = x.HtlcIndex /\ r.LogIndex < br
        BY <2>1, <3>1 DEF Gone
      <4>2. \A c \in Commits(d) : r.LogIndex < c.indices.Remote
        BY <1>4, <1>11, <4>1
      <4>. QED  BY <3>1, <4>1, <4>2, Parties DEF Spent
    <3>2. CASE IsRmv(x)
      <4>1. \A c \in Commits(d) : x.LogIndex < c.indices.Local
        BY <1>4, <1>11, <2>1, <3>2
      <4>. QED  BY <3>2, <4>1 DEF Spent
    <3>3. CASE ~IsAdd(x) /\ ~IsRmv(x)
      BY <1>12, <2>1, <3>3 DEF Spent
    <3>. QED  BY <3>1, <3>2, <3>3
  <2>. QED  BY ONLY <1>9, <1>10, <2>1, <2>2 DEF Prunes
<1>14. Prunes(R, A, S, B, jx.Remote, jx.Local, jc.Remote, "Remote", d)
  <2>1. /\ S \subseteq R /\ \A x \in S : x.LogIndex < lr
        /\ \A x \in R \ S : x.LogIndex < lr =>
              /\ ~IsAdd(x) => x.LogIndex < br
              /\ IsAdd(x) => Gone(A, x.HtlcIndex, la)
        /\ \A r \in B : \A a \in R : IsRmv(r) /\ IsAdd(a) /\ a.HtlcIndex = r.HtlcIndex => a \in S
        /\ \A a \in S : \A r \in A \ B : IsRmv(r) /\ IsAdd(a) /\ a.HtlcIndex = r.HtlcIndex => r.LogIndex >= ta
    BY ONLY <1>2, <1>3, TheirsKept
  <2>2. \A x \in R \ S : x.LogIndex < lr => Spent(x, "Remote", A, d)
    <3>. SUFFICES ASSUME NEW x \in R, x \notin S, x.LogIndex < lr PROVE Spent(x, "Remote", A, d)
      OBVIOUS
    <3>1. CASE IsAdd(x)
      <4>1. PICK r \in A : IsRmv(r) /\ r.HtlcIndex = x.HtlcIndex /\ r.LogIndex < la
        BY <2>1, <3>1 DEF Gone
      <4>2. \A c \in Commits(d) : r.LogIndex < c.indices.Local
        BY <1>4, <1>11, <4>1
      <4>. QED  BY <3>1, <4>1, <4>2, Parties DEF Spent
    <3>2. CASE IsRmv(x)
      <4>1. \A c \in Commits(d) : x.LogIndex < c.indices.Remote
        BY <1>4, <1>11, <2>1, <3>2
      <4>. QED  BY <3>2, <4>1 DEF Spent
    <3>3. CASE ~IsAdd(x) /\ ~IsRmv(x)
      BY <1>12, <2>1, <3>3 DEF Spent
    <3>. QED  BY <3>1, <3>2, <3>3
  <2>. QED  BY ONLY <1>9, <1>10, <2>1, <2>2 DEF Prunes
<1>15. \A x \in A \ B : ~IsAdd(x) /\ ~IsRmv(x) => ToLogUpdate(x) \notin Range(d.remoteUnsigned)
  BY <1>3 DEF OursOf, OursHeld, H, A
<1>16. jx.Local <= ix.Local /\ jc.Local <= hc.Local /\ jc.Remote <= hc.Remote
  BY <1>6, <1>10
<1>17. /\ Prunes(K.Local, K.Remote, L.Local, L.Remote, jx.Local, jx.Remote, jc.Local, "Local", d)
       /\ Prunes(K.Remote, K.Local, L.Remote, L.Local, jx.Remote, jx.Local, jc.Remote, "Remote", d)
       /\ \A x \in K.Local \ L.Local : ~IsAdd(x) /\ ~IsRmv(x) => ToLogUpdate(x) \notin Range(d.remoteUnsigned)
  BY ONLY <1>13, <1>14, <1>15 DEF A, R, B, S
<1>18. L \in Books /\ jx \in Pairs /\ jc \in Pairs
  OBVIOUS
<1>. QED  BY ONLY <1>1, <1>7, <1>16, <1>17, <1>18, BookPruned

\* The updates u are those of X, as they are written.
Lists(u, X) ==
    /\ u \in Seq(Recs) /\ X \in SUBSET Recs /\ Distinct(u)
    /\ \A k \in DOMAIN u : \E x \in X : u[k] = ToLogUpdate(x)
    /\ \A x \in X : ToLogUpdate(x) \in Range(u)

\* The HTLCs that updates remove.
LEMMA RemovedFacts ==
    ASSUME NEW u, NEW X, Lists(u, X), NEW h
    PROVE  h \in RemovedBy(u) <=> \E x \in X : IsRmv(x) /\ x.HtlcIndex = h
<1>0. /\ u \in Seq(Recs) /\ X \in SUBSET Recs
      /\ \A k \in DOMAIN u : \E x \in X : u[k] = ToLogUpdate(x)
      /\ \A x \in X : ToLogUpdate(x) \in Range(u)
  BY DEF Lists
<1>1. \A v \in Range(u) : \E x \in X : v = ToLogUpdate(x)
  BY <1>0 DEF Range
<1>2. \A x \in X : ToLogUpdate(x).HtlcIndex = x.HtlcIndex /\ (IsRmv(ToLogUpdate(x)) <=> IsRmv(x))
  BY <1>0, LogUpdateFacts
<1>3. h \in RemovedBy(u) <=> \E v \in Range(u) : IsRmv(v) /\ v.HtlcIndex = h
  BY DEF RemovedBy, IsRmv
<1>. QED  BY ONLY <1>0, <1>1, <1>2, <1>3

\* What is on disk of the peer's updates: those our commitment has and the
\* peer's oldest has not.
LEMMA AckedFacts ==
    ASSUME NEW K, NEW ix, NEW hc, NEW d, Ledger(K, ix, hc, d)
    PROVE  Lists(d.unsignedAcked, Between(K.Remote, d.remote.indices.Remote, d.local.indices.Remote))
<1>1. d \in Disks /\ Kept(K, d) /\ K.Remote \in SUBSET Recs
  BY BookUse, LedgerFacts DEF Ledger
<1>. DEFINE u == d.unsignedAcked
            X == Between(K.Remote, d.remote.indices.Remote, d.local.indices.Remote)
<1>2. u \in Seq(Recs) /\ X \in SUBSET Recs
  BY <1>1 DEF Disks, Between
<1>3. Distinct(u) /\ Range(u) = {ToLogUpdate(x) : x \in X}
  BY <1>1 DEF Kept, Written, Between
<1>. HIDE DEF u, X
<1>4. \A k \in DOMAIN u : u[k] \in Range(u)
  BY DEF Range
<1>5. Lists(u, X)
  BY ONLY <1>2, <1>3, <1>4 DEF Lists
<1>. QED  BY <1>5 DEF u, X

\* What is on disk of our updates the peer has still to sign.
LEMMA HeldLists ==
    ASSUME NEW K, NEW ix, NEW hc, NEW d, Ledger(K, ix, hc, d)
    PROVE  Lists(d.remoteUnsigned, OursHeld(K, d))
<1>1. d \in Disks /\ Kept(K, d) /\ K.Local \in SUBSET Recs
  BY BookUse, LedgerFacts DEF Ledger
<1>. DEFINE u == d.remoteUnsigned
            X == OursHeld(K, d)
<1>2. u \in Seq(Recs) /\ X \in SUBSET Recs /\ Distinct(u)
  BY <1>1 DEF Disks, OursHeld, Kept
<1>3. (\A v \in Range(u) : \E x \in X : v = ToLogUpdate(x)) /\ \A x \in X : ToLogUpdate(x) \in Range(u)
  BY HeldFacts DEF OursHeld
<1>. HIDE DEF u, X
<1>4. \A k \in DOMAIN u : u[k] \in Range(u)
  BY DEF Range
<1>5. Lists(u, X)
  BY ONLY <1>2, <1>3, <1>4 DEF Lists
<1>. QED  BY <1>5 DEF u, X

\* What is on disk of the pending commitment's updates.
LEMMA PendingFacts ==
    ASSUME NEW K, NEW ix, NEW hc, NEW d, Ledger(K, ix, hc, d)
    PROVE  /\ Lists(Pending(d), Between(K.Local, d.remote.indices.Local, TipOf(d).indices.Local))
           /\ Len(Pending(d)) = TipOf(d).indices.Local - d.remote.indices.Local
           /\ \A k \in DOMAIN Pending(d) : Pending(d)[k].LogIndex = d.remote.indices.Local + k - 1
           /\ Adding(Pending(d), d.remote.htlcIndex.Local, TipOf(d).htlcIndex.Local)
<1>. DEFINE u == Pending(d)
            A == K.Local
            ba == d.remote.indices.Local
            ta == TipOf(d).indices.Local
            bh == d.remote.htlcIndex.Local
            th == TipOf(d).htlcIndex.Local
            X == Between(A, ba, ta)
            h == hc.Local
<1>1. /\ d \in Disks /\ K \in Books /\ ix \in Pairs /\ hc \in Pairs /\ Book(K, ix, hc, d)
      /\ Kept(K, d) /\ A \in SUBSET Recs /\ Ordered(A, ix.Local, hc.Local) /\ Complete(K, ix, hc, d)
  BY BookUse, LedgerFacts DEF Ledger
<1>2. /\ ba \in Nat /\ ta \in Nat /\ bh \in Nat /\ th \in Nat /\ ba <= ta /\ bh <= th /\ th <= h /\ h \in Nat
  <2>1. hc.Local \in Nat
    BY <1>1, BookFacts
  <2>. QED  BY <2>1, IndicesInOrder
<1>3. \A x \in A : x.LogIndex \in Nat /\ x.HtlcIndex \in Nat /\ ToLogUpdate(x).LogIndex = x.LogIndex
  BY LedgerFacts
<1>4. /\ u \in Seq(Recs) /\ Len(u) = ta - ba /\ \A k \in DOMAIN u : u[k].LogIndex = ba + k - 1
      /\ Range(u) = Written(A, ba, ta)
  <2>1. CASE d.diff = NoDiff
    <3>1. u = <<>> /\ ta = ba
      BY <2>1 DEF Pending, TipOf
    <3>2. Range(u) = {}
      BY <3>1 DEF Range
    <3>3. Written(A, ba, ta) = {}
      BY <1>2, <1>3, <3>1 DEF Written
    <3>4. u \in Seq(Recs) /\ Len(u) = 0 /\ DOMAIN u = {}
      BY <3>1
    <3>. QED  BY <1>2, <3>1, <3>2, <3>3, <3>4
  <2>2. CASE d.diff # NoDiff
    <3>1. u = d.diff.updates /\ ta = d.diff.commit.indices.Local
      BY <2>2 DEF Pending, TipOf
    <3>2. u \in Seq(Recs)
      <4>1. d.diff \in Diffs
        BY <1>1, <2>2 DEF Disks
      <4>. QED  BY <3>1, <4>1 DEF Diffs
    <3>. QED  BY <1>1, <2>2, <3>1, <3>2 DEF Kept
  <2>. QED  BY <2>1, <2>2
<1>5. X \in SUBSET Recs /\ Range(u) = {ToLogUpdate(x) : x \in X}
  BY <1>1, <1>4 DEF Written, Between
<1>6. \A x : x \in X <=> x \in A /\ ba <= x.LogIndex /\ x.LogIndex < ta
  BY DEF Between
<1>7. /\ \A a \in A : IsAdd(a) => (a.LogIndex < ba <=> a.HtlcIndex < bh)
      /\ \A a \in A : IsAdd(a) => (a.LogIndex < ta <=> a.HtlcIndex < th)
  <2>1. /\ Covers(A, K.Remote, ba, d.remote.indices.Remote, bh, d.remote.outputs.Local)
        /\ Covers(A, K.Remote, ta, TipOf(d).indices.Remote, th, TipOf(d).outputs.Local)
    BY <1>1, BookFacts
  <2>. QED  BY <2>1 DEF Covers
<1>8. \A i \in bh..(h - 1) : \E x \in A : IsAdd(x) /\ x.HtlcIndex = i
  BY <1>1, CompleteUse
<1>9. \A x, y \in A : IsAdd(x) /\ IsAdd(y) => (x.LogIndex < y.LogIndex <=> x.HtlcIndex < y.HtlcIndex)
  BY <1>1 DEF Ordered
<1>10. \A x \in A : ToLogUpdate(x).HtlcIndex = x.HtlcIndex /\ (IsAdd(ToLogUpdate(x)) <=> IsAdd(x))
  BY <1>1, LogUpdateFacts
<1>. HIDE DEF u, A, ba, ta, bh, th, X, h
<1>11. \A k \in DOMAIN u : u[k] \in Range(u) /\ k \in Nat
  BY <1>4 DEF Range
<1>12. \A k \in DOMAIN u : \E x \in X : u[k] = ToLogUpdate(x)
  BY ONLY <1>5, <1>11
<1>13. Distinct(u)
  BY ONLY <1>2, <1>4, <1>11 DEF Distinct
<1>14. Lists(u, X)
  BY ONLY <1>4, <1>5, <1>12, <1>13 DEF Lists
<1>15. \A k \in DOMAIN u : \E x \in A : /\ ba <= x.LogIndex /\ x.LogIndex < ta /\ x.LogIndex = ba + k - 1
                                        /\ u[k].HtlcIndex = x.HtlcIndex
                                        /\ IsAdd(u[k]) <=> IsAdd(x)
  BY ONLY <1>3, <1>4, <1>6, <1>10, <1>12
<1>16. \A k \in DOMAIN u : IsAdd(u[k]) => u[k].HtlcIndex \in bh..(th - 1)
  BY ONLY <1>2, <1>3, <1>7, <1>15
<1>17. \A j, k \in DOMAIN u : IsAdd(u[j]) /\ IsAdd(u[k]) => (j < k <=> u[j].HtlcIndex < u[k].HtlcIndex)
  <2>. SUFFICES ASSUME NEW j \in DOMAIN u, NEW k \in DOMAIN u, IsAdd(u[j]), IsAdd(u[k])
                PROVE  j < k <=> u[j].HtlcIndex < u[k].HtlcIndex
    OBVIOUS
  <2>1. PICK x \in A : x.LogIndex = ba + j - 1 /\ u[j].HtlcIndex = x.HtlcIndex /\ IsAdd(x)
    BY <1>15
  <2>2. PICK y \in A : y.LogIndex = ba + k - 1 /\ u[k].HtlcIndex = y.HtlcIndex /\ IsAdd(y)
    BY <1>15
  <2>3. j < k <=> x.LogIndex < y.LogIndex
    BY ONLY <1>2, <1>11, <2>1, <2>2, j \in DOMAIN u, k \in DOMAIN u
  <2>. QED  BY <1>9, <2>1, <2>2, <2>3
<1>18. \A i \in bh..(th - 1) : \E k \in DOMAIN u : IsAdd(u[k]) /\ u[k].HtlcIndex = i
  <2>. SUFFICES ASSUME NEW i \in bh..(th - 1) PROVE \E k \in DOMAIN u : IsAdd(u[k]) /\ u[k].HtlcIndex = i
    OBVIOUS
  <2>1. i \in bh..(h - 1) /\ ~(i < bh) /\ i < th
    BY <1>2
  <2>2. PICK x \in A : IsAdd(x) /\ x.HtlcIndex = i
    BY <1>8, <2>1
  <2>3. x \in X
    BY <1>2, <1>3, <1>6, <1>7, <2>1, <2>2
  <2>4. ToLogUpdate(x) \in Range(u)
    BY <1>5, <2>3
  <2>5. PICK k \in DOMAIN u : u[k] = ToLogUpdate(x)
    BY <2>4 DEF Range
  <2>. QED  BY <1>10, <2>2, <2>5
<1>19. Adding(u, bh, th)
  BY ONLY <1>2, <1>4, <1>16, <1>17, <1>18 DEF Adding
<1>. QED  BY <1>4, <1>14, <1>19 DEF u, A, ba, ta, bh, th, X

\* The HTLCs that are read back are the outputs of the two commitments.
LEMMA LoadedOuts ==
    ASSUME NEW K, NEW ix, NEW hc, NEW d, Ledger(K, ix, hc, d)
    PROVE  /\ d.local.outputs.Remote =
                {OutputOf(a) : a \in LiveOn(K.Remote, K.Local, d.local.indices.Remote, d.local.indices.Local)}
           /\ d.remote.outputs.Local =
                {OutputOf(a) : a \in LiveOn(K.Local, K.Remote, d.remote.indices.Local, d.remote.indices.Remote)}
<1>1. d \in Disks /\ K \in Books /\ ix \in Pairs /\ hc \in Pairs /\ Book(K, ix, hc, d)
  BY DEF Ledger
<1>2. /\ Covers(K.Remote, K.Local, d.local.indices.Remote, d.local.indices.Local, d.local.htlcIndex.Remote, d.local.outputs.Remote)
      /\ Covers(K.Local, K.Remote, d.remote.indices.Local, d.remote.indices.Remote, d.remote.htlcIndex.Local, d.remote.outputs.Local)
  BY <1>1, BookFacts
<1>. QED  BY <1>2, CoversUse

\* A removal that is read back is of an HTLC that is.
LEMMA LoadedParents ==
    ASSUME NEW K, NEW ix, NEW hc, NEW d, Ledger(K, ix, hc, d)
    PROVE  /\ \A x \in OursLoaded(K, d) : IsRmv(x) =>
                 \E a \in LiveOn(K.Remote, K.Local, d.local.indices.Remote, d.local.indices.Local) :
                     IsAdd(a) /\ a.HtlcIndex = x.HtlcIndex /\ a.Amount = x.Amount
           /\ \A x \in TheirsLoaded(K, d) : IsRmv(x) =>
                 \E a \in LiveOn(K.Local, K.Remote, d.remote.indices.Local, d.remote.indices.Remote) :
                     /\ IsAdd(a) /\ a.HtlcIndex = x.HtlcIndex /\ a.Amount = x.Amount
                     /\ a.LogIndex < d.local.indices.Local
<1>. DEFINE A == K.Local
            R == K.Remote
            H == OursHeld(K, d)
            B == OursLoaded(K, d)
            S == TheirsLoaded(K, d)
            la == d.local.indices.Local
            lr == d.local.indices.Remote
            ba == d.remote.indices.Local
            br == d.remote.indices.Remote
            ta == TipOf(d).indices.Local
            tr == TipOf(d).indices.Remote
<1>1. d \in Disks /\ K \in Books /\ ix \in Pairs /\ hc \in Pairs /\ Book(K, ix, hc, d)
  BY DEF Ledger
<1>2. Restoring(A, R, H, la, lr, ba, br, ta, tr)
  BY LedgerRestoring
<1>3. B = OursOf(A, R, H, ba, br, ta) /\ S = TheirsOf(A, R, la, lr, br)
  BY DEF OursLoaded, TheirsLoaded, TheirsHeld, OursOf, TheirsOf
<1>4. Matched(A, R) /\ Matched(R, A)
  BY <1>1, BookUse
<1>. HIDE DEF A, R, H, B, S, la, lr, ba, br, ta, tr
<1>5. /\ B \subseteq A
      /\ \A r \in S : \A a \in A : IsRmv(r) /\ IsAdd(a) /\ a.HtlcIndex = r.HtlcIndex => a.LogIndex < la /\ a \in LiveOn(A, R, ba, br)
  BY ONLY <1>2, <1>3, OursKept
<1>6. /\ S \subseteq R
      /\ \A r \in B : \A a \in R : IsRmv(r) /\ IsAdd(a) /\ a.HtlcIndex = r.HtlcIndex => a \in LiveOn(R, A, lr, la)
  BY ONLY <1>2, <1>3, TheirsKept
<1>7. /\ \A r \in R : IsRmv(r) => \E a \in A : IsAdd(a) /\ a.HtlcIndex = r.HtlcIndex /\ a.Amount = r.Amount
      /\ \A r \in A : IsRmv(r) => \E a \in R : IsAdd(a) /\ a.HtlcIndex = r.HtlcIndex /\ a.Amount = r.Amount
  BY ONLY <1>4 DEF Matched
<1>8. \A x \in B : IsRmv(x) =>
          \E a \in LiveOn(R, A, lr, la) : IsAdd(a) /\ a.HtlcIndex = x.HtlcIndex /\ a.Amount = x.Amount
  BY ONLY <1>5, <1>6, <1>7
<1>9. \A x \in S : IsRmv(x) =>
          \E a \in LiveOn(A, R, ba, br) : IsAdd(a) /\ a.HtlcIndex = x.HtlcIndex /\ a.Amount = x.Amount /\ a.LogIndex < la
  BY ONLY <1>5, <1>6, <1>7
<1>. QED  BY ONLY <1>8, <1>9 DEF A, R, B, S, la, lr, ba, br

\* A book that is on disk can be read back.
LEMMA LedgerRestorable ==
    ASSUME NEW K, NEW ix, NEW hc, NEW d, Ledger(K, ix, hc, d)
    PROVE  Restorable(d)
<1>. DEFINE u == Pending(d)
            ba == d.remote.indices.Local
            bh == d.remote.htlcIndex.Local
            th == TipOf(d).htlcIndex.Local
            X == Between(K.Local, ba, TipOf(d).indices.Local)
            Y == OursHeld(K, d)
            Z == Between(K.Remote, d.remote.indices.Remote, d.local.indices.Remote)
            LR == LiveOn(K.Remote, K.Local, d.local.indices.Remote, d.local.indices.Local)
            LL == LiveOn(K.Local, K.Remote, d.remote.indices.Local, d.remote.indices.Remote)
            ins == {o.HtlcIndex : o \in d.local.outputs.Remote}
            out == {o.HtlcIndex : o \in d.remote.outputs.Local}
<1>1. /\ Lists(u, X)
      /\ \A k \in DOMAIN u : u[k].LogIndex = ba + k - 1
      /\ Adding(u, bh, th)
  BY PendingFacts
<1>2. Lists(d.remoteUnsigned, Y) /\ Lists(d.unsignedAcked, Z)
  BY HeldLists, AckedFacts
<1>3. X \subseteq OursLoaded(K, d) /\ Y \subseteq OursLoaded(K, d)
  BY DEF OursLoaded
<1>4. \A x \in Z : IsRmv(x) => x \in TheirsLoaded(K, d)
  BY DEF TheirsLoaded, TheirsHeld, IsRmv, IsAdd
<1>5. /\ d.local.outputs.Remote = {OutputOf(a) : a \in LR}
      /\ d.remote.outputs.Local = {OutputOf(a) : a \in LL}
  BY LoadedOuts
<1>6. /\ \A x \in OursLoaded(K, d) : IsRmv(x) => \E a \in LR : a.HtlcIndex = x.HtlcIndex
      /\ \A x \in TheirsLoaded(K, d) : IsRmv(x) => \E a \in LL : a.HtlcIndex = x.HtlcIndex
  BY LoadedParents
<1>7. \A a : OutputOf(a).HtlcIndex = a.HtlcIndex
  BY DEF OutputOf
<1>8. /\ \A a \in LR : a.HtlcIndex \in ins
      /\ \A a \in LL : a.HtlcIndex \in out
  <2>. HIDE DEF LR, LL
  <2>. QED  BY <1>5, <1>7
<1>9. ba \in Nat /\ bh \in Nat /\ th \in Nat /\ d.local.indices.Remote \in Nat
  BY IndicesInOrder
<1>10. \A x \in Z : x.LogIndex < d.local.indices.Remote /\ ToLogUpdate(x).LogIndex = x.LogIndex
  BY LedgerFacts DEF Between
<1>. HIDE DEF u, ba, bh, th, X, Y, Z, LR, LL, ins, out
<1>11. RemovedBy(u) \subseteq ins
  BY ONLY <1>1, <1>3, <1>6, <1>8, RemovedFacts
<1>12. RemovedBy(d.remoteUnsigned) \subseteq ins
  BY ONLY <1>2, <1>3, <1>6, <1>8, RemovedFacts
<1>13. RemovedBy(d.unsignedAcked) \subseteq out
  BY ONLY <1>2, <1>4, <1>6, <1>8, RemovedFacts
<1>14. \A v \in Range(d.unsignedAcked) : v.LogIndex < d.local.indices.Remote
  <2>1. \A v \in Range(d.unsignedAcked) : \E x \in Z : v = ToLogUpdate(x)
    BY ONLY <1>2 DEF Lists, Range
  <2>. QED  BY ONLY <1>10, <2>1
<1>15. \A k \in DOMAIN u : u[k].EntryType = "Add" => u[k].HtlcIndex = bh + Cardinality({j \in 1..(k - 1) : u[j].EntryType = "Add"})
  <2>1. \A k \in DOMAIN u : IsAdd(u[k]) => Cardinality(AddsBefore(u, k)) = u[k].HtlcIndex - bh
    BY ONLY <1>1, AddsCounted
  <2>2. \A k \in DOMAIN u : IsAdd(u[k]) => u[k].HtlcIndex \in bh..(th - 1)
    BY ONLY <1>1 DEF Adding
  <2>3. \A k \in DOMAIN u : IsAdd(u[k]) => u[k].HtlcIndex = bh + Cardinality(AddsBefore(u, k))
    BY ONLY <1>9, <2>1, <2>2
  <2>. QED  BY ONLY <2>3 DEF IsAdd, AddsBefore
<1>. QED  BY ONLY <1>1, <1>11, <1>12, <1>13, <1>14, <1>15 DEF Restorable, u, ba, bh, ins, out

\* Which of our HTLCs that are read back our own commitment has.
LEMMA OursPlaced ==
    ASSUME NEW K, NEW ix, NEW hc, NEW d, Ledger(K, ix, hc, d),
           NEW a \in LiveOn(K.Local, K.Remote, d.remote.indices.Local, d.remote.indices.Remote)
    PROVE  \/ \E o \in d.local.outputs.Local : o.HtlcIndex = a.HtlcIndex
           \/ a.HtlcIndex \in RemovedBy(d.unsignedAcked)
           <=> a.LogIndex < d.local.indices.Local
<1>. DEFINE A == K.Local
            R == K.Remote
            H == OursHeld(K, d)
            la == d.local.indices.Local
            lr == d.local.indices.Remote
            ba == d.remote.indices.Local
            br == d.remote.indices.Remote
            ta == TipOf(d).indices.Local
            tr == TipOf(d).indices.Remote
            Z == Between(R, br, lr)
            outs == d.local.outputs.Local
<1>1. d \in Disks /\ K \in Books /\ ix \in Pairs /\ hc \in Pairs /\ Book(K, ix, hc, d)
  BY DEF Ledger
<1>2. Restoring(A, R, H, la, lr, ba, br, ta, tr)
  BY LedgerRestoring
<1>3. Lists(d.unsignedAcked, Z)
  BY AckedFacts
<1>4. Covers(A, R, la, lr, d.local.htlcIndex.Local, outs)
  BY <1>1, BookFacts
<1>5. \A x, y \in A : IsAdd(x) /\ IsAdd(y) /\ x.HtlcIndex = y.HtlcIndex => x = y
  BY LedgerFacts
<1>6. \A x : x \in Z <=> x \in R /\ br <= x.LogIndex /\ x.LogIndex < lr
  BY DEF Between
<1>7. a \in LiveOn(A, R, ba, br)
  OBVIOUS
<1>. HIDE DEF A, R, H, la, lr, ba, br, ta, tr, Z, outs
<1>8. a.HtlcIndex \in RemovedBy(d.unsignedAcked) <=> \E x \in Z : IsRmv(x) /\ x.HtlcIndex = a.HtlcIndex
  BY ONLY <1>3, RemovedFacts
<1>9. a \in A /\ IsAdd(a) /\ a.LogIndex < ba /\ \A r \in R : IsRmv(r) /\ r.HtlcIndex = a.HtlcIndex => ~(r.LogIndex < br)
  BY ONLY <1>7 DEF LiveOn, Gone
<1>10. \A o \in outs : \E x \in A : o.HtlcIndex = x.HtlcIndex /\ IsAdd(x) /\ x.LogIndex < la
  BY ONLY <1>4 DEF Covers, LiveOn, OutputOf
<1>11. a.LogIndex < la /\ ~Gone(R, a.HtlcIndex, lr) => \E o \in outs : o.HtlcIndex = a.HtlcIndex
  <2>1. a.LogIndex < la /\ ~Gone(R, a.HtlcIndex, lr) => OutputOf(a) \in outs
    BY ONLY <1>4, <1>9 DEF Covers, LiveOn
  <2>. QED  BY <2>1 DEF OutputOf
<1>12. /\ br \in Nat /\ lr \in Nat /\ \A x \in R : x.LogIndex \in Nat
       /\ \A r \in R : IsRmv(r) /\ a.HtlcIndex = r.HtlcIndex /\ r.LogIndex < lr => a.LogIndex < la
  BY ONLY <1>2, <1>9 DEF Restoring
<1>13. ASSUME \E o \in outs : o.HtlcIndex = a.HtlcIndex PROVE a.LogIndex < la
  BY ONLY <1>5, <1>9, <1>10, <1>13
<1>14. ASSUME a.HtlcIndex \in RemovedBy(d.unsignedAcked) PROVE a.LogIndex < la
  BY ONLY <1>6, <1>8, <1>12, <1>14
<1>15. ASSUME a.LogIndex < la, Gone(R, a.HtlcIndex, lr) PROVE a.HtlcIndex \in RemovedBy(d.unsignedAcked)
  BY ONLY <1>6, <1>8, <1>9, <1>12, <1>15 DEF Gone
<1>16. (\E o \in outs : o.HtlcIndex = a.HtlcIndex) \/ a.HtlcIndex \in RemovedBy(d.unsignedAcked) <=> a.LogIndex < la
  BY ONLY <1>11, <1>13, <1>14, <1>15
<1>. QED  BY ONLY <1>16 DEF outs, la

\* Which of the peer's HTLCs that are read back its oldest commitment has,
\* and which its newest.
LEMMA TheirsPlaced ==
    ASSUME NEW K, NEW ix, NEW hc, NEW d, Ledger(K, ix, hc, d),
           NEW a \in LiveOn(K.Remote, K.Local, d.local.indices.Remote, d.local.indices.Local)
    PROVE  /\ \/ \E o \in d.remote.outputs.Remote : o.HtlcIndex = a.HtlcIndex
              \/ a.HtlcIndex \in RemovedBy(d.remoteUnsigned)
              <=> a.LogIndex < d.remote.indices.Remote
           /\ d.remote.indices.Remote <= a.LogIndex =>
                 (/\ d.diff # NoDiff
                  /\ \E o \in d.diff.commit.outputs.Remote : o.HtlcIndex = a.HtlcIndex
                  <=> a.LogIndex < TipOf(d).indices.Remote)
<1>. DEFINE A == K.Local
            R == K.Remote
            H == OursHeld(K, d)
            la == d.local.indices.Local
            lr == d.local.indices.Remote
            ba == d.remote.indices.Local
            br == d.remote.indices.Remote
            ta == TipOf(d).indices.Local
            tr == TipOf(d).indices.Remote
            outs == d.remote.outputs.Remote
            next == TipOf(d).outputs.Remote
            bh == d.remote.htlcIndex.Remote
<1>1. d \in Disks /\ K \in Books /\ ix \in Pairs /\ hc \in Pairs /\ Book(K, ix, hc, d)
  BY DEF Ledger
<1>2. Restoring(A, R, H, la, lr, ba, br, ta, tr)
  BY LedgerRestoring
<1>3. Lists(d.remoteUnsigned, H)
  BY HeldLists
<1>4. Covers(R, A, br, ba, bh, outs) /\ Covers(R, A, tr, ta, TipOf(d).htlcIndex.Remote, next)
  BY <1>1, BookFacts
<1>5. \A x, y \in R : IsAdd(x) /\ IsAdd(y) /\ x.HtlcIndex = y.HtlcIndex => x = y
  BY LedgerFacts
<1>6. \A x \in A : IsRmv(x) => x.HtlcIndex < bh
  <2>1. Kept(K, d)
    BY <1>1, BookUse
  <2>. QED  BY <2>1 DEF Kept
<1>7. a \in LiveOn(R, A, lr, la)
  OBVIOUS
<1>17. d.diff = NoDiff => tr = br
  BY DEF TipOf
<1>18. d.diff # NoDiff => d.diff.commit.outputs.Remote = next
  BY DEF TipOf
<1>. HIDE DEF A, R, H, la, lr, ba, br, ta, tr, outs, next, bh
<1>8. a.HtlcIndex \in RemovedBy(d.remoteUnsigned) <=> \E x \in H : IsRmv(x) /\ x.HtlcIndex = a.HtlcIndex
  BY ONLY <1>3, RemovedFacts
<1>9. a \in R /\ IsAdd(a) /\ a.LogIndex < lr /\ \A r \in A : IsRmv(r) /\ r.HtlcIndex = a.HtlcIndex => ~(r.LogIndex < la)
  BY ONLY <1>7 DEF LiveOn, Gone
<1>10. /\ \A o \in outs : \E x \in R : o.HtlcIndex = x.HtlcIndex /\ IsAdd(x) /\ x.LogIndex < br
       /\ \A o \in next : \E x \in R : o.HtlcIndex = x.HtlcIndex /\ IsAdd(x) /\ x.LogIndex < tr
  BY ONLY <1>4 DEF Covers, LiveOn, OutputOf
<1>11. /\ a.LogIndex < br /\ ~Gone(A, a.HtlcIndex, ba) => \E o \in outs : o.HtlcIndex = a.HtlcIndex
       /\ a.LogIndex < tr /\ ~Gone(A, a.HtlcIndex, ta) => \E o \in next : o.HtlcIndex = a.HtlcIndex
  <2>1. /\ a.LogIndex < br /\ ~Gone(A, a.HtlcIndex, ba) => OutputOf(a) \in outs
        /\ a.LogIndex < tr /\ ~Gone(A, a.HtlcIndex, ta) => OutputOf(a) \in next
    BY ONLY <1>4, <1>9 DEF Covers, LiveOn
  <2>. QED  BY <2>1 DEF OutputOf
<1>12. /\ la \in Nat /\ ba \in Nat /\ br \in Nat /\ tr \in Nat /\ H \subseteq A
       /\ \A x \in A : x.LogIndex \in Nat
       /\ a.LogIndex \in Nat
       /\ \A x \in H : la <= x.LogIndex /\ x.LogIndex < ba
       /\ \A x \in A : IsRmv(x) /\ la <= x.LogIndex /\ x.LogIndex < ba => x \in H
  BY ONLY <1>2, <1>9 DEF Restoring
<1>13. /\ \A r \in A : IsRmv(r) /\ r.LogIndex < ba /\ a.HtlcIndex = r.HtlcIndex => a.LogIndex < br
       /\ a.LogIndex < br <=> a.HtlcIndex < bh
  BY ONLY <1>4, <1>9 DEF Covers
<1>14. ASSUME \E o \in outs : o.HtlcIndex = a.HtlcIndex PROVE a.LogIndex < br
  BY ONLY <1>5, <1>9, <1>10, <1>14
<1>15. ASSUME a.HtlcIndex \in RemovedBy(d.remoteUnsigned) PROVE a.LogIndex < br
  BY ONLY <1>8, <1>12, <1>13, <1>15
<1>16. ASSUME a.LogIndex < br, Gone(A, a.HtlcIndex, ba) PROVE a.HtlcIndex \in RemovedBy(d.remoteUnsigned)
  BY ONLY <1>8, <1>9, <1>12, <1>16 DEF Gone
<1>19. (\E o \in outs : o.HtlcIndex = a.HtlcIndex) \/ a.HtlcIndex \in RemovedBy(d.remoteUnsigned) <=> a.LogIndex < br
  BY ONLY <1>11, <1>14, <1>15, <1>16
<1>20. br <= a.LogIndex => ~(a.LogIndex < br)
  BY ONLY <1>12
<1>21. ASSUME br <= a.LogIndex PROVE (d.diff # NoDiff /\ \E o \in next : o.HtlcIndex = a.HtlcIndex) <=> a.LogIndex < tr
  <2>1. ~Gone(A, a.HtlcIndex, ta)
    BY ONLY <1>6, <1>13, <1>20, <1>21 DEF Gone
  <2>2. ASSUME NEW o \in next, o.HtlcIndex = a.HtlcIndex PROVE a.LogIndex < tr
    BY ONLY <1>5, <1>9, <1>10, <2>2
  <2>3. a.LogIndex < tr => d.diff # NoDiff
    BY ONLY <1>17, <1>20, <1>21
  <2>. QED  BY ONLY <1>11, <2>1, <2>2, <2>3
<1>. QED  BY ONLY <1>18, <1>19, <1>21 DEF outs, next, br, tr

\* An update with log index i in the log of p has the heights hts.
Fits(hts, i, p, d) ==
    /\ hts \in Pairs
    /\ hts.Local # 0 <=> i < d.local.indices[p]
    /\ hts.Remote # 0 <=> i < TipOf(d).indices[p]
    /\ hts.Local <= d.local.height
    /\ hts.Remote <= TipOf(d).height
    /\ i < d.remote.indices[p] => hts.Remote <= d.remote.height
    /\ d.remote.indices[p] <= i /\ i < TipOf(d).indices[p] => hts.Remote = TipOf(d).height

\* The heights an update has when it is read back: those of our commitment (l)
\* and of the peer's oldest and newest (b, t) that it is on.
LEMMA FitsMake ==
    ASSUME NEW K, NEW ix, NEW hc, NEW d, Ledger(K, ix, hc, d), NEW p \in Party, NEW i \in Nat, NEW hts \in Pairs,
           hts.Local = IF i < d.local.indices[p] THEN d.local.height ELSE 0,
           hts.Remote = IF i < d.remote.indices[p] THEN d.remote.height
                        ELSE IF i < TipOf(d).indices[p] THEN TipOf(d).height ELSE 0
    PROVE  Fits(hts, i, p, d)
<1>1. d \in Disks /\ K \in Books /\ ix \in Pairs /\ hc \in Pairs /\ Book(K, ix, hc, d)
  BY DEF Ledger
<1>2. /\ d.local \in Commits(d) /\ d.remote \in Commits(d) /\ TipOf(d) \in Commits(d)
      /\ \A c \in Commits(d) : c.height = 0 => c.indices.Local = 0 /\ c.indices.Remote = 0
  BY <1>1, BookFacts
<1>3. \A c \in Commits(d) : c.height \in Nat /\ c.indices[p] \in Nat /\ (c.height = 0 => c.indices[p] = 0)
  BY <1>1, <1>2, CommitFacts, Parties
<1>4. d.remote.height <= TipOf(d).height
  <2>1. d.diff = NoDiff => TipOf(d) = d.remote
    BY DEF TipOf
  <2>2. Staged(d)
    BY <1>1, BookUse
  <2>3. d.diff # NoDiff => TipOf(d).height = d.remote.height + 1
    BY <2>2 DEF Staged, TipOf
  <2>. QED  BY <1>2, <1>3, <2>1, <2>3
<1>5. d.remote.indices[p] <= TipOf(d).indices[p]
  BY IndicesInOrder, Parties
<1>. DEFINE l == d.local.indices[p]
            b == d.remote.indices[p]
            t == TipOf(d).indices[p]
            lh == d.local.height
            bh == d.remote.height
            th == TipOf(d).height
<1>6. /\ l \in Nat /\ b \in Nat /\ t \in Nat /\ lh \in Nat /\ bh \in Nat /\ th \in Nat
      /\ bh <= th /\ b <= t
      /\ lh = 0 => l = 0
      /\ bh = 0 => b = 0
      /\ th = 0 => t = 0
  BY <1>2, <1>3, <1>4, <1>5
<1>7. hts.Local = (IF i < l THEN lh ELSE 0) /\ hts.Remote = IF i < b THEN bh ELSE IF i < t THEN th ELSE 0
  OBVIOUS
<1>. HIDE DEF l, b, t, lh, bh, th
<1>8. /\ hts.Local # 0 <=> i < l
      /\ hts.Remote # 0 <=> i < t
      /\ hts.Local <= lh
      /\ hts.Remote <= th
      /\ i < b => hts.Remote <= bh
      /\ b <= i /\ i < t => hts.Remote = th
  BY ONLY <1>6, <1>7, i \in Nat
<1>. QED  BY ONLY <1>8, hts \in Pairs DEF Fits, l, b, t, lh, bh, th

\* An entry with such heights.
LEMMA MarkedMake ==
    ASSUME NEW e, NEW p, NEW d, Fits(At(e), e.LogIndex, p, d),
           e.EntryType = "FeeUpdate" => e.rmv = e.add,
           IsAdd(e) => e.rmv = Both(0), IsRmv(e) => e.add = Both(0)
    PROVE  Marked(e, p, d)
BY DEF Marked, Fits

\* The list t is of the updates X of p, in place on disk d.
Placed(t, X, p, d) ==
    /\ t \in Seq(Entries) /\ Cores(t) = X /\ Distinct(t)
    /\ \A e \in Range(t) : Marked(e, p, d)

\* The HTLCs of the commitment c are read back with the heights hh.
LEMMA HtlcsPlaced ==
    ASSUME NEW n, NEW outs, NEW X, NEW hh, NEW t, Loads(n, outs, X, hh, t), NEW p, NEW d,
           \A a \in X : Fits(hh[a.HtlcIndex], a.LogIndex, p, d)
    PROVE  Placed(t, X, p, d) /\ \A e \in Range(t) : IsAdd(e)
<1>1. /\ t \in Seq(Entries) /\ Cores(t) = X /\ Distinct(t)
      /\ \A k \in DOMAIN t : /\ t[k] \in Entries /\ Core(t[k]) \in X /\ At(t[k]) = hh[t[k].HtlcIndex]
                             /\ IsAdd(t[k]) /\ t[k].rmv = Both(0)
  BY HtlcsLoaded
<1>2. ASSUME NEW e, e \in Entries, Core(e) \in X, At(e) = hh[e.HtlcIndex], IsAdd(e), e.rmv = Both(0)
      PROVE  Marked(e, p, d)
  <2>1. Core(e).HtlcIndex = e.HtlcIndex /\ Core(e).LogIndex = e.LogIndex
    BY <1>2, CoreFacts
  <2>2. Fits(hh[Core(e).HtlcIndex], Core(e).LogIndex, p, d)
    BY <1>2
  <2>3. Fits(At(e), e.LogIndex, p, d)
    BY <1>2, <2>1, <2>2
  <2>4. e.EntryType # "FeeUpdate" /\ ~IsRmv(e)
    BY <1>2 DEF IsAdd, IsRmv
  <2>. QED  BY <1>2, <2>3, <2>4, MarkedMake
<1>3. \A e \in Range(t) : \E k \in DOMAIN t : e = t[k]
  BY DEF Range
<1>. QED  BY ONLY <1>1, <1>2, <1>3 DEF Placed

\* The heights of our HTLCs, and of the peer's, that are read back.
OurHeights(d, h) ==
    [Local |-> IF \/ \E o \in d.local.outputs.Local : o.HtlcIndex = h
                  \/ h \in RemovedBy(d.unsignedAcked)
               THEN d.local.height ELSE 0,
     Remote |-> d.remote.height]
TheirHeights(d, h) ==
    [Local |-> d.local.height,
     Remote |-> CASE \/ \E o \in d.remote.outputs.Remote : o.HtlcIndex = h
                     \/ h \in RemovedBy(d.remoteUnsigned) -> d.remote.height
                  [] OTHER -> IF d.diff # NoDiff /\ \E o \in d.diff.commit.outputs.Remote : o.HtlcIndex = h
                              THEN d.diff.commit.height ELSE 0]

\* The outputs of a commitment of the disk d, as a list.
LEMMA HtlcLists ==
    ASSUME NEW d \in Disks, NEW s, NEW t
    PROVE  /\ s = SortedOuts(d.remote.indices.Local, d.remote.outputs.Local) =>
                 RestoredHtlcs(d, "Local") = [k \in DOMAIN s |-> AddEntry(s[k], OurHeights(d, s[k].HtlcIndex))]
           /\ t = SortedOuts(d.local.indices.Remote, d.local.outputs.Remote) =>
                 RestoredHtlcs(d, "Remote") = [k \in DOMAIN t |-> AddEntry(t[k], TheirHeights(d, t[k].HtlcIndex))]
<1>1. s = SortedOuts(d.remote.indices.Local, d.remote.outputs.Local) =>
        RestoredHtlcs(d, "Local") = [k \in DOMAIN s |-> AddEntry(s[k], OurHeights(d, s[k].HtlcIndex))]
  BY DEF RestoredHtlcs, SortedOuts, AddEntry, OurHeights
<1>2. t = SortedOuts(d.local.indices.Remote, d.local.outputs.Remote) =>
        RestoredHtlcs(d, "Remote") = [k \in DOMAIN t |-> AddEntry(t[k], TheirHeights(d, t[k].HtlcIndex))]
  BY DEF RestoredHtlcs, SortedOuts, AddEntry, TheirHeights
<1>. QED  BY <1>1, <1>2

\* Our HTLCs are read back in place.
LEMMA OurHtlcs ==
    ASSUME NEW K, NEW ix, NEW hc, NEW d, Ledger(K, ix, hc, d)
    PROVE  /\ Placed(RestoredHtlcs(d, "Local"),
                     LiveOn(K.Local, K.Remote, d.remote.indices.Local, d.remote.indices.Remote), "Local", d)
           /\ \A e \in Range(RestoredHtlcs(d, "Local")) : IsAdd(e)
<1>. DEFINE n == d.remote.indices.Local
            outs == d.remote.outputs.Local
            X == LiveOn(K.Local, K.Remote, n, d.remote.indices.Remote)
            s == SortedOuts(n, outs)
            hh == [h \in Nat |-> OurHeights(d, h)]
            t == RestoredHtlcs(d, "Local")
<1>1. d \in Disks /\ K \in Books /\ ix \in Pairs /\ hc \in Pairs /\ Book(K, ix, hc, d)
  BY DEF Ledger
<1>2. /\ d.local \in Commitments /\ d.remote \in Commitments
      /\ d.local.height \in Nat /\ d.remote.height \in Nat
  <2>1. d.local \in Commitments /\ d.remote \in Commitments
    BY <1>1 DEF Disks
  <2>. QED  BY <1>1, <2>1, CommitFacts
<1>3. outs = {OutputOf(x) : x \in X}
  BY LoadedOuts
<1>4. n \in Nat /\ d.local.indices.Local \in Nat /\ n <= TipOf(d).indices.Local
  BY IndicesInOrder
<1>5. /\ X \in SUBSET Recs /\ \A x \in X : IsAdd(x) /\ x.LogIndex < n /\ x.LogIndex \in Nat /\ x.HtlcIndex \in Nat
      /\ \A x, y \in X : x.LogIndex = y.LogIndex => x = y
  BY LedgerFacts DEF LiveOn
<1>6. \A h : OurHeights(d, h) \in Pairs
  BY <1>2 DEF OurHeights, Pairs
<1>7. \A a \in X : OurHeights(d, a.HtlcIndex).Local = (IF a.LogIndex < d.local.indices.Local THEN d.local.height ELSE 0)
                   /\ OurHeights(d, a.HtlcIndex).Remote = d.remote.height
  BY OursPlaced DEF OurHeights
<1>. HIDE DEF n, outs, X, s, t, hh
<1>8. outs \in SUBSET Outs /\ (\A o \in outs : o.LogIndex < n) /\ (\A o, q \in outs : o.LogIndex = q.LogIndex => o = q)
      /\ \A o \in outs : o.HtlcIndex \in Nat
  <2>1. \A x \in Recs : OutputOf(x) \in Outs /\ OutputOf(x).LogIndex = x.LogIndex /\ OutputOf(x).HtlcIndex = x.HtlcIndex
    BY DEF OutputOf, Recs, Outs
  <2>. QED  BY ONLY <1>3, <1>5, <2>1
<1>9. s \in Seq(Outs) /\ \A k \in DOMAIN s : s[k].HtlcIndex \in Nat
  <2>1. s \in Seq(Outs)
    BY ONLY <1>4, <1>8, SortedFacts DEF s
  <2>2. \A k \in DOMAIN s : s[k] \in Outs
    BY <2>1
  <2>. QED  BY <2>1, <2>2 DEF Outs
<1>10. t = [k \in DOMAIN s |-> AddEntry(s[k], hh[s[k].HtlcIndex])]
  <2>1. t = [k \in DOMAIN s |-> AddEntry(s[k], OurHeights(d, s[k].HtlcIndex))]
    BY <1>1, HtlcLists DEF t, s, n, outs
  <2>2. \A k \in DOMAIN s : hh[s[k].HtlcIndex] = OurHeights(d, s[k].HtlcIndex)
    BY <1>9 DEF hh
  <2>. QED  BY ONLY <2>1, <2>2
<1>11. \A o \in outs : hh[o.HtlcIndex] \in Pairs
  BY <1>6, <1>8 DEF hh
<1>12. Loads(n, outs, X, hh, t)
  BY ONLY <1>3, <1>4, <1>5, <1>10, <1>11 DEF Loads, s
<1>13. \A a \in X : Fits(hh[a.HtlcIndex], a.LogIndex, "Local", d)
  <2>. SUFFICES ASSUME NEW a \in X PROVE Fits(hh[a.HtlcIndex], a.LogIndex, "Local", d)
    OBVIOUS
  <2>. DEFINE g == hh[a.HtlcIndex]
              i == a.LogIndex
              p == "Local"
  <2>1. g = OurHeights(d, a.HtlcIndex) /\ i \in Nat /\ i < n
    BY <1>5 DEF hh
  <2>2. /\ g \in Pairs
        /\ g.Local = IF i < d.local.indices[p] THEN d.local.height ELSE 0
        /\ g.Remote = IF i < d.remote.indices[p] THEN d.remote.height
                      ELSE IF i < TipOf(d).indices[p] THEN TipOf(d).height ELSE 0
    BY <1>6, <1>7, <2>1 DEF n
  <2>3. p \in Party
    BY Parties
  <2>. HIDE DEF g, i, p
  <2>4. Fits(g, i, p, d)
    BY FitsMake, <2>1, <2>2, <2>3
  <2>. QED  BY <2>4 DEF g, i, p
<1>14. Placed(t, X, "Local", d) /\ \A e \in Range(t) : IsAdd(e)
  BY ONLY <1>12, <1>13, HtlcsPlaced
<1>. QED  BY <1>14 DEF t, X, n

\* The peer's HTLCs are read back in place.
LEMMA TheirHtlcs ==
    ASSUME NEW K, NEW ix, NEW hc, NEW d, Ledger(K, ix, hc, d)
    PROVE  /\ Placed(RestoredHtlcs(d, "Remote"),
                     LiveOn(K.Remote, K.Local, d.local.indices.Remote, d.local.indices.Local), "Remote", d)
           /\ \A e \in Range(RestoredHtlcs(d, "Remote")) : IsAdd(e)
<1>. DEFINE n == d.local.indices.Remote
            outs == d.local.outputs.Remote
            X == LiveOn(K.Remote, K.Local, n, d.local.indices.Local)
            s == SortedOuts(n, outs)
            hh == [h \in Nat |-> TheirHeights(d, h)]
            t == RestoredHtlcs(d, "Remote")
<1>1. d \in Disks /\ K \in Books /\ ix \in Pairs /\ hc \in Pairs /\ Book(K, ix, hc, d)
  BY DEF Ledger
<1>2. /\ d.local.height \in Nat /\ d.remote.height \in Nat
      /\ d.diff # NoDiff => d.diff.commit.height \in Nat /\ d.diff.commit.height = TipOf(d).height
  <2>1. d.local \in Commitments /\ d.remote \in Commitments /\ TipOf(d) \in Commitments
    BY <1>1, CommitFacts DEF Disks
  <2>. QED  BY <1>1, <2>1, CommitFacts DEF TipOf
<1>3. outs = {OutputOf(x) : x \in X}
  BY LoadedOuts
<1>4. n \in Nat /\ d.remote.indices.Remote \in Nat /\ d.remote.indices.Remote <= TipOf(d).indices.Remote /\ TipOf(d).indices.Remote \in Nat
  BY IndicesInOrder
<1>5. /\ X \in SUBSET Recs /\ \A x \in X : IsAdd(x) /\ x.LogIndex < n /\ x.LogIndex \in Nat /\ x.HtlcIndex \in Nat
      /\ \A x, y \in X : x.LogIndex = y.LogIndex => x = y
  BY LedgerFacts DEF LiveOn
<1>6. \A h : TheirHeights(d, h) \in Pairs
  BY <1>2 DEF TheirHeights, Pairs
<1>7. \A a \in X : TheirHeights(d, a.HtlcIndex).Local = d.local.height
                   /\ TheirHeights(d, a.HtlcIndex).Remote =
                         IF a.LogIndex < d.remote.indices.Remote THEN d.remote.height
                         ELSE IF a.LogIndex < TipOf(d).indices.Remote THEN TipOf(d).height ELSE 0
  <2>. SUFFICES ASSUME NEW a \in X
                PROVE  TheirHeights(d, a.HtlcIndex).Local = d.local.height
                       /\ TheirHeights(d, a.HtlcIndex).Remote =
                             IF a.LogIndex < d.remote.indices.Remote THEN d.remote.height
                             ELSE IF a.LogIndex < TipOf(d).indices.Remote THEN TipOf(d).height ELSE 0
    OBVIOUS
  <2>1. /\ \/ \E o \in d.remote.outputs.Remote : o.HtlcIndex = a.HtlcIndex
           \/ a.HtlcIndex \in RemovedBy(d.remoteUnsigned)
           <=> a.LogIndex < d.remote.indices.Remote
        /\ d.remote.indices.Remote <= a.LogIndex =>
              (/\ d.diff # NoDiff
               /\ \E o \in d.diff.commit.outputs.Remote : o.HtlcIndex = a.HtlcIndex
               <=> a.LogIndex < TipOf(d).indices.Remote)
    BY TheirsPlaced
  <2>2. a.LogIndex \in Nat
    BY <1>5
  <2>3. CASE a.LogIndex < d.remote.indices.Remote
    BY ONLY <2>1, <2>3 DEF TheirHeights
  <2>4. CASE ~(a.LogIndex < d.remote.indices.Remote)
    <3>1. d.remote.indices.Remote <= a.LogIndex
      BY ONLY <1>4, <2>2, <2>4
    <3>2. /\ ~(\/ \E o \in d.remote.outputs.Remote : o.HtlcIndex = a.HtlcIndex
               \/ a.HtlcIndex \in RemovedBy(d.remoteUnsigned))
          /\ (d.diff # NoDiff /\ \E o \in d.diff.commit.outputs.Remote : o.HtlcIndex = a.HtlcIndex)
               <=> a.LogIndex < TipOf(d).indices.Remote
      BY ONLY <2>1, <2>4, <3>1
    <3>3. TheirHeights(d, a.HtlcIndex).Remote =
            IF d.diff # NoDiff /\ \E o \in d.diff.commit.outputs.Remote : o.HtlcIndex = a.HtlcIndex
            THEN d.diff.commit.height ELSE 0
      BY ONLY <3>2 DEF TheirHeights
    <3>. QED  BY ONLY <1>2, <2>4, <3>2, <3>3 DEF TheirHeights
  <2>. QED  BY <2>3, <2>4
<1>. HIDE DEF n, outs, X, s, t, hh
<1>8. outs \in SUBSET Outs /\ (\A o \in outs : o.LogIndex < n) /\ (\A o, q \in outs : o.LogIndex = q.LogIndex => o = q)
      /\ \A o \in outs : o.HtlcIndex \in Nat
  <2>1. \A x \in Recs : OutputOf(x) \in Outs /\ OutputOf(x).LogIndex = x.LogIndex /\ OutputOf(x).HtlcIndex = x.HtlcIndex
    BY DEF OutputOf, Recs, Outs
  <2>. QED  BY ONLY <1>3, <1>5, <2>1
<1>9. s \in Seq(Outs) /\ \A k \in DOMAIN s : s[k].HtlcIndex \in Nat
  <2>1. s \in Seq(Outs)
    BY ONLY <1>4, <1>8, SortedFacts DEF s
  <2>2. \A k \in DOMAIN s : s[k] \in Outs
    BY <2>1
  <2>. QED  BY <2>1, <2>2 DEF Outs
<1>10. t = [k \in DOMAIN s |-> AddEntry(s[k], hh[s[k].HtlcIndex])]
  <2>1. t = [k \in DOMAIN s |-> AddEntry(s[k], TheirHeights(d, s[k].HtlcIndex))]
    BY <1>1, HtlcLists DEF t, s, n, outs
  <2>2. \A k \in DOMAIN s : hh[s[k].HtlcIndex] = TheirHeights(d, s[k].HtlcIndex)
    BY <1>9 DEF hh
  <2>. QED  BY ONLY <2>1, <2>2
<1>11. \A o \in outs : hh[o.HtlcIndex] \in Pairs
  BY <1>6, <1>8 DEF hh
<1>12. Loads(n, outs, X, hh, t)
  BY ONLY <1>3, <1>4, <1>5, <1>10, <1>11 DEF Loads, s
<1>13. \A a \in X : Fits(hh[a.HtlcIndex], a.LogIndex, "Remote", d)
  <2>. SUFFICES ASSUME NEW a \in X PROVE Fits(hh[a.HtlcIndex], a.LogIndex, "Remote", d)
    OBVIOUS
  <2>. DEFINE g == hh[a.HtlcIndex]
              i == a.LogIndex
              p == "Remote"
  <2>1. g = TheirHeights(d, a.HtlcIndex) /\ i \in Nat /\ i < n
    BY <1>5 DEF hh
  <2>2. /\ g \in Pairs
        /\ g.Local = IF i < d.local.indices[p] THEN d.local.height ELSE 0
        /\ g.Remote = IF i < d.remote.indices[p] THEN d.remote.height
                      ELSE IF i < TipOf(d).indices[p] THEN TipOf(d).height ELSE 0
    BY <1>6, <1>7, <2>1 DEF n
  <2>3. p \in Party
    BY Parties
  <2>. HIDE DEF g, i, p
  <2>4. Fits(g, i, p, d)
    BY FitsMake, <2>1, <2>2, <2>3
  <2>. QED  BY <2>4 DEF g, i, p
<1>14. Placed(t, X, "Remote", d) /\ \A e \in Range(t) : IsAdd(e)
  BY ONLY <1>12, <1>13, HtlcsPlaced
<1>. QED  BY <1>14 DEF t, X, n

\* Updates that are read back, in place.
LEMMA ListPlaced ==
    ASSUME NEW u, NEW X, NEW g, NEW hh, NEW t, Reads(u, X, g, hh, t), NEW p, NEW d,
           \A k \in DOMAIN u : Fits(hh[k], u[k].LogIndex, p, d)
    PROVE  Placed(t, X, p, d)
<1>1. /\ t \in Seq(Entries) /\ DOMAIN t = DOMAIN u /\ Cores(t) = X /\ Distinct(t)
      /\ \A k \in DOMAIN t : /\ t[k].LogIndex = u[k].LogIndex
                             /\ At(t[k]) = hh[k]
                             /\ t[k].EntryType = "FeeUpdate" => t[k].rmv = t[k].add
                             /\ IsAdd(t[k]) => t[k].rmv = Both(0)
                             /\ IsRmv(t[k]) => t[k].add = Both(0)
  BY ListRead
<1>2. ASSUME NEW k \in DOMAIN t PROVE Marked(t[k], p, d)
  <2>. DEFINE e == t[k]
  <2>1. Fits(At(e), e.LogIndex, p, d)
    BY <1>1
  <2>2. /\ e.EntryType = "FeeUpdate" => e.rmv = e.add
        /\ IsAdd(e) => e.rmv = Both(0)
        /\ IsRmv(e) => e.add = Both(0)
    BY <1>1
  <2>. HIDE DEF e
  <2>3. Marked(e, p, d)
    BY ONLY <2>1, <2>2, MarkedMake
  <2>. QED  BY <2>3 DEF e
<1>3. \A e \in Range(t) : Marked(e, p, d)
  BY <1>2 DEF Range
<1>. QED  BY ONLY <1>1, <1>3 DEF Placed

\* The log g has the HTLCs L and is of updates in R, where an HTLC has one Add.
Offers(g, L, R) ==
    /\ g.list \in Seq(Entries) /\ L \subseteq Cores(g.list) /\ Cores(g.list) \subseteq R
    /\ \A x, y \in R : IsAdd(x) /\ IsAdd(y) /\ x.HtlcIndex = y.HtlcIndex => x = y

\* A removal of one of them finds its Add.
LEMMA ParentFound ==
    ASSUME NEW g, NEW L, NEW R, Offers(g, L, R), NEW h, NEW amt, NEW a \in L, IsAdd(a), a.HtlcIndex = h, a.Amount = amt
    PROVE  Parented(g, h, amt)
<1>0. /\ g.list \in Seq(Entries) /\ a \in Cores(g.list) /\ a \in R /\ Cores(g.list) \subseteq R
      /\ \A x, y \in R : IsAdd(x) /\ IsAdd(y) /\ x.HtlcIndex = y.HtlcIndex => x = y
  BY DEF Offers
<1>. DEFINE s == g.list
<1>1. \A k \in DOMAIN s : s[k] \in Entries
  BY <1>0
<1>2. \A k \in DOMAIN s : /\ Core(s[k]) \in R /\ Core(s[k]).HtlcIndex = s[k].HtlcIndex /\ Core(s[k]).Amount = s[k].Amount
                          /\ IsAdd(Core(s[k])) <=> IsAdd(s[k])
  <2>1. \A k \in DOMAIN s : Core(s[k]) \in Cores(s)
    BY DEF Cores
  <2>. QED  BY <1>0, <1>1, <2>1, CoreFacts
<1>3. \E k \in DOMAIN s : a = Core(s[k])
  BY <1>0 DEF Cores
<1>4. \E k \in DOMAIN s : IsAdd(s[k]) /\ s[k].HtlcIndex = h
  BY <1>2, <1>3
<1>5. \A k \in DOMAIN s : IsAdd(s[k]) /\ s[k].HtlcIndex = h => s[k].Amount = amt
  BY ONLY <1>0, <1>2, IsAdd(a), a.HtlcIndex = h, a.Amount = amt
<1>. QED  BY <1>4, <1>5 DEF Parented

\* Our updates of the pending commitment are read back in place.
LEMMA PendingPlaced ==
    ASSUME NEW K, NEW ix, NEW hc, NEW d, Ledger(K, ix, hc, d), NEW g,
           Offers(g, LiveOn(K.Remote, K.Local, d.local.indices.Remote, d.local.indices.Local), K.Remote), NEW t,
           t = [k \in DOMAIN Pending(d) |->
                  Restored(Pending(d)[k], g, [Local |-> 0, Remote |-> d.diff.commit.height])]
    PROVE  Placed(t, Between(K.Local, d.remote.indices.Local, TipOf(d).indices.Local), "Local", d)
<1>. DEFINE u == Pending(d)
            ba == d.remote.indices.Local
            ta == TipOf(d).indices.Local
            X == Between(K.Local, ba, ta)
            LR == LiveOn(K.Remote, K.Local, d.local.indices.Remote, d.local.indices.Local)
            g0 == [Local |-> 0, Remote |-> d.diff.commit.height]
            hh == [k \in DOMAIN u |-> g0]
            p == "Local"
<1>1. /\ Lists(u, X) /\ Len(u) = ta - ba
      /\ \A k \in DOMAIN u : u[k].LogIndex = ba + k - 1
  BY PendingFacts
<1>2. /\ ba \in Nat /\ ta \in Nat /\ ba <= ta /\ d.local.indices[p] \in Nat /\ d.local.indices[p] <= ba
      /\ ba = d.remote.indices[p] /\ ta = TipOf(d).indices[p]
  BY IndicesInOrder
<1>3. \A x \in X : IsRmv(x) => \E a \in LR : IsAdd(a) /\ a.HtlcIndex = x.HtlcIndex /\ a.Amount = x.Amount
  BY LoadedParents DEF OursLoaded
<1>4. Offers(g, LR, K.Remote) /\ t = [k \in DOMAIN u |-> Restored(u[k], g, g0)]
  OBVIOUS
<1>5. p \in Party
  BY Parties
<1>6. d \in Disks
  BY DEF Ledger
<1>7. d.diff # NoDiff => g0 \in Pairs /\ g0.Local = 0 /\ g0.Remote = TipOf(d).height
  <2>1. TipOf(d).height \in Nat
    BY <1>6, CommitFacts
  <2>2. d.diff # NoDiff => TipOf(d).height = d.diff.commit.height
    BY DEF TipOf
  <2>. QED  BY <2>1, <2>2 DEF Pairs
<1>8. d.diff = NoDiff => DOMAIN u = {}
  BY DEF Pending
<1>. HIDE DEF u, ba, ta, X, LR, g0, p
<1>9. u \in Seq(Recs) /\ X \in SUBSET Recs /\ Distinct(u)
      /\ (\A k \in DOMAIN u : \E x \in X : u[k] = ToLogUpdate(x)) /\ (\A x \in X : ToLogUpdate(x) \in Range(u))
  BY <1>1 DEF Lists
<1>10. \A x \in X : IsRmv(x) => Parented(g, x.HtlcIndex, x.Amount)
  BY ONLY <1>3, <1>4, ParentFound
<1>11. \A k \in DOMAIN u : hh[k] = g0 /\ hh[k] \in Pairs
  BY ONLY <1>7, <1>8
<1>12. t = [k \in DOMAIN u |-> Restored(u[k], g, hh[k])]
  BY ONLY <1>4, <1>11
<1>. HIDE DEF hh
<1>13. Reads(u, X, g, hh, t)
  BY ONLY <1>9, <1>10, <1>11, <1>12 DEF Reads
<1>14. \A k \in DOMAIN u : Fits(hh[k], u[k].LogIndex, p, d)
  <2>. SUFFICES ASSUME NEW k \in DOMAIN u PROVE Fits(hh[k], u[k].LogIndex, p, d)
    OBVIOUS
  <2>. DEFINE i == u[k].LogIndex
  <2>1. k \in 1..(ta - ba)
    BY <1>1, <1>9
  <2>2. i = ba + k - 1
    BY <1>1
  <2>3. i \in Nat /\ ba <= i /\ i < ta
    BY ONLY <1>2, <2>1, <2>2
  <2>. HIDE DEF i
  <2>4. g0 \in Pairs /\ g0.Local = 0 /\ g0.Remote = TipOf(d).height
    BY <1>7, <1>8
  <2>5. /\ g0.Local = IF i < d.local.indices[p] THEN d.local.height ELSE 0
        /\ g0.Remote = IF i < d.remote.indices[p] THEN d.remote.height
                       ELSE IF i < TipOf(d).indices[p] THEN TipOf(d).height ELSE 0
    BY ONLY <1>2, <2>3, <2>4
  <2>6. Fits(g0, i, p, d)
    BY FitsMake, <1>5, <2>3, <2>4, <2>5
  <2>. QED  BY <1>11, <2>6 DEF i
<1>15. Placed(t, X, p, d)
  BY ONLY <1>13, <1>14, ListPlaced
<1>. QED  BY <1>15 DEF X, p, ba, ta

\* Our updates the peer has still to sign are read back in place.
LEMMA HeldPlaced ==
    ASSUME NEW K, NEW ix, NEW hc, NEW d, Ledger(K, ix, hc, d), NEW g,
           Offers(g, LiveOn(K.Remote, K.Local, d.local.indices.Remote, d.local.indices.Local), K.Remote), NEW t,
           t = [k \in DOMAIN d.remoteUnsigned |->
                  Restored(d.remoteUnsigned[k], g, [Local |-> 0, Remote |-> d.remote.height])]
    PROVE  Placed(t, OursHeld(K, d), "Local", d)
<1>. DEFINE u == d.remoteUnsigned
            ba == d.remote.indices.Local
            la == d.local.indices.Local
            X == OursHeld(K, d)
            LR == LiveOn(K.Remote, K.Local, d.local.indices.Remote, d.local.indices.Local)
            g0 == [Local |-> 0, Remote |-> d.remote.height]
            hh == [k \in DOMAIN u |-> g0]
            p == "Local"
<1>1. Lists(u, X)
  BY HeldLists
<1>2. /\ ba \in Nat /\ la \in Nat /\ la = d.local.indices[p] /\ ba = d.remote.indices[p]
  BY IndicesInOrder
<1>3. \A x \in X : IsRmv(x) => \E a \in LR : IsAdd(a) /\ a.HtlcIndex = x.HtlcIndex /\ a.Amount = x.Amount
  BY LoadedParents DEF OursLoaded
<1>4. Offers(g, LR, K.Remote) /\ t = [k \in DOMAIN u |-> Restored(u[k], g, g0)]
  OBVIOUS
<1>5. p \in Party
  BY Parties
<1>6. d \in Disks
  BY DEF Ledger
<1>7. g0 \in Pairs /\ g0.Local = 0 /\ g0.Remote = d.remote.height
  <2>1. d.remote \in Commitments
    BY <1>6 DEF Disks
  <2>2. d.remote.height \in Nat
    BY <1>6, <2>1, CommitFacts
  <2>. QED  BY <2>2 DEF Pairs
<1>8. \A x \in X : x.LogIndex \in Nat /\ la <= x.LogIndex /\ x.LogIndex < ba /\ ToLogUpdate(x).LogIndex = x.LogIndex
  BY HeldFacts, LedgerFacts DEF OursHeld
<1>. HIDE DEF u, ba, la, X, LR, g0, p
<1>9. u \in Seq(Recs) /\ X \in SUBSET Recs /\ Distinct(u)
      /\ (\A k \in DOMAIN u : \E x \in X : u[k] = ToLogUpdate(x)) /\ (\A x \in X : ToLogUpdate(x) \in Range(u))
  BY <1>1 DEF Lists
<1>10. \A x \in X : IsRmv(x) => Parented(g, x.HtlcIndex, x.Amount)
  BY ONLY <1>3, <1>4, ParentFound
<1>11. \A k \in DOMAIN u : hh[k] = g0 /\ hh[k] \in Pairs
  BY ONLY <1>7
<1>12. t = [k \in DOMAIN u |-> Restored(u[k], g, hh[k])]
  BY ONLY <1>4, <1>11
<1>. HIDE DEF hh
<1>13. Reads(u, X, g, hh, t)
  BY ONLY <1>9, <1>10, <1>11, <1>12 DEF Reads
<1>14. \A k \in DOMAIN u : Fits(hh[k], u[k].LogIndex, p, d)
  <2>. SUFFICES ASSUME NEW k \in DOMAIN u PROVE Fits(hh[k], u[k].LogIndex, p, d)
    OBVIOUS
  <2>. DEFINE i == u[k].LogIndex
  <2>3. i \in Nat /\ la <= i /\ i < ba
    BY ONLY <1>8, <1>9, k \in DOMAIN u
  <2>. HIDE DEF i
  <2>5. /\ g0.Local = IF i < d.local.indices[p] THEN d.local.height ELSE 0
        /\ g0.Remote = IF i < d.remote.indices[p] THEN d.remote.height
                       ELSE IF i < TipOf(d).indices[p] THEN TipOf(d).height ELSE 0
    BY ONLY <1>2, <1>7, <2>3
  <2>6. Fits(g0, i, p, d)
    BY FitsMake, <1>5, <1>7, <2>3, <2>5
  <2>. QED  BY <1>11, <2>6 DEF i
<1>15. Placed(t, X, p, d)
  BY ONLY <1>13, <1>14, ListPlaced
<1>. QED  BY <1>15 DEF X, p

\* The updates of a list that are no Adds.
LEMMA ListedRest ==
    ASSUME NEW u, NEW X, Lists(u, X), NEW v, v = SubsequenceAt(u, {k \in DOMAIN u : u[k].EntryType # "Add"}),
           NEW Y, Y = {x \in X : ~IsAdd(x)}
    PROVE  Lists(v, Y)
<1>0. /\ u \in Seq(Recs) /\ X \in SUBSET Recs /\ Distinct(u)
      /\ \A k \in DOMAIN u : \E x \in X : u[k] = ToLogUpdate(x)
      /\ \A x \in X : ToLogUpdate(x) \in Range(u)
  BY DEF Lists
<1>. DEFINE I == {k \in DOMAIN u : u[k].EntryType # "Add"}
<1>1. I \in SUBSET (DOMAIN u) /\ v = SubsequenceAt(u, I)
  OBVIOUS
<1>2. \A k : k \in I <=> k \in DOMAIN u /\ ~IsAdd(u[k])
  BY DEF IsAdd
<1>. HIDE DEF I
<1>3. /\ v \in Seq(Recs) /\ Range(v) = {u[i] : i \in I}
      /\ \A j, k \in DOMAIN v : j < k => \E i, l \in I : i < l /\ v[j] = u[i] /\ v[k] = u[l]
      /\ \A k \in DOMAIN v : \E i \in I : v[k] = u[i]
  BY ONLY <1>0, <1>1, Picked
<1>4. \A x \in X : IsAdd(ToLogUpdate(x)) <=> IsAdd(x)
  BY <1>0, LogUpdateFacts
<1>5. \A k \in DOMAIN v : \E x \in Y : v[k] = ToLogUpdate(x)
  BY ONLY <1>0, <1>2, <1>3, <1>4, Y = {x \in X : ~IsAdd(x)}
<1>6. \A x \in Y : ToLogUpdate(x) \in Range(v)
  <2>. SUFFICES ASSUME NEW x \in Y PROVE ToLogUpdate(x) \in Range(v)
    OBVIOUS
  <2>1. x \in X /\ ~IsAdd(ToLogUpdate(x))
    BY <1>4
  <2>2. PICK k \in DOMAIN u : u[k] = ToLogUpdate(x)
    BY <1>0, <2>1 DEF Range
  <2>. QED  BY <1>2, <1>3, <2>1, <2>2
<1>7. Distinct(v)
  <2>. SUFFICES ASSUME NEW j \in DOMAIN v, NEW k \in DOMAIN v, v[j].LogIndex = v[k].LogIndex PROVE j = k
    BY DEF Distinct
  <2>1. j \in Nat /\ k \in Nat
    BY <1>3
  <2>2. \A i, l \in I : u[i].LogIndex = u[l].LogIndex => i = l
    BY <1>0, <1>2 DEF Distinct
  <2>3. \A i, l \in I : i < l => i # l
    <3>1. \A i \in I : i \in Nat
      BY <1>0, <1>2
    <3>. QED  BY <3>1
  <2>4. ~(j < k)
    BY ONLY <1>3, <2>2, <2>3, j \in DOMAIN v, k \in DOMAIN v, v[j].LogIndex = v[k].LogIndex
  <2>5. ~(k < j)
    BY ONLY <1>3, <2>2, <2>3, j \in DOMAIN v, k \in DOMAIN v, v[j].LogIndex = v[k].LogIndex
  <2>. QED  BY <2>1, <2>4, <2>5
<1>8. Y \in SUBSET Recs
  BY <1>0
<1>. QED  BY ONLY <1>3, <1>5, <1>6, <1>7, <1>8 DEF Lists

\* The peer's updates our commitment has, Adds excepted, are read back in place.
SignedAt(d, u) ==
    IF d.diff # NoDiff /\ u.LogIndex < d.diff.commit.indices.Remote THEN d.diff.commit.height ELSE 0
AckedRest(d) ==
    SubsequenceAt(d.unsignedAcked, {k \in DOMAIN d.unsignedAcked : d.unsignedAcked[k].EntryType # "Add"})

\* The updates of the peer that we acknowledged and did not sign again are
\* restored with their heights.
LEMMA AckedPlaced ==
    ASSUME NEW K, NEW ix, NEW hc, NEW d, Ledger(K, ix, hc, d), NEW g,
           Offers(g, LiveOn(K.Local, K.Remote, d.remote.indices.Local, d.remote.indices.Remote), K.Local), NEW t,
           t = [k \in DOMAIN AckedRest(d) |->
                  Restored(AckedRest(d)[k], g, [Local |-> d.local.height, Remote |-> SignedAt(d, AckedRest(d)[k])])]
    PROVE  Placed(t, TheirsHeld(K, d), "Remote", d)
<1>. DEFINE u == AckedRest(d)
            br == d.remote.indices.Remote
            lr == d.local.indices.Remote
            tr == TipOf(d).indices.Remote
            X == TheirsHeld(K, d)
            LL == LiveOn(K.Local, K.Remote, d.remote.indices.Local, d.remote.indices.Remote)
            hh == [k \in DOMAIN u |-> [Local |-> d.local.height, Remote |-> SignedAt(d, u[k])]]
            p == "Remote"
<1>1. Lists(u, X)
  <2>1. Lists(d.unsignedAcked, Between(K.Remote, br, lr))
    BY AckedFacts
  <2>. DEFINE a == d.unsignedAcked
              Z == Between(K.Remote, br, lr)
  <2>2. u = SubsequenceAt(a, {k \in DOMAIN a : a[k].EntryType # "Add"}) /\ X = {x \in Z : ~IsAdd(x)} /\ Lists(a, Z)
    BY <2>1 DEF AckedRest, TheirsHeld
  <2>. HIDE DEF a, Z, u, X
  <2>. QED  BY ONLY <2>2, ListedRest
<1>2. /\ br \in Nat /\ lr \in Nat /\ tr \in Nat /\ lr = d.local.indices[p] /\ br = d.remote.indices[p]
      /\ tr = TipOf(d).indices[p]
  BY IndicesInOrder
<1>3. \A x \in X : IsRmv(x) => \E a \in LL : IsAdd(a) /\ a.HtlcIndex = x.HtlcIndex /\ a.Amount = x.Amount
  BY LoadedParents DEF TheirsLoaded
<1>4. Offers(g, LL, K.Local) /\ t = [k \in DOMAIN u |-> Restored(u[k], g, [Local |-> d.local.height, Remote |-> SignedAt(d, u[k])])]
  OBVIOUS
<1>5. p \in Party
  BY Parties
<1>6. d \in Disks
  BY DEF Ledger
<1>7. /\ d.local.height \in Nat
      /\ d.diff # NoDiff => d.diff.commit.height \in Nat /\ d.diff.commit.height = TipOf(d).height /\ d.diff.commit.indices.Remote = tr
      /\ d.diff = NoDiff => tr = br
  <2>1. d.local \in Commitments /\ TipOf(d) \in Commitments
    BY <1>6, CommitFacts DEF Disks
  <2>. QED  BY <1>6, <2>1, CommitFacts DEF TipOf
<1>8. \A x \in X : x.LogIndex \in Nat /\ br <= x.LogIndex /\ x.LogIndex < lr /\ ToLogUpdate(x).LogIndex = x.LogIndex
  BY LedgerFacts DEF TheirsHeld, Between
<1>. HIDE DEF u, br, lr, tr, X, LL, p
<1>9. u \in Seq(Recs) /\ X \in SUBSET Recs /\ Distinct(u)
      /\ (\A k \in DOMAIN u : \E x \in X : u[k] = ToLogUpdate(x)) /\ (\A x \in X : ToLogUpdate(x) \in Range(u))
  BY <1>1 DEF Lists
<1>10. \A x \in X : IsRmv(x) => Parented(g, x.HtlcIndex, x.Amount)
  BY ONLY <1>3, <1>4, ParentFound
<1>11. \A k \in DOMAIN u : hh[k] \in Pairs /\ hh[k].Local = d.local.height /\ hh[k].Remote = SignedAt(d, u[k])
  BY ONLY <1>7 DEF Pairs, SignedAt
<1>12. t = [k \in DOMAIN u |-> Restored(u[k], g, hh[k])]
  <2>1. \A k \in DOMAIN u : hh[k] = [Local |-> d.local.height, Remote |-> SignedAt(d, u[k])]
    OBVIOUS
  <2>. HIDE DEF hh
  <2>. QED  BY ONLY <1>4, <2>1
<1>. HIDE DEF hh
<1>13. Reads(u, X, g, hh, t)
  BY ONLY <1>9, <1>10, <1>11, <1>12 DEF Reads
<1>14. \A k \in DOMAIN u : Fits(hh[k], u[k].LogIndex, p, d)
  <2>. SUFFICES ASSUME NEW k \in DOMAIN u PROVE Fits(hh[k], u[k].LogIndex, p, d)
    OBVIOUS
  <2>. DEFINE i == u[k].LogIndex
              g0 == hh[k]
  <2>3. i \in Nat /\ br <= i /\ i < lr
    BY ONLY <1>8, <1>9, k \in DOMAIN u
  <2>4. g0 \in Pairs /\ g0.Local = d.local.height
        /\ g0.Remote = IF d.diff # NoDiff /\ i < d.diff.commit.indices.Remote THEN d.diff.commit.height ELSE 0
    BY ONLY <1>11, k \in DOMAIN u DEF SignedAt
  <2>. HIDE DEF i, g0
  <2>5. /\ g0.Local = IF i < d.local.indices[p] THEN d.local.height ELSE 0
        /\ g0.Remote = IF i < d.remote.indices[p] THEN d.remote.height
                       ELSE IF i < TipOf(d).indices[p] THEN TipOf(d).height ELSE 0
    BY ONLY <1>2, <1>7, <2>3, <2>4
  <2>6. Fits(g0, i, p, d)
    BY FitsMake, <1>5, <2>3, <2>4, <2>5
  <2>. QED  BY <2>6 DEF i, g0
<1>15. Placed(t, X, p, d)
  BY ONLY <1>13, <1>14, ListPlaced
<1>. QED  BY <1>15 DEF X, p

\* Two lists in place, with no update in common, are in place together.
LEMMA PlacedTogether ==
    ASSUME NEW s, NEW X, NEW t, NEW Y, NEW p, NEW d, Placed(s, X, p, d), Placed(t, Y, p, d),
           \A x \in X : \A y \in Y : x.LogIndex # y.LogIndex
    PROVE  Placed(s \o t, X \cup Y, p, d)
<1>. DEFINE u == s \o t
<1>0. /\ s \in Seq(Entries) /\ Cores(s) = X /\ Distinct(s) /\ \A e \in Range(s) : Marked(e, p, d)
      /\ t \in Seq(Entries) /\ Cores(t) = Y /\ Distinct(t) /\ \A e \in Range(t) : Marked(e, p, d)
  BY DEF Placed
<1>1. Joins(s, t, u)
  BY <1>0 DEF Joins
<1>2. \A e \in Range(s) : \A f \in Range(t) : e.LogIndex # f.LogIndex
  <2>. SUFFICES ASSUME NEW e \in Range(s), NEW f \in Range(t) PROVE e.LogIndex # f.LogIndex
    OBVIOUS
  <2>1. e \in Entries /\ f \in Entries /\ Core(e) \in X /\ Core(f) \in Y
    BY <1>0, ListFacts
  <2>2. Core(e).LogIndex = e.LogIndex /\ Core(f).LogIndex = f.LogIndex
    BY <2>1, CoreFacts
  <2>. QED  BY <2>1, <2>2
<1>. HIDE DEF u
<1>3. /\ u \in Seq(Entries) /\ Cores(u) = Cores(s) \cup Cores(t) /\ Range(u) = Range(s) \cup Range(t) /\ Distinct(u)
  BY ONLY <1>0, <1>1, <1>2, Joined
<1>4. Placed(u, X \cup Y, p, d)
  BY ONLY <1>0, <1>3 DEF Placed
<1>. QED  BY <1>4 DEF u

\* The logs w that are read back, and how they come about: l0 is the HTLCs, l1
\* has our updates o of the pending commitment, with c Adds, l2 the peer's that
\* are acked (a), and w ours that the peer has still to sign (u).
LogsOf(d, l0, l1, l2, w, o, a, u, c) ==
    /\ l0 = Htlcs(d) /\ l1 = RestorePendingLocalUpdates(l0, d)
    /\ l2 = RestorePendingRemoteUpdates(l1, d) /\ w = RestoredLogs(d)
    /\ o = [k \in DOMAIN Pending(d) |->
               Restored(Pending(d)[k], l0.Remote, [Local |-> 0, Remote |-> d.diff.commit.height])]
    /\ a = [k \in DOMAIN AckedRest(d) |->
               Restored(AckedRest(d)[k], l1.Local,
                        [Local |-> d.local.height, Remote |-> SignedAt(d, AckedRest(d)[k])])]
    /\ u = [k \in DOMAIN d.remoteUnsigned |->
               Restored(d.remoteUnsigned[k], l2.Remote, [Local |-> 0, Remote |-> d.remote.height])]
    /\ c = Cardinality({k \in DOMAIN Pending(d) : Pending(d)[k].EntryType = "Add"})

\* They are, field by field:
LogsAre(d, l0, l1, l2, w, o, a, u, c) ==
    /\ l0.Remote.list = RestoredHtlcs(d, "Remote")
    /\ l1.Local.list = RestoredHtlcs(d, "Local") \o o
    /\ l2.Remote.list = RestoredHtlcs(d, "Remote") \o a
    /\ w = [Local |-> [logIndex |-> d.remote.indices.Local + Len(Pending(d)),
                       htlcCounter |-> d.remote.htlcIndex.Local + c,
                       list |-> (RestoredHtlcs(d, "Local") \o o) \o u,
                       modified |-> {} \cup RemovedBy(AckedRest(d))],
            Remote |-> [logIndex |-> d.local.indices.Remote, htlcCounter |-> d.local.htlcIndex.Remote,
                        list |-> RestoredHtlcs(d, "Remote") \o a,
                        modified |-> ({} \cup RemovedBy(Pending(d))) \cup RemovedBy(d.remoteUnsigned)]]

\* Reading them back yields these.
LEMMA LogsRead ==
    ASSUME NEW d, NEW l0, NEW l1, NEW l2, NEW w, NEW o, NEW a, NEW u, NEW c, LogsOf(d, l0, l1, l2, w, o, a, u, c)
    PROVE  LogsAre(d, l0, l1, l2, w, o, a, u, c)
<1>. DEFINE hl == RestoredHtlcs(d, "Local")
            hr == RestoredHtlcs(d, "Remote")
            rp == RemovedBy(Pending(d))
            ra == RemovedBy(AckedRest(d))
            ru == RemovedBy(d.remoteUnsigned)
            n == Len(Pending(d))
            ia == d.remote.indices.Local
            ih == d.remote.htlcIndex.Local
            ra1 == d.local.indices.Remote
            rh1 == d.local.htlcIndex.Remote
<1>1. l0 = [Local |-> [logIndex |-> ia, htlcCounter |-> ih, list |-> hl, modified |-> {}],
            Remote |-> [logIndex |-> ra1, htlcCounter |-> rh1, list |-> hr, modified |-> {}]]
  BY DEF LogsOf, Htlcs, NewUpdateLog
<1>2. l1 = [l0 EXCEPT !.Local.list = @ \o o, !.Local.logIndex = @ + n, !.Local.htlcCounter = @ + c, !.Remote.modified = @ \cup rp]
  BY DEF LogsOf, RestorePendingLocalUpdates
<1>3. l2 = [l1 EXCEPT !.Remote.list = @ \o a, !.Local.modified = @ \cup ra]
  BY DEF LogsOf, RestorePendingRemoteUpdates, AckedRest, SignedAt
<1>4. w = [l2 EXCEPT !.Local.list = @ \o u, !.Remote.modified = @ \cup ru]
  BY DEF LogsOf, RestoredLogs, RestorePeerLocalUpdates
<1>. HIDE DEF hl, hr, rp, ra, ru, n, ia, ih, ra1, rh1
<1>5. l1 = [Local |-> [logIndex |-> ia + n, htlcCounter |-> ih + c, list |-> hl \o o, modified |-> {}],
            Remote |-> [logIndex |-> ra1, htlcCounter |-> rh1, list |-> hr, modified |-> {} \cup rp]]
  BY ONLY <1>1, <1>2, ZenonT(60)
<1>6. l2 = [Local |-> [logIndex |-> ia + n, htlcCounter |-> ih + c, list |-> hl \o o, modified |-> {} \cup ra],
            Remote |-> [logIndex |-> ra1, htlcCounter |-> rh1, list |-> hr \o a, modified |-> {} \cup rp]]
  BY ONLY <1>3, <1>5
<1>7. w = [Local |-> [logIndex |-> ia + n, htlcCounter |-> ih + c, list |-> (hl \o o) \o u, modified |-> {} \cup ra],
           Remote |-> [logIndex |-> ra1, htlcCounter |-> rh1, list |-> hr \o a, modified |-> ({} \cup rp) \cup ru]]
  BY ONLY <1>4, <1>6
<1>8. l0.Remote.list = hr /\ l1.Local.list = hl \o o /\ l2.Remote.list = hr \o a
  BY ONLY <1>1, <1>5, <1>6
<1>. QED  BY ONLY <1>7, <1>8 DEF LogsAre, hl, hr, rp, ra, ru, n, ia, ih, ra1, rh1

\* The HTLCs that updates on disk remove.
LEMMA RemovedTyped ==
    ASSUME NEW u, NEW X, Lists(u, X)
    PROVE  RemovedBy(u) \in SUBSET Nat
<1>1. \A h \in RemovedBy(u) : \E x \in X : IsRmv(x) /\ x.HtlcIndex = h
  BY RemovedFacts
<1>2. \A x \in X : x.HtlcIndex \in Nat
  BY DEF Lists, Recs
<1>. QED  BY ONLY <1>1, <1>2

\* The lists of a memory that is read back.
LEMMA LoadedLists ==
    ASSUME NEW K, NEW ix, NEW hc, NEW d, Ledger(K, ix, hc, d), NEW w, w = RestoredLogs(d)
    PROVE  /\ Placed(w.Local.list, OursLoaded(K, d), "Local", d)
           /\ Placed(w.Remote.list, TheirsLoaded(K, d), "Remote", d)
           /\ w = [Local |-> w.Local, Remote |-> w.Remote]
           /\ w.Local = [logIndex |-> TipOf(d).indices.Local, htlcCounter |-> TipOf(d).htlcIndex.Local,
                         list |-> w.Local.list, modified |-> RemovedBy(AckedRest(d))]
           /\ w.Remote = [logIndex |-> d.local.indices.Remote, htlcCounter |-> d.local.htlcIndex.Remote,
                          list |-> w.Remote.list, modified |-> RemovedBy(Pending(d)) \cup RemovedBy(d.remoteUnsigned)]
<1>. DEFINE A == K.Local
            R == K.Remote
            LL == LiveOn(K.Local, K.Remote, d.remote.indices.Local, d.remote.indices.Remote)
            LR == LiveOn(K.Remote, K.Local, d.local.indices.Remote, d.local.indices.Local)
            P == Between(K.Local, d.remote.indices.Local, TipOf(d).indices.Local)
            H == OursHeld(K, d)
            T == TheirsHeld(K, d)
            ba == d.remote.indices.Local
            hl == RestoredHtlcs(d, "Local")
            hr == RestoredHtlcs(d, "Remote")
            l0 == Htlcs(d)
            l1 == RestorePendingLocalUpdates(l0, d)
            l2 == RestorePendingRemoteUpdates(l1, d)
            o == [k \in DOMAIN Pending(d) |->
                    Restored(Pending(d)[k], l0.Remote, [Local |-> 0, Remote |-> d.diff.commit.height])]
            a == [k \in DOMAIN AckedRest(d) |->
                    Restored(AckedRest(d)[k], l1.Local,
                             [Local |-> d.local.height, Remote |-> SignedAt(d, AckedRest(d)[k])])]
            u == [k \in DOMAIN d.remoteUnsigned |->
                    Restored(d.remoteUnsigned[k], l2.Remote, [Local |-> 0, Remote |-> d.remote.height])]
            c == Cardinality({k \in DOMAIN Pending(d) : Pending(d)[k].EntryType = "Add"})
            Our(g) == Offers(g, LL, A)
            Their(g) == Offers(g, LR, R)
<1>1. Placed(hl, LL, "Local", d) /\ Placed(hr, LR, "Remote", d)
  BY OurHtlcs, TheirHtlcs
<1>2. /\ LL \subseteq A /\ LR \subseteq R /\ P \subseteq A /\ H \subseteq A /\ T \subseteq R
      /\ \A x \in LL : IsAdd(x) /\ x.LogIndex < ba
      /\ \A x \in LR : IsAdd(x)
      /\ \A x \in P : ba <= x.LogIndex
      /\ \A x \in T : ~IsAdd(x)
      /\ \A x \in H : ~IsAdd(x) /\ x.LogIndex < ba
  <2>1. \A x \in H : ~IsAdd(x) /\ x.LogIndex < ba
    BY HeldFacts
  <2>. QED  BY <2>1 DEF LiveOn, Between, OursHeld, TheirsHeld
<1>3. /\ \A x, y \in A : IsAdd(x) /\ IsAdd(y) /\ x.HtlcIndex = y.HtlcIndex => x = y
      /\ \A x, y \in R : IsAdd(x) /\ IsAdd(y) /\ x.HtlcIndex = y.HtlcIndex => x = y
      /\ \A x, y \in A : x.LogIndex = y.LogIndex => x = y
      /\ \A x, y \in R : x.LogIndex = y.LogIndex => x = y
      /\ \A x \in A : x.LogIndex \in Nat
      /\ \A x \in R : x.LogIndex \in Nat
  BY LedgerFacts
<1>4. ba \in Nat
  BY IndicesInOrder
<1>5. LogsOf(d, l0, l1, l2, w, o, a, u, c)
  BY DEF LogsOf
<1>6. OursLoaded(K, d) = (LL \cup P) \cup H /\ TheirsLoaded(K, d) = LR \cup T
  BY DEF OursLoaded, TheirsLoaded
<1>7. \A g, t : Their(g) /\ t = [k \in DOMAIN Pending(d) |-> Restored(Pending(d)[k], g, [Local |-> 0, Remote |-> d.diff.commit.height])]
                  => Placed(t, P, "Local", d)
  BY PendingPlaced
<1>8. \A g, t : Their(g) /\ t = [k \in DOMAIN d.remoteUnsigned |-> Restored(d.remoteUnsigned[k], g, [Local |-> 0, Remote |-> d.remote.height])]
                  => Placed(t, H, "Local", d)
  BY HeldPlaced
<1>9. \A g, t : Our(g) /\ t = [k \in DOMAIN AckedRest(d) |-> Restored(AckedRest(d)[k], g, [Local |-> d.local.height, Remote |-> SignedAt(d, AckedRest(d)[k])])]
                  => Placed(t, T, "Remote", d)
  BY AckedPlaced
<1>10. o = [k \in DOMAIN Pending(d) |-> Restored(Pending(d)[k], l0.Remote, [Local |-> 0, Remote |-> d.diff.commit.height])]
  OBVIOUS
<1>11. a = [k \in DOMAIN AckedRest(d) |-> Restored(AckedRest(d)[k], l1.Local, [Local |-> d.local.height, Remote |-> SignedAt(d, AckedRest(d)[k])])]
  OBVIOUS
<1>12. u = [k \in DOMAIN d.remoteUnsigned |-> Restored(d.remoteUnsigned[k], l2.Remote, [Local |-> 0, Remote |-> d.remote.height])]
  OBVIOUS
<1>13. \A g : /\ Our(g) <=> Offers(g, LL, A)
              /\ Their(g) <=> Offers(g, LR, R)
  OBVIOUS
<1>. HIDE DEF A, R, LL, LR, P, H, T, ba, hl, hr, l0, l1, l2, o, a, u, Our, Their
<1>28. /\ l0.Remote.list = hr /\ l1.Local.list = hl \o o /\ l2.Remote.list = hr \o a
      /\ w = [Local |-> [logIndex |-> ba + Len(Pending(d)), htlcCounter |-> d.remote.htlcIndex.Local + c,
                         list |-> (hl \o o) \o u, modified |-> {} \cup RemovedBy(AckedRest(d))],
              Remote |-> [logIndex |-> d.local.indices.Remote, htlcCounter |-> d.local.htlcIndex.Remote,
                          list |-> hr \o a,
                          modified |-> ({} \cup RemovedBy(Pending(d))) \cup RemovedBy(d.remoteUnsigned)]]
  <2>. HIDE DEF c
  <2>1. LogsOf(d, l0, l1, l2, w, o, a, u, c)
    BY ONLY <1>5
  <2>2. LogsAre(d, l0, l1, l2, w, o, a, u, c)
    BY ONLY <2>1, LogsRead
  <2>. QED  BY ONLY <2>2 DEF LogsAre, ba, hl, hr
<1>14. Their(l0.Remote)
  BY ONLY <1>1, <1>2, <1>3, <1>28, <1>13 DEF Offers, Placed
<1>15. Placed(o, P, "Local", d)
  BY ONLY <1>7, <1>10, <1>14
<1>16. Placed(hl \o o, LL \cup P, "Local", d)
  <2>1. \A x \in LL : \A y \in P : x.LogIndex # y.LogIndex
    BY ONLY <1>2, <1>3, <1>4
  <2>. QED  BY ONLY <1>1, <1>15, <2>1, PlacedTogether
<1>17. Our(l1.Local)
  BY ONLY <1>2, <1>3, <1>28, <1>13, <1>16 DEF Offers, Placed
<1>18. Placed(a, T, "Remote", d)
  BY ONLY <1>9, <1>11, <1>17
<1>19. Placed(hr \o a, LR \cup T, "Remote", d)
  <2>1. \A x \in LR : \A y \in T : x.LogIndex # y.LogIndex
    BY ONLY <1>2, <1>3
  <2>. QED  BY ONLY <1>1, <1>18, <2>1, PlacedTogether
<1>20. Their(l2.Remote)
  BY ONLY <1>2, <1>3, <1>28, <1>13, <1>19 DEF Offers, Placed
<1>21. Placed(u, H, "Local", d)
  BY ONLY <1>8, <1>12, <1>20
<1>22. Placed((hl \o o) \o u, (LL \cup P) \cup H, "Local", d)
  <2>1. \A x \in LL \cup P : \A y \in H : x.LogIndex # y.LogIndex
    BY ONLY <1>2, <1>3, <1>4
  <2>. QED  BY ONLY <1>16, <1>21, <2>1, PlacedTogether
<1>23. ba + Len(Pending(d)) = TipOf(d).indices.Local /\ d.remote.htlcIndex.Local + c = TipOf(d).htlcIndex.Local
  <2>1. Len(Pending(d)) = TipOf(d).indices.Local - ba /\ Adding(Pending(d), d.remote.htlcIndex.Local, TipOf(d).htlcIndex.Local)
    BY PendingFacts DEF ba
  <2>2. /\ TipOf(d).indices.Local \in Nat /\ TipOf(d).htlcIndex.Local \in Nat /\ d.remote.htlcIndex.Local \in Nat
    BY IndicesInOrder
  <2>3. c = TipOf(d).htlcIndex.Local - d.remote.htlcIndex.Local
    BY <2>1, AddsCounted
  <2>. HIDE DEF c
  <2>. QED  BY ONLY <1>4, <2>1, <2>2, <2>3
<1>. HIDE DEF c
<1>24. w = [Local |-> [logIndex |-> TipOf(d).indices.Local, htlcCounter |-> TipOf(d).htlcIndex.Local,
                       list |-> (hl \o o) \o u, modified |-> RemovedBy(AckedRest(d))],
            Remote |-> [logIndex |-> d.local.indices.Remote, htlcCounter |-> d.local.htlcIndex.Remote,
                        list |-> hr \o a, modified |-> RemovedBy(Pending(d)) \cup RemovedBy(d.remoteUnsigned)]]
  <2>1. {} \cup RemovedBy(AckedRest(d)) = RemovedBy(AckedRest(d)) /\ {} \cup RemovedBy(Pending(d)) = RemovedBy(Pending(d))
    OBVIOUS
  <2>. QED  BY ONLY <1>28, <1>23, <2>1
<1>25. w.Local.list = (hl \o o) \o u /\ w.Remote.list = hr \o a
  BY ONLY <1>24
<1>26. Placed(w.Local.list, OursLoaded(K, d), "Local", d) /\ Placed(w.Remote.list, TheirsLoaded(K, d), "Remote", d)
  BY ONLY <1>6, <1>19, <1>22, <1>25
<1>27. /\ w = [Local |-> w.Local, Remote |-> w.Remote]
       /\ w.Local = [logIndex |-> TipOf(d).indices.Local, htlcCounter |-> TipOf(d).htlcIndex.Local,
                     list |-> w.Local.list, modified |-> RemovedBy(AckedRest(d))]
       /\ w.Remote = [logIndex |-> d.local.indices.Remote, htlcCounter |-> d.local.htlcIndex.Remote,
                      list |-> w.Remote.list, modified |-> RemovedBy(Pending(d)) \cup RemovedBy(d.remoteUnsigned)]
  BY ONLY <1>24
<1>. QED  BY ONLY <1>26, <1>27

\* A memory that is read back from disk is sound.
LEMMA SoundRestore ==
    ASSUME NEW K, NEW ix, NEW hc, NEW d, Ledger(K, ix, hc, d), Sent(d), NEW m, m = RestoredMem(d)
    PROVE  Sound(m, d)
<1>. DEFINE w == RestoredLogs(d)
            B == OursLoaded(K, d)
            S == TheirsLoaded(K, d)
            ra == RemovedBy(AckedRest(d))
            rp == RemovedBy(Pending(d))
            ru == RemovedBy(d.remoteUnsigned)
            ta == TipOf(d).indices.Local
            th == TipOf(d).htlcIndex.Local
            lr == d.local.indices.Remote
            lh == d.local.htlcIndex.Remote
            P == Between(K.Local, d.remote.indices.Local, TipOf(d).indices.Local)
            H == OursHeld(K, d)
            T == TheirsHeld(K, d)
<1>1. d \in Disks /\ K \in Books /\ ix \in Pairs /\ hc \in Pairs /\ Book(K, ix, hc, d)
  BY DEF Ledger
<1>2. /\ Placed(w.Local.list, B, "Local", d) /\ Placed(w.Remote.list, S, "Remote", d)
      /\ w = [Local |-> w.Local, Remote |-> w.Remote]
      /\ w.Local = [logIndex |-> ta, htlcCounter |-> th, list |-> w.Local.list, modified |-> ra]
      /\ w.Remote = [logIndex |-> lr, htlcCounter |-> lh, list |-> w.Remote.list, modified |-> rp \cup ru]
  BY LoadedLists
<1>3. m = [logs |-> w, chains |-> RestoredChains(d)]
  BY DEF RestoredMem
<1>4. ta \in Nat /\ th \in Nat /\ lr \in Nat /\ lh \in Nat
  BY IndicesInOrder
<1>5. Lists(AckedRest(d), T) /\ Lists(Pending(d), P) /\ Lists(d.remoteUnsigned, H)
  <2>1. Lists(d.unsignedAcked, Between(K.Remote, d.remote.indices.Remote, d.local.indices.Remote))
    BY AckedFacts
  <2>. DEFINE v == d.unsignedAcked
              Z == Between(K.Remote, d.remote.indices.Remote, d.local.indices.Remote)
              q == AckedRest(d)
  <2>2. q = SubsequenceAt(v, {k \in DOMAIN v : v[k].EntryType # "Add"}) /\ T = {x \in Z : ~IsAdd(x)} /\ Lists(v, Z)
    BY <2>1 DEF AckedRest, TheirsHeld
  <2>. HIDE DEF v, Z, q, T
  <2>3. Lists(q, T)
    BY ONLY <2>2, ListedRest
  <2>. QED  BY <2>3, PendingFacts, HeldLists DEF q
<1>6. \A x \in B : IsRmv(x) => x \in P \/ x \in H
  BY DEF OursLoaded, LiveOn, IsAdd, IsRmv
<1>7. \A x \in S : IsRmv(x) => x \in T
  BY DEF TheirsLoaded, LiveOn, IsAdd, IsRmv
<1>8. \A x \in B : x.LogIndex \in Nat /\ x.LogIndex < ta
  <2>1. Restoring(K.Local, K.Remote, H, d.local.indices.Local, d.local.indices.Remote,
                  d.remote.indices.Local, d.remote.indices.Remote, TipOf(d).indices.Local, TipOf(d).indices.Remote)
    BY LedgerRestoring
  <2>2. B = OursOf(K.Local, K.Remote, H, d.remote.indices.Local, d.remote.indices.Remote, TipOf(d).indices.Local)
    BY DEF OursLoaded, OursOf
  <2>. HIDE DEF B, S, H
  <2>. DEFINE A == K.Local
              R == K.Remote
              la == d.local.indices.Local
              lr2 == d.local.indices.Remote
              ba == d.remote.indices.Local
              br == d.remote.indices.Remote
              ta2 == TipOf(d).indices.Local
              tr == TipOf(d).indices.Remote
              S2 == TheirsOf(A, R, la, lr2, br)
  <2>3. Restoring(A, R, H, la, lr2, ba, br, ta2, tr) /\ B = OursOf(A, R, H, ba, br, ta2) /\ S2 = TheirsOf(A, R, la, lr2, br)
    BY <2>1, <2>2
  <2>. HIDE DEF A, R, la, lr2, ba, br, ta2, tr, S2
  <2>4. B \subseteq A /\ \A x \in B : x.LogIndex < ta2
    BY ONLY <2>3, OursKept
  <2>5. \A x \in A : x.LogIndex \in Nat
    BY ONLY <2>3 DEF Restoring
  <2>. QED  BY ONLY <2>4, <2>5 DEF ta2, ta
<1>9. m.chains = RestoredChains(d) /\ RestoredChains(d) \in [Local : Seq(Commitments), Remote : Seq(Commitments)]
  <2>1. d.local \in Commitments /\ d.remote \in Commitments
    BY <1>1 DEF Disks
  <2>2. d.diff # NoDiff => d.diff.commit \in Commitments
    BY <1>1 DEF Disks, Diffs
  <2>3. <<d.local>> \in Seq(Commitments) /\ <<d.remote>> \in Seq(Commitments)
        /\ (d.diff # NoDiff => <<d.remote, d.diff.commit>> \in Seq(Commitments))
    BY <2>1, <2>2
  <2>. QED  BY <1>3, <2>3 DEF RestoredChains
<1>. HIDE DEF w, B, S, ra, rp, ru, P, H, T, ta, th, lr, lh
<1>10. ra \in SUBSET Nat /\ rp \in SUBSET Nat /\ ru \in SUBSET Nat
  BY <1>5, RemovedTyped DEF ra, rp, ru
<1>11. /\ w.Local.list \in Seq(Entries) /\ Cores(w.Local.list) = B /\ Distinct(w.Local.list)
       /\ \A e \in Range(w.Local.list) : Marked(e, "Local", d)
       /\ w.Remote.list \in Seq(Entries) /\ Cores(w.Remote.list) = S /\ Distinct(w.Remote.list)
       /\ \A e \in Range(w.Remote.list) : Marked(e, "Remote", d)
  BY ONLY <1>2 DEF Placed
<1>12. w.Local \in UpdateLogs /\ w.Remote \in UpdateLogs
  BY ONLY <1>2, <1>4, <1>10, <1>11 DEF UpdateLogs
<1>13. w \in [Local : UpdateLogs, Remote : UpdateLogs]
  BY ONLY <1>2, <1>12
<1>14. m \in Mems
  BY ONLY <1>3, <1>9, <1>13 DEF Mems
<1>15. m.logs.Local.list = w.Local.list /\ m.logs.Remote.list = w.Remote.list
       /\ m.logs.Local.logIndex = ta /\ m.logs.Remote.logIndex = lr
       /\ m.logs.Local.htlcCounter = th /\ m.logs.Remote.htlcCounter = lh
       /\ m.logs.Local.modified = ra /\ m.logs.Remote.modified = rp \cup ru
  BY ONLY <1>2, <1>3
<1>16. /\ BookOf(m).Local = B /\ BookOf(m).Remote = S
       /\ LogIndices(m).Local = ta /\ LogIndices(m).Remote = lr
       /\ HtlcCounters(m).Local = th /\ HtlcCounters(m).Remote = lh
  BY ONLY <1>11, <1>15 DEF BookOf, LogIndices, HtlcCounters
<1>17. Book(BookOf(m), LogIndices(m), HtlcCounters(m), d)
  <2>. DEFINE L == BookOf(m)
              jx == LogIndices(m)
              jc == HtlcCounters(m)
  <2>1. L \in Books /\ jx \in Pairs /\ jc \in Pairs
    BY <1>14, MemFacts
  <2>2. L.Local = OursLoaded(K, d) /\ L.Remote = TheirsLoaded(K, d) /\ jx.Local = TipOf(d).indices.Local /\ jx.Remote = d.local.indices.Remote
        /\ jc.Local = TipOf(d).htlcIndex.Local /\ jc.Remote = d.local.htlcIndex.Remote
    BY <1>16 DEF B, S, ta, th, lr, lh
  <2>. HIDE DEF L, jx, jc
  <2>3. Ledger(K, ix, hc, d)
    OBVIOUS
  <2>4. Book(L, jx, jc, d)
    BY ONLY <2>1, <2>2, <2>3, BookLoaded
  <2>. QED  BY <2>4 DEF L, jx, jc
<1>18. \A x \in BookOf(m).Local : IsRmv(x) => x.HtlcIndex \in m.logs.Remote.modified
  <2>1. \A x \in P : IsRmv(x) => x.HtlcIndex \in rp
    BY <1>5, RemovedFacts DEF rp
  <2>2. \A x \in H : IsRmv(x) => x.HtlcIndex \in ru
    BY <1>5, RemovedFacts DEF ru
  <2>. QED  BY ONLY <1>6, <1>15, <1>16, <2>1, <2>2
<1>19. \A x \in BookOf(m).Remote : IsRmv(x) => x.HtlcIndex \in m.logs.Local.modified
  <2>1. \A x \in T : IsRmv(x) => x.HtlcIndex \in ra
    BY <1>5, RemovedFacts DEF ra
  <2>. QED  BY ONLY <1>7, <1>15, <1>16, <2>1
<1>20. InOrder(m.logs.Local.list, ta)
  <2>1. \A k \in DOMAIN w.Local.list : w.Local.list[k].LogIndex \in Nat /\ w.Local.list[k].LogIndex < ta
    <3>1. \A k \in DOMAIN w.Local.list : w.Local.list[k] \in Entries
      BY <1>11
    <3>2. \A k \in DOMAIN w.Local.list : Core(w.Local.list[k]) \in B
      BY <1>11 DEF Cores
    <3>. QED  BY <1>8, <3>1, <3>2, CoreFacts
  <2>2. \A k \in DOMAIN w.Local.list : ~(w.Local.list[k].LogIndex >= ta)
    BY ONLY <1>4, <2>1
  <2>. QED  BY ONLY <1>15, <2>2 DEF InOrder
<1>21. Sent(d)
  OBVIOUS
<1>22. d \in Disks /\ m.chains = RestoredChains(d)
  BY <1>1, <1>9
<1>23. /\ Distinct(m.logs.Local.list) /\ Distinct(m.logs.Remote.list)
       /\ \A e \in Range(m.logs.Local.list) : Marked(e, "Local", d)
       /\ \A e \in Range(m.logs.Remote.list) : Marked(e, "Remote", d)
  BY ONLY <1>11, <1>15
<1>24. InOrder(m.logs.Local.list, TipOf(d).indices.Local)
  BY ONLY <1>20 DEF ta
<1>. QED  BY ONLY <1>14, <1>17, <1>18, <1>19, <1>21, <1>22, <1>23, <1>24, SoundMake

-----------------------------------------------------------------------------
(* The steps of a node. *)

Updates == [type : {"update"}, EntryType : Types, HtlcIndex : Nat, Amount : Nat]
Txs == [height : Nat, balance : [Party -> Nat], fee : Nat, outputs : [Party -> SUBSET (Nat \X Nat)]]
Messages ==
    Updates \cup [type : {"commit_sig"}, tx : Txs] \cup [type : {"revoke_and_ack"}, height : Int]
      \cup [type : {"channel_reestablish"}, NextLocalCommitHeight : Nat, RemoteCommitTailHeight : Nat]

\* What a step of a node ends with: its link goes on, or fails, but never
\* because memory could not be read back.
Outcome(r) ==
    /\ HasFields(r, {"m", "d", "msgs", "fail"})
    /\ Sound(r.m, r.d)
    /\ r.msgs \in Seq(Messages)
    /\ r.fail \in {"", "badCommit", "syncError"}

\* The disk of a node has a book.
OnRecord(d) == (\E K, ix, hc : Ledger(K, ix, hc, d)) /\ Sent(d)

\* The disk of a sound node does.
LEMMA SoundOnRecord ==
    ASSUME NEW m, NEW d, Sound(m, d)
    PROVE  OnRecord(d)
<1>1. m \in Mems /\ d \in Disks /\ Book(BookOf(m), LogIndices(m), HtlcCounters(m), d) /\ Sent(d)
  BY SoundUse
<1>2. BookOf(m) \in Books /\ LogIndices(m) \in Pairs /\ HtlcCounters(m) \in Pairs
  BY <1>1, MemFacts
<1>3. Ledger(BookOf(m), LogIndices(m), HtlcCounters(m), d)
  BY <1>1, <1>2 DEF Ledger
<1>. QED  BY ONLY <1>1, <1>3 DEF OnRecord

\* Only one of the messages is an update.
LEMMA UpdateMessage ==
    ASSUME NEW u \in Messages, u.type = "update"
    PROVE  u.EntryType \in Types /\ u.HtlcIndex \in Nat /\ u.Amount \in Nat
BY DEF Messages, Updates

\* The messages a node makes up.
LEMMA MessageTypes ==
    /\ \A t \in Types : \A h, a \in Nat : Update(t, h, a) \in Messages
    /\ \A tx \in Txs : [type |-> "commit_sig", tx |-> tx] \in Messages
    /\ \A h \in Int : [type |-> "revoke_and_ack", height |-> h] \in Messages
    /\ \A h, t \in Nat : [type |-> "channel_reestablish", NextLocalCommitHeight |-> h, RemoteCommitTailHeight |-> t] \in Messages
<1>1. \A t \in Types : \A h, a \in Nat : Update(t, h, a) \in Updates
  BY DEF Update, Updates
<1>2. \A tx \in Txs : [type |-> "commit_sig", tx |-> tx] \in [type : {"commit_sig"}, tx : Txs]
  OBVIOUS
<1>3. \A h \in Int : [type |-> "revoke_and_ack", height |-> h] \in [type : {"revoke_and_ack"}, height : Int]
  OBVIOUS
<1>4. \A h, t \in Nat : [type |-> "channel_reestablish", NextLocalCommitHeight |-> h, RemoteCommitTailHeight |-> t]
                           \in [type : {"channel_reestablish"}, NextLocalCommitHeight : Nat, RemoteCommitTailHeight : Nat]
  OBVIOUS
<1>. QED  BY ONLY <1>1, <1>2, <1>3, <1>4 DEF Messages

\* What is signed.
LEMMA TxTyped ==
    ASSUME NEW c \in Commitments
    PROVE  TxOf(c, "Remote") \in Txs
<1>1. /\ c.height \in Nat /\ c.fee \in Nat /\ c.balance.Local \in Nat /\ c.balance.Remote \in Nat
      /\ c.outputs.Local \in SUBSET Outs /\ c.outputs.Remote \in SUBSET Outs
  BY DEF Commitments, Pairs
<1>. DEFINE b == [p \in Party |-> c.balance[CounterParty(p)]]
            o == [p \in Party |-> {<<q.HtlcIndex, q.Amount>> : q \in c.outputs[CounterParty(p)]}]
<1>2. TxOf(c, "Remote") = [height |-> c.height, balance |-> b, fee |-> c.fee, outputs |-> o]
  BY DEF TxOf
<1>3. b \in [Party -> Nat]
  BY <1>1, Parties
<1>4. o \in [Party -> SUBSET (Nat \X Nat)]
  <2>1. \A q \in Outs : <<q.HtlcIndex, q.Amount>> \in Nat \X Nat
    BY DEF Outs
  <2>2. \A p \in Party : c.outputs[CounterParty(p)] \in SUBSET Outs
    BY <1>1, Parties
  <2>3. \A p \in Party : {<<q.HtlcIndex, q.Amount>> : q \in c.outputs[CounterParty(p)]} \in SUBSET (Nat \X Nat)
    BY <2>1, <2>2
  <2>. QED  BY <2>3
<1>. HIDE DEF b, o
<1>. QED  BY <1>1, <1>2, <1>3, <1>4 DEF Txs

\* A node signs if it can.
LEMMA SignOutcome ==
    ASSUME NEW m, NEW d, Sound(m, d), NEW n \in Node
    PROVE  Outcome(UpdateCommitTx(m, d, n))
<1>. DEFINE r == UpdateCommitTx(m, d, n)
            s == SignNextCommitment(m, d, n)
            sane == CommitmentSane(m, n, "Remote", FetchHTLCView(m, SignIndices(m)), "NoBuffer")
<1>1. HasFields(r, {"m", "d", "msgs", "fail"})
  BY UpdateFields
<1>2. <<>> \in Seq(Messages)
  OBVIOUS
<1>3. CASE HasUnackedCommitment(m.chains.Remote) \/ ~sane
  <2>1. r.m = m /\ r.d = d /\ r.msgs = <<>> /\ r.fail \in {"", "badCommit", "syncError"}
    BY <1>3 DEF UpdateCommitTx
  <2>. HIDE DEF r
  <2>. QED  BY ONLY <1>1, <1>2, <2>1, Sound(m, d) DEF Outcome, r
<1>4. CASE ~HasUnackedCommitment(m.chains.Remote) /\ sane
  <2>1. r = s
    BY <1>4 DEF UpdateCommitTx
  <2>2. d.diff = NoDiff
    BY <1>4, SoundUse, Unacked
  <2>3. Sound(s.m, s.d)
    BY <1>4, <2>2, SoundSign
  <2>. DEFINE c == CommitmentView(m, n, "Remote", SignIndices(m), SignHtlcIndices(m))
              m2 == SetCommitHeights(m, "Remote", SignIndices(m), ChainTip(m.chains.Remote).height + 1)
              q == CreateCommitDiff(m2, c)
              msg == [type |-> "commit_sig", tx |-> TxOf(c, "Remote")]
  <2>4. s.d = AppendRemoteCommitChain(d, q) /\ s.msgs = <<msg>> /\ s.fail = ""
    BY DEF SignNextCommitment, SignCommitment
  <2>5. q # NoDiff /\ q.commit = c
    BY DEF CreateCommitDiff, NoDiff
  <2>6. msg = [type |-> "commit_sig", tx |-> TxOf(c, "Remote")]
    OBVIOUS
  <2>. HIDE DEF q, c, m2, msg
  <2>7. d \in Disks /\ s.d \in Disks
    BY <2>3, SoundUse
  <2>8. s.d.diff = q
    <3>1. d = [local |-> d.local, remote |-> d.remote, diff |-> d.diff, unsignedAcked |-> d.unsignedAcked,
               remoteUnsigned |-> d.remoteUnsigned, ackedKey |-> d.ackedKey, lastWasRevoke |-> d.lastWasRevoke, fwdPkgs |-> d.fwdPkgs]
      BY ONLY <2>7 DEF Disks
    <3>. QED  BY ONLY <2>4, <3>1 DEF AppendRemoteCommitChain
  <2>9. s.d.diff \in Diffs \cup {NoDiff}
    BY ONLY <2>7 DEF Disks
  <2>10. c \in Commitments
    <3>1. q \in Diffs
      BY ONLY <2>5, <2>8, <2>9
    <3>. QED  BY ONLY <2>5, <3>1 DEF Diffs
  <2>11. msg \in Messages
    BY ONLY <2>6, <2>10, TxTyped, MessageTypes
  <2>12. s.msgs \in Seq(Messages) /\ s.fail \in {"", "badCommit", "syncError"}
    <3>1. <<msg>> \in Seq(Messages)
      BY ONLY <2>11
    <3>. QED  BY ONLY <2>4, <3>1
  <2>. HIDE DEF r, s
  <2>13. Outcome(r)
    BY ONLY <1>1, <2>1, <2>3, <2>12 DEF Outcome
  <2>. QED  BY <2>13 DEF r
<1>. QED  BY <1>3, <1>4

\* Messages sent before.
LEMMA AfterOutcome ==
    ASSUME NEW r, Outcome(r), NEW msgs \in Seq(Messages)
    PROVE  Outcome(After(msgs, r))
<1>. DEFINE q == After(msgs, r)
<1>0. HasFields(r, {"m", "d", "msgs", "fail"}) /\ Sound(r.m, r.d) /\ r.msgs \in Seq(Messages) /\ r.fail \in {"", "badCommit", "syncError"}
  BY DEF Outcome
<1>1. HasFields(q, {"m", "d", "msgs", "fail"}) /\ q.m = r.m /\ q.d = r.d /\ q.fail = r.fail
  BY <1>0, AfterFields
<1>2. q.msgs = msgs \o r.msgs
  BY <1>0 DEF After, HasFields
<1>. HIDE DEF q
<1>3. q.msgs \in Seq(Messages)
  <2>. DEFINE t == r.msgs
  <2>1. t \in Seq(Messages) /\ q.msgs = msgs \o t
    BY <1>0, <1>2
  <2>. HIDE DEF t
  <2>2. msgs \o t \in Seq(Messages)
    BY ONLY <2>1, msgs \in Seq(Messages)
  <2>. QED  BY ONLY <2>1, <2>2
<1>4. Outcome(q)
  BY ONLY <1>0, <1>1, <1>3 DEF Outcome
<1>. QED  BY <1>4 DEF q

\* A result that leaves memory and disk alone.
LEMMA SameOutcome ==
    ASSUME NEW m, NEW d, Sound(m, d), NEW msgs \in Seq(Messages), NEW why \in {"", "badCommit", "syncError"}, NEW r,
           r = [m |-> m, d |-> d, msgs |-> msgs, fail |-> why]
    PROVE  Outcome(r)
<1>1. HasFields(r, {"m", "d", "msgs", "fail"})
  BY DEF HasFields
<1>2. r.m = m /\ r.d = d /\ r.msgs = msgs /\ r.fail = why
  OBVIOUS
<1>. QED  BY ONLY <1>1, <1>2, Sound(m, d), msgs \in Seq(Messages), why \in {"", "badCommit", "syncError"} DEF Outcome

\* A full batch is signed for.
LEMMA BatchOutcome ==
    ASSUME NEW m, NEW d, Sound(m, d), NEW n \in Node
    PROVE  Outcome(TryBatchUpdateCommitTx(m, d, n))
<1>1. CASE NumPendingUpdates(m) < BatchSize
  <2>1. TryBatchUpdateCommitTx(m, d, n) = [m |-> m, d |-> d, msgs |-> <<>>, fail |-> ""]
    BY <1>1 DEF TryBatchUpdateCommitTx
  <2>2. <<>> \in Seq(Messages) /\ "" \in {"", "badCommit", "syncError"}
    OBVIOUS
  <2>. QED  BY <2>1, <2>2, SameOutcome
<1>2. CASE ~(NumPendingUpdates(m) < BatchSize)
  BY <1>2, SignOutcome DEF TryBatchUpdateCommitTx
<1>. QED  BY <1>1, <1>2

\* What is sent again of a commitment the peer did not get.
LEMMA ResendTyped ==
    ASSUME NEW d \in Disks, d.diff # NoDiff
    PROVE  CommitResend(d) \in Seq(Messages)
<1>. DEFINE u == d.diff.updates
            c == d.diff.commit
            s == [k \in DOMAIN u |-> Update(u[k].EntryType, u[k].HtlcIndex, u[k].Amount)]
            msg == [type |-> "commit_sig", tx |-> TxOf(d.diff.commit, "Remote")]
<1>1. d.diff \in Diffs
  BY DEF Disks
<1>2. u \in Seq(Recs) /\ c \in Commitments
  BY <1>1 DEF Diffs
<1>3. CommitResend(d) = s \o <<msg>>
  BY DEF CommitResend
<1>4. msg = [type |-> "commit_sig", tx |-> TxOf(c, "Remote")]
  OBVIOUS
<1>. HIDE DEF u, c
<1>5. \A k \in DOMAIN u : u[k].EntryType \in Types /\ u[k].HtlcIndex \in Nat /\ u[k].Amount \in Nat
  <2>1. \A k \in DOMAIN u : u[k] \in Recs
    BY <1>2
  <2>. QED  BY <2>1 DEF Recs
<1>6. \A k \in DOMAIN u : s[k] \in Messages
  BY <1>5, MessageTypes
<1>7. s \in [1..Len(u) -> Messages] /\ Len(u) \in Nat
  <2>1. DOMAIN u = 1..Len(u) /\ Len(u) \in Nat
    BY <1>2
  <2>2. DOMAIN s = DOMAIN u /\ s = [k \in DOMAIN u |-> s[k]]
    OBVIOUS
  <2>. HIDE DEF s
  <2>. QED  BY ONLY <1>6, <2>1, <2>2
<1>. HIDE DEF s, msg
<1>8. s \in Seq(Messages)
  BY ONLY <1>7
<1>9. msg \in Messages
  BY ONLY <1>2, <1>4, TxTyped, MessageTypes
<1>10. <<msg>> \in Seq(Messages)
  BY ONLY <1>9
<1>11. s \o <<msg>> \in Seq(Messages)
  BY ONLY <1>8, <1>10
<1>. QED  BY <1>3, <1>11

\* What the second switch does with a result.
LEMMA CommitmentResendCases ==
    ASSUME NEW r, NEW m, NEW d, NEW next, ChainTip(m.chains.Remote).height \in Int
    PROVE  \/ CommitmentResend(r, m, d, next) = r
           \/ /\ next = ChainTip(m.chains.Remote).height /\ next > ChainTail(m.chains.Remote).height
              /\ CommitmentResend(r, m, d, next) = WithCommitment(r, d)
           \/ CommitmentResend(r, m, d, next) = [r EXCEPT !.fail = "syncError"]
<1>. DEFINE tip  == ChainTip(m.chains.Remote).height
            tail == ChainTail(m.chains.Remote).height
            y == WithCommitment(r, d)
            x == [r EXCEPT !.fail = "syncError"]
            f == r.fail
            t1 == tip + 1
            z == CASE f # "" -> r
                   [] f = "" /\ next = t1 -> r
                   [] f = "" /\ next = tip /\ next > tail -> y
                   [] OTHER -> x
<1>1. CommitmentResend(r, m, d, next) = z
  BY DEF CommitmentResend
<1>. HIDE DEF x, y, tip, tail, f, t1
<1>0. tip \in Int
  BY DEF tip
<1>00. t1 = tip + 1
  BY DEF t1
<1>2. CASE f # ""
  <2>1. z = r
    BY ONLY <1>2
  <2>. QED  BY ONLY <1>1, <2>1
<1>3. CASE f = "" /\ next = t1
  <2>a. CASE ~(next = tip /\ next > tail)
    <3>1. z = r
      BY ONLY <1>3, <2>a
    <3>. QED  BY ONLY <1>1, <3>1
  <2>b. CASE next = tip /\ next > tail
    <3>. HIDE DEF z
    <3>2. tip = t1
      BY ONLY <1>3, <2>b
    <3>1. FALSE
      BY ONLY <1>0, <1>00, <3>2
    <3>. QED  BY ONLY <3>1
  <2>. QED  BY ONLY <2>a, <2>b
<1>4. CASE f = "" /\ ~(next = t1) /\ next = tip /\ next > tail
  <2>1. z = y
    BY ONLY <1>4
  <2>. QED  BY ONLY <1>1, <1>4, <2>1 DEF y, tip, tail
<1>5. CASE f = "" /\ ~(next = t1) /\ ~(next = tip /\ next > tail)
  <2>1. z = x
    BY ONLY <1>5
  <2>. QED  BY ONLY <1>1, <2>1 DEF x
<1>. QED  BY ONLY <1>2, <1>3, <1>4, <1>5

\* Replacing one field of a result.
LEMMA ResultFields ==
    ASSUME NEW m, NEW d, NEW e, NEW s, NEW f, NEW g
    PROVE  /\ [[m |-> m, d |-> d, msgs |-> e, fail |-> f] EXCEPT !.msgs = s] = [m |-> m, d |-> d, msgs |-> s, fail |-> f]
           /\ [[m |-> m, d |-> d, msgs |-> e, fail |-> f] EXCEPT !.fail = g] = [m |-> m, d |-> d, msgs |-> e, fail |-> g]
<1>1. [[m |-> m, d |-> d, msgs |-> e, fail |-> f] EXCEPT !.msgs = s] = [m |-> m, d |-> d, msgs |-> s, fail |-> f]
  OBVIOUS
<1>2. [[m |-> m, d |-> d, msgs |-> e, fail |-> f] EXCEPT !.fail = g] = [m |-> m, d |-> d, msgs |-> e, fail |-> g]
  OBVIOUS
<1>. QED  BY <1>1, <1>2

\* A node that hears from its peer after a reconnection.
LEMMA SyncOutcome ==
    ASSUME NEW m, NEW d, Sound(m, d), NEW n \in Node, NEW msg
    PROVE  Outcome(ProcessChanSyncMsg(m, d, n, msg))
<1>. DEFINE local == ChainTail(m.chains.Local).height
            rv == [type |-> "revoke_and_ack", height |-> local - 1]
            revoke == <<rv>>
            same(msgs, why) == [m |-> m, d |-> d, msgs |-> msgs, fail |-> why]
            r == RevocationResend(m, d, n, msg)
            z == CommitmentResend(r, m, d, msg.NextLocalCommitHeight)
            upd == UpdateCommitTx(m, d, n)
            tip  == ChainTip(m.chains.Remote).height
            tail == ChainTail(m.chains.Remote).height
            next == msg.NextLocalCommitHeight
            e == <<>>
<1>1. d \in Disks /\ m.chains = RestoredChains(d)
  BY SoundUse
<1>2. d.local.height \in Nat /\ d.remote.height \in Nat /\ TipOf(d).height \in Nat
  <2>1. d.local \in Commitments /\ d.remote \in Commitments /\ TipOf(d) \in Commitments
    BY <1>1, CommitFacts DEF Disks
  <2>. QED  BY <1>1, <2>1, CommitFacts
<1>3. ChainTail(RestoredChains(d).Local) = d.local /\ ChainTail(RestoredChains(d).Remote) = d.remote
  BY DEF ChainTail, RestoredChains
<1>4. local = d.local.height
  BY ONLY <1>1, <1>3
<1>5. revoke \in Seq(Messages)
  <2>1. local - 1 \in Int
    BY ONLY <1>2, <1>4
  <2>2. rv \in Messages
    <3>. DEFINE h == local - 1
    <3>. HIDE DEF local, h
    <3>1. rv = [type |-> "revoke_and_ack", height |-> h] /\ h \in Int
      BY <2>1 DEF h
    <3>. QED  BY ONLY <3>1, MessageTypes
  <2>. HIDE DEF rv
  <2>. QED  BY ONLY <2>2
<1>6. e \in Seq(Messages)
  OBVIOUS
<1>7. tail = d.remote.height /\ (d.diff = NoDiff => tip = tail) /\ tip \in Int
  <2>1. tail = d.remote.height
    BY ONLY <1>1, <1>3
  <2>2. d.diff = NoDiff => ChainTip(RestoredChains(d).Remote) = d.remote
    BY TipFacts, Parties DEF TipOn, TipOf
  <2>3. ChainTip(RestoredChains(d).Remote) = TipOf(d)
    BY TipFacts, Parties DEF TipOn
  <2>. QED  BY ONLY <1>1, <1>2, <2>1, <2>2, <2>3
<1>8. r \in {[m |-> m, d |-> d, msgs |-> <<>>, fail |-> ""], After(revoke, upd),
             [[m |-> m, d |-> d, msgs |-> <<>>, fail |-> ""] EXCEPT !.msgs = revoke],
             [[m |-> m, d |-> d, msgs |-> <<>>, fail |-> ""] EXCEPT !.fail = "syncError"]}
  BY DEF RevocationResend
<1>9. /\ [[m |-> m, d |-> d, msgs |-> <<>>, fail |-> ""] EXCEPT !.msgs = revoke] = [m |-> m, d |-> d, msgs |-> revoke, fail |-> ""]
      /\ [[m |-> m, d |-> d, msgs |-> <<>>, fail |-> ""] EXCEPT !.fail = "syncError"] = [m |-> m, d |-> d, msgs |-> <<>>, fail |-> "syncError"]
  <2>. DEFINE f == ""
              g == "syncError"
  <2>. HIDE DEF revoke, e, f, g
  <2>1. [[m |-> m, d |-> d, msgs |-> e, fail |-> f] EXCEPT !.msgs = revoke] = [m |-> m, d |-> d, msgs |-> revoke, fail |-> f]
    BY ONLY ResultFields
  <2>2. [[m |-> m, d |-> d, msgs |-> e, fail |-> f] EXCEPT !.fail = g] = [m |-> m, d |-> d, msgs |-> e, fail |-> g]
    BY ONLY ResultFields
  <2>. QED  BY ONLY <2>1, <2>2, Zenon DEF e, f, g
<1>10. r = same(e, "") \/ r = After(revoke, upd) \/ r = same(revoke, "") \/ r = same(e, "syncError")
  <2>. HIDE DEF revoke, upd, r
  <2>. QED  BY ONLY <1>8, <1>9 DEF same, e
<1>11. \A msgs \in Seq(Messages) : \A why \in {"", "badCommit", "syncError"} : Outcome(same(msgs, why))
  BY SameOutcome
<1>12. Outcome(After(revoke, upd))
  <2>1. Outcome(upd)
    BY SignOutcome
  <2>. HIDE DEF revoke, upd
  <2>. QED  BY ONLY <1>5, <2>1, AfterOutcome
<1>13. z = ProcessChanSyncMsg(m, d, n, msg)
  BY DEF ProcessChanSyncMsg
<1>. HIDE DEF same, revoke, e, upd, r
<1>14. Outcome(r)
  BY ONLY <1>5, <1>6, <1>10, <1>11, <1>12
<1>15. \/ z = r
       \/ next = tip /\ next > tail /\ z = WithCommitment(r, d)
       \/ z = [r EXCEPT !.fail = "syncError"]
  BY <1>7, CommitmentResendCases
<1>. HIDE DEF z, tip, tail, next
<1>16. HasFields(r, {"m", "d", "msgs", "fail"}) /\ Sound(r.m, r.d) /\ r.msgs \in Seq(Messages) /\ r.fail \in {"", "badCommit", "syncError"}
  BY ONLY <1>14 DEF Outcome
<1>17. CASE z = [r EXCEPT !.fail = "syncError"]
  <2>1. HasFields(z, {"m", "d", "msgs", "fail"}) /\ z.m = r.m /\ z.d = r.d /\ z.msgs = r.msgs /\ z.fail = "syncError"
    BY ONLY <1>16, <1>17 DEF HasFields
  <2>2. Outcome(z)
    BY ONLY <1>16, <2>1 DEF Outcome
  <2>. QED  BY <1>13, <2>2
<1>18. CASE next = tip /\ next > tail /\ z = WithCommitment(r, d)
  <2>1. d.diff # NoDiff
    BY ONLY <1>2, <1>7, <1>18
  <2>. DEFINE s == CommitResend(d)
              t == r.msgs
  <2>2. s \in Seq(Messages)
    BY <1>1, <2>1, ResendTyped
  <2>. HIDE DEF s
  <2>3. s \o t \in Seq(Messages) /\ t \o s \in Seq(Messages)
    <3>1. t \in Seq(Messages)
      BY <1>16
    <3>. HIDE DEF t
    <3>. QED  BY ONLY <2>2, <3>1
  <2>4. HasFields(z, {"m", "d", "msgs", "fail"}) /\ z.m = r.m /\ z.d = r.d /\ z.fail = r.fail /\ (z.msgs = s \o t \/ z.msgs = t \o s)
    BY ONLY <1>16, <1>18 DEF HasFields, WithCommitment, s
  <2>5. Outcome(z)
    BY ONLY <1>16, <2>3, <2>4 DEF Outcome
  <2>. QED  BY <1>13, <2>5
<1>. QED  BY ONLY <1>13, <1>14, <1>15, <1>17, <1>18

\* Node n's side of the commitments the channel starts with.
LEMMA InitCommitFacts ==
    ASSUME NEW n \in Node
    PROVE  /\ InitCommit(n) \in Commitments
           /\ InitCommit(n).height = Past
           /\ InitCommit(n).indices.Local \in {0, Past} /\ InitCommit(n).indices.Remote \in {0, Past}
           /\ InitCommit(n).htlcIndex.Local = 0 /\ InitCommit(n).htlcIndex.Remote = 0
           /\ InitCommit(n).outputs.Local = {} /\ InitCommit(n).outputs.Remote = {}
           /\ Total(InitCommit(n)) = Capacity
<1>. DEFINE o == Other(n)
            fee == CommitFee(InitFeePerKw, 0)
            of(p) == IF p = "Local" THEN n ELSE o
            I(p) == IF of(p) = Opener THEN Past ELSE 0
            G(p) == Balance[of(p)] - (IF of(p) = Opener THEN fee ELSE 0)
            ind == [p \in Party |-> I(p)]
            bal == [p \in Party |-> G(p)]
            c == InitCommit(n)
<1>1. o \in Node /\ Balance[n] \in Nat /\ Balance[o] \in Nat /\ Past \in Nat
      /\ ((n = Opener /\ o # Opener) \/ (n # Opener /\ o = Opener))
      /\ Balance[n] + Balance[o] = Capacity /\ o = Other(n)
  BY BalanceAssumption, NodeAssumption DEF Node, Other, Past, Capacity
<1>2. fee \in Nat
  BY AmountAssumption DEF CommitFee
<1>3. fee <= Balance[Opener]
  BY FundingAssumption
<1>4. c = [height |-> Past, indices |-> ind, htlcIndex |-> Both(0), balance |-> bal, fee |-> fee,
           feePerKw |-> InitFeePerKw, outputs |-> Both({})]
  BY DEF InitCommit
<1>. HIDE DEF fee, o, c
<1>5. /\ ind \in Pairs /\ ind.Local = I("Local") /\ ind.Remote = I("Remote")
  <2>1. I("Local") \in Nat /\ I("Remote") \in Nat
    BY ONLY <1>1
  <2>2. ind = [Local |-> I("Local"), Remote |-> I("Remote")]
    BY DEF Party
  <2>. HIDE DEF I, ind
  <2>. QED  BY ONLY <2>1, <2>2 DEF Pairs
<1>6. I("Local") \in {0, Past} /\ I("Remote") \in {0, Past}
  OBVIOUS
<1>7. G("Local") \in Nat /\ G("Remote") \in Nat /\ G("Local") + G("Remote") + fee = Capacity
  <2>1. of("Local") = n /\ of("Remote") = o
    OBVIOUS
  <2>2. CASE n = Opener
    <3>1. G("Local") = Balance[n] - fee /\ G("Remote") = Balance[o] - 0 /\ fee <= Balance[n]
      BY <1>1, <1>3, <2>1, <2>2
    <3>. HIDE DEF G
    <3>. QED  BY ONLY <1>1, <1>2, <3>1
  <2>3. CASE o = Opener
    <3>1. G("Local") = Balance[n] - 0 /\ G("Remote") = Balance[o] - fee /\ fee <= Balance[o]
      BY <1>1, <1>3, <2>1, <2>3
    <3>. HIDE DEF G
    <3>. QED  BY ONLY <1>1, <1>2, <3>1
  <2>. QED  BY <1>1, <2>2, <2>3
<1>8. bal \in Pairs /\ bal.Local = G("Local") /\ bal.Remote = G("Remote")
  <2>1. bal = [Local |-> G("Local"), Remote |-> G("Remote")]
    BY DEF Party
  <2>. HIDE DEF G, bal
  <2>. QED  BY ONLY <1>7, <2>1 DEF Pairs
<1>9. Both(0) \in Pairs /\ Both(0).Local = 0 /\ Both(0).Remote = 0
  BY DEF Both, Pairs
<1>10. Both({}) \in [Local : SUBSET Outs, Remote : SUBSET Outs] /\ Both({}).Local = {} /\ Both({}).Remote = {}
  BY DEF Both
<1>11. InitFeePerKw \in Nat
  BY AmountAssumption
<1>. HIDE DEF ind, bal, I, G
<1>12. c \in Commitments
  <2>. DEFINE z == Both(0)
              y == Both({})
              k == InitFeePerKw
              h == Past
  <2>1. h \in Nat /\ z \in Pairs /\ y \in [Local : SUBSET Outs, Remote : SUBSET Outs] /\ k \in Nat /\ ind \in Pairs /\ bal \in Pairs
    BY <1>1, <1>5, <1>8, <1>9, <1>10, <1>11
  <2>. HIDE DEF z, y, k, h
  <2>2. c = [height |-> h, indices |-> ind, htlcIndex |-> z, balance |-> bal, fee |-> fee, feePerKw |-> k, outputs |-> y]
    BY ONLY <1>4 DEF z, y, k, h
  <2>. QED  BY ONLY <1>2, <2>1, <2>2 DEF Commitments
<1>13. /\ c.height = Past /\ c.indices = ind /\ c.htlcIndex = Both(0) /\ c.balance = bal /\ c.fee = fee
       /\ c.outputs = Both({})
  BY ONLY <1>4
<1>14. Amount({}) = 0
  <2>1. IsFiniteSet({}) /\ Amounts({})
    BY FS_EmptySet DEF Amounts
  <2>. QED  BY <2>1, AmountFacts
<1>15. Total(c) = G("Local") + G("Remote") + fee + 0 + 0
  BY ONLY <1>8, <1>10, <1>13, <1>14 DEF Total
<1>16. Total(c) = Capacity
  BY ONLY <1>2, <1>7, <1>15
<1>. QED  BY <1>5, <1>6, <1>9, <1>10, <1>12, <1>13, <1>16 DEF c

\* What the channel has on disk when it is opened.
LEMMA InitDiskFacts ==
    ASSUME NEW n \in Node
    PROVE  /\ InitDisk(n) \in Disks
           /\ InitDisk(n).local = InitCommit(n) /\ InitDisk(n).remote = InitCommit(n) /\ InitDisk(n).diff = NoDiff
           /\ InitDisk(n).unsignedAcked = <<>> /\ InitDisk(n).remoteUnsigned = <<>>
           /\ InitDisk(n).ackedKey = Used
           /\ \A i \in DOMAIN InitDisk(n).fwdPkgs : InitDisk(n).fwdPkgs[i].adds = {} /\ InitDisk(n).fwdPkgs[i].rmvs = {}
           /\ Forwarded(InitDisk(n)) = {} /\ Returned(InitDisk(n)) = {}
<1>. DEFINE c == InitCommit(n)
            d == InitDisk(n)
            pkg == [adds |-> {}, rmvs |-> {}]
            f == [k \in 1..Past |-> pkg]
            w == Used /\ n = Opener
<1>1. d = [local |-> c, remote |-> c, diff |-> NoDiff, unsignedAcked |-> <<>>, remoteUnsigned |-> <<>>,
           ackedKey |-> Used, lastWasRevoke |-> w, fwdPkgs |-> f]
  BY DEF InitDisk
<1>2. c \in Commitments
  BY InitCommitFacts
<1>3. Used \in BOOLEAN /\ w \in BOOLEAN
  BY TypeAssumption
<1>4. pkg \in [adds : SUBSET Nat, rmvs : SUBSET Nat] /\ pkg.adds = {} /\ pkg.rmvs = {}
  OBVIOUS
<1>. HIDE DEF c, pkg, w
<1>5. f \in Seq([adds : SUBSET Nat, rmvs : SUBSET Nat])
  <2>. DEFINE S == [adds : SUBSET Nat, rmvs : SUBSET Nat]
              q == Past
  <2>1. q \in Nat
    BY DEF Past
  <2>2. f \in [1..q -> S]
    BY <1>4
  <2>. HIDE DEF f, S, q
  <2>3. f \in Seq(S)
    BY ONLY <2>1, <2>2
  <2>. QED  BY <2>3 DEF S
<1>6. DOMAIN f = 1..Past /\ \A i \in DOMAIN f : f[i] = pkg
  OBVIOUS
<1>7. <<>> \in Seq(Recs)
  OBVIOUS
<1>. HIDE DEF f, d
<1>8. d \in Disks
  BY ONLY <1>1, <1>2, <1>3, <1>5, <1>7 DEF Disks
<1>9. /\ d.local = c /\ d.remote = c /\ d.diff = NoDiff /\ d.unsignedAcked = <<>> /\ d.remoteUnsigned = <<>>
      /\ d.ackedKey = Used /\ d.fwdPkgs = f
  BY ONLY <1>1
<1>10. \A x \in Range(d.fwdPkgs) : x.adds = {} /\ x.rmvs = {}
  BY <1>4, <1>6, <1>9 DEF Range
<1>11. Forwarded(d) = {} /\ Returned(d) = {}
  BY <1>10 DEF Forwarded, Returned
<1>. QED  BY <1>4, <1>6, <1>8, <1>9, <1>11 DEF c, d

\* The channel starts on record.
LEMMA InitOnRecord ==
    ASSUME NEW n \in Node
    PROVE  OnRecord(InitDisk(n)) /\ Sound(RestoredMem(InitDisk(n)), InitDisk(n))
<1>. DEFINE c == InitCommit(n)
            d == InitDisk(n)
            K == [Local |-> {}, Remote |-> {}]
            ix == c.indices
            hc == c.htlcIndex
            e == {}
<1>1. /\ c \in Commitments /\ c.height = Past /\ Total(c) = Capacity
      /\ ix.Local \in {0, Past} /\ ix.Remote \in {0, Past}
      /\ hc.Local = 0 /\ hc.Remote = 0
      /\ c.outputs.Local = {} /\ c.outputs.Remote = {}
  BY InitCommitFacts
<1>2. /\ d \in Disks /\ d.local = c /\ d.remote = c /\ d.diff = NoDiff
      /\ d.unsignedAcked = <<>> /\ d.remoteUnsigned = <<>> /\ d.ackedKey = Used
      /\ \A i \in DOMAIN d.fwdPkgs : d.fwdPkgs[i].adds = {} /\ d.fwdPkgs[i].rmvs = {}
      /\ Forwarded(d) = {} /\ Returned(d) = {}
  BY InitDiskFacts
<1>3. TipOf(d) = c
  BY <1>2 DEF TipOf
<1>4. ix \in Pairs /\ hc \in Pairs
  BY <1>1 DEF Commitments
<1>5. K \in Books /\ K.Local = {} /\ K.Remote = {}
  BY DEF Books
<1>6. Past \in Nat /\ (Past = 0 <=> ~Used) /\ Used \in BOOLEAN
  BY TypeAssumption DEF Past
<1>. HIDE DEF c, d, K
<1>7. \A i, h : Ordered({}, i, h)
  BY DEF Ordered
<1>8. Matched({}, {})
  BY DEF Matched
<1>9. \A i, j, h : Covers({}, {}, i, j, h, {})
  BY DEF Covers, LiveOn
<1>10. Booked(K, ix, hc, c)
  <2>1. ix.Local <= ix.Local /\ ix.Remote <= ix.Remote /\ hc.Local <= hc.Local /\ hc.Remote <= hc.Remote
    BY ONLY <1>1, <1>6
  <2>2. c.height = 0 => c.indices.Local = 0 /\ c.indices.Remote = 0
    BY ONLY <1>1, <1>6
  <2>3. Covers(K.Local, K.Remote, c.indices.Local, c.indices.Remote, c.htlcIndex.Local, c.outputs.Local)
    BY ONLY <1>1, <1>5, <1>9
  <2>4. Covers(K.Remote, K.Local, c.indices.Remote, c.indices.Local, c.htlcIndex.Remote, c.outputs.Remote)
    BY ONLY <1>1, <1>5, <1>9
  <2>. QED  BY ONLY <2>1, <2>2, <2>3, <2>4, BookedMake
<1>11. Commits(d) = {c}
  BY <1>2, <1>3 DEF Commits
<1>12. Staged(d)
  BY ONLY <1>1, <1>2, <1>3, <1>6 DEF Staged
<1>13. \A i, j : Written({}, i, j) = {}
  BY DEF Written
<1>14. Kept(K, d)
  <2>1. Range(<<>>) = {}
    BY DEF Range
  <2>2. Distinct(<<>>)
    BY DEF Distinct
  <2>3. ~d.ackedKey => d.local.indices.Remote = 0
    BY ONLY <1>1, <1>2, <1>6
  <2>. QED  BY ONLY <1>2, <1>5, <1>13, <2>1, <2>2, <2>3 DEF Kept
<1>15. Complete(K, ix, hc, d)
  <2>1. ix.Local..(ix.Local - 1) = {} /\ hc.Local..(hc.Local - 1) = {} /\ hc.Remote..(hc.Remote - 1) = {}
    BY ONLY <1>1, <1>6
  <2>. QED  BY ONLY <1>2, <2>1, CompleteMake DEF c
<1>16. Book(K, ix, hc, d)
  <2>1. \A x \in Commits(d) : Booked(K, ix, hc, x) /\ Total(x) = Capacity
    BY ONLY <1>1, <1>10, <1>11
  <2>2. /\ Ordered(K.Local, ix.Local, hc.Local) /\ Ordered(K.Remote, ix.Remote, hc.Remote)
        /\ Matched(K.Local, K.Remote) /\ Matched(K.Remote, K.Local)
    BY ONLY <1>5, <1>7, <1>8
  <2>. HIDE DEF ix, hc
  <2>. QED  BY ONLY <1>12, <1>14, <1>15, <2>1, <2>2, BookMake
<1>17. Sent(d)
  <2>1. 0..(c.htlcIndex.Remote - 1) = {} /\ 0..(c.htlcIndex.Local - 1) = {}
    BY ONLY <1>1
  <2>. QED  BY ONLY <1>2, <2>1 DEF Sent
<1>. HIDE DEF ix, hc
<1>18. Ledger(K, ix, hc, d)
  BY ONLY <1>2, <1>4, <1>5, <1>16 DEF Ledger
<1>19. OnRecord(d)
  BY ONLY <1>17, <1>18 DEF OnRecord
<1>20. Sound(RestoredMem(d), d)
  BY ONLY <1>17, <1>18, SoundRestore
<1>. QED  BY <1>19, <1>20 DEF d

-----------------------------------------------------------------------------
(* Both nodes. *)

Links == {"down", "sync", "up", "badUpdate", "badCommit", "badSig", "badRevocation", "syncError"}

\* The inductive invariant: every node can load what it has on disk, and a
\* running link has memory in line with it.
ChannelInv ==
    /\ DOMAIN mem = Node /\ mem = [n \in Node |-> mem[n]]
    /\ DOMAIN disk = Node /\ disk = [n \in Node |-> disk[n]]
    /\ link \in [Node -> Links]
    /\ net \in [Node -> Seq(Messages)]
    /\ feeUpdates \in 0..MaxFeeUpdates
    /\ reconnects \in 0..MaxReconnects
    /\ \A n \in Node : OnRecord(disk[n])
    /\ \A n \in Node : link[n] \in Running => Sound(mem[n], disk[n])

\* A step of one node, with what it needs to keep the invariant.
StepTo(n, m, d, l) ==
    /\ mem' = [mem EXCEPT ![n] = m]
    /\ disk' = [disk EXCEPT ![n] = d]
    /\ link' = [link EXCEPT ![n] = l]
    /\ l \in Links
    /\ OnRecord(d)
    /\ l \in Running => Sound(m, d)
    /\ feeUpdates' \in 0..MaxFeeUpdates
    /\ reconnects' \in 0..MaxReconnects
    /\ net' \in [Node -> Seq(Messages)]

\* A step that leaves the node's memory sound and its messages typed keeps
\* the invariant.
LEMMA StepOfChannel ==
    ASSUME ChannelInv, NEW n \in Node, NEW m, NEW d, NEW l, StepTo(n, m, d, l)
    PROVE  ChannelInv'
<1>1. /\ DOMAIN mem = Node /\ mem = [k \in Node |-> mem[k]]
      /\ DOMAIN disk = Node /\ disk = [k \in Node |-> disk[k]]
      /\ link \in [Node -> Links]
      /\ \A k \in Node : OnRecord(disk[k])
      /\ \A k \in Node : link[k] \in Running => Sound(mem[k], disk[k])
  BY DEF ChannelInv
<1>2. /\ mem' = [mem EXCEPT ![n] = m] /\ disk' = [disk EXCEPT ![n] = d] /\ link' = [link EXCEPT ![n] = l]
      /\ l \in Links /\ OnRecord(d) /\ (l \in Running => Sound(m, d))
      /\ feeUpdates' \in 0..MaxFeeUpdates /\ reconnects' \in 0..MaxReconnects
      /\ net' \in [Node -> Seq(Messages)]
  BY DEF StepTo
<1>3. DOMAIN mem' = Node /\ mem' = [k \in Node |-> mem'[k]] /\ mem'[n] = m /\ \A k \in Node : k # n => mem'[k] = mem[k]
  BY ONLY <1>1, <1>2, n \in Node
<1>4. DOMAIN disk' = Node /\ disk' = [k \in Node |-> disk'[k]] /\ disk'[n] = d /\ \A k \in Node : k # n => disk'[k] = disk[k]
  BY ONLY <1>1, <1>2, n \in Node
<1>5. link' \in [Node -> Links] /\ link'[n] = l /\ \A k \in Node : k # n => link'[k] = link[k]
  BY ONLY <1>1, <1>2, n \in Node
<1>6. \A k \in Node : OnRecord(disk'[k]) /\ (link'[k] \in Running => Sound(mem'[k], disk'[k]))
  BY ONLY <1>1, <1>2, <1>3, <1>4, <1>5
<1>7. \A k \in Node : OnRecord(disk[k])'
  BY ONLY <1>6 DEF OnRecord, Ledger, Sent
<1>8. \A k \in Node : (link[k] \in Running => Sound(mem[k], disk[k]))'
  BY ONLY <1>6
<1>. QED  BY ONLY <1>2, <1>3, <1>4, <1>5, <1>7, <1>8 DEF ChannelInv

\* The messages that are on their way.
LEMMA ExchangeTyped ==
    ASSUME net \in [Node -> Seq(Messages)], NEW n \in Node, NEW inbox \in Seq(Messages), NEW msgs \in Seq(Messages)
    PROVE  Exchange(n, inbox, msgs) \in [Node -> Seq(Messages)] /\ [net EXCEPT ![n] = inbox] \in [Node -> Seq(Messages)]
<1>. DEFINE o == Other(n)
            S == Seq(Messages)
            x == IF link[o] \in {"sync", "up"} THEN net[o] \o msgs ELSE net[o]
<1>1. o \in Node /\ o # n
  BY NodeAssumption DEF Other, Node
<1>2. net[o] \o msgs \in S /\ net[o] \in S
  <2>. DEFINE t == net[o]
  <2>1. t \in Seq(Messages)
    BY <1>1
  <2>. HIDE DEF t
  <2>2. t \o msgs \in Seq(Messages)
    BY ONLY <2>1, msgs \in Seq(Messages)
  <2>. QED  BY <2>1, <2>2 DEF t
<1>3. x \in S
  BY <1>2
<1>4. Exchange(n, inbox, msgs) = [net EXCEPT ![n] = inbox, ![o] = x]
  BY <1>1 DEF Exchange
<1>5. net \in [Node -> S] /\ inbox \in S
  OBVIOUS
<1>. HIDE DEF o, x, S
<1>6. [net EXCEPT ![n] = inbox, ![o] = x] \in [Node -> S] /\ [net EXCEPT ![n] = inbox] \in [Node -> S]
  BY ONLY <1>1, <1>3, <1>5, n \in Node
<1>. QED  BY <1>4, <1>6 DEF S

\* The messages that are left.
LEMMA TailTyped ==
    ASSUME NEW s \in Seq(Messages), s # <<>>
    PROVE  Tail(s) \in Seq(Messages) /\ Head(s) \in Messages
<1>. DEFINE M == Messages
<1>1. s \in Seq(M)
  OBVIOUS
<1>. HIDE DEF M
<1>2. Tail(s) \in Seq(M) /\ Head(s) \in M
  BY ONLY <1>1, s # <<>>
<1>. QED  BY <1>2 DEF M

\* A handler that goes on, or fails the link.
LEMMA ApplyKeepsChannel ==
    ASSUME ChannelInv, NEW n \in Node, link[n] \in Running, NEW inbox \in Seq(Messages), NEW r, Outcome(r),
           Apply(n, inbox, r), feeUpdates' \in 0..MaxFeeUpdates
    PROVE  ChannelInv'
<1>. DEFINE l == IF r.fail = "" THEN link[n] ELSE r.fail
<1>1. link \in [Node -> Links] /\ net \in [Node -> Seq(Messages)] /\ reconnects \in 0..MaxReconnects
  BY DEF ChannelInv
<1>2. Sound(r.m, r.d) /\ r.msgs \in Seq(Messages) /\ r.fail \in {"", "badCommit", "syncError"}
  BY DEF Outcome
<1>3. /\ mem' = [mem EXCEPT ![n] = r.m] /\ disk' = [disk EXCEPT ![n] = r.d]
      /\ net' = Exchange(n, inbox, r.msgs) /\ reconnects' = reconnects
      /\ link' = IF r.fail = "" THEN link ELSE [link EXCEPT ![n] = r.fail]
  BY DEF Apply
<1>4. link' = [link EXCEPT ![n] = l]
  BY ONLY <1>1, <1>3
<1>5. l \in Links
  BY ONLY <1>1, <1>2, n \in Node DEF Links
<1>6. net' \in [Node -> Seq(Messages)]
  BY ONLY <1>1, <1>2, <1>3, n \in Node, inbox \in Seq(Messages), ExchangeTyped
<1>7. OnRecord(r.d)
  BY ONLY <1>2, SoundOnRecord
<1>8. StepTo(n, r.m, r.d, l)
  <2>. HIDE DEF l
  <2>. QED  BY ONLY <1>1, <1>2, <1>3, <1>4, <1>5, <1>6, <1>7, feeUpdates' \in 0..MaxFeeUpdates DEF StepTo
<1>. QED  BY <1>8, StepOfChannel

\* A handler that fails the link.
LEMMA FailKeepsChannel ==
    ASSUME ChannelInv, NEW n \in Node, NEW inbox \in Seq(Messages),
           NEW why \in {"badUpdate", "badCommit", "badSig", "badRevocation"}, Fail(n, inbox, why)
    PROVE  ChannelInv'
<1>1. /\ net \in [Node -> Seq(Messages)] /\ reconnects \in 0..MaxReconnects /\ feeUpdates \in 0..MaxFeeUpdates
      /\ DOMAIN mem = Node /\ mem = [k \in Node |-> mem[k]]
      /\ DOMAIN disk = Node /\ disk = [k \in Node |-> disk[k]] /\ OnRecord(disk[n])
  BY DEF ChannelInv
<1>2. /\ link' = [link EXCEPT ![n] = why] /\ net' = [net EXCEPT ![n] = inbox]
      /\ mem' = mem /\ disk' = disk /\ feeUpdates' = feeUpdates /\ reconnects' = reconnects
  BY DEF Fail
<1>3. mem' = [mem EXCEPT ![n] = mem[n]] /\ disk' = [disk EXCEPT ![n] = disk[n]]
  BY ONLY <1>1, <1>2
<1>4. why \in Links /\ why \notin Running
  BY DEF Links, Running
<1>5. net' \in [Node -> Seq(Messages)]
  BY ONLY <1>1, <1>2, n \in Node, inbox \in Seq(Messages), ExchangeTyped
<1>6. StepTo(n, mem[n], disk[n], why)
  BY ONLY <1>1, <1>2, <1>3, <1>4, <1>5 DEF StepTo
<1>. QED  BY <1>6, StepOfChannel

\* The rest of a handler: a signature, nothing, or the end of the link.
LEMMA SignOrStopKeepsChannel ==
    ASSUME ChannelInv, NEW n \in Node, link[n] \in Running, net[n] # <<>>, NEW r, Sound(r.m, r.d), r.msgs \in Seq(Messages),
           SignOrStop(n, r)
    PROVE  ChannelInv'
<1>. DEFINE t == Tail(net[n])
            q == After(r.msgs, UpdateCommitTx(r.m, r.d, n))
            s == [m |-> r.m, d |-> r.d, msgs |-> r.msgs, fail |-> ""]
<1>1. /\ net \in [Node -> Seq(Messages)] /\ reconnects \in 0..MaxReconnects /\ feeUpdates \in 0..MaxFeeUpdates
  BY DEF ChannelInv
<1>2. t \in Seq(Messages)
  <2>1. net[n] \in Seq(Messages)
    BY <1>1
  <2>. QED  BY <2>1, TailTyped
<1>3. \/ Apply(n, t, q) /\ feeUpdates' = feeUpdates
      \/ Apply(n, t, s) /\ feeUpdates' = feeUpdates
      \/ /\ mem' = [mem EXCEPT ![n] = NoMem] /\ disk' = [disk EXCEPT ![n] = r.d]
         /\ net' = Exchange(n, <<>>, r.msgs) /\ link' = [link EXCEPT ![n] = "down"]
         /\ feeUpdates' = feeUpdates /\ reconnects' = reconnects
  BY DEF SignOrStop
<1>4. Outcome(q)
  <2>1. Outcome(UpdateCommitTx(r.m, r.d, n))
    BY SignOutcome
  <2>. QED  BY <2>1, AfterOutcome
<1>5. Outcome(s)
  BY SameOutcome
<1>. HIDE DEF t, q, s
<1>6. CASE Apply(n, t, q) /\ feeUpdates' = feeUpdates
  <2>1. Apply(n, t, q) /\ feeUpdates' \in 0..MaxFeeUpdates
    BY ONLY <1>1, <1>6
  <2>. QED  BY <1>2, <1>4, <2>1, ApplyKeepsChannel
<1>7. CASE Apply(n, t, s) /\ feeUpdates' = feeUpdates
  <2>1. Apply(n, t, s) /\ feeUpdates' \in 0..MaxFeeUpdates
    BY ONLY <1>1, <1>7
  <2>. QED  BY <1>2, <1>5, <2>1, ApplyKeepsChannel
<1>8. CASE /\ mem' = [mem EXCEPT ![n] = NoMem] /\ disk' = [disk EXCEPT ![n] = r.d]
           /\ net' = Exchange(n, <<>>, r.msgs) /\ link' = [link EXCEPT ![n] = "down"]
           /\ feeUpdates' = feeUpdates /\ reconnects' = reconnects
  <2>1. "down" \in Links /\ "down" \notin Running
    BY DEF Links, Running
  <2>2. OnRecord(r.d)
    BY SoundOnRecord
  <2>. DEFINE e == <<>>
  <2>3. e \in Seq(Messages)
    OBVIOUS
  <2>. HIDE DEF e
  <2>4. net' \in [Node -> Seq(Messages)]
    <3>1. net' = Exchange(n, e, r.msgs)
      BY <1>8 DEF e
    <3>. QED  BY <1>1, <2>3, <3>1, ExchangeTyped
  <2>5. StepTo(n, NoMem, r.d, "down")
    BY ONLY <1>1, <1>8, <2>1, <2>2, <2>4 DEF StepTo
  <2>. QED  BY <2>5, StepOfChannel
<1>. QED  BY ONLY <1>3, <1>6, <1>7, <1>8

\* The channel starts with the invariant.
LEMMA InitChannel == Init => ChannelInv
<1>. SUFFICES ASSUME Init PROVE ChannelInv
  OBVIOUS
<1>1. /\ disk = [n \in Node |-> InitDisk(n)] /\ mem = [n \in Node |-> RestoredMem(InitDisk(n))]
      /\ net = [n \in Node |-> <<>>] /\ link = [n \in Node |-> "up"] /\ feeUpdates = 0 /\ reconnects = 0
  BY DEF Init
<1>2. \A n \in Node : OnRecord(disk[n]) /\ Sound(mem[n], disk[n])
  BY <1>1, InitOnRecord
<1>3. link \in [Node -> Links] /\ net \in [Node -> Seq(Messages)]
  BY <1>1 DEF Links
<1>4. feeUpdates \in 0..MaxFeeUpdates /\ reconnects \in 0..MaxReconnects
  BY <1>1, BoundAssumption
<1>5. DOMAIN mem = Node /\ mem = [n \in Node |-> mem[n]] /\ DOMAIN disk = Node /\ disk = [n \in Node |-> disk[n]]
  BY <1>1
<1>. QED  BY ONLY <1>2, <1>3, <1>4, <1>5 DEF ChannelInv

\* What holds at a node whose link handles something.
LEMMA AtNode ==
    ASSUME ChannelInv, NEW n \in Node
    PROVE  /\ net[n] \in Seq(Messages) /\ OnRecord(disk[n])
           /\ link[n] \in Running => Sound(mem[n], disk[n])
           /\ feeUpdates \in 0..MaxFeeUpdates /\ reconnects \in 0..MaxReconnects
           /\ disk = [disk EXCEPT ![n] = disk[n]] /\ link = [link EXCEPT ![n] = link[n]] /\ link[n] \in Links
           /\ net \in [Node -> Seq(Messages)]
BY DEF ChannelInv

\* A handler that sends one message and goes on with r.
LEMMA SendKeepsChannel ==
    ASSUME ChannelInv, NEW n \in Node, link[n] = "up", NEW msg \in Messages, NEW r, Outcome(r),
           Apply(n, net[n], After(<<msg>>, r)), feeUpdates' \in 0..MaxFeeUpdates
    PROVE  ChannelInv'
<1>. DEFINE s == <<msg>>
            q == After(s, r)
<1>1. s \in Seq(Messages)
  OBVIOUS
<1>2. Apply(n, net[n], q)
  OBVIOUS
<1>. HIDE DEF s
<1>3. Outcome(q)
  BY <1>1, AfterOutcome
<1>. HIDE DEF q
<1>4. link[n] \in Running /\ net[n] \in Seq(Messages)
  BY AtNode DEF Running
<1>. QED  BY <1>2, <1>3, <1>4, ApplyKeepsChannel

\* AddHTLC
LEMMA AddKeepsChannel ==
    ASSUME ChannelInv, NEW n \in Node, NEW amt \in HtlcAmts, AddHTLC(n, amt)
    PROVE  ChannelInv'
<1>. DEFINE m == mem[n]
            d == disk[n]
            pd == Descriptor("Add", m.logs.Local.logIndex, m.logs.Local.htlcCounter, amt)
            m2 == [m EXCEPT !.logs.Local = AppendHtlc(@, pd)]
            r == TryBatchUpdateCommitTx(m2, d, n)
            msg == Update("Add", pd.HtlcIndex, amt)
<1>1. link[n] = "up" /\ feeUpdates' = feeUpdates /\ Apply(n, net[n], After(<<msg>>, r))
  BY DEF AddHTLC
<1>2. Sound(m, d) /\ feeUpdates' \in 0..MaxFeeUpdates
  BY <1>1, AtNode DEF Running
<1>3. amt \in Nat
  BY AmountAssumption
<1>4. Sound(m2, d)
  BY <1>2, <1>3, SoundAdd
<1>5. pd.HtlcIndex = m.logs.Local.htlcCounter
  BY DEF Descriptor
<1>6. m.logs.Local.htlcCounter \in Nat
  BY <1>2, SoundUse DEF Mems, UpdateLogs
<1>7. msg \in Messages
  <2>1. "Add" \in Types
    BY DEF Types
  <2>. DEFINE k == "Add"
              h == pd.HtlcIndex
  <2>2. k \in Types /\ h \in Nat
    BY <1>5, <1>6, <2>1
  <2>. HIDE DEF k, h
  <2>3. Update(k, h, amt) \in Messages
    BY ONLY <1>3, <2>2, MessageTypes
  <2>. QED  BY <2>3 DEF k, h
<1>. HIDE DEF m2
<1>8. Outcome(r)
  BY <1>4, BatchOutcome
<1>. HIDE DEF r, msg
<1>. QED  BY <1>1, <1>2, <1>7, <1>8, SendKeepsChannel

\* ResolveHTLC
LEMMA ResolveKeepsChannel ==
    ASSUME ChannelInv, NEW n \in Node, NEW h, NEW type \in ResolveTypes, ResolveHTLC(n, h, type)
    PROVE  ChannelInv'
<1>. DEFINE m == mem[n]
            d == disk[n]
            m2 == RemoveHTLC(m, h, type)
            r == UpdateCommitTx(m2, d, n)
            msg == Update(type, h, 0)
<1>1. /\ link[n] = "up" /\ feeUpdates' = feeUpdates /\ Apply(n, net[n], After(<<msg>>, r))
      /\ Removable(m, h) /\ \E pkg \in Range(d.fwdPkgs) : h \in pkg.adds
  BY DEF ResolveHTLC
<1>2. Sound(m, d) /\ feeUpdates' \in 0..MaxFeeUpdates
  BY <1>1, AtNode DEF Running
<1>3. h \in Forwarded(d)
  BY <1>1 DEF Forwarded
<1>4. h \in Nat
  <2>1. Forwarded(d) = 0..(d.remote.htlcIndex.Remote - 1) /\ d \in Disks
    BY <1>2, SoundUse DEF Sent
  <2>2. d.remote.htlcIndex.Remote \in Nat
    BY <2>1 DEF Disks, Commitments, Pairs
  <2>. QED  BY ONLY <1>3, <2>1, <2>2
<1>5. type \in {"Settle", "Fail"} /\ type \in Types
  BY TypeAssumption DEF Types
<1>6. Sound(m2, d)
  BY <1>1, <1>2, <1>3, <1>5, SoundRemove
<1>7. msg \in Messages
  BY <1>4, <1>5, MessageTypes
<1>. HIDE DEF m2
<1>8. Outcome(r)
  BY <1>6, SignOutcome
<1>. HIDE DEF r, msg
<1>. QED  BY <1>1, <1>2, <1>7, <1>8, SendKeepsChannel

\* UpdateFee
LEMMA FeeKeepsChannel ==
    ASSUME ChannelInv, NEW n \in Node, NEW rate \in FeeRates, UpdateFee(n, rate)
    PROVE  ChannelInv'
<1>. DEFINE m == mem[n]
            d == disk[n]
            m2 == [m EXCEPT !.logs.Local = AppendFeeUpdate(@, Descriptor("FeeUpdate", @.logIndex, 0, rate))]
            r == UpdateCommitTx(m2, d, n)
            msg == Update("FeeUpdate", 0, rate)
<1>1. link[n] = "up" /\ feeUpdates < MaxFeeUpdates /\ feeUpdates' = feeUpdates + 1 /\ Apply(n, net[n], After(<<msg>>, r))
  BY DEF UpdateFee
<1>2. Sound(m, d) /\ feeUpdates \in 0..MaxFeeUpdates
  BY <1>1, AtNode DEF Running
<1>3. feeUpdates' \in 0..MaxFeeUpdates
  BY ONLY <1>1, <1>2, BoundAssumption
<1>4. rate \in Nat
  BY AmountAssumption
<1>5. Sound(m2, d)
  BY <1>2, <1>4, SoundFee
<1>6. msg \in Messages
  <2>. DEFINE k == "FeeUpdate"
  <2>1. k \in Types
    BY DEF Types
  <2>. HIDE DEF k
  <2>2. Update(k, 0, rate) \in Messages
    BY ONLY <1>4, <2>1, MessageTypes
  <2>. QED  BY <2>2 DEF k
<1>. HIDE DEF m2
<1>7. Outcome(r)
  BY <1>5, SignOutcome
<1>. HIDE DEF r, msg
<1>. QED  BY <1>1, <1>3, <1>6, <1>7, SendKeepsChannel

\* BatchTick
LEMMA TickKeepsChannel ==
    ASSUME ChannelInv, NEW n \in Node, BatchTick(n)
    PROVE  ChannelInv'
<1>. DEFINE r == UpdateCommitTx(mem[n], disk[n], n)
<1>1. link[n] = "up" /\ feeUpdates' = feeUpdates /\ Apply(n, net[n], r)
  BY DEF BatchTick
<1>2. /\ Sound(mem[n], disk[n]) /\ feeUpdates' \in 0..MaxFeeUpdates /\ link[n] \in Running /\ net[n] \in Seq(Messages)
  BY <1>1, AtNode DEF Running
<1>3. Outcome(r)
  BY <1>2, SignOutcome
<1>. HIDE DEF r
<1>. QED  BY <1>1, <1>2, <1>3, ApplyKeepsChannel

\* ReceiveUpdate
LEMMA UpdateKeepsChannel ==
    ASSUME ChannelInv, NEW n \in Node, ReceiveUpdate(n)
    PROVE  ChannelInv'
<1>. DEFINE m == mem[n]
            d == disk[n]
            u == Head(net[n])
            t == Tail(net[n])
            a == AcceptHTLC(m, n, u)
            f == AcceptFee(m, n, u)
            s == AcceptResolution(m, u)
            r == CASE u.EntryType = "Add" -> a
                   [] u.EntryType = "FeeUpdate" -> f
                   [] OTHER -> s
<1>1. /\ link[n] = "up" /\ net[n] # <<>> /\ u.type = "update"
      /\ \/ /\ r.ok /\ mem' = [mem EXCEPT ![n] = r.m] /\ net' = [net EXCEPT ![n] = Tail(@)]
            /\ disk' = disk /\ link' = link /\ feeUpdates' = feeUpdates /\ reconnects' = reconnects
         \/ Fail(n, t, "badUpdate")
  BY DEF ReceiveUpdate, Receives
<1>2. /\ Sound(m, d) /\ net[n] \in Seq(Messages) /\ OnRecord(d) /\ net \in [Node -> Seq(Messages)]
      /\ feeUpdates \in 0..MaxFeeUpdates /\ reconnects \in 0..MaxReconnects
      /\ disk = [disk EXCEPT ![n] = d] /\ link = [link EXCEPT ![n] = link[n]] /\ link[n] \in Links
  BY <1>1, AtNode DEF Running
<1>3. t \in Seq(Messages) /\ u \in Messages
  BY <1>1, <1>2, TailTyped
<1>4. u.EntryType \in Types /\ u.HtlcIndex \in Nat /\ u.Amount \in Nat
  BY <1>1, <1>3, UpdateMessage
<1>5. Sound(a.m, d)
  <2>1. a.m = [m EXCEPT !.logs.Remote = AppendHtlc(@, Descriptor("Add", m.logs.Remote.logIndex, m.logs.Remote.htlcCounter, u.Amount))]
    BY DEF AcceptHTLC
  <2>. DEFINE k == u.Amount
              m2 == a.m
  <2>2. k \in Nat /\ m2 = [m EXCEPT !.logs.Remote = AppendHtlc(@, Descriptor("Add", m.logs.Remote.logIndex, m.logs.Remote.htlcCounter, k))]
    BY <1>4, <2>1
  <2>. HIDE DEF k, m2, m, d
  <2>3. Sound(m2, d)
    BY ONLY <1>2, <2>2, SoundAcceptAdd
  <2>. QED  BY <2>3 DEF m2
<1>6. Sound(f.m, d)
  <2>1. f.m = [m EXCEPT !.logs.Remote = AppendFeeUpdate(@, Descriptor("FeeUpdate", @.logIndex, 0, u.Amount))]
    BY DEF AcceptFee
  <2>. DEFINE k == u.Amount
              m2 == f.m
  <2>2. k \in Nat /\ m2 = [m EXCEPT !.logs.Remote = AppendFeeUpdate(@, Descriptor("FeeUpdate", @.logIndex, 0, k))]
    BY <1>4, <2>1
  <2>. HIDE DEF k, m2, m, d
  <2>3. Sound(m2, d)
    BY ONLY <1>2, <2>2, SoundAcceptFee
  <2>. QED  BY <2>3 DEF m2
<1>7. u.EntryType \in {"Settle", "Fail"} /\ s.ok => Sound(s.m, d)
  BY <1>2, SoundAcceptResolution
<1>. HIDE DEF a, f, s, u
<1>8. \/ u.EntryType = "Add" /\ r = a
      \/ u.EntryType = "FeeUpdate" /\ r = f
      \/ u.EntryType \in {"Settle", "Fail"} /\ r = s
  BY ONLY <1>4 DEF Types
<1>. HIDE DEF r
<1>9. r.ok => Sound(r.m, d)
  BY ONLY <1>5, <1>6, <1>7, <1>8
<1>10. CASE Fail(n, t, "badUpdate")
  BY <1>3, <1>10, FailKeepsChannel
<1>11. CASE /\ r.ok /\ mem' = [mem EXCEPT ![n] = r.m] /\ net' = [net EXCEPT ![n] = Tail(@)]
            /\ disk' = disk /\ link' = link /\ feeUpdates' = feeUpdates /\ reconnects' = reconnects
  <2>1. net' = [net EXCEPT ![n] = t]
    BY <1>11, <1>2
  <2>. DEFINE e == <<>>
  <2>2. e \in Seq(Messages)
    OBVIOUS
  <2>. HIDE DEF t, e
  <2>3. net' \in [Node -> Seq(Messages)]
    BY ONLY <1>2, <1>3, <2>1, <2>2, n \in Node, ExchangeTyped
  <2>4. StepTo(n, r.m, d, link[n])
    BY ONLY <1>2, <1>9, <1>11, <2>3 DEF StepTo
  <2>. QED  BY <2>4, StepOfChannel
<1>. QED  BY ONLY <1>1, <1>10, <1>11

\* The answer to a signature.
LEMMA RevokeAnswer ==
    ASSUME NEW m, NEW d \in Disks, NEW r, r = RevokeCurrentCommitment(m, d), r.d \in Disks
    PROVE  r.msgs \in Seq(Messages)
<1>. DEFINE c == m.chains.Local[2]
            h == c.height - 1
            msg == [type |-> "revoke_and_ack", height |-> h]
<1>1. r.msgs = <<msg>> /\ r.d.local = c
  BY DEF RevokeCurrentCommitment, MoveTo, UpdateCommitment, Disks
<1>2. r.d.local \in Commitments
  BY DEF Disks
<1>3. c.height \in Nat
  BY <1>1, <1>2 DEF Commitments
<1>4. h \in Int
  BY ONLY <1>3
<1>. HIDE DEF h
<1>5. msg \in Messages
  BY <1>4, MessageTypes
<1>. HIDE DEF msg
<1>6. <<msg>> \in Seq(Messages)
  BY ONLY <1>5
<1>. QED  BY ONLY <1>1, <1>6

\* ReceiveCommitSig
LEMMA CommitSigKeepsChannel ==
    ASSUME ChannelInv, NEW n \in Node, ReceiveCommitSig(n)
    PROVE  ChannelInv'
<1>. DEFINE m == mem[n]
            d == disk[n]
            t == Tail(net[n])
            sane == CommitmentSane(m, n, "Local", FetchHTLCView(m, RecvIndices(m)), "NoBuffer")
            m2 == ReceiveNewCommitment(m, n)
            same == Head(net[n]).tx = TxOf(ChainTip(m2.chains.Local), "Local")
            r == RevokeCurrentCommitment(m2, d)
<1>1. /\ link[n] = "up" /\ net[n] # <<>>
      /\ CASE ~sane -> Fail(n, t, "badCommit")
           [] sane /\ ~same -> Fail(n, t, "badSig")
           [] OTHER -> SignOrStop(n, r)
  BY DEF ReceiveCommitSig, Receives
<1>2. /\ Sound(m, d) /\ net[n] \in Seq(Messages) /\ link[n] \in Running
  BY <1>1, AtNode DEF Running
<1>3. t \in Seq(Messages)
  BY <1>1, <1>2, TailTyped
<1>. DEFINE A == Fail(n, t, "badCommit")
            B == Fail(n, t, "badSig")
            C == SignOrStop(n, r)
<1>4. A \/ B \/ (sane /\ C)
  <2>. HIDE DEF sane, same
  <2>1. CASE ~sane
    BY <1>1, <2>1
  <2>2. CASE sane /\ ~same
    BY <1>1, <2>2
  <2>3. CASE sane /\ same
    BY <1>1, <2>3
  <2>. QED  BY ONLY <2>1, <2>2, <2>3
<1>5. CASE A
  BY <1>3, <1>5, FailKeepsChannel
<1>6. CASE B
  BY <1>3, <1>6, FailKeepsChannel
<1>7. CASE sane /\ C
  <2>1. Sound(r.m, r.d)
    BY <1>2, <1>7, SoundRevoke
  <2>2. d \in Disks /\ r.d \in Disks
    BY <1>2, <2>1, SoundUse
  <2>3. r.msgs \in Seq(Messages)
    <3>. HIDE DEF m2, d
    <3>. QED  BY <2>2, RevokeAnswer
  <2>4. SignOrStop(n, r)
    BY <1>7
  <2>. HIDE DEF r
  <2>. QED  BY <1>1, <1>2, <2>1, <2>3, <2>4, SignOrStopKeepsChannel
<1>. QED  BY ONLY <1>4, <1>5, <1>6, <1>7

\* ReceiveRevokeAndAck
LEMMA RevocationKeepsChannel ==
    ASSUME ChannelInv, NEW n \in Node, ReceiveRevokeAndAck(n)
    PROVE  ChannelInv'
<1>. DEFINE m == mem[n]
            d == disk[n]
            t == Tail(net[n])
            q == ReceiveRevocation(m, d)
            e == <<>>
            r == [m |-> q.m, d |-> q.d, msgs |-> e]
<1>1. /\ link[n] = "up" /\ net[n] # <<>>
      /\ \/ HasUnackedCommitment(m.chains.Remote) /\ SignOrStop(n, r)
         \/ Fail(n, t, "badRevocation")
  BY DEF ReceiveRevokeAndAck, Receives
<1>2. /\ Sound(m, d) /\ net[n] \in Seq(Messages) /\ link[n] \in Running
  BY <1>1, AtNode DEF Running
<1>3. t \in Seq(Messages)
  BY <1>1, <1>2, TailTyped
<1>4. CASE Fail(n, t, "badRevocation")
  BY <1>3, <1>4, FailKeepsChannel
<1>5. CASE HasUnackedCommitment(m.chains.Remote) /\ SignOrStop(n, r)
  <2>1. m.chains = RestoredChains(d)
    BY <1>2, SoundUse
  <2>2. d.diff # NoDiff
    BY <1>5, <2>1, Unacked
  <2>3. Sound(q.m, q.d)
    BY <1>2, <2>2, SoundAdvance
  <2>4. e \in Seq(Messages)
    OBVIOUS
  <2>. HIDE DEF q, e
  <2>5. r.m = q.m /\ r.d = q.d /\ r.msgs = e
    OBVIOUS
  <2>6. SignOrStop(n, r)
    BY <1>5
  <2>. HIDE DEF r
  <2>7. Sound(r.m, r.d) /\ r.msgs \in Seq(Messages)
    BY ONLY <2>3, <2>4, <2>5
  <2>. QED  BY <1>1, <1>2, <2>6, <2>7, SignOrStopKeepsChannel
<1>. QED  BY ONLY <1>1, <1>4, <1>5

\* SyncChanStates
LEMMA SyncKeepsChannel ==
    ASSUME ChannelInv, NEW n \in Node, SyncChanStates(n)
    PROVE  ChannelInv'
<1>. DEFINE t == Tail(net[n])
            r == ProcessChanSyncMsg(mem[n], disk[n], n, Head(net[n]))
            l == IF r.fail = "" THEN "up" ELSE r.fail
<1>1. /\ link[n] = "sync" /\ net[n] # <<>>
      /\ mem' = [mem EXCEPT ![n] = r.m] /\ disk' = [disk EXCEPT ![n] = r.d]
      /\ net' = Exchange(n, t, r.msgs) /\ link' = [link EXCEPT ![n] = l]
      /\ feeUpdates' = feeUpdates /\ reconnects' = reconnects
  BY DEF SyncChanStates, Resume
<1>2. /\ Sound(mem[n], disk[n]) /\ net[n] \in Seq(Messages) /\ net \in [Node -> Seq(Messages)]
      /\ feeUpdates \in 0..MaxFeeUpdates /\ reconnects \in 0..MaxReconnects
  BY <1>1, AtNode DEF Running
<1>3. t \in Seq(Messages)
  BY <1>1, <1>2, TailTyped
<1>4. Outcome(r)
  BY <1>2, SyncOutcome
<1>. HIDE DEF r, t
<1>5. Sound(r.m, r.d) /\ r.msgs \in Seq(Messages) /\ r.fail \in {"", "badCommit", "syncError"}
  BY ONLY <1>4 DEF Outcome
<1>6. l \in Links
  BY ONLY <1>5 DEF Links
<1>7. OnRecord(r.d)
  BY ONLY <1>5, SoundOnRecord
<1>8. net' \in [Node -> Seq(Messages)]
  BY ONLY <1>1, <1>2, <1>3, <1>5, n \in Node, ExchangeTyped
<1>. HIDE DEF l
<1>9. StepTo(n, r.m, r.d, l)
  BY ONLY <1>1, <1>2, <1>5, <1>6, <1>7, <1>8 DEF StepTo
<1>. QED  BY <1>9, StepOfChannel

\* Disconnect
LEMMA DisconnectKeepsChannel ==
    ASSUME ChannelInv, NEW n \in Node, Disconnect(n)
    PROVE  ChannelInv'
<1>. DEFINE e == <<>>
<1>1. /\ mem' = [mem EXCEPT ![n] = NoMem] /\ disk' = disk /\ net' = [net EXCEPT ![n] = e]
      /\ link' = [link EXCEPT ![n] = "down"] /\ feeUpdates' = feeUpdates /\ reconnects' = reconnects
  BY DEF Disconnect
<1>2. /\ net \in [Node -> Seq(Messages)] /\ OnRecord(disk[n]) /\ disk = [disk EXCEPT ![n] = disk[n]]
      /\ feeUpdates \in 0..MaxFeeUpdates /\ reconnects \in 0..MaxReconnects
  BY AtNode
<1>3. e \in Seq(Messages) /\ "down" \in Links /\ "down" \notin Running
  BY DEF Links, Running
<1>. HIDE DEF e
<1>4. net' \in [Node -> Seq(Messages)]
  BY ONLY <1>1, <1>2, <1>3, n \in Node, ExchangeTyped
<1>5. disk' = [disk EXCEPT ![n] = disk[n]]
  BY ONLY <1>1, <1>2
<1>6. StepTo(n, NoMem, disk[n], "down")
  BY ONLY <1>1, <1>2, <1>3, <1>4, <1>5 DEF StepTo
<1>. QED  BY <1>6, StepOfChannel

\* Reconnect
LEMMA ReconnectKeepsChannel ==
    ASSUME ChannelInv, Reconnect
    PROVE  ChannelInv'
<1>1. /\ DOMAIN disk = Node /\ disk = [n \in Node |-> disk[n]] /\ \A n \in Node : OnRecord(disk[n])
      /\ feeUpdates \in 0..MaxFeeUpdates /\ reconnects \in 0..MaxReconnects
  BY DEF ChannelInv
<1>2. ASSUME NEW n \in Node
      PROVE  Restorable(disk[n]) /\ Sound(RestoredMem(disk[n]), disk[n])
  <2>1. Sent(disk[n]) /\ \E K, ix, hc : Ledger(K, ix, hc, disk[n])
    BY <1>1 DEF OnRecord
  <2>2. PICK K, ix, hc : Ledger(K, ix, hc, disk[n])
    BY <2>1
  <2>. QED  BY <2>1, <2>2, LedgerRestorable, SoundRestore
<1>3. /\ reconnects < MaxReconnects /\ reconnects' = reconnects + 1 /\ disk' = disk /\ feeUpdates' = feeUpdates
      /\ mem' = [n \in Node |-> RestoredMem(disk[n])]
      /\ net' = [n \in Node |-> <<ChanSyncMsg(disk[Other(n)])>>]
      /\ link' = [n \in Node |-> "sync"]
  BY <1>2 DEF Reconnect
<1>4. \A n \in Node : <<ChanSyncMsg(disk[Other(n)])>> \in Seq(Messages)
  <2>. SUFFICES ASSUME NEW n \in Node PROVE <<ChanSyncMsg(disk[Other(n)])>> \in Seq(Messages)
    OBVIOUS
  <2>. DEFINE d == disk[Other(n)]
              msg == ChanSyncMsg(d)
              h == d.local.height + 1
              k == d.remote.height
  <2>1. Other(n) \in Node
    BY DEF Other, Node
  <2>2. d \in Disks
    <3>1. Sound(RestoredMem(d), d)
      BY <1>2, <2>1
    <3>. QED  BY <3>1, SoundUse
  <2>3. d.local \in Commitments /\ d.remote \in Commitments
    BY <2>2 DEF Disks
  <2>4. d.local.height \in Nat /\ k \in Nat
    BY <2>3 DEF Commitments
  <2>5. h \in Nat
    BY <2>4
  <2>6. msg = [type |-> "channel_reestablish", NextLocalCommitHeight |-> h, RemoteCommitTailHeight |-> k]
    BY DEF ChanSyncMsg
  <2>. HIDE DEF h, k, msg
  <2>7. msg \in Messages
    BY <2>4, <2>5, <2>6, MessageTypes
  <2>8. <<msg>> \in Seq(Messages)
    BY ONLY <2>7
  <2>. QED  BY <2>8 DEF msg
<1>5. net' \in [Node -> Seq(Messages)]
  BY ONLY <1>3, <1>4
<1>6. link' \in [Node -> Links]
  BY ONLY <1>3 DEF Links
<1>7. reconnects' \in 0..MaxReconnects /\ feeUpdates' \in 0..MaxFeeUpdates
  BY ONLY <1>1, <1>3, BoundAssumption
<1>8. /\ DOMAIN mem' = Node /\ mem' = [n \in Node |-> mem'[n]] /\ DOMAIN disk' = Node /\ disk' = [n \in Node |-> disk'[n]]
      /\ \A n \in Node : OnRecord(disk'[n]) /\ Sound(mem'[n], disk'[n])
  BY ONLY <1>1, <1>2, <1>3
<1>9. \A k \in Node : OnRecord(disk[k])'
  BY ONLY <1>8 DEF OnRecord, Ledger, Sent
<1>. QED  BY ONLY <1>5, <1>6, <1>7, <1>8, <1>9 DEF ChannelInv

\* One step per action.
LEMMA NextChannel == ChannelInv /\ [Next]_vars => ChannelInv'
<1>. SUFFICES ASSUME ChannelInv, [Next]_vars PROVE ChannelInv'
  OBVIOUS
<1>0. CASE UNCHANGED vars
  <2>1. mem' = mem /\ disk' = disk /\ net' = net /\ link' = link /\ feeUpdates' = feeUpdates /\ reconnects' = reconnects
    BY <1>0 DEF vars
  <2>2. \A n \in Node : OnRecord(disk[n]) /\ (link[n] \in Running => Sound(mem[n], disk[n]))
    BY DEF ChannelInv
  <2>3. \A n \in Node : OnRecord(disk[n])'
    BY ONLY <2>1, <2>2 DEF OnRecord, Ledger, Sent
  <2>. QED  BY <2>1, <2>3 DEF ChannelInv
<1>. QED
  BY <1>0, AddKeepsChannel, ResolveKeepsChannel, FeeKeepsChannel, TickKeepsChannel, UpdateKeepsChannel, CommitSigKeepsChannel,
     RevocationKeepsChannel, SyncKeepsChannel, DisconnectKeepsChannel, ReconnectKeepsChannel DEF Next

\* The invariant holds in every state.
THEOREM ChannelInvariant == Spec => []ChannelInv
BY InitChannel, NextChannel, PTL DEF Spec

\* The disk of every node is typed, adds up and went to the switch once.
LEMMA RecordFacts ==
    ASSUME NEW d, OnRecord(d)
    PROVE  d \in Disks /\ Sent(d) /\ Restorable(d) /\ \A c \in Commits(d) : Total(c) = Capacity /\ c \in Commitments
<1>1. Sent(d) /\ \E K, ix, hc : Ledger(K, ix, hc, d)
  BY DEF OnRecord
<1>2. PICK K, ix, hc : Ledger(K, ix, hc, d)
  BY <1>1
<1>3. d \in Disks /\ Book(K, ix, hc, d)
  BY ONLY <1>2 DEF Ledger
<1>4. \A c \in Commits(d) : Total(c) = Capacity
  BY ONLY <1>3 DEF Book
<1>. QED  BY <1>1, <1>2, <1>3, <1>4, LedgerRestorable, CommitFacts

\* A typed commitment.
LEMMA CommitmentTyped ==
    ASSUME NEW c \in Commitments
    PROVE  IsCommitment(c)
<1>1. DOMAIN c = {"height", "indices", "htlcIndex", "balance", "fee", "feePerKw", "outputs"}
  BY DEF Commitments
<1>2. /\ c.height \in Nat /\ c.fee \in Nat /\ c.feePerKw \in Nat
      /\ c.indices \in Pairs /\ c.htlcIndex \in Pairs /\ c.balance \in Pairs
      /\ c.outputs \in [Local : SUBSET Outs, Remote : SUBSET Outs]
  BY DEF Commitments
<1>3. \A p \in Party : c.indices[p] \in Nat /\ c.htlcIndex[p] \in Nat /\ c.balance[p] \in Nat
  BY <1>2, Parties DEF Pairs
<1>4. \A p \in Party : c.outputs[p] \in SUBSET Outs
  BY <1>2, Parties
<1>5. \A o \in Outs : o.HtlcIndex \in Nat /\ o.LogIndex \in Nat /\ o.Amount \in Nat
  BY DEF Outs
<1>6. \A p \in Party : \A o \in c.outputs[p] : o.HtlcIndex \in Nat /\ o.LogIndex \in Nat /\ o.Amount \in Nat
  BY ONLY <1>4, <1>5
<1>. QED  BY ONLY <1>1, <1>2, <1>3, <1>6 DEF IsCommitment

\* The invariant implies the properties.
LEMMA ChannelProperties ==
    ASSUME ChannelInv
    PROVE  TypeOK /\ CapacityConserved /\ RestoreSucceeds /\ ForwardedExactlyOnce
<1>1. /\ link \in [Node -> Links] /\ feeUpdates \in 0..MaxFeeUpdates /\ reconnects \in 0..MaxReconnects
      /\ \A n \in Node : OnRecord(disk[n])
      /\ \A n \in Node : link[n] \in Running => Sound(mem[n], disk[n])
  BY DEF ChannelInv
<1>2. \A n \in Node : /\ disk[n] \in Disks /\ Sent(disk[n]) /\ Restorable(disk[n])
                      /\ \A c \in Commits(disk[n]) : Total(c) = Capacity /\ IsCommitment(c)
  BY <1>1, RecordFacts, CommitmentTyped
<1>3. \A n \in Node : OnDisk(n) \subseteq Commits(disk[n])
  BY DEF OnDisk, PeersOnDisk, Commits, TipOf
<1>4. CapacityConserved
  BY ONLY <1>2, <1>3 DEF CapacityConserved
<1>5. \A n \in Node : link[n] \in Links
  BY ONLY <1>1
<1>6. RestoreSucceeds
  BY ONLY <1>2, <1>5 DEF RestoreSucceeds, Links
<1>7. ForwardedExactlyOnce
  BY ONLY <1>2 DEF ForwardedExactlyOnce, Sent
<1>8. TypeOK
  <2>1. link \in [Node -> {"down", "sync", "up"} \cup Failures]
    <3>1. \A l \in Links : l \in {"down", "sync", "up"} \cup Failures
      BY DEF Links, Failures
    <3>. QED  BY ONLY <1>1, <3>1
  <2>2. ASSUME NEW n \in Node
        PROVE  /\ IsCommitment(disk[n].local) /\ IsCommitment(disk[n].remote)
               /\ disk[n].diff # NoDiff => IsCommitment(disk[n].diff.commit)
               /\ link[n] \in {"sync", "up"} => mem[n] # NoMem
    <3>1. /\ IsCommitment(disk[n].local) /\ IsCommitment(disk[n].remote)
          /\ disk[n].diff # NoDiff => IsCommitment(disk[n].diff.commit)
      BY <1>2 DEF Commits, TipOf
    <3>2. ASSUME link[n] \in {"sync", "up"} PROVE mem[n] # NoMem
      <4>1. Sound(mem[n], disk[n])
        BY <1>1, <3>2 DEF Running
      <4>2. mem[n] \in Mems
        BY <4>1, SoundUse
      <4>3. DOMAIN mem[n] = {"logs", "chains"}
        BY <4>2 DEF Mems
      <4>4. DOMAIN NoMem = {"none"}
        BY DEF NoMem
      <4>. QED  BY ONLY <4>3, <4>4
    <3>. QED  BY <3>1, <3>2
  <2>. QED  BY ONLY <1>1, <2>1, <2>2 DEF TypeOK
<1>. QED  BY <1>4, <1>6, <1>7, <1>8

\* Every persisted commitment is well formed with balances that never went
\* below zero, a running link has memory, and no link ends in a panic: for any
\* balances, amounts, fee rates and any history (computeView,
\* evaluateHTLCView, validateCommitmentSanity).
THEOREM TypeCorrect == Spec => []TypeOK
BY ChannelInvariant, ChannelProperties, PTL

\* No commitment creates or loses money: balances, HTLCs and fee add up to the
\* capacity on every commitment on disk (computeView, createUnsignedCommitmentTx).
THEOREM CapacityIsConserved == Spec => []CapacityConserved
BY ChannelInvariant, ChannelProperties, PTL

\* What channeldb holds can be loaded after every crash: no removal without its
\* Add, no unknown parent, none of the panics (restoreStateLogs,
\* restorePendingLocalUpdates, restorePendingRemoteUpdates).
THEOREM RestoreAlwaysSucceeds == Spec => []RestoreSucceeds
BY ChannelInvariant, ChannelProperties, PTL

\* Every HTLC that is locked in goes to the switch in exactly one forwarding
\* package, and so does every removal, across restarts (ReceiveRevocation,
\* AdvanceCommitChainTail).
THEOREM ForwardsOnce == Spec => []ForwardedExactlyOnce
BY ChannelInvariant, ChannelProperties, PTL

-----------------------------------------------------------------------------
(* The refinement of CommitChains. *)

\* A message of a node with disk d is about a commitment that d has: signed,
\* or given up.
Known(msg, d) ==
    /\ msg.type = "commit_sig" => msg.tx.height <= TipHeight(d)
    /\ msg.type = "revoke_and_ack" => msg.height < d.local.height
AllKnown(s, d) == \A k \in DOMAIN s : Known(s[k], d)

\* No height of d is above that of d2.
NotBelow(d, d2) == d.local.height <= d2.local.height /\ TipHeight(d) <= TipHeight(d2)

\* A step from d to d2 that signs at most one commitment, with the window open.
SignedOnce(d, d2) ==
    /\ d2.remote.height = d.remote.height /\ d2.local.height = d.local.height
    /\ \/ TipHeight(d2) = TipHeight(d)
       \/ TipHeight(d) = d.remote.height /\ TipHeight(d2) = TipHeight(d) + 1

Signs(d, r) == SignedOnce(d, r.d) /\ AllKnown(r.msgs, r.d)

\* The heights on disk.
LEMMA HeightsTyped ==
    ASSUME NEW d \in Disks
    PROVE  d.local.height \in Nat /\ d.remote.height \in Nat /\ TipHeight(d) \in Nat /\ TipHeight(d) = TipOf(d).height
<1>1. d.local \in Commitments /\ d.remote \in Commitments /\ TipOf(d) \in Commitments
  BY CommitFacts DEF Disks
<1>2. d.local.height \in Nat /\ d.remote.height \in Nat /\ TipOf(d).height \in Nat
  BY <1>1, CommitFacts
<1>3. TipHeight(d) = TipOf(d).height
  BY DEF TipHeight, TipOf
<1>. QED  BY <1>2, <1>3

\* The heights in messages.
LEMMA MessageHeights ==
    ASSUME NEW msg \in Messages
    PROVE  /\ msg.type = "commit_sig" => msg.tx.height \in Nat
           /\ msg.type = "revoke_and_ack" => msg.height \in Int
<1>1. ASSUME msg.type = "commit_sig" PROVE msg.tx.height \in Nat
  <2>1. msg \in [type : {"commit_sig"}, tx : Txs]
    BY <1>1 DEF Messages, Updates
  <2>2. msg.tx \in Txs
    BY ONLY <2>1
  <2>. QED  BY ONLY <2>2 DEF Txs
<1>2. ASSUME msg.type = "revoke_and_ack" PROVE msg.height \in Int
  <2>1. msg \in [type : {"revoke_and_ack"}, height : Int]
    BY <1>2 DEF Messages, Updates
  <2>. QED  BY ONLY <2>1
<1>. QED  BY <1>1, <1>2

\* Messages stay known.
LEMMA KnownLater ==
    ASSUME NEW s \in Seq(Messages), NEW d \in Disks, NEW d2 \in Disks, AllKnown(s, d), NotBelow(d, d2)
    PROVE  AllKnown(s, d2)
<1>. SUFFICES ASSUME NEW k \in DOMAIN s PROVE Known(s[k], d2)
  BY DEF AllKnown
<1>. DEFINE msg == s[k]
            a == msg.tx.height
            b == msg.height
<1>1. msg \in Messages
  OBVIOUS
<1>2. Known(msg, d)
  BY DEF AllKnown
<1>. HIDE DEF msg
<1>3. (msg.type = "commit_sig" => a \in Nat) /\ (msg.type = "revoke_and_ack" => b \in Int)
  BY ONLY <1>1, MessageHeights
<1>4. (msg.type = "commit_sig" => a <= TipHeight(d)) /\ (msg.type = "revoke_and_ack" => b < d.local.height)
  BY ONLY <1>2 DEF Known
<1>5. d.local.height <= d2.local.height /\ TipHeight(d) <= TipHeight(d2)
  BY DEF NotBelow
<1>6. d.local.height \in Nat /\ TipHeight(d) \in Nat /\ d2.local.height \in Nat /\ TipHeight(d2) \in Nat
  BY HeightsTyped
<1>. HIDE DEF a, b
<1>7. (msg.type = "commit_sig" => a <= TipHeight(d2)) /\ (msg.type = "revoke_and_ack" => b < d2.local.height)
  BY ONLY <1>3, <1>4, <1>5, <1>6
<1>8. Known(msg, d2)
  BY ONLY <1>7 DEF Known, a, b
<1>. QED  BY <1>8 DEF msg

\* Messages of which all are known.
LEMMA KnownTogether ==
    ASSUME NEW d, NEW s \in Seq(Messages), AllKnown(s, d)
    PROVE  /\ \A t \in Seq(Messages) : AllKnown(t, d) => AllKnown(s \o t, d)
           /\ s # <<>> => AllKnown(Tail(s), d) /\ Known(Head(s), d)
<1>. DEFINE P(x) == Known(x, d)
            M == Messages
<1>1. s \in Seq(M) /\ \A k \in DOMAIN s : P(s[k])
  BY DEF AllKnown
<1>. HIDE DEF P, M
<1>2. ASSUME NEW t \in Seq(M), \A k \in DOMAIN t : P(t[k])
      PROVE  \A k \in DOMAIN (s \o t) : P((s \o t)[k])
  BY ONLY <1>1, <1>2
<1>3. ASSUME s # <<>>
      PROVE  P(Head(s)) /\ \A k \in DOMAIN Tail(s) : P(Tail(s)[k])
  BY ONLY <1>1, <1>3
<1>. QED  BY <1>2, <1>3 DEF AllKnown, P, M

\* One message, or none.
LEMMA KnownAlone ==
    ASSUME NEW d
    PROVE  AllKnown(<<>>, d) /\ \A msg : Known(msg, d) => AllKnown(<<msg>>, d)
BY DEF AllKnown

\* The heights a signature changes.
LEMMA SignHeights ==
    ASSUME NEW m, NEW d, Sound(m, d), NEW n \in Node
    PROVE  Signs(d, UpdateCommitTx(m, d, n))
<1>. DEFINE r == UpdateCommitTx(m, d, n)
            s == SignNextCommitment(m, d, n)
            sane == CommitmentSane(m, n, "Remote", FetchHTLCView(m, SignIndices(m)), "NoBuffer")
<1>1. d \in Disks /\ m.chains = RestoredChains(d)
  BY SoundUse
<1>2. d.local.height \in Nat /\ d.remote.height \in Nat /\ TipHeight(d) \in Nat /\ TipHeight(d) = TipOf(d).height
  BY <1>1, HeightsTyped
<1>3. CASE HasUnackedCommitment(m.chains.Remote) \/ ~sane
  <2>1. r.d = d /\ r.msgs = <<>>
    BY <1>3 DEF UpdateCommitTx
  <2>2. SignedOnce(d, d)
    BY DEF SignedOnce
  <2>. HIDE DEF r
  <2>3. Signs(d, r)
    BY ONLY <2>1, <2>2, KnownAlone DEF Signs
  <2>. QED  BY <2>3 DEF r
<1>4. CASE ~HasUnackedCommitment(m.chains.Remote) /\ sane
  <2>1. r = s
    BY <1>4 DEF UpdateCommitTx
  <2>2. d.diff = NoDiff
    BY <1>1, <1>4, Unacked
  <2>. DEFINE c == CommitmentView(m, n, "Remote", SignIndices(m), SignHtlcIndices(m))
              m2 == SetCommitHeights(m, "Remote", SignIndices(m), ChainTip(m.chains.Remote).height + 1)
              q == CreateCommitDiff(m2, c)
              msg == [type |-> "commit_sig", tx |-> TxOf(c, "Remote")]
              w == "Remote"
  <2>3. s.d = AppendRemoteCommitChain(d, q) /\ s.msgs = <<msg>>
    BY DEF SignNextCommitment, SignCommitment
  <2>4. q # NoDiff /\ q.commit = c
    BY DEF CreateCommitDiff, NoDiff
  <2>5. c.height = ChainTip(m.chains.Remote).height + 1
    BY DEF CommitmentView, CommitmentOf
  <2>6. ChainTip(RestoredChains(d).Remote) = TipOf(d)
    BY TipFacts, Parties DEF TipOn
  <2>7. c.height = TipHeight(d) + 1
    BY ONLY <1>1, <1>2, <2>5, <2>6
  <2>8. msg.type = "commit_sig" /\ msg.tx.height = c.height
    BY DEF TxOf
  <2>. HIDE DEF q, c, m2, msg
  <2>9. s.d.diff = q /\ s.d.remote = d.remote /\ s.d.local = d.local
    <3>1. d = [local |-> d.local, remote |-> d.remote, diff |-> d.diff, unsignedAcked |-> d.unsignedAcked,
               remoteUnsigned |-> d.remoteUnsigned, ackedKey |-> d.ackedKey, lastWasRevoke |-> d.lastWasRevoke, fwdPkgs |-> d.fwdPkgs]
      BY ONLY <1>1 DEF Disks
    <3>. QED  BY ONLY <2>3, <3>1 DEF AppendRemoteCommitChain
  <2>. HIDE DEF s, r
  <2>10. TipHeight(s.d) = c.height /\ TipHeight(d) = d.remote.height
    BY ONLY <2>2, <2>4, <2>9 DEF TipHeight
  <2>11. SignedOnce(d, s.d)
    BY ONLY <2>7, <2>9, <2>10 DEF SignedOnce
  <2>12. Known(msg, s.d)
    BY ONLY <1>2, <2>7, <2>8, <2>10 DEF Known
  <2>13. Signs(d, s)
    BY ONLY <2>3, <2>11, <2>12, KnownAlone DEF Signs
  <2>. QED  BY <2>1, <2>13 DEF r
<1>. QED  BY <1>3, <1>4

\* A result that leaves the disk alone.
LEMMA SameSigns ==
    ASSUME NEW d, NEW r, r.d = d, AllKnown(r.msgs, d)
    PROVE  Signs(d, r)
<1>1. SignedOnce(d, d)
  BY DEF SignedOnce
<1>. QED  BY <1>1 DEF Signs

\* Messages sent before.
LEMMA AfterSigns ==
    ASSUME NEW d \in Disks, NEW r, Outcome(r), Signs(d, r), NEW msgs \in Seq(Messages), AllKnown(msgs, d)
    PROVE  Signs(d, After(msgs, r))
<1>. DEFINE q == After(msgs, r)
            t == r.msgs
<1>1. HasFields(r, {"m", "d", "msgs", "fail"}) /\ t \in Seq(Messages) /\ Sound(r.m, r.d)
  BY DEF Outcome
<1>2. r.d \in Disks
  BY <1>1, SoundUse
<1>3. q.d = r.d /\ q.msgs = msgs \o t
  BY <1>1 DEF After, HasFields
<1>4. SignedOnce(d, r.d) /\ AllKnown(t, r.d)
  BY DEF Signs
<1>5. d.local.height \in Nat /\ TipHeight(d) \in Nat /\ r.d.local.height \in Nat /\ TipHeight(r.d) \in Nat
  BY <1>2, HeightsTyped
<1>6. NotBelow(d, r.d)
  BY ONLY <1>4, <1>5 DEF SignedOnce, NotBelow
<1>7. AllKnown(msgs, r.d)
  BY <1>2, <1>6, KnownLater
<1>. HIDE DEF q, t
<1>8. AllKnown(msgs \o t, r.d)
  BY <1>1, <1>4, <1>7, KnownTogether
<1>9. Signs(d, q)
  BY ONLY <1>3, <1>4, <1>8 DEF Signs
<1>. QED  BY <1>9 DEF q

\* A full batch.
LEMMA BatchSigns ==
    ASSUME NEW m, NEW d, Sound(m, d), NEW n \in Node
    PROVE  Signs(d, TryBatchUpdateCommitTx(m, d, n))
<1>. DEFINE r == TryBatchUpdateCommitTx(m, d, n)
<1>1. CASE NumPendingUpdates(m) < BatchSize
  <2>1. r = [m |-> m, d |-> d, msgs |-> <<>>, fail |-> ""]
    BY <1>1 DEF TryBatchUpdateCommitTx
  <2>. HIDE DEF r
  <2>2. r.d = d /\ r.msgs = <<>>
    BY ONLY <2>1
  <2>3. AllKnown(r.msgs, d)
    BY ONLY <2>2, KnownAlone
  <2>4. Signs(d, r)
    BY ONLY <2>2, <2>3, SameSigns
  <2>. QED  BY <2>4 DEF r
<1>2. CASE ~(NumPendingUpdates(m) < BatchSize)
  BY <1>2, SignHeights DEF TryBatchUpdateCommitTx
<1>. QED  BY <1>1, <1>2

\* What is sent again was signed before.
LEMMA ResendKnownHeights ==
    ASSUME NEW d \in Disks, d.diff # NoDiff
    PROVE  AllKnown(CommitResend(d), d)
<1>. DEFINE u == d.diff.updates
            s == [k \in DOMAIN u |-> Update(u[k].EntryType, u[k].HtlcIndex, u[k].Amount)]
            msg == [type |-> "commit_sig", tx |-> TxOf(d.diff.commit, "Remote")]
<1>1. CommitResend(d) = s \o <<msg>>
  BY DEF CommitResend
<1>2. u \in Seq(Recs)
  BY DEF Disks, Diffs
<1>3. \A k \in DOMAIN s : Known(s[k], d)
  <2>1. \A k \in DOMAIN s : s[k].type = "update"
    BY DEF Update
  <2>. HIDE DEF s
  <2>. QED  BY ONLY <2>1 DEF Known
<1>4. Known(msg, d)
  <2>1. msg.type = "commit_sig" /\ msg.tx.height = d.diff.commit.height
    BY DEF TxOf
  <2>2. TipHeight(d) = d.diff.commit.height /\ TipHeight(d) \in Nat
    BY HeightsTyped DEF TipHeight
  <2>. HIDE DEF msg
  <2>. QED  BY ONLY <2>1, <2>2 DEF Known
<1>5. DOMAIN s = 1..Len(u) /\ Len(u) \in Nat /\ s = [k \in 1..Len(u) |-> s[k]]
  BY <1>2
<1>. DEFINE P(x) == Known(x, d)
            t == <<msg>>
            n == Len(u)
<1>. HIDE DEF s, msg, P, n
<1>6. \A k \in DOMAIN (s \o <<msg>>) : P((s \o <<msg>>)[k])
  <2>1. s \in Seq({s[k] : k \in 1..n})
    BY ONLY <1>5 DEF n
  <2>2. Len(s) = n /\ n \in Nat
    BY ONLY <1>5 DEF n
  <2>3. \A k \in 1..n : P(s[k])
    BY ONLY <1>3, <1>5 DEF P, n
  <2>4. P(msg)
    BY ONLY <1>4 DEF P
  <2>5. DOMAIN (s \o <<msg>>) = 1..(n + 1) /\ (s \o <<msg>>)[n + 1] = msg /\ \A k \in 1..n : (s \o <<msg>>)[k] = s[k]
    BY ONLY <2>1, <2>2
  <2>. QED  BY ONLY <2>2, <2>3, <2>4, <2>5
<1>. QED  BY <1>1, <1>6 DEF AllKnown, P

\* What a node sends when it is connected again.
LEMMA SyncSigns ==
    ASSUME NEW m, NEW d, Sound(m, d), NEW n \in Node, NEW msg
    PROVE  Signs(d, ProcessChanSyncMsg(m, d, n, msg))
<1>. DEFINE local == ChainTail(m.chains.Local).height
            rv == [type |-> "revoke_and_ack", height |-> local - 1]
            revoke == <<rv>>
            e == <<>>
            r == RevocationResend(m, d, n, msg)
            next == msg.NextLocalCommitHeight
            z == CommitmentResend(r, m, d, next)
            upd == UpdateCommitTx(m, d, n)
            tip  == ChainTip(m.chains.Remote).height
            tail == ChainTail(m.chains.Remote).height
            same == [m |-> m, d |-> d, msgs |-> e, fail |-> ""]
<1>1. d \in Disks /\ m.chains = RestoredChains(d)
  BY SoundUse
<1>2. d.local.height \in Nat /\ d.remote.height \in Nat /\ TipHeight(d) \in Nat /\ TipHeight(d) = TipOf(d).height
  BY <1>1, HeightsTyped
<1>3. ChainTail(RestoredChains(d).Local) = d.local /\ ChainTail(RestoredChains(d).Remote) = d.remote
  BY DEF ChainTail, RestoredChains
<1>4. ChainTip(RestoredChains(d).Remote) = TipOf(d)
  BY TipFacts, Parties DEF TipOn
<1>5. local = d.local.height /\ tail = d.remote.height /\ tip = TipHeight(d) /\ tip \in Int
  BY ONLY <1>1, <1>2, <1>3, <1>4
<1>6. Known(rv, d) /\ rv \in Messages
  <2>1. rv.type = "revoke_and_ack" /\ rv.height = local - 1
    OBVIOUS
  <2>. DEFINE h == local - 1
  <2>2. h \in Int
    BY ONLY <1>2, <1>5
  <2>. HIDE DEF h
  <2>3. rv = [type |-> "revoke_and_ack", height |-> h]
    BY DEF h
  <2>4. rv \in Messages
    BY ONLY <2>2, <2>3, MessageTypes
  <2>. HIDE DEF rv, local
  <2>. QED  BY ONLY <1>2, <1>5, <2>1, <2>4 DEF Known
<1>8a. r \in {same, After(revoke, upd), [same EXCEPT !.msgs = revoke], [same EXCEPT !.fail = "syncError"]}
  BY DEF RevocationResend
<1>. HIDE DEF rv
<1>7. AllKnown(revoke, d) /\ AllKnown(e, d) /\ revoke \in Seq(Messages)
  <2>1. revoke \in Seq(Messages)
    BY ONLY <1>6
  <2>2. AllKnown(<<>>, d)
    BY KnownAlone
  <2>3. AllKnown(<<rv>>, d)
    BY <1>6, KnownAlone
  <2>. QED  BY ONLY <2>1, <2>2, <2>3
<1>9. Outcome(upd) /\ Signs(d, upd)
  BY SignOutcome, SignHeights
<1>. HIDE DEF revoke, upd, r, e
<1>8. r = same \/ r = After(revoke, upd) \/ r = [same EXCEPT !.msgs = revoke] \/ r = [same EXCEPT !.fail = "syncError"]
  BY ONLY <1>8a
<1>10. Signs(d, r) /\ Outcome(r)
  <2>0. e \in Seq(Messages)
    BY DEF e
  <2>1. CASE r = same
    <3>1. r.d = d /\ r.msgs = e /\ r = [m |-> m, d |-> d, msgs |-> e, fail |-> ""]
      BY ONLY <2>1
    <3>2. Outcome(r)
      BY <2>0, <3>1, SameOutcome
    <3>. QED  BY ONLY <1>7, <3>1, <3>2, SameSigns
  <2>2. CASE r = After(revoke, upd)
    <3>1. Signs(d, After(revoke, upd))
      BY ONLY <1>1, <1>7, <1>9, AfterSigns
    <3>2. Outcome(After(revoke, upd))
      BY ONLY <1>7, <1>9, AfterOutcome
    <3>. QED  BY ONLY <2>2, <3>1, <3>2
  <2>3. CASE r = [same EXCEPT !.msgs = revoke]
    <3>. DEFINE f == ""
    <3>. HIDE DEF f
    <3>1. [[m |-> m, d |-> d, msgs |-> e, fail |-> f] EXCEPT !.msgs = revoke] = [m |-> m, d |-> d, msgs |-> revoke, fail |-> f]
      BY ONLY ResultFields
    <3>2. r = [m |-> m, d |-> d, msgs |-> revoke, fail |-> ""]
      BY ONLY <2>3, <3>1, Zenon DEF f
    <3>3. r.d = d /\ r.msgs = revoke
      BY ONLY <3>2
    <3>4. Outcome(r)
      BY <1>7, <3>2, SameOutcome
    <3>. QED  BY ONLY <1>7, <3>3, <3>4, SameSigns
  <2>4. CASE r = [same EXCEPT !.fail = "syncError"]
    <3>. DEFINE f == ""
                g == "syncError"
    <3>. HIDE DEF f, g
    <3>1. [[m |-> m, d |-> d, msgs |-> e, fail |-> f] EXCEPT !.fail = g] = [m |-> m, d |-> d, msgs |-> e, fail |-> g]
      BY ONLY ResultFields
    <3>2. r = [m |-> m, d |-> d, msgs |-> e, fail |-> "syncError"]
      BY ONLY <2>4, <3>1, Zenon DEF f, g
    <3>3. r.d = d /\ r.msgs = e
      BY ONLY <3>2
    <3>4. Outcome(r)
      BY <2>0, <3>2, SameOutcome
    <3>. QED  BY ONLY <1>7, <3>3, <3>4, SameSigns
  <2>. QED  BY ONLY <1>8, <2>1, <2>2, <2>3, <2>4
<1>11. z = ProcessChanSyncMsg(m, d, n, msg)
  BY DEF ProcessChanSyncMsg, r
<1>12. \/ z = r
       \/ next = tip /\ next > tail /\ z = WithCommitment(r, d)
       \/ z = [r EXCEPT !.fail = "syncError"]
  BY <1>5, CommitmentResendCases
<1>. HIDE DEF z, next, tip, tail
<1>13. HasFields(r, {"m", "d", "msgs", "fail"}) /\ Sound(r.m, r.d) /\ r.msgs \in Seq(Messages)
  BY ONLY <1>10 DEF Outcome
<1>14. SignedOnce(d, r.d) /\ AllKnown(r.msgs, r.d)
  BY ONLY <1>10 DEF Signs
<1>15. CASE z = [r EXCEPT !.fail = "syncError"]
  <2>1. z.d = r.d /\ z.msgs = r.msgs
    BY ONLY <1>13, <1>15 DEF HasFields
  <2>2. Signs(d, z)
    BY ONLY <1>14, <2>1 DEF Signs
  <2>. QED  BY <1>11, <2>2
<1>16. CASE next = tip /\ next > tail /\ z = WithCommitment(r, d)
  <2>1. d.diff # NoDiff
    <3>1. d.diff = NoDiff => TipHeight(d) = d.remote.height
      BY DEF TipHeight
    <3>. QED  BY ONLY <1>2, <1>5, <1>16, <3>1
  <2>. DEFINE s == CommitResend(d)
              t == r.msgs
  <2>2. s \in Seq(Messages) /\ AllKnown(s, d)
    BY <1>1, <2>1, ResendTyped, ResendKnownHeights
  <2>3. r.d \in Disks
    BY <1>13, SoundUse
  <2>4. NotBelow(d, r.d)
    <3>1. r.d.local.height \in Nat /\ TipHeight(r.d) \in Nat
      BY <2>3, HeightsTyped
    <3>. QED  BY ONLY <1>2, <1>14, <3>1 DEF SignedOnce, NotBelow
  <2>. HIDE DEF s
  <2>5. AllKnown(s, r.d)
    BY ONLY <1>1, <2>2, <2>3, <2>4, KnownLater
  <2>6. t \in Seq(Messages) /\ AllKnown(t, r.d)
    BY <1>13, <1>14
  <2>. HIDE DEF t
  <2>7. AllKnown(s \o t, r.d) /\ AllKnown(t \o s, r.d)
    BY ONLY <2>2, <2>5, <2>6, KnownTogether
  <2>8. z.d = r.d /\ (z.msgs = s \o t \/ z.msgs = t \o s)
    BY ONLY <1>13, <1>16 DEF HasFields, WithCommitment, s, t
  <2>9. Signs(d, z)
    BY ONLY <1>14, <2>7, <2>8 DEF Signs
  <2>. QED  BY <1>11, <2>9
<1>. QED  BY ONLY <1>10, <1>11, <1>12, <1>15, <1>16

\* The peer o of a node with disk d is between the commitments d has of it.
Window(d, o) == d.remote.height <= o.local.height /\ o.local.height <= TipHeight(d)

\* The invariant of the two chains and the messages between them.
HeightsInv ==
    \A n \in Node : Window(disk[n], disk[Other(n)]) /\ AllKnown(net[n], disk[Other(n)])

\* A step from d to e, with peer o, that gives up our commitment for the one
\* the peer signed, or that counts the peer's as revoked.
MovedOn(d, e, o) ==
    /\ e.local.height = d.local.height + 1 /\ e.remote.height = d.remote.height
    /\ TipHeight(e) = TipHeight(d) /\ TipHeight(o) = d.local.height + 1
PeerMoved(d, e, o) ==
    /\ e.local.height = d.local.height /\ e.remote.height = TipHeight(d) /\ TipHeight(e) = TipHeight(d)
    /\ TipHeight(d) = d.remote.height + 1 /\ o.local.height = TipHeight(d)

HeightStep(d, d2, o) ==
    \/ SignedOnce(d, d2)
    \/ \E e \in Disks : MovedOn(d, e, o) /\ SignedOnce(e, d2)
    \/ \E e \in Disks : PeerMoved(d, e, o) /\ SignedOnce(e, d2)

\* What a step has to show.
HeightsKept == HeightsInv' /\ [Heights!Next]_(Heights!chainVars)

\* The other node.
LEMMA OtherNode ==
    ASSUME NEW n \in Node
    PROVE  /\ Other(n) \in Node /\ Other(n) # n /\ Other(Other(n)) = n /\ \A k \in Node : k = n \/ k = Other(n)
           /\ Heights!Other(n) = Other(n) /\ n \in Heights!Node
BY NodeAssumption DEF Other, Node, Heights!Other, Heights!Node

\* Nothing is signed.
LEMMA NothingSigned ==
    ASSUME NEW d
    PROVE  SignedOnce(d, d)
BY DEF SignedOnce

\* The heights of one node move as CommitChains says.
LEMMA HeightsOfNode ==
    ASSUME NEW n \in Node, NEW d2 \in Disks, DOMAIN disk = Node, disk = [k \in Node |-> disk[k]],
           \A k \in Node : disk[k] \in Disks,
           disk' = [disk EXCEPT ![n] = d2], HeightStep(disk[n], d2, disk[Other(n)])
    PROVE  [Heights!Next]_(Heights!chainVars)
<1>. DEFINE d == disk[n]
            o == disk[Other(n)]
            tl == [k \in Node |-> disk[k].remote.height]
            tp == [k \in Node |-> TipHeight(disk[k])]
            cr == [k \in Node |-> disk[k].local.height]
            tl2 == [k \in Node |-> (disk[k].remote.height)']
            tp2 == [k \in Node |-> TipHeight(disk[k])']
            cr2 == [k \in Node |-> (disk[k].local.height)']
<1>1. Other(n) \in Node /\ Heights!Other(n) = Other(n) /\ n \in Heights!Node
  BY OtherNode
<1>2. disk'[n] = d2 /\ \A k \in Node : k # n => disk'[k] = disk[k]
  BY n \in Node
<1>3. /\ tl2 = [tl EXCEPT ![n] = d2.remote.height] /\ cr2 = [cr EXCEPT ![n] = d2.local.height]
      /\ tp2 = [tp EXCEPT ![n] = TipHeight(d2)]
  BY ONLY <1>2, n \in Node DEF TipHeight
<1>4. /\ tl[n] = d.remote.height /\ tp[n] = TipHeight(d) /\ cr[n] = d.local.height
      /\ tp[Other(n)] = TipHeight(o) /\ cr[Other(n)] = o.local.height
      /\ tl = [tl EXCEPT ![n] = d.remote.height] /\ tp = [tp EXCEPT ![n] = TipHeight(d)] /\ cr = [cr EXCEPT ![n] = d.local.height]
  BY <1>1
<1>5. /\ d.local.height \in Nat /\ d.remote.height \in Nat /\ TipHeight(d) \in Nat
      /\ d2.local.height \in Nat /\ d2.remote.height \in Nat /\ TipHeight(d2) \in Nat
  BY HeightsTyped
<1>6. /\ Heights!Sign(n) <=> tp[n] = tl[n] /\ tp2 = [tp EXCEPT ![n] = tp[n] + 1] /\ tl2 = tl /\ cr2 = cr
  BY DEF Heights!Sign, Heights!CanSign
<1>7. /\ Heights!Revoke(n) <=> tp[Other(n)] = cr[n] + 1 /\ cr2 = [cr EXCEPT ![n] = cr[n] + 1] /\ tl2 = tl /\ tp2 = tp
  BY <1>1 DEF Heights!Revoke, Heights!CanRevoke
<1>8. /\ Heights!RevokeAndSign(n) <=> /\ tp[Other(n)] = cr[n] + 1 /\ tp[n] = tl[n] /\ cr2 = [cr EXCEPT ![n] = cr[n] + 1]
                                      /\ tl2 = tl /\ tp2 = [tp EXCEPT ![n] = tp[n] + 1]
  BY <1>1 DEF Heights!RevokeAndSign, Heights!CanRevoke, Heights!CanSign
<1>9. /\ Heights!Advance(n) <=> /\ tp[n] = tl[n] + 1 /\ cr[Other(n)] = tp[n]
                                /\ tl2 = [tl EXCEPT ![n] = tl[n] + 1] /\ tp2 = tp /\ cr2 = cr
  BY <1>1 DEF Heights!Advance, Heights!CanAdvance
<1>10. /\ Heights!AdvanceAndSign(n) <=> /\ tp[n] = tl[n] + 1 /\ cr[Other(n)] = tp[n]
                                        /\ tl2 = [tl EXCEPT ![n] = tl[n] + 1] /\ tp2 = [tp EXCEPT ![n] = tp[n] + 1] /\ cr2 = cr
  BY <1>1 DEF Heights!AdvanceAndSign, Heights!CanAdvance
<1>11. tl2 = tl /\ tp2 = tp /\ cr2 = cr => UNCHANGED Heights!chainVars
  BY DEF Heights!chainVars
<1>12. Heights!Next \/ UNCHANGED Heights!chainVars
  <2>. HIDE DEF tl, tp, cr, tl2, tp2, cr2
  <2>1. CASE SignedOnce(d, d2)
    <3>1. CASE TipHeight(d2) = TipHeight(d)
      <4>1. tl2 = tl /\ tp2 = tp /\ cr2 = cr
        BY ONLY <1>3, <1>4, <2>1, <3>1 DEF SignedOnce
      <4>. QED  BY ONLY <1>11, <4>1
    <3>2. CASE TipHeight(d) = d.remote.height /\ TipHeight(d2) = TipHeight(d) + 1
      <4>1. tl2 = tl /\ cr2 = cr /\ tp2 = [tp EXCEPT ![n] = tp[n] + 1] /\ tp[n] = tl[n]
        BY ONLY <1>3, <1>4, <2>1, <3>2 DEF SignedOnce
      <4>2. Heights!Sign(n)
        BY ONLY <1>6, <4>1
      <4>. QED  BY ONLY <1>1, <4>2 DEF Heights!Next
    <3>. QED  BY ONLY <2>1, <3>1, <3>2 DEF SignedOnce
  <2>2. CASE \E e \in Disks : MovedOn(d, e, o) /\ SignedOnce(e, d2)
    <3>0. PICK e \in Disks : MovedOn(d, e, o) /\ SignedOnce(e, d2)
      BY <2>2
    <3>1. CASE TipHeight(d2) = TipHeight(e)
      <4>1. tl2 = tl /\ tp2 = tp /\ cr2 = [cr EXCEPT ![n] = cr[n] + 1] /\ tp[Other(n)] = cr[n] + 1
        BY ONLY <1>3, <1>4, <3>0, <3>1 DEF SignedOnce, MovedOn
      <4>2. Heights!Revoke(n)
        BY ONLY <1>7, <4>1
      <4>. QED  BY ONLY <1>1, <4>2 DEF Heights!Next
    <3>2. CASE TipHeight(e) = e.remote.height /\ TipHeight(d2) = TipHeight(e) + 1
      <4>1. /\ tl2 = tl /\ tp2 = [tp EXCEPT ![n] = tp[n] + 1] /\ cr2 = [cr EXCEPT ![n] = cr[n] + 1]
            /\ tp[Other(n)] = cr[n] + 1 /\ tp[n] = tl[n]
        BY ONLY <1>3, <1>4, <3>0, <3>2 DEF SignedOnce, MovedOn
      <4>2. Heights!RevokeAndSign(n)
        BY ONLY <1>8, <4>1
      <4>. QED  BY ONLY <1>1, <4>2 DEF Heights!Next
    <3>. QED  BY ONLY <3>0, <3>1, <3>2 DEF SignedOnce
  <2>3. CASE \E e \in Disks : PeerMoved(d, e, o) /\ SignedOnce(e, d2)
    <3>0. PICK e \in Disks : PeerMoved(d, e, o) /\ SignedOnce(e, d2)
      BY <2>3
    <3>1. CASE TipHeight(d2) = TipHeight(e)
      <4>1. tl2 = [tl EXCEPT ![n] = tl[n] + 1] /\ tp2 = tp /\ cr2 = cr /\ tp[n] = tl[n] + 1 /\ cr[Other(n)] = tp[n]
        BY ONLY <1>3, <1>4, <3>0, <3>1 DEF SignedOnce, PeerMoved
      <4>2. Heights!Advance(n)
        BY ONLY <1>9, <4>1
      <4>. QED  BY ONLY <1>1, <4>2 DEF Heights!Next
    <3>2. CASE TipHeight(e) = e.remote.height /\ TipHeight(d2) = TipHeight(e) + 1
      <4>1. /\ tl2 = [tl EXCEPT ![n] = tl[n] + 1] /\ tp2 = [tp EXCEPT ![n] = tp[n] + 1] /\ cr2 = cr
            /\ tp[n] = tl[n] + 1 /\ cr[Other(n)] = tp[n]
        BY ONLY <1>3, <1>4, <3>0, <3>2 DEF SignedOnce, PeerMoved
      <4>2. Heights!AdvanceAndSign(n)
        BY ONLY <1>10, <4>1
      <4>. QED  BY ONLY <1>1, <4>2 DEF Heights!Next
    <3>. QED  BY ONLY <3>0, <3>1, <3>2 DEF SignedOnce
  <2>. QED  BY ONLY <2>1, <2>2, <2>3, HeightStep(disk[n], d2, disk[Other(n)]) DEF HeightStep
<1>. QED  BY <1>12

\* The peer stays in the window.
LEMMA WindowKept ==
    ASSUME NEW d \in Disks, NEW d2 \in Disks, NEW o \in Disks, Window(d, o), Window(o, d), HeightStep(d, d2, o)
    PROVE  Window(d2, o) /\ Window(o, d2) /\ NotBelow(d, d2)
<1>1. /\ d.local.height \in Nat /\ d.remote.height \in Nat /\ TipHeight(d) \in Nat
      /\ d2.local.height \in Nat /\ d2.remote.height \in Nat /\ TipHeight(d2) \in Nat
      /\ o.local.height \in Nat /\ o.remote.height \in Nat /\ TipHeight(o) \in Nat
  BY HeightsTyped
<1>2. d.remote.height <= o.local.height /\ o.local.height <= TipHeight(d) /\ o.remote.height <= d.local.height /\ d.local.height <= TipHeight(o)
  BY DEF Window
<1>3. CASE SignedOnce(d, d2)
  BY ONLY <1>1, <1>2, <1>3 DEF SignedOnce, Window, NotBelow
<1>4. CASE \E e \in Disks : MovedOn(d, e, o) /\ SignedOnce(e, d2)
  <2>1. PICK e \in Disks : MovedOn(d, e, o) /\ SignedOnce(e, d2)
    BY <1>4
  <2>. QED  BY ONLY <1>1, <1>2, <2>1 DEF MovedOn, SignedOnce, Window, NotBelow
<1>5. CASE \E e \in Disks : PeerMoved(d, e, o) /\ SignedOnce(e, d2)
  <2>1. PICK e \in Disks : PeerMoved(d, e, o) /\ SignedOnce(e, d2)
    BY <1>5
  <2>. QED  BY ONLY <1>1, <1>2, <2>1 DEF PeerMoved, SignedOnce, Window, NotBelow
<1>. QED  BY <1>3, <1>4, <1>5 DEF HeightStep

\* What the two invariants say of a node and its peer.
LEMMA PairFacts ==
    ASSUME ChannelInv, HeightsInv, NEW n \in Node
    PROVE  /\ DOMAIN disk = Node /\ disk = [k \in Node |-> disk[k]] /\ \A k \in Node : disk[k] \in Disks
           /\ disk[n] \in Disks /\ disk[Other(n)] \in Disks
           /\ Window(disk[n], disk[Other(n)]) /\ Window(disk[Other(n)], disk[n])
           /\ AllKnown(net[n], disk[Other(n)]) /\ AllKnown(net[Other(n)], disk[n])
           /\ net[n] \in Seq(Messages) /\ net[Other(n)] \in Seq(Messages) /\ net \in [Node -> Seq(Messages)]
           /\ \A k \in Node : TipHeight(disk[k]) = disk[k].remote.height \/ TipHeight(disk[k]) = disk[k].remote.height + 1
<1>1. Other(n) \in Node /\ Other(Other(n)) = n
  BY OtherNode
<1>2. DOMAIN disk = Node /\ disk = [k \in Node |-> disk[k]] /\ net \in [Node -> Seq(Messages)] /\ \A k \in Node : OnRecord(disk[k])
  BY DEF ChannelInv
<1>3. \A k \in Node : disk[k] \in Disks
  BY <1>2, RecordFacts
<1>4. ASSUME NEW k \in Node
      PROVE  TipHeight(disk[k]) = disk[k].remote.height \/ TipHeight(disk[k]) = disk[k].remote.height + 1
  <2>. DEFINE d == disk[k]
  <2>1. \E K, ix, hc : Ledger(K, ix, hc, d)
    BY <1>2 DEF OnRecord
  <2>2. PICK K, ix, hc : Ledger(K, ix, hc, d)
    BY <2>1
  <2>. HIDE DEF d
  <2>3. Book(K, ix, hc, d)
    BY ONLY <2>2 DEF Ledger
  <2>4. Staged(d)
    BY ONLY <2>3 DEF Book
  <2>5. d.diff # NoDiff => d.diff.commit.height = d.remote.height + 1
    BY ONLY <2>4 DEF Staged
  <2>6. TipHeight(d) = d.remote.height \/ TipHeight(d) = d.remote.height + 1
    BY ONLY <2>5 DEF TipHeight
  <2>. QED  BY <2>6 DEF d
<1>. QED  BY <1>1, <1>2, <1>3, <1>4 DEF HeightsInv

\* The messages of a step.
SendsTo(n, inbox, msgs, d2) ==
    /\ inbox \in Seq(Messages) /\ AllKnown(inbox, disk[Other(n)])
    /\ msgs \in Seq(Messages) /\ AllKnown(msgs, d2)
    /\ net' = Exchange(n, inbox, msgs) \/ net' = [net EXCEPT ![n] = inbox]

\* A step of one node keeps the heights of both.
LEMMA HeightsKeptByNode ==
    ASSUME ChannelInv, HeightsInv, NEW n \in Node, NEW d2 \in Disks, NEW inbox, NEW msgs,
           disk' = [disk EXCEPT ![n] = d2], HeightStep(disk[n], d2, disk[Other(n)]), SendsTo(n, inbox, msgs, d2)
    PROVE  HeightsKept
<1>. DEFINE o == Other(n)
<1>0. /\ o \in Node /\ o # n /\ Other(o) = n /\ \A k \in Node : k = n \/ k = o
      /\ Other(n) = o
  BY OtherNode
<1>1. /\ DOMAIN disk = Node /\ disk = [k \in Node |-> disk[k]] /\ \A k \in Node : disk[k] \in Disks
      /\ Window(disk[n], disk[o]) /\ Window(disk[o], disk[n])
      /\ AllKnown(net[n], disk[o]) /\ AllKnown(net[o], disk[n])
      /\ net[n] \in Seq(Messages) /\ net[o] \in Seq(Messages) /\ net \in [Node -> Seq(Messages)]
  BY PairFacts
<1>2. [Heights!Next]_(Heights!chainVars)
  BY <1>1, HeightsOfNode
<1>3. Window(d2, disk[o]) /\ Window(disk[o], d2) /\ NotBelow(disk[n], d2)
  BY <1>0, <1>1, WindowKept
<1>4. AllKnown(net[o], d2)
  BY <1>0, <1>1, <1>3, KnownLater
<1>5. inbox \in Seq(Messages) /\ AllKnown(inbox, disk[o]) /\ msgs \in Seq(Messages) /\ AllKnown(msgs, d2)
      /\ (net' = Exchange(n, inbox, msgs) \/ net' = [net EXCEPT ![n] = inbox])
  BY DEF SendsTo
<1>6. AllKnown(net[o] \o msgs, d2)
  <2>. DEFINE s == net[o]
  <2>1. s \in Seq(Messages) /\ AllKnown(s, d2)
    BY <1>1, <1>4
  <2>. HIDE DEF s
  <2>2. AllKnown(s \o msgs, d2)
    BY ONLY <1>5, <2>1, KnownTogether
  <2>. QED  BY <2>2 DEF s
<1>. HIDE DEF o
<1>7. net'[n] = inbox /\ (net'[o] = net[o] \o msgs \/ net'[o] = net[o])
  <2>1. CASE net' = [net EXCEPT ![n] = inbox]
    BY ONLY <1>0, <1>1, <2>1, n \in Node
  <2>2. CASE net' = Exchange(n, inbox, msgs)
    <3>1. net' = [net EXCEPT ![n] = inbox, ![o] = IF link[o] \in {"sync", "up"} THEN @ \o msgs ELSE @]
      BY ONLY <1>0, <2>2 DEF Exchange
    <3>. QED  BY ONLY <1>0, <1>1, <3>1, n \in Node
  <2>. QED  BY ONLY <1>5, <2>1, <2>2
<1>8. disk'[n] = d2 /\ disk'[o] = disk[o]
  BY <1>0, <1>1
<1>9. /\ Window(disk'[n], disk'[o]) /\ Window(disk'[o], disk'[n])
      /\ AllKnown(net'[n], disk'[o]) /\ AllKnown(net'[o], disk'[n])
  BY ONLY <1>3, <1>4, <1>5, <1>6, <1>7, <1>8
<1>10. HeightsInv'
  BY ONLY <1>0, <1>9 DEF HeightsInv, Window, AllKnown, Known, TipHeight
<1>. QED  BY <1>2, <1>10 DEF HeightsKept

\* The step of a handler that goes on with r, from inbox.
LEMMA ApplyKeepsHeights ==
    ASSUME ChannelInv, HeightsInv, NEW n \in Node, NEW inbox \in Seq(Messages), AllKnown(inbox, disk[Other(n)]),
           NEW r, Outcome(r), Apply(n, inbox, r), HeightStep(disk[n], r.d, disk[Other(n)]), AllKnown(r.msgs, r.d)
    PROVE  HeightsKept
<1>1. Sound(r.m, r.d) /\ r.msgs \in Seq(Messages)
  BY DEF Outcome
<1>2. r.d \in Disks
  BY <1>1, SoundUse
<1>3. disk' = [disk EXCEPT ![n] = r.d] /\ net' = Exchange(n, inbox, r.msgs)
  BY DEF Apply
<1>4. SendsTo(n, inbox, r.msgs, r.d)
  BY <1>1, <1>3 DEF SendsTo
<1>. QED  BY <1>2, <1>3, <1>4, HeightsKeptByNode

\* A step that leaves the disks alone, from inbox.
LEMMA ReadKeepsHeights ==
    ASSUME ChannelInv, HeightsInv, NEW n \in Node, NEW inbox \in Seq(Messages), AllKnown(inbox, disk[Other(n)]),
           disk' = disk, net' = [net EXCEPT ![n] = inbox]
    PROVE  HeightsKept
<1>. DEFINE e == <<>>
<1>1. disk[n] \in Disks /\ disk' = [disk EXCEPT ![n] = disk[n]]
  BY PairFacts
<1>2. HeightStep(disk[n], disk[n], disk[Other(n)])
  BY NothingSigned DEF HeightStep
<1>3. e \in Seq(Messages) /\ AllKnown(e, disk[n])
  BY KnownAlone
<1>. HIDE DEF e
<1>4. SendsTo(n, inbox, e, disk[n])
  BY <1>3 DEF SendsTo
<1>. QED  BY <1>1, <1>2, <1>4, HeightsKeptByNode

\* What is left when the first message is taken.
LEMMA InboxFacts ==
    ASSUME ChannelInv, HeightsInv, NEW n \in Node
    PROVE  /\ net[n] \in Seq(Messages) /\ AllKnown(net[n], disk[Other(n)])
           /\ net[n] # <<>> => /\ Tail(net[n]) \in Seq(Messages) /\ AllKnown(Tail(net[n]), disk[Other(n)])
                               /\ Head(net[n]) \in Messages /\ Known(Head(net[n]), disk[Other(n)])
           /\ <<>> \in Seq(Messages) /\ AllKnown(<<>>, disk[Other(n)])
<1>1. net[n] \in Seq(Messages) /\ AllKnown(net[n], disk[Other(n)])
  BY PairFacts
<1>. DEFINE s == net[n]
            d == disk[Other(n)]
<1>2. s \in Seq(Messages) /\ AllKnown(s, d)
  BY <1>1
<1>. HIDE DEF s, d
<1>3. s # <<>> => Tail(s) \in Seq(Messages) /\ Head(s) \in Messages
  BY ONLY <1>2, TailTyped
<1>4. s # <<>> => AllKnown(Tail(s), d) /\ Known(Head(s), d)
  BY ONLY <1>2, KnownTogether
<1>5. AllKnown(<<>>, d) /\ <<>> \in Seq(Messages)
  BY KnownAlone
<1>. QED  BY <1>1, <1>3, <1>4, <1>5 DEF s, d

\* The rest of a handler that moved the heights to those of r.d.
LEMMA SignOrStopKeepsHeights ==
    ASSUME ChannelInv, HeightsInv, NEW n \in Node, net[n] # <<>>, NEW r, Sound(r.m, r.d), r.msgs \in Seq(Messages),
           SignOrStop(n, r), AllKnown(r.msgs, r.d),
           MovedOn(disk[n], r.d, disk[Other(n)]) \/ PeerMoved(disk[n], r.d, disk[Other(n)])
    PROVE  HeightsKept
<1>. DEFINE t == Tail(net[n])
            q == After(r.msgs, UpdateCommitTx(r.m, r.d, n))
            s == [m |-> r.m, d |-> r.d, msgs |-> r.msgs, fail |-> ""]
<1>1. \/ Apply(n, t, q)
      \/ Apply(n, t, s)
      \/ disk' = [disk EXCEPT ![n] = r.d] /\ net' = Exchange(n, <<>>, r.msgs)
  BY DEF SignOrStop
<1>2. r.d \in Disks
  BY SoundUse
<1>3. t \in Seq(Messages) /\ AllKnown(t, disk[Other(n)])
  BY InboxFacts
<1>4. \A d2 : SignedOnce(r.d, d2) => HeightStep(disk[n], d2, disk[Other(n)])
  BY <1>2 DEF HeightStep
<1>5. Outcome(q) /\ Signs(r.d, q)
  <2>1. Outcome(UpdateCommitTx(r.m, r.d, n)) /\ Signs(r.d, UpdateCommitTx(r.m, r.d, n))
    BY SignOutcome, SignHeights
  <2>. DEFINE u == UpdateCommitTx(r.m, r.d, n)
  <2>. HIDE DEF u
  <2>2. Outcome(u) /\ Signs(r.d, u)
    BY <2>1 DEF u
  <2>3. Outcome(After(r.msgs, u)) /\ Signs(r.d, After(r.msgs, u))
    BY <1>2, <2>2, AfterOutcome, AfterSigns
  <2>. QED  BY <2>3 DEF u
<1>6. Outcome(s) /\ s.d = r.d /\ s.msgs = r.msgs
  BY SameOutcome
<1>. HIDE DEF t, q, s
<1>7. CASE Apply(n, t, q)
  <2>1. HeightStep(disk[n], q.d, disk[Other(n)]) /\ AllKnown(q.msgs, q.d)
    BY ONLY <1>4, <1>5 DEF Signs
  <2>. QED  BY <1>3, <1>5, <1>7, <2>1, ApplyKeepsHeights
<1>8. CASE Apply(n, t, s)
  <2>1. HeightStep(disk[n], s.d, disk[Other(n)]) /\ AllKnown(s.msgs, s.d)
    BY <1>4, <1>6, NothingSigned
  <2>. QED  BY <1>3, <1>6, <1>8, <2>1, ApplyKeepsHeights
<1>9. CASE disk' = [disk EXCEPT ![n] = r.d] /\ net' = Exchange(n, <<>>, r.msgs)
  <2>. DEFINE e == <<>>
  <2>1. e \in Seq(Messages) /\ AllKnown(e, disk[Other(n)]) /\ net' = Exchange(n, e, r.msgs)
    BY <1>9, InboxFacts
  <2>. HIDE DEF e
  <2>2. SendsTo(n, e, r.msgs, r.d)
    BY <2>1 DEF SendsTo
  <2>3. HeightStep(disk[n], r.d, disk[Other(n)])
    BY <1>4, NothingSigned
  <2>. QED  BY <1>2, <1>9, <2>2, <2>3, HeightsKeptByNode
<1>. QED  BY <1>1, <1>7, <1>8, <1>9

\* A commitment received, and the heights once ours is given up for it.
LEMMA RevokeHeights ==
    ASSUME NEW m, NEW d, Sound(m, d), NEW n, NEW m2, m2 = ReceiveNewCommitment(m, n),
           NEW r, r = RevokeCurrentCommitment(m2, d)
    PROVE  /\ TxOf(ChainTip(m2.chains.Local), "Local").height = d.local.height + 1
           /\ r.d.local.height = d.local.height + 1 /\ r.d.remote = d.remote /\ r.d.diff = d.diff
           /\ r.msgs = <<[type |-> "revoke_and_ack", height |-> r.d.local.height - 1]>>
<1>. DEFINE c == CommitmentView(m, n, "Local", RecvIndices(m), RecvHtlcIndices(m))
            s == SetCommitHeights(m, "Local", RecvIndices(m), ChainTip(m.chains.Local).height + 1)
            m3 == [m2 EXCEPT !.chains.Local = Tail(@)]
            d2 == UpdateCommitment(d, c, UnsignedAckedUpdates(m3))
<1>0. m \in Mems /\ d \in Disks /\ m.chains = RestoredChains(d)
  BY SoundUse
<1>a. IsMem(m, d)
  BY <1>0 DEF IsMem, HasFields, Mems
<1>1. IsMem(s, d)
  BY <1>a, HeightsKeepChains
<1>2. m2 = [s EXCEPT !.chains.Local = Append(@, c)]
  BY DEF ReceiveNewCommitment
<1>3. r.d = UpdateCommitment(d, m2.chains.Local[2], UnsignedAckedUpdates(m3))
      /\ r.msgs = <<[type |-> "revoke_and_ack", height |-> m2.chains.Local[2].height - 1]>>
  BY DEF RevokeCurrentCommitment, MoveTo
<1>4. c.height = d.local.height + 1
  <2>1. c.height = ChainTip(m.chains["Local"]).height + 1
    BY DEF CommitmentView, CommitmentOf
  <2>2. ChainTip(RestoredChains(d).Local) = d.local
    BY TipFacts, Parties DEF TipOn
  <2>. QED  BY <1>0, <2>1, <2>2
<1>. HIDE DEF c, s
<1>. DEFINE remote == RestoredChains(d).Remote
<1>5. s.chains = [Local |-> <<d.local>>, Remote |-> remote]
  BY <1>1 DEF IsMem, RestoredChains
<1>. HIDE DEF remote
<1>6. m2.chains = [Local |-> <<d.local, c>>, Remote |-> remote]
  BY <1>1, <1>2, <1>5, AppendToOne DEF IsMem, HasFields
<1>7. m2.chains.Local = <<d.local, c>>
  BY ONLY <1>6
<1>8. m2.chains.Local[2] = c
  BY ONLY <1>7
<1>9. ChainTip(m2.chains.Local) = c
  BY ONLY <1>7 DEF ChainTip, Last
<1>10. d2.local = c /\ d2.remote = d.remote /\ d2.diff = d.diff
  <2>1. IsDisk(d)
    BY ONLY <1>0 DEF IsDisk, HasFields, Disks
  <2>. QED  BY <2>1 DEF IsDisk, HasFields, UpdateCommitment
<1>11. TxOf(c, "Local").height = c.height
  BY DEF TxOf
<1>12. r.d = d2 /\ r.msgs = <<[type |-> "revoke_and_ack", height |-> c.height - 1]>>
  BY ONLY <1>3, <1>8
<1>. HIDE DEF d2, m3
<1>. QED  BY ONLY <1>4, <1>9, <1>10, <1>11, <1>12

\* The heights once the peer's commitment is revoked.
LEMMA AdvanceHeights ==
    ASSUME NEW m, NEW d \in Disks, NEW r, r = ReceiveRevocation(m, d)
    PROVE  r.d.local = d.local /\ r.d.remote = d.diff.commit /\ r.d.diff = NoDiff
<1>. DEFINE d2 == AdvanceCommitChainTail(d, FreshlyLockedIn(m), UnsignedLocalUpdates(m))
<1>1. r.d = d2
  BY DEF ReceiveRevocation
<1>2. IsDisk(d)
  BY DEF IsDisk, HasFields, Disks
<1>3. d2.local = d.local /\ d2.remote = d.diff.commit /\ d2.diff = NoDiff
  BY ONLY <1>2 DEF IsDisk, HasFields, AdvanceCommitChainTail
<1>. QED  BY <1>1, <1>3

\* A handler that sends an update and goes on with r.
LEMMA SendKeepsHeights ==
    ASSUME ChannelInv, HeightsInv, NEW n \in Node, NEW t \in Types, NEW h \in Nat, NEW a \in Nat, NEW r,
           Outcome(r), Signs(disk[n], r), Apply(n, net[n], After(<<Update(t, h, a)>>, r))
    PROVE  HeightsKept
<1>. DEFINE msg == Update(t, h, a)
            s == <<msg>>
            q == After(s, r)
<1>1. msg \in Messages
  BY MessageTypes
<1>2. Known(msg, disk[n])
  <2>1. msg.type = "update"
    BY DEF Update
  <2>. QED  BY ONLY <2>1 DEF Known
<1>3. Apply(n, net[n], q)
  OBVIOUS
<1>. HIDE DEF msg
<1>4. s \in Seq(Messages)
  BY ONLY <1>1
<1>5. AllKnown(s, disk[n])
  BY <1>2, KnownAlone
<1>6. disk[n] \in Disks
  BY PairFacts
<1>. HIDE DEF s
<1>7. Outcome(q) /\ Signs(disk[n], q)
  BY <1>4, <1>5, <1>6, AfterOutcome, AfterSigns
<1>8. net[n] \in Seq(Messages) /\ AllKnown(net[n], disk[Other(n)])
  BY InboxFacts
<1>. HIDE DEF q
<1>9. HeightStep(disk[n], q.d, disk[Other(n)]) /\ AllKnown(q.msgs, q.d)
  BY ONLY <1>7 DEF Signs, HeightStep
<1>. QED  BY <1>3, <1>7, <1>8, <1>9, ApplyKeepsHeights

\* AddHTLC
LEMMA AddKeepsHeights ==
    ASSUME ChannelInv, HeightsInv, NEW n \in Node, NEW amt \in HtlcAmts, AddHTLC(n, amt)
    PROVE  HeightsKept
<1>. DEFINE m == mem[n]
            d == disk[n]
            pd == Descriptor("Add", m.logs.Local.logIndex, m.logs.Local.htlcCounter, amt)
            m2 == [m EXCEPT !.logs.Local = AppendHtlc(@, pd)]
            r == TryBatchUpdateCommitTx(m2, d, n)
            h == pd.HtlcIndex
            k == "Add"
<1>1. link[n] = "up" /\ Apply(n, net[n], After(<<Update(k, h, amt)>>, r))
  BY DEF AddHTLC
<1>2. Sound(m, d)
  BY <1>1, AtNode DEF Running
<1>3. amt \in Nat
  BY AmountAssumption
<1>4. Sound(m2, d)
  BY <1>2, <1>3, SoundAdd
<1>5. h = m.logs.Local.htlcCounter
  BY DEF Descriptor
<1>6. m.logs.Local.htlcCounter \in Nat
  BY <1>2, SoundUse DEF Mems, UpdateLogs
<1>7. k \in Types
  BY DEF Types
<1>8. h \in Nat
  BY ONLY <1>5, <1>6
<1>. HIDE DEF m2, k, h
<1>9. Outcome(r) /\ Signs(d, r)
  BY <1>4, BatchOutcome, BatchSigns
<1>. HIDE DEF r
<1>. QED  BY <1>1, <1>3, <1>7, <1>8, <1>9, SendKeepsHeights

\* ResolveHTLC
LEMMA ResolveKeepsHeights ==
    ASSUME ChannelInv, HeightsInv, NEW n \in Node, NEW h, NEW type \in ResolveTypes, ResolveHTLC(n, h, type)
    PROVE  HeightsKept
<1>. DEFINE m == mem[n]
            d == disk[n]
            m2 == RemoveHTLC(m, h, type)
            r == UpdateCommitTx(m2, d, n)
<1>1. /\ link[n] = "up" /\ Apply(n, net[n], After(<<Update(type, h, 0)>>, r))
      /\ Removable(m, h) /\ \E pkg \in Range(d.fwdPkgs) : h \in pkg.adds
  BY DEF ResolveHTLC
<1>2. Sound(m, d)
  BY <1>1, AtNode DEF Running
<1>3. h \in Forwarded(d)
  BY <1>1 DEF Forwarded
<1>4. h \in Nat
  <2>1. Forwarded(d) = 0..(d.remote.htlcIndex.Remote - 1) /\ d \in Disks
    BY <1>2, SoundUse DEF Sent
  <2>2. d.remote.htlcIndex.Remote \in Nat
    BY <2>1 DEF Disks, Commitments, Pairs
  <2>. QED  BY ONLY <1>3, <2>1, <2>2
<1>5. type \in {"Settle", "Fail"} /\ type \in Types
  BY TypeAssumption DEF Types
<1>6. Sound(m2, d)
  BY <1>1, <1>2, <1>3, <1>5, SoundRemove
<1>. HIDE DEF m2
<1>7. Outcome(r) /\ Signs(d, r)
  BY <1>6, SignOutcome, SignHeights
<1>. HIDE DEF r
<1>. QED  BY <1>1, <1>4, <1>5, <1>7, SendKeepsHeights

\* UpdateFee
LEMMA FeeKeepsHeights ==
    ASSUME ChannelInv, HeightsInv, NEW n \in Node, NEW rate \in FeeRates, UpdateFee(n, rate)
    PROVE  HeightsKept
<1>. DEFINE m == mem[n]
            d == disk[n]
            m2 == [m EXCEPT !.logs.Local = AppendFeeUpdate(@, Descriptor("FeeUpdate", @.logIndex, 0, rate))]
            r == UpdateCommitTx(m2, d, n)
            k == "FeeUpdate"
<1>1. link[n] = "up" /\ Apply(n, net[n], After(<<Update(k, 0, rate)>>, r))
  BY DEF UpdateFee
<1>2. Sound(m, d)
  BY <1>1, AtNode DEF Running
<1>3. rate \in Nat
  BY AmountAssumption
<1>4. Sound(m2, d)
  BY <1>2, <1>3, SoundFee
<1>5. k \in Types
  BY DEF Types
<1>. HIDE DEF m2, k
<1>6. Outcome(r) /\ Signs(d, r)
  BY <1>4, SignOutcome, SignHeights
<1>. HIDE DEF r
<1>. QED  BY <1>1, <1>3, <1>5, <1>6, SendKeepsHeights

\* BatchTick
LEMMA TickKeepsHeights ==
    ASSUME ChannelInv, HeightsInv, NEW n \in Node, BatchTick(n)
    PROVE  HeightsKept
<1>. DEFINE r == UpdateCommitTx(mem[n], disk[n], n)
<1>1. link[n] = "up" /\ Apply(n, net[n], r)
  BY DEF BatchTick
<1>2. Sound(mem[n], disk[n])
  BY <1>1, AtNode DEF Running
<1>3. Outcome(r) /\ Signs(disk[n], r)
  BY <1>2, SignOutcome, SignHeights
<1>. HIDE DEF r
<1>4. HeightStep(disk[n], r.d, disk[Other(n)]) /\ AllKnown(r.msgs, r.d)
  BY ONLY <1>3 DEF Signs, HeightStep
<1>5. net[n] \in Seq(Messages) /\ AllKnown(net[n], disk[Other(n)])
  BY InboxFacts
<1>. QED  BY <1>1, <1>3, <1>4, <1>5, ApplyKeepsHeights

\* A handler that fails the link, or only reads.
LEMMA FailKeepsHeights ==
    ASSUME ChannelInv, HeightsInv, NEW n \in Node, net[n] # <<>>, NEW why, Fail(n, Tail(net[n]), why)
    PROVE  HeightsKept
<1>. DEFINE t == Tail(net[n])
<1>1. disk' = disk /\ net' = [net EXCEPT ![n] = t]
  BY DEF Fail
<1>2. t \in Seq(Messages) /\ AllKnown(t, disk[Other(n)])
  BY InboxFacts
<1>. HIDE DEF t
<1>. QED  BY <1>1, <1>2, ReadKeepsHeights

\* ReceiveUpdate
LEMMA UpdateKeepsHeights ==
    ASSUME ChannelInv, HeightsInv, NEW n \in Node, ReceiveUpdate(n)
    PROVE  HeightsKept
<1>. DEFINE t == Tail(net[n])
<1>1. net[n] # <<>> /\ ((disk' = disk /\ net' = [net EXCEPT ![n] = Tail(@)]) \/ Fail(n, t, "badUpdate"))
  BY DEF ReceiveUpdate, Receives
<1>2. CASE Fail(n, t, "badUpdate")
  BY <1>1, <1>2, FailKeepsHeights
<1>3. CASE disk' = disk /\ net' = [net EXCEPT ![n] = Tail(@)]
  <2>1. t \in Seq(Messages) /\ AllKnown(t, disk[Other(n)])
    BY <1>1, InboxFacts
  <2>2. net' = [net EXCEPT ![n] = t]
    BY <1>3, PairFacts
  <2>. HIDE DEF t
  <2>. QED  BY <1>3, <2>1, <2>2, ReadKeepsHeights
<1>. QED  BY <1>1, <1>2, <1>3

\* ReceiveCommitSig
LEMMA CommitSigKeepsHeights ==
    ASSUME ChannelInv, HeightsInv, NEW n \in Node, ReceiveCommitSig(n)
    PROVE  HeightsKept
<1>. DEFINE m == mem[n]
            d == disk[n]
            o == disk[Other(n)]
            t == Tail(net[n])
            msg == Head(net[n])
            sane == CommitmentSane(m, n, "Local", FetchHTLCView(m, RecvIndices(m)), "NoBuffer")
            m2 == ReceiveNewCommitment(m, n)
            same == msg.tx = TxOf(ChainTip(m2.chains.Local), "Local")
            r == RevokeCurrentCommitment(m2, d)
<1>1. /\ link[n] = "up" /\ net[n] # <<>> /\ msg.type = "commit_sig"
      /\ CASE ~sane -> Fail(n, t, "badCommit")
           [] sane /\ ~same -> Fail(n, t, "badSig")
           [] OTHER -> SignOrStop(n, r)
  BY DEF ReceiveCommitSig, Receives
<1>2. Sound(m, d)
  BY <1>1, AtNode DEF Running
<1>. DEFINE A == Fail(n, t, "badCommit")
            B == Fail(n, t, "badSig")
            C == SignOrStop(n, r)
<1>3. A \/ B \/ (sane /\ same /\ C)
  <2>. HIDE DEF sane, same
  <2>1. CASE ~sane
    BY <1>1, <2>1
  <2>2. CASE sane /\ ~same
    BY <1>1, <2>2
  <2>3. CASE sane /\ same
    BY <1>1, <2>3
  <2>. QED  BY ONLY <2>1, <2>2, <2>3
<1>4. CASE A
  BY <1>1, <1>4, FailKeepsHeights
<1>5. CASE B
  BY <1>1, <1>5, FailKeepsHeights
<1>6. CASE sane /\ same /\ C
  <2>1. Sound(r.m, r.d)
    BY <1>2, <1>6, SoundRevoke
  <2>2. d \in Disks /\ r.d \in Disks /\ o \in Disks
    BY <1>2, <2>1, SoundUse, PairFacts
  <2>3. r.msgs \in Seq(Messages)
    <3>. HIDE DEF m2, d
    <3>. QED  BY <2>2, RevokeAnswer
  <2>4. SignOrStop(n, r)
    BY <1>6
  <2>5. /\ TxOf(ChainTip(m2.chains.Local), "Local").height = d.local.height + 1
        /\ r.d.local.height = d.local.height + 1 /\ r.d.remote = d.remote /\ r.d.diff = d.diff
        /\ r.msgs = <<[type |-> "revoke_and_ack", height |-> r.d.local.height - 1]>>
    BY <1>2, RevokeHeights
  <2>6. Known(msg, o)
    BY <1>1, InboxFacts
  <2>7. msg.tx.height = d.local.height + 1
    BY ONLY <1>6, <2>5
  <2>8. d.local.height + 1 <= TipHeight(o)
    BY ONLY <1>1, <2>6, <2>7 DEF Known
  <2>9. Window(o, d) /\ (TipHeight(o) = o.remote.height \/ TipHeight(o) = o.remote.height + 1)
    BY PairFacts, OtherNode
  <2>. HIDE DEF r, d, o, msg
  <2>10. /\ d.local.height \in Nat /\ o.remote.height \in Nat /\ TipHeight(o) \in Nat /\ r.d.local.height \in Nat
    BY ONLY <2>2, HeightsTyped
  <2>11. TipHeight(o) = d.local.height + 1
    BY ONLY <2>8, <2>9, <2>10 DEF Window
  <2>12. MovedOn(d, r.d, o)
    BY ONLY <2>5, <2>11 DEF MovedOn, TipHeight
  <2>13. AllKnown(r.msgs, r.d)
    <3>. DEFINE h == r.d.local.height - 1
                answer == [type |-> "revoke_and_ack", height |-> h]
    <3>1. answer.type = "revoke_and_ack" /\ answer.height = h /\ h < r.d.local.height
      BY <2>10
    <3>2. r.msgs = <<answer>>
      BY ONLY <2>5
    <3>. HIDE DEF answer, h
    <3>3. Known(answer, r.d)
      BY ONLY <3>1 DEF Known
    <3>. QED  BY ONLY <3>2, <3>3, KnownAlone
  <2>14. MovedOn(disk[n], r.d, disk[Other(n)])
    BY <2>12 DEF d, o
  <2>. QED  BY <1>1, <2>1, <2>3, <2>4, <2>13, <2>14, SignOrStopKeepsHeights
<1>. QED  BY ONLY <1>3, <1>4, <1>5, <1>6

\* ReceiveRevokeAndAck
LEMMA RevocationKeepsHeights ==
    ASSUME ChannelInv, HeightsInv, NEW n \in Node, ReceiveRevokeAndAck(n)
    PROVE  HeightsKept
<1>. DEFINE m == mem[n]
            d == disk[n]
            o == disk[Other(n)]
            t == Tail(net[n])
            msg == Head(net[n])
            q == ReceiveRevocation(m, d)
            e == <<>>
            r == [m |-> q.m, d |-> q.d, msgs |-> e]
<1>1. /\ link[n] = "up" /\ net[n] # <<>> /\ msg.type = "revoke_and_ack"
      /\ \/ /\ HasUnackedCommitment(m.chains.Remote) /\ msg.height = ChainTail(m.chains.Remote).height
            /\ SignOrStop(n, r)
         \/ Fail(n, t, "badRevocation")
  BY DEF ReceiveRevokeAndAck, Receives
<1>2. Sound(m, d)
  BY <1>1, AtNode DEF Running
<1>3. CASE Fail(n, t, "badRevocation")
  BY <1>1, <1>3, FailKeepsHeights
<1>4. CASE /\ HasUnackedCommitment(m.chains.Remote) /\ msg.height = ChainTail(m.chains.Remote).height
           /\ SignOrStop(n, r)
  <2>1. m.chains = RestoredChains(d) /\ d \in Disks /\ o \in Disks
    BY <1>2, SoundUse, PairFacts
  <2>2. d.diff # NoDiff
    BY <1>4, <2>1, Unacked
  <2>3. Sound(q.m, q.d)
    BY <1>2, <2>2, SoundAdvance
  <2>4. e \in Seq(Messages) /\ AllKnown(e, q.d)
    BY KnownAlone
  <2>5. q.d.local = d.local /\ q.d.remote = d.diff.commit /\ q.d.diff = NoDiff
    BY <2>1, AdvanceHeights
  <2>6. ChainTail(RestoredChains(d).Remote) = d.remote
    BY DEF ChainTail, RestoredChains
  <2>7. msg.height = d.remote.height
    BY ONLY <1>4, <2>1, <2>6
  <2>8. Known(msg, o)
    BY <1>1, InboxFacts
  <2>9. d.remote.height < o.local.height
    BY ONLY <1>1, <2>7, <2>8 DEF Known
  <2>10. Window(d, o) /\ (TipHeight(d) = d.remote.height \/ TipHeight(d) = d.remote.height + 1)
    BY PairFacts
  <2>. HIDE DEF q, e
  <2>11. r.m = q.m /\ r.d = q.d /\ r.msgs = e
    OBVIOUS
  <2>12. SignOrStop(n, r)
    BY <1>4
  <2>. HIDE DEF r, d, o, msg
  <2>13. d.remote.height \in Nat /\ o.local.height \in Nat /\ TipHeight(d) \in Nat
    BY ONLY <2>1, HeightsTyped
  <2>14. TipHeight(d) = d.remote.height + 1 /\ o.local.height = TipHeight(d)
    BY ONLY <2>9, <2>10, <2>13 DEF Window
  <2>15. PeerMoved(d, r.d, o)
    BY ONLY <2>2, <2>5, <2>11, <2>14 DEF PeerMoved, TipHeight
  <2>16. Sound(r.m, r.d) /\ r.msgs \in Seq(Messages) /\ AllKnown(r.msgs, r.d)
    BY ONLY <2>3, <2>4, <2>11
  <2>17. PeerMoved(disk[n], r.d, disk[Other(n)])
    BY <2>15 DEF d, o
  <2>. QED  BY <1>1, <2>12, <2>16, <2>17, SignOrStopKeepsHeights
<1>. QED  BY ONLY <1>1, <1>3, <1>4

\* SyncChanStates
LEMMA SyncKeepsHeights ==
    ASSUME ChannelInv, HeightsInv, NEW n \in Node, SyncChanStates(n)
    PROVE  HeightsKept
<1>. DEFINE t == Tail(net[n])
            r == ProcessChanSyncMsg(mem[n], disk[n], n, Head(net[n]))
<1>1. link[n] = "sync" /\ net[n] # <<>> /\ disk' = [disk EXCEPT ![n] = r.d] /\ net' = Exchange(n, t, r.msgs)
  BY DEF SyncChanStates, Resume
<1>2. Sound(mem[n], disk[n])
  BY <1>1, AtNode DEF Running
<1>3. t \in Seq(Messages) /\ AllKnown(t, disk[Other(n)])
  BY <1>1, InboxFacts
<1>4. Outcome(r) /\ Signs(disk[n], r)
  BY <1>2, SyncOutcome, SyncSigns
<1>. HIDE DEF r, t
<1>5. Sound(r.m, r.d) /\ r.msgs \in Seq(Messages)
  BY ONLY <1>4 DEF Outcome
<1>6. r.d \in Disks
  BY <1>5, SoundUse
<1>7. HeightStep(disk[n], r.d, disk[Other(n)]) /\ AllKnown(r.msgs, r.d)
  BY ONLY <1>4 DEF Signs, HeightStep
<1>8. SendsTo(n, t, r.msgs, r.d)
  BY <1>1, <1>3, <1>5, <1>7 DEF SendsTo
<1>. QED  BY <1>1, <1>6, <1>7, <1>8, HeightsKeptByNode

\* Disconnect
LEMMA DisconnectKeepsHeights ==
    ASSUME ChannelInv, HeightsInv, NEW n \in Node, Disconnect(n)
    PROVE  HeightsKept
<1>. DEFINE e == <<>>
<1>1. disk' = disk /\ net' = [net EXCEPT ![n] = e]
  BY DEF Disconnect
<1>2. e \in Seq(Messages) /\ AllKnown(e, disk[Other(n)])
  BY KnownAlone
<1>. HIDE DEF e
<1>. QED  BY <1>1, <1>2, ReadKeepsHeights

\* Steps that leave the disks alone.
LEMMA SameHeights ==
    ASSUME disk' = disk
    PROVE  [Heights!Next]_(Heights!chainVars)
<1>1. UNCHANGED Heights!chainVars
  BY DEF Heights!chainVars, TipHeight
<1>. QED  BY <1>1

\* Reconnect
LEMMA ReconnectKeepsHeights ==
    ASSUME ChannelInv, HeightsInv, Reconnect
    PROVE  HeightsKept
<1>1. /\ disk' = disk
      /\ net' = net \/ net' = [n \in Node |-> <<ChanSyncMsg(disk[Other(n)])>>]
  BY DEF Reconnect
<1>2. \A n \in Node : AllKnown(<<ChanSyncMsg(disk[Other(n)])>>, disk[Other(n)])
  <2>1. \A d : ChanSyncMsg(d).type = "channel_reestablish"
    BY DEF ChanSyncMsg
  <2>2. \A d : Known(ChanSyncMsg(d), d)
    BY ONLY <2>1 DEF Known
  <2>. QED  BY ONLY <2>2, KnownAlone
<1>3. \A n \in Node : Window(disk[n], disk[Other(n)]) /\ AllKnown(net[n], disk[Other(n)])
  BY DEF HeightsInv
<1>4. \A n \in Node : AllKnown(net'[n], disk[Other(n)])
  BY ONLY <1>1, <1>2, <1>3
<1>5. HeightsInv'
  BY ONLY <1>1, <1>3, <1>4 DEF HeightsInv, Window, AllKnown, Known, TipHeight
<1>. QED  BY <1>1, <1>5, SameHeights DEF HeightsKept

\* One step per action.
LEMMA NextHeights ==
    ASSUME ChannelInv, HeightsInv, [Next]_vars
    PROVE  HeightsKept
<1>0. CASE UNCHANGED vars
  <2>1. disk' = disk /\ net' = net
    BY <1>0 DEF vars
  <2>2. HeightsInv'
    BY ONLY <2>1, HeightsInv DEF HeightsInv, Window, AllKnown, Known, TipHeight
  <2>. QED  BY <2>1, <2>2, SameHeights DEF HeightsKept
<1>. QED
  BY <1>0, AddKeepsHeights, ResolveKeepsHeights, FeeKeepsHeights, TickKeepsHeights, UpdateKeepsHeights, CommitSigKeepsHeights,
     RevocationKeepsHeights, SyncKeepsHeights, DisconnectKeepsHeights, ReconnectKeepsHeights DEF Next

\* Both nodes start at the same height.
LEMMA InitHeights == Init => HeightsInv /\ Heights!Init
<1>. SUFFICES ASSUME Init PROVE HeightsInv /\ Heights!Init
  OBVIOUS
<1>1. disk = [n \in Node |-> InitDisk(n)] /\ net = [n \in Node |-> <<>>]
  BY DEF Init
<1>2. \A n \in Node : InitDisk(n).local = InitCommit(n) /\ InitDisk(n).remote = InitCommit(n) /\ InitDisk(n).diff = NoDiff
                      /\ InitCommit(n).height = Past
  BY InitDiskFacts, InitCommitFacts
<1>3. \A n \in Node : disk[n].local.height = Past /\ disk[n].remote.height = Past /\ TipHeight(disk[n]) = Past
  BY <1>1, <1>2 DEF TipHeight
<1>4. \A n \in Node : Other(n) \in Node
  BY OtherNode
<1>5. \A n \in Node : AllKnown(net[n], disk[Other(n)])
  BY <1>1, KnownAlone
<1>6. Past \in Nat
  BY DEF Past
<1>7. HeightsInv
  BY ONLY <1>3, <1>4, <1>5, <1>6 DEF HeightsInv, Window
<1>8. Heights!Init
  <2>1. Heights!Node = Node
    BY DEF Heights!Node, Node
  <2>. QED  BY <1>3, <2>1 DEF Heights!Init
<1>. QED  BY <1>7, <1>8

\* Both invariants together.
LEMMA HeightsInvariant == Spec => [](ChannelInv /\ HeightsInv)
<1>1. Init => ChannelInv /\ HeightsInv
  BY InitChannel, InitHeights
<1>2. (ChannelInv /\ HeightsInv) /\ [Next]_vars => (ChannelInv /\ HeightsInv)'
  BY NextChannel, NextHeights DEF HeightsKept
<1>. QED  BY <1>1, <1>2, PTL DEF Spec

\* The channel implements CommitChains, step by step: a signature is only given
\* when the last one was answered, a commitment only given up for a signed one,
\* and only counted as revoked when the peer moved on, across every crash, lost
\* message and retransmission (SignNextCommitment, ReceiveNewCommitment,
\* RevokeCurrentCommitment, ReceiveRevocation, ProcessChanSyncMsg).
THEOREM ChannelImplementsCommitChains == Spec => ImplementsCommitChains
<1>1. Init => Heights!Init
  BY InitHeights
<1>2. (ChannelInv /\ HeightsInv) /\ [Next]_vars => [Heights!Next]_(Heights!chainVars)
  BY NextHeights DEF HeightsKept
<1>. QED  BY <1>1, <1>2, HeightsInvariant, PTL DEF Spec, ImplementsCommitChains, Heights!Spec
=============================================================================
