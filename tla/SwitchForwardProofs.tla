------------------------ MODULE SwitchForwardProofs ------------------------
(***************************************************************************)
(* Theorems about forwarding through the switch, for any packages of HTLCs *)
(* and any number of crashes, link restarts, expiries and failed writes.   *)
(* Two hypotheses on the behaviour exclude what the runs ReplayedAddRef    *)
(* and KeystoneGap show to happen: ReplaysInPlace, that a package is not   *)
(* replayed with an acknowledged Add before one that is not, and           *)
(* KeystonesContiguous, that the keystones to trim have no gap.            *)
(***************************************************************************)
EXTENDS SwitchForward, SumTheorems

\* HTLC indices, and functions from some of the keys K to R.
Index == Nat \ {0}

Maps(K, R) == UNION {[D -> R] : D \in SUBSET K}

-----------------------------------------------------------------------------
(* Maps, and more about subsequences.                                      *)

\* A map is a function on some of the keys.
LEMMA MapsFacts ==
    ASSUME NEW K, NEW R, NEW f
    PROVE  f \in Maps(K, R) <=> DOMAIN f \subseteq K /\ f \in [DOMAIN f -> R]
  BY DEF Maps

\* The empty map.
LEMMA EmptyMap ==
    ASSUME NEW K, NEW R
    PROVE  << >> \in Maps(K, R) /\ DOMAIN << >> = {}
<1>1. << >> \in [{} -> R] /\ {} \in SUBSET K
  OBVIOUS
<1>. QED  BY <1>1 DEF Maps

\* One map written over another.
LEMMA OverlayFacts ==
    ASSUME NEW f, NEW g
    PROVE  /\ DOMAIN Overlay(f, g) = DOMAIN f \cup DOMAIN g
           /\ \A x \in DOMAIN g : Overlay(f, g)[x] = g[x]
           /\ \A x \in DOMAIN f \ DOMAIN g : Overlay(f, g)[x] = f[x]
           /\ \A K, R : f \in Maps(K, R) /\ g \in Maps(K, R) => Overlay(f, g) \in Maps(K, R)
  BY MapsFacts DEF Overlay

\* A map cut down to some of its keys.
LEMMA RestrictFacts ==
    ASSUME NEW f, NEW S
    PROVE  /\ DOMAIN Restrict(f, S) = S /\ \A x \in S : Restrict(f, S)[x] = f[x]
           /\ DOMAIN Without(f, S) = DOMAIN f \ S
           /\ \A x \in DOMAIN f \ S : Without(f, S)[x] = f[x]
           /\ \A K, R : f \in Maps(K, R) /\ S \subseteq DOMAIN f => Restrict(f, S) \in Maps(K, R)
           /\ \A K, R : f \in Maps(K, R) => Without(f, S) \in Maps(K, R)
  BY MapsFacts DEF Restrict, Without

\* A map with one key, and one given by an expression.
LEMMA SingleFacts ==
    ASSUME NEW K, NEW R, NEW x \in K, NEW v \in R
    PROVE  [y \in {x} |-> v] \in Maps(K, R) /\ DOMAIN [y \in {x} |-> v] = {x}
  BY MapsFacts

\* Head and tail of a sequence that is not empty.
LEMMA HeadTail ==
    ASSUME NEW S, NEW s \in Seq(S), s # << >>
    PROVE  /\ Head(s) \in S /\ Tail(s) \in Seq(S) /\ Head(s) = s[1]
           /\ Len(s) \in Nat /\ Len(s) >= 1 /\ Len(Tail(s)) = Len(s) - 1
           /\ \A k \in 1..Len(s) - 1 : Tail(s)[k] = s[k + 1]
  OBVIOUS

\* The empty sequence is the one of length zero.
LEMMA EmptySeq ==
    ASSUME NEW S, NEW s \in Seq(S), Len(s) = 0
    PROVE  s = << >>
  OBVIOUS

\* Nothing is in it.
LEMMA EmptyLen == Len(<< >>) = 0 /\ DOMAIN << >> = {}
  OBVIOUS

\* Appending to a sequence.
LEMMA AppendFacts ==
    ASSUME NEW S, NEW s \in Seq(S), NEW x \in S
    PROVE  /\ Append(s, x) \in Seq(S) /\ Len(Append(s, x)) = Len(s) + 1
           /\ \A k \in 1..Len(s) : Append(s, x)[k] = s[k]
           /\ Append(s, x)[Len(s) + 1] = x /\ Len(s) \in Nat
  OBVIOUS

\* Two sequences one after the other.
LEMMA ConcatFacts ==
    ASSUME NEW S, NEW s \in Seq(S), NEW t \in Seq(S)
    PROVE  /\ s \o t \in Seq(S) /\ Len(s \o t) = Len(s) + Len(t)
           /\ \A k \in 1..Len(s) : (s \o t)[k] = s[k]
           /\ \A k \in 1..Len(t) : (s \o t)[Len(s) + k] = t[k]
           /\ Len(s) \in Nat /\ Len(t) \in Nat
  OBVIOUS

\* A sequence is a function on an interval.
LEMMA SeqFacts ==
    ASSUME NEW S, NEW s
    PROVE  s \in Seq(S) <=> \E n \in Nat : s \in [1..n -> S]
  OBVIOUS

\* A finite set of numbers has a largest one, which Max returns.
LEMMA MaxIsLargest ==
    ASSUME NEW S, S \subseteq Nat, IsFiniteSet(S), S # {}
    PROVE  Max(S) \in S /\ \A k \in S : k <= Max(S)
<1>. DEFINE Bad == {T \in SUBSET S : T # {} /\ ~ \E m \in T : \A k \in T : k <= m}
<1>1. Bad = {}
  <2>. SUFFICES ASSUME Bad # {} PROVE FALSE
    OBVIOUS
  <2>1. Bad \subseteq SUBSET S
    OBVIOUS
  <2>2. PICK T \in Bad : \A y \in Bad : y \subseteq T => y = T
    <3>. HIDE DEF Bad
    <3>1. \E m \in Bad : \A y \in Bad : y \subseteq m => y = m
      BY ONLY IsFiniteSet(S), Bad # {}, <2>1, SmallestSubset
    <3>. QED  BY <3>1
  <2>3. PICK x \in T : TRUE
    OBVIOUS
  <2>4. T \ {x} \notin Bad
    BY <2>2, <2>3
  <2>5. CASE T \ {x} = {}
    BY <2>2, <2>3, <2>5
  <2>6. CASE T \ {x} # {}
    <3>1. PICK m \in T \ {x} : \A k \in T \ {x} : k <= m
      BY <2>4, <2>6
    <3>2. m \in Nat /\ x \in Nat /\ T \subseteq Nat
      BY <2>3
    <3>3. CASE x <= m
      BY <3>1, <3>2, <3>3, <2>2
    <3>4. CASE m <= x
      BY <3>1, <3>2, <3>4, <2>2, <2>3
    <3>. QED  BY <3>2, <3>3, <3>4
  <2>. QED  BY <2>5, <2>6
<1>2. \E m \in S : \A k \in S : k <= m
  BY <1>1
<1>. QED  BY <1>2 DEF Max

\* A subsequence that starts with the first m elements.
LEMMA PrefixPlaces ==
    ASSUME NEW n \in Nat, NEW I \in SUBSET (1..n), NEW m \in 0..n, 1..m \subseteq I
    PROVE  \A i \in 1..m : Rank(I, i) = i /\ PlaceAt(I, i) = i
<1>. SUFFICES ASSUME NEW i \in 1..m PROVE Rank(I, i) = i /\ PlaceAt(I, i) = i
  OBVIOUS
<1>1. i \in Nat /\ i \in I /\ I \subseteq Nat
  OBVIOUS
<1>2. {j \in I : j <= i} = 1..i
  <2>1. ASSUME NEW j \in I, j <= i PROVE j \in 1..i
    BY <2>1
  <2>2. ASSUME NEW j \in 1..i PROVE j \in I /\ j <= i
    <3>1. j \in 1..m
      OBVIOUS
    <3>. QED  BY <3>1
  <2>. QED  BY <2>1, <2>2
<1>3. Cardinality(1..i) = i
  BY <1>1, FS_Interval
<1>4. Rank(I, i) = i
  BY <1>2, <1>3, Zenon DEF Rank
<1>. QED  BY <1>1, <1>4, PlaceFacts

-----------------------------------------------------------------------------
(* The forwarding packages.                                                *)

AddRefs == [pkg : DOMAIN Packages, idx : Index]

\* The place of an HTLC in the forwarding packages.
RefOf(h) ==
    CHOOSE r \in AddRefs : r.idx \in DOMAIN Packages[r.pkg] /\ Packages[r.pkg][r.idx] = h

\* Packages are sequences, and an HTLC has one place in them.
LEMMA PackageFacts ==
    /\ \A p \in DOMAIN Packages :
          /\ Packages[p] \in Seq(HTLCs) /\ Len(Packages[p]) \in Nat
          /\ DOMAIN Packages[p] = 1..Len(Packages[p])
          /\ \A i \in DOMAIN Packages[p] :
                /\ Packages[p][i] \in HTLCs
                /\ RefOf(Packages[p][i]) = [pkg |-> p, idx |-> i]
    /\ \A h \in HTLCs :
          /\ RefOf(h) \in AddRefs /\ RefOf(h).idx \in DOMAIN Packages[RefOf(h).pkg]
          /\ Packages[RefOf(h).pkg][RefOf(h).idx] = h
    /\ HTLCs \subseteq Nat /\ DOMAIN Packages = 1..Len(Packages) /\ Len(Packages) \in Nat
<1>1. /\ Len(Packages) \in Nat /\ DOMAIN Packages = 1..Len(Packages)
      /\ \A p \in DOMAIN Packages : Packages[p] \in Seq(Nat)
  BY PackagesAssumption
<1>2. \A p \in DOMAIN Packages :
          Len(Packages[p]) \in Nat /\ DOMAIN Packages[p] = 1..Len(Packages[p])
  BY <1>1
<1>3. \A h : h \in HTLCs <=> \E p \in DOMAIN Packages : \E i \in DOMAIN Packages[p] :
          Packages[p][i] = h
  BY DEF HTLCs, Range
<1>4. HTLCs \subseteq Nat
  BY <1>1, <1>3
<1>5. ASSUME NEW p \in DOMAIN Packages
      PROVE  Packages[p] \in Seq(HTLCs)
  <2>1. \A i \in 1..Len(Packages[p]) : Packages[p][i] \in HTLCs
    BY <1>2, <1>3
  <2>. QED  BY <1>1, <2>1
<1>6. ASSUME NEW p \in DOMAIN Packages, NEW i \in DOMAIN Packages[p]
      PROVE  RefOf(Packages[p][i]) = [pkg |-> p, idx |-> i]
  <2>. DEFINE r == [pkg |-> p, idx |-> i]
              h == Packages[p][i]
  <2>1. r \in AddRefs /\ r.idx \in DOMAIN Packages[r.pkg] /\ Packages[r.pkg][r.idx] = h
    BY <1>2 DEF AddRefs, Index
  <2>2. ASSUME NEW x \in AddRefs, x.idx \in DOMAIN Packages[x.pkg], Packages[x.pkg][x.idx] = h
        PROVE  x = r
    <3>1. x.pkg = p /\ x.idx = i /\ x = [pkg |-> x.pkg, idx |-> x.idx] /\ x.pkg \in DOMAIN Packages
      BY <2>2, PackagesAssumption DEF AddRefs
    <3>. QED  BY <3>1
  <2>. HIDE DEF r, h
  <2>3. RefOf(h) = r
    BY <2>1, <2>2 DEF RefOf
  <2>. QED  BY <2>3 DEF r, h
<1>7. ASSUME NEW h \in HTLCs
      PROVE  /\ RefOf(h) \in AddRefs /\ RefOf(h).idx \in DOMAIN Packages[RefOf(h).pkg]
             /\ Packages[RefOf(h).pkg][RefOf(h).idx] = h
  <2>1. PICK p \in DOMAIN Packages : \E i \in DOMAIN Packages[p] : Packages[p][i] = h
    BY <1>3
  <2>2. PICK i \in DOMAIN Packages[p] : Packages[p][i] = h
    BY <2>1
  <2>3. RefOf(h) = [pkg |-> p, idx |-> i]
    BY <2>2, <1>6
  <2>. QED  BY <2>2, <2>3, <1>2 DEF AddRefs, Index
<1>. QED  BY <1>1, <1>2, <1>3, <1>4, <1>5, <1>6, <1>7

-----------------------------------------------------------------------------
(* The types of the state.                                                 *)

Fates == {"none", "live", "settled", "failed"}
OutStates == {"live", "claimed", "settled", "failed"}

Adds == [h : HTLCs, ref : AddRefs]
FailAdds == [type : {"failAdd"}, h : HTLCs, ref : AddRefs]
Responses == [type : {"settled", "failed"}, out : Index, dest : BOOLEAN]
Circuits == [out : Nat, disk : BOOLEAN, ref : AddRefs]
Replies == [fate : {"settled", "failed"}, ref : AddRefs, dest : Nat]
LogReplies == [fate : {"settled", "failed"}, ref : AddRefs, dest : Nat, circuit : BOOLEAN]

PkgTypes == [state : {"none", "LockedIn", "Processed"}, fwd : SUBSET Index, ack : SUBSET Index]
InChTypes ==
    [fate : [HTLCs -> Fates], diff : [open : BOOLEAN, circuits : SUBSET HTLCs],
     pkgs : [DOMAIN Packages -> PkgTypes]]
OutHtlcs == [h : HTLCs, fate : OutStates]
OutChTypes == [htlcs : Seq(OutHtlcs), window : BOOLEAN, acked : SUBSET Index]
CircuitMaps ==
    {c \in [adds : Maps(HTLCs, AddRefs), keys : Maps(Index, HTLCs),
            pending : Maps(HTLCs, Circuits), opened : Maps(Index, HTLCs),
            closed : SUBSET HTLCs] : IsFiniteSet(DOMAIN c.keys)}
Switches ==
    [icpt : Seq(Adds), route : Seq(Adds), plex : SUBSET (Responses \cup FailAdds),
     pendingSettleFails : SUBSET Index]
OutBoxes == {box \in [pkts : Seq(Adds), head : Index] : box.head <= Len(box.pkts) + 1}
InLinks ==
    [up : BOOLEAN, todo : Seq(DOMAIN Packages), paused : BOOLEAN,
     log : Maps(HTLCs, LogReplies), acking : BOOLEAN, closing : SUBSET HTLCs]
OutLinks ==
    {l \in [up : BOOLEAN, log : Seq(HTLCs), batch : Maps(Index, HTLCs), signing : BOOLEAN] :
        IsFiniteSet(DOMAIN l.batch)}

Typed ==
    /\ inCh \in InChTypes /\ outCh \in OutChTypes
    /\ cm \in CircuitMaps /\ sw \in Switches
    /\ inBox \in Maps(HTLCs, Replies) /\ outBox \in OutBoxes
    /\ inLink \in InLinks /\ outLink \in OutLinks

-----------------------------------------------------------------------------
(* The inductive invariant.                                                *)

\* Where HTLCs are on their way out of the node, and which ones were sent.
Named(s) == {s[k].h : k \in DOMAIN s}
OnWay == Named(sw.route) \cup Named(outBox.pkts)
Committed == Named(outCh.htlcs)
Failing == {pkt.h : pkt \in sw.plex \cap FailAdds}

\* References name the Add they go with.
RefsOK ==
    /\ \A k \in DOMAIN sw.icpt : sw.icpt[k].ref = RefOf(sw.icpt[k].h)
    /\ \A k \in DOMAIN sw.route : sw.route[k].ref = RefOf(sw.route[k].h)
    /\ \A k \in DOMAIN outBox.pkts : outBox.pkts[k].ref = RefOf(outBox.pkts[k].h)
    /\ \A pkt \in sw.plex \cap FailAdds : pkt.ref = RefOf(pkt.h)

\* The link has taken the Adds before the mailbox's head, in order, and each once.
OutLinkOK ==
    /\ \A j, k \in DOMAIN outBox.pkts : outBox.pkts[j].h = outBox.pkts[k].h => j = k
    /\ Len(outLink.log) = outBox.head - 1
    /\ \A k \in DOMAIN outLink.log : outLink.log[k] = outBox.pkts[k].h
    /\ ~outLink.up => outLink = DownOutLink
    /\ outLink.signing => DOMAIN outLink.batch = {}

\* While the link is up, what it opened or will open above the channel is its log.
Numbered(f) ==
    \A i \in DOMAIN f : i >= NextOutIndex =>
        i < NextOutIndex + Len(outLink.log) /\ f[i] = outLink.log[i - NextOutIndex + 1]

\* Keystones follow each other: opened ones first, then those still to be opened.
KeysOK ==
    /\ \A i \in DOMAIN outLink.batch : i >= NextOutIndex
    /\ \A i \in DOMAIN cm.opened, j \in DOMAIN outLink.batch : i < j
    /\ outLink.up =>
          /\ Numbered(cm.opened) /\ Numbered(outLink.batch)
          /\ \A i \in NextOutIndex..NextOutIndex + Len(outLink.log) - 1 :
                i \in DOMAIN cm.opened \cup DOMAIN outLink.batch

\* Memory and disk hold the same circuits and keystones, and no keystone twice.
CircuitsOK ==
    /\ DOMAIN cm.adds = DOMAIN cm.pending /\ DOMAIN cm.keys = DOMAIN cm.opened
    /\ \A i \in DOMAIN cm.opened : cm.keys[i] = cm.opened[i]
    /\ DOMAIN cm.pending \cap Invalid = {}
    /\ \A h \in DOMAIN cm.pending : cm.adds[h] = RefOf(h) /\ cm.pending[h].ref = RefOf(h)
    /\ \A i \in DOMAIN cm.opened :
          cm.opened[i] \in DOMAIN cm.pending /\ cm.pending[cm.opened[i]].out = i
    /\ \A h \in DOMAIN cm.pending :
          cm.pending[h].out # 0 =>
              cm.pending[h].out \in DOMAIN cm.opened /\ cm.opened[cm.pending[h].out] = h

\* An HTLC is sent once, and keeps its circuit, at its index, until it is answered.
SentOK ==
    /\ \A i, j \in DOMAIN outCh.htlcs : outCh.htlcs[i].h = outCh.htlcs[j].h => i = j
    /\ \A i \in DOMAIN outCh.htlcs :
          /\ outCh.htlcs[i].h \in DOMAIN cm.pending => cm.pending[outCh.htlcs[i].h].out = i
          /\ inCh.fate[outCh.htlcs[i].h] = "live" => outCh.htlcs[i].h \in DOMAIN cm.pending
          /\ inCh.fate[outCh.htlcs[i].h] # "none"
          /\ i \in DOMAIN cm.opened => cm.opened[i] = outCh.htlcs[i].h

\* An Add is in one place: on its way out, being failed back, or sent.
PlaceOK ==
    /\ sw.icpt = << >> \/ sw.route = << >>
    /\ \A j, k \in DOMAIN sw.icpt : sw.icpt[j].h = sw.icpt[k].h => j = k
    /\ \A j, k \in DOMAIN sw.route : sw.route[j].h = sw.route[k].h => j = k
    /\ Named(sw.route) \cap Named(outBox.pkts) = {}
    /\ \A h \in OnWay :
          /\ inCh.fate[h] = "live" /\ h \in DOMAIN cm.pending /\ ~cm.pending[h].disk
          /\ h \notin DOMAIN inBox /\ h \notin Failing
          /\ h \notin Committed
    /\ \A h \in Failing :
          /\ h \notin Committed /\ inCh.fate[h] # "none"
          /\ inCh.fate[h] = "live" => h \in DOMAIN cm.pending

\* The forwarding package of an HTLC.
PkgOf(h) == inCh.pkgs[RefOf(h).pkg]

\* An Add handed to the switch is live; one with a circuit comes from a replay.
IcptOK ==
    \A h \in Named(sw.icpt) :
        /\ inCh.fate[h] = "live" /\ h \notin Invalid /\ h \notin DOMAIN inLink.log
        /\ PkgOf(h).state = "Processed"
        /\ h \notin DOMAIN cm.pending => h \notin DOMAIN inBox
        /\ \/ h \notin DOMAIN cm.pending
           \/ inLink.up => inLink.paused \/ RefOf(h).pkg \in Range(inLink.todo)

\* Packages acknowledge exactly what is answered; what is left to process is known.
PkgsOK ==
    /\ \A p \in DOMAIN Packages : inCh.pkgs[p].ack \subseteq DOMAIN Packages[p]
    /\ \A p \in Range(inLink.todo) : inCh.pkgs[p].state # "none"
    /\ \A h \in HTLCs :
          /\ inCh.fate[h] = "none" <=> PkgOf(h).state = "none"
          /\ RefOf(h).idx \in PkgOf(h).ack <=> Answered(h)
          /\ PkgOf(h).state # "Processed" =>
                /\ h \notin DOMAIN cm.pending /\ h \notin DOMAIN inBox
                /\ h \notin DOMAIN inLink.log /\ ~Answered(h)
          /\ Answered(h) =>
                \A g \in Invalid : RefOf(g).pkg = RefOf(h).pkg => Answered(g)
          /\ inLink.up /\ RefOf(h).pkg \notin Range(inLink.todo) /\ PkgOf(h).state # "none" =>
                /\ PkgOf(h).state = "Processed"
                /\ h \in Invalid => h \in DOMAIN inLink.log \/ Answered(h)

\* Only the commitment that may be sent again holds circuits of answered HTLCs.
InLinkOK ==
    /\ ~inLink.up => inLink = DownInLink
    /\ inLink.closing = IF inLink.acking THEN inCh.diff.circuits ELSE {}
    /\ inLink.acking => DOMAIN inLink.log = {} /\ inLink.todo = << >>
    /\ ~inCh.diff.open => inCh.diff.circuits = {}
    /\ \A h \in inCh.diff.circuits : Answered(h)
    /\ \A h \in DOMAIN cm.pending :
          /\ inCh.fate[h] # "none"
          /\ Answered(h) => h \in inCh.diff.circuits /\ (inLink.up => inLink.acking)

\* HTLC h can no longer be sent.
Dead(h) == h \notin OnWay /\ h \notin Committed

\* What a reply to h says is what became of h downstream.
Backed(h, r) ==
    /\ r.ref = RefOf(h)
    /\ \/ r.fate = "failed" /\ Dead(h)
       \/ \E i \in DOMAIN outCh.htlcs :
            /\ outCh.htlcs[i].h = h
            /\ IF r.fate = "failed" THEN outCh.htlcs[i].fate = "failed"
                                    ELSE outCh.htlcs[i].fate \in {"claimed", "settled"}
    /\ r.dest # 0 =>
          /\ r.dest \in DOMAIN outCh.htlcs
          /\ outCh.htlcs[r.dest].h = h

\* Replies in the mailbox and in the link's log say what became of their HTLCs.
RepliesOK ==
    /\ \A h \in DOMAIN inBox : Backed(h, inBox[h]) /\ inCh.fate[h] # "none"
    /\ \A h \in DOMAIN inLink.log :
          /\ Backed(h, inLink.log[h]) /\ inCh.fate[h] = "live"
          /\ h \in Invalid <=> ~inLink.log[h].circuit
          /\ inLink.log[h].circuit => h \in DOMAIN inBox

\* Responses say what the peer did; acknowledged ones belong to answered HTLCs.
ResponsesOK ==
    /\ \A pkt \in sw.plex \cap Responses :
          /\ pkt.out \in DOMAIN outCh.htlcs
          /\ IF pkt.type = "failed" THEN outCh.htlcs[pkt.out].fate = "failed"
             ELSE outCh.htlcs[pkt.out].fate \in {"claimed", "settled"}
    /\ \A i \in sw.pendingSettleFails \cup outCh.acked :
          i \in DOMAIN outCh.htlcs /\ Answered(outCh.htlcs[i].h)

\* The inductive invariant.
IInv ==
    /\ Typed /\ RefsOK /\ OutLinkOK /\ KeysOK /\ CircuitsOK /\ SentOK /\ PlaceOK /\ IcptOK
    /\ PkgsOK /\ InLinkOK /\ RepliesOK /\ ResponsesOK

-----------------------------------------------------------------------------
(* Type correctness.                                                       *)

\* The links before they start.
LEMMA DownLinksTyped ==
    /\ DownInLink \in InLinks /\ [DownInLink EXCEPT !.up = TRUE] \in InLinks
    /\ DownOutLink \in OutLinks /\ [DownOutLink EXCEPT !.up = TRUE] \in OutLinks
<1>1. << >> \in Maps(HTLCs, LogReplies) /\ << >> \in Maps(Index, HTLCs)
  BY EmptyMap
<1>2. << >> \in Seq(DOMAIN Packages) /\ << >> \in Seq(HTLCs)
  OBVIOUS
<1>3. IsFiniteSet(DOMAIN << >>)
  BY FS_EmptySet
<1>. QED  BY <1>1, <1>2, <1>3 DEF DownInLink, DownOutLink, InLinks, OutLinks

\* The types hold initially.
LEMMA TypedInit == Init => Typed
<1>. SUFFICES ASSUME Init PROVE Typed
  OBVIOUS
<1>1. inCh \in InChTypes
  BY DEF Init, InitInCh, InChTypes, PkgTypes, Fates
<1>2. outCh \in OutChTypes
  BY DEF Init, OutChTypes
<1>3. cm \in CircuitMaps
  BY EmptyMap, FS_EmptySet DEF Init, EmptyCircuits, CircuitMaps
<1>4. sw \in Switches
  BY DEF Init, InitSwitch, Switches
<1>5. inBox \in Maps(HTLCs, Replies)
  BY EmptyMap DEF Init
<1>6. outBox \in OutBoxes
  BY DEF Init, EmptyOutBox, OutBoxes, Index
<1>7. inLink \in InLinks
  BY DownLinksTyped DEF Init
<1>8. outLink \in OutLinks
  BY DownLinksTyped DEF Init
<1>. QED  BY <1>1, <1>2, <1>3, <1>4, <1>5, <1>6, <1>7, <1>8 DEF Typed

\* Mailboxes stay typed.
LEMMA DeliverReplyFacts ==
    ASSUME NEW box \in Maps(HTLCs, Replies), NEW h \in HTLCs, NEW r \in Replies
    PROVE  /\ DeliverReply(box, h, r) \in Maps(HTLCs, Replies)
           /\ DOMAIN DeliverReply(box, h, r) = DOMAIN box \cup {h}
           /\ \A x \in DOMAIN box : DeliverReply(box, h, r)[x] = box[x]
           /\ h \notin DOMAIN box => DeliverReply(box, h, r)[h] = r
<1>. DEFINE g == [x \in {h} |-> r]
<1>1. g \in Maps(HTLCs, Replies) /\ DOMAIN g = {h} /\ g[h] = r
  BY SingleFacts
<1>. HIDE DEF g
<1>2. CASE h \in DOMAIN box
  BY <1>2 DEF DeliverReply
<1>3. CASE h \notin DOMAIN box
  <2>1. DeliverReply(box, h, r) = Overlay(box, g)
    BY <1>3 DEF DeliverReply, g
  <2>2. /\ Overlay(box, g) \in Maps(HTLCs, Replies)
        /\ DOMAIN Overlay(box, g) = DOMAIN box \cup DOMAIN g
        /\ \A x \in DOMAIN g : Overlay(box, g)[x] = g[x]
        /\ \A x \in DOMAIN box \ DOMAIN g : Overlay(box, g)[x] = box[x]
    <3>1. g \in Maps(HTLCs, Replies)
      BY <1>1
    <3>. QED  BY <3>1, OverlayFacts
  <2>. QED  BY <2>1, <2>2, <1>1, <1>3
<1>. QED  BY <1>2, <1>3

\* Failures handed straight to the incoming mailbox.
LEMMA FailAddFacts ==
    ASSUME NEW box \in Maps(HTLCs, Replies), NEW refs \in Maps(HTLCs, AddRefs)
    PROVE  /\ FailAddPackets(box, refs) \in Maps(HTLCs, Replies)
           /\ DOMAIN FailAddPackets(box, refs) = DOMAIN box \cup DOMAIN refs
           /\ \A x \in DOMAIN box : FailAddPackets(box, refs)[x] = box[x]
           /\ \A x \in DOMAIN refs \ DOMAIN box :
                 FailAddPackets(box, refs)[x] = [fate |-> "failed", ref |-> refs[x], dest |-> 0]
<1>. DEFINE g == [h \in DOMAIN refs |-> [fate |-> "failed", ref |-> refs[h], dest |-> 0]]
<1>1. g \in Maps(HTLCs, Replies)
  <2>1. refs \in [DOMAIN refs -> AddRefs] /\ DOMAIN refs \subseteq HTLCs
    BY MapsFacts
  <2>2. \A h \in DOMAIN refs : [fate |-> "failed", ref |-> refs[h], dest |-> 0] \in Replies
    BY <2>1 DEF Replies
  <2>. QED  BY <2>1, <2>2, MapsFacts
<1>2. /\ DOMAIN g = DOMAIN refs
      /\ \A x \in DOMAIN refs : g[x] = [fate |-> "failed", ref |-> refs[x], dest |-> 0]
  OBVIOUS
<1>3. FailAddPackets(box, refs) = Overlay(g, box)
  BY DEF FailAddPackets
<1>. HIDE DEF g
<1>4. /\ Overlay(g, box) \in Maps(HTLCs, Replies)
      /\ DOMAIN Overlay(g, box) = DOMAIN g \cup DOMAIN box
      /\ \A h \in DOMAIN box : Overlay(g, box)[h] = box[h]
      /\ \A h \in DOMAIN g \ DOMAIN box : Overlay(g, box)[h] = g[h]
  BY <1>1, OverlayFacts, Zenon
<1>. QED  BY <1>2, <1>3, <1>4

\* Acknowledged Adds leave the mailbox, and the head stays on its packet.
LEMMA AckPacketsFacts ==
    ASSUME NEW box \in OutBoxes, NEW hs
    PROVE  LET I == Kept(box, hs)
               b == AckPackets(box, hs) IN
           /\ b \in OutBoxes /\ I \in SUBSET (DOMAIN box.pkts)
           /\ b.pkts = SubsequenceAt(box.pkts, I)
           /\ b.head = 1 + Cardinality({i \in I : i < box.head})
<1>. DEFINE I == Kept(box, hs)
            L == {i \in I : i < box.head}
            b == AckPackets(box, hs)
<1>1. box.pkts \in Seq(Adds) /\ I \in SUBSET (DOMAIN box.pkts) /\ L \subseteq I
  BY DEF OutBoxes, Kept
<1>2. b = [pkts |-> SubsequenceAt(box.pkts, I), head |-> 1 + Cardinality(L)]
  BY DEF AckPackets
<1>. HIDE DEF I, L, b
<1>3. /\ IsFiniteSet(I) /\ SubsequenceAt(box.pkts, I) \in Seq(Adds)
      /\ Len(SubsequenceAt(box.pkts, I)) = Cardinality(I) /\ Cardinality(I) \in Nat
  BY <1>1, SubsequenceFacts
<1>4. Cardinality(L) \in Nat /\ Cardinality(L) <= Cardinality(I)
  BY <1>1, <1>3, FS_Subset, FS_CardinalityType
<1>5. b \in OutBoxes
  BY <1>2, <1>3, <1>4 DEF OutBoxes, Index
<1>. QED  BY <1>1, <1>2, <1>5 DEF I, L, b

\* The reference of every unacknowledged Add of a package.
LEMMA SourceRefsFacts ==
    ASSUME Typed, NEW p \in DOMAIN Packages
    PROVE  LET I == {i \in DOMAIN Packages[p] :
                       ~(inCh.pkgs[p].state = "Processed" /\ i \in inCh.pkgs[p].ack)} IN
           /\ UnackedAdds(p) = SubsequenceAt(Packages[p], I) /\ UnackedAdds(p) \in Seq(HTLCs)
           /\ SourceRefs(p) \in Maps(HTLCs, AddRefs)
           /\ DOMAIN SourceRefs(p) = Range(UnackedAdds(p))
           /\ \A h \in DOMAIN SourceRefs(p) :
                 /\ SourceRefs(p)[h].pkg = p
                 /\ SourceRefs(p)[h].idx \in DOMAIN UnackedAdds(p)
                 /\ UnackedAdds(p)[SourceRefs(p)[h].idx] = h
<1>. DEFINE I == {i \in DOMAIN Packages[p] :
                       ~(inCh.pkgs[p].state = "Processed" /\ i \in inCh.pkgs[p].ack)}
            u == UnackedAdds(p)
            At(h) == CHOOSE k \in DOMAIN u : u[k] = h
<1>1. u = SubsequenceAt(Packages[p], I)
  BY DEF UnackedAdds
<1>2. I \in SUBSET DOMAIN Packages[p] /\ Packages[p] \in Seq(HTLCs)
  BY PackageFacts
<1>3. SourceRefs(p) = [h \in Range(u) |-> [pkg |-> p, idx |-> At(h)]]
  BY DEF SourceRefs
<1>. HIDE DEF I, u
<1>4. u \in Seq(HTLCs)
  BY <1>1, <1>2, SubsequenceFacts
<1>5. ASSUME NEW h \in Range(u) PROVE h \in HTLCs /\ At(h) \in DOMAIN u /\ u[At(h)] = h
  <2>1. \E k \in DOMAIN u : u[k] = h
    BY DEF Range
  <2>2. At(h) \in DOMAIN u /\ u[At(h)] = h
    BY <2>1
  <2>. QED  BY <2>2, <1>4
<1>6. ASSUME NEW h \in Range(u) PROVE [pkg |-> p, idx |-> At(h)] \in AddRefs
  BY <1>4, <1>5 DEF AddRefs, Index
<1>. HIDE DEF At
<1>7. SourceRefs(p) \in Maps(HTLCs, AddRefs)
  <2>1. Range(u) \subseteq HTLCs
    BY <1>5
  <2>. QED  BY <1>3, <1>6, <2>1, MapsFacts
<1>. QED  BY <1>1, <1>3, <1>4, <1>5, <1>7 DEF I, u

\* The references of the batch that the interceptable switch holds.
IcptRefs ==
    [h \in {pkt.h : pkt \in Range(sw.icpt)} |-> (CHOOSE pkt \in Range(sw.icpt) : pkt.h = h).ref]

\* They are references of its packets.
LEMMA IcptRefsFacts ==
    ASSUME Typed
    PROVE  /\ IcptRefs \in Maps(HTLCs, AddRefs)
           /\ \A h \in DOMAIN IcptRefs :
                 \E k \in DOMAIN sw.icpt : sw.icpt[k].h = h /\ IcptRefs[h] = sw.icpt[k].ref
           /\ \A k \in DOMAIN sw.icpt : sw.icpt[k].h \in DOMAIN IcptRefs
<1>1. sw.icpt \in Seq(Adds)
  BY DEF Typed, Switches
<1>2. \A pkt \in Range(sw.icpt) : \E k \in DOMAIN sw.icpt : sw.icpt[k] = pkt
  BY DEF Range
<1>3. \A k \in DOMAIN sw.icpt : sw.icpt[k] \in Range(sw.icpt) /\ sw.icpt[k] \in Adds
  BY <1>1 DEF Range
<1>. DEFINE D == {pkt.h : pkt \in Range(sw.icpt)}
            P(h) == CHOOSE pkt \in Range(sw.icpt) : pkt.h = h
<1>4. ASSUME NEW h \in D PROVE P(h) \in Range(sw.icpt) /\ P(h).h = h
  OBVIOUS
<1>5. IcptRefs = [h \in D |-> P(h).ref]
  BY DEF IcptRefs
<1>6. \A k \in DOMAIN sw.icpt : sw.icpt[k].h \in D
  BY <1>3
<1>. HIDE DEF D, P
<1>7. ASSUME NEW h \in D
      PROVE  h \in HTLCs /\ P(h).ref \in AddRefs
             /\ \E k \in DOMAIN sw.icpt : sw.icpt[k].h = h /\ P(h).ref = sw.icpt[k].ref
  <2>1. PICK k \in DOMAIN sw.icpt : sw.icpt[k] = P(h)
    BY <1>2, <1>4
  <2>. QED  BY <2>1, <1>3, <1>4 DEF Adds
<1>8. D \subseteq HTLCs
  BY <1>7
<1>. QED  BY <1>5, <1>6, <1>7, <1>8, MapsFacts

-----------------------------------------------------------------------------
(* What the operations of the circuit map do.                              *)

\* CommitCircuits adds the circuits that are not known.
LEMMA CommitFacts ==
    ASSUME NEW c \in CircuitMaps, NEW refs \in Maps(HTLCs, AddRefs)
    PROVE  LET d == CommitCircuits(c, refs)
               new == DOMAIN refs \ DOMAIN c.pending IN
           /\ d \in CircuitMaps /\ CircuitAdds(c, refs) = new
           /\ d.keys = c.keys /\ d.opened = c.opened /\ d.closed = c.closed
           /\ DOMAIN d.adds = DOMAIN c.adds \cup new
           /\ DOMAIN d.pending = DOMAIN c.pending \cup new
           /\ \A h \in new :
                 /\ d.adds[h] = refs[h]
                 /\ d.pending[h] = [out |-> 0, disk |-> FALSE, ref |-> refs[h]]
           /\ \A h \in DOMAIN c.adds \ new : d.adds[h] = c.adds[h]
           /\ \A h \in DOMAIN c.pending : d.pending[h] = c.pending[h]
<1>. DEFINE d == CommitCircuits(c, refs)
            new == DOMAIN refs \ DOMAIN c.pending
            a == Restrict(refs, new)
            n == [h \in new |-> [out |-> 0, disk |-> FALSE, ref |-> refs[h]]]
<1>1. CircuitAdds(c, refs) = new
  BY DEF CircuitAdds, LookupCircuit
<1>2. c.adds \in Maps(HTLCs, AddRefs) /\ c.pending \in Maps(HTLCs, Circuits)
  BY DEF CircuitMaps
<1>3. a \in Maps(HTLCs, AddRefs) /\ DOMAIN a = new /\ \A h \in new : a[h] = refs[h]
  BY RestrictFacts
<1>4. n \in Maps(HTLCs, Circuits)
  <2>1. refs \in [DOMAIN refs -> AddRefs] /\ DOMAIN refs \subseteq HTLCs
    BY MapsFacts
  <2>2. \A h \in new : [out |-> 0, disk |-> FALSE, ref |-> refs[h]] \in Circuits
    BY <2>1 DEF Circuits
  <2>. QED  BY <2>1, <2>2, MapsFacts
<1>5. DOMAIN n = new /\ \A h \in new : n[h] = [out |-> 0, disk |-> FALSE, ref |-> refs[h]]
  OBVIOUS
<1>6. d = [c EXCEPT !.adds = Overlay(c.adds, a), !.pending = Overlay(c.pending, n)]
  BY <1>1 DEF CommitCircuits
<1>. HIDE DEF a, n
<1>7. /\ Overlay(c.adds, a) \in Maps(HTLCs, AddRefs)
      /\ DOMAIN Overlay(c.adds, a) = DOMAIN c.adds \cup new
      /\ \A h \in new : Overlay(c.adds, a)[h] = refs[h]
      /\ \A h \in DOMAIN c.adds \ new : Overlay(c.adds, a)[h] = c.adds[h]
  <2>1. /\ Overlay(c.adds, a) \in Maps(HTLCs, AddRefs)
        /\ DOMAIN Overlay(c.adds, a) = DOMAIN c.adds \cup DOMAIN a
        /\ \A h \in DOMAIN a : Overlay(c.adds, a)[h] = a[h]
        /\ \A h \in DOMAIN c.adds \ DOMAIN a : Overlay(c.adds, a)[h] = c.adds[h]
    <3>1. a \in Maps(HTLCs, AddRefs)
      BY <1>3
    <3>. QED  BY <3>1, <1>2, OverlayFacts, Zenon
  <2>. HIDE DEF new
  <2>. QED  BY <2>1, <1>3
<1>8. /\ Overlay(c.pending, n) \in Maps(HTLCs, Circuits)
      /\ DOMAIN Overlay(c.pending, n) = DOMAIN c.pending \cup new
      /\ \A h \in new : Overlay(c.pending, n)[h] = [out |-> 0, disk |-> FALSE, ref |-> refs[h]]
      /\ \A h \in DOMAIN c.pending \ new : Overlay(c.pending, n)[h] = c.pending[h]
  <2>1. /\ Overlay(c.pending, n) \in Maps(HTLCs, Circuits)
        /\ DOMAIN Overlay(c.pending, n) = DOMAIN c.pending \cup DOMAIN n
        /\ \A h \in DOMAIN n : Overlay(c.pending, n)[h] = n[h]
        /\ \A h \in DOMAIN c.pending \ DOMAIN n : Overlay(c.pending, n)[h] = c.pending[h]
    BY <1>2, <1>4, OverlayFacts, Zenon
  <2>. HIDE DEF new
  <2>. QED  BY <2>1, <1>5
<1>9. \A h \in DOMAIN c.pending : h \notin new
  OBVIOUS
<1>10. /\ d \in CircuitMaps /\ d.adds = Overlay(c.adds, a) /\ d.pending = Overlay(c.pending, n)
       /\ d.keys = c.keys /\ d.opened = c.opened /\ d.closed = c.closed
  <2>. HIDE DEF new, d
  <2>. QED  BY <1>6, <1>7, <1>8 DEF CircuitMaps
<1>. HIDE DEF d, new
<1>. QED  BY <1>1, <1>7, <1>8, <1>9, <1>10 DEF d, new

\* OpenCircuits binds circuits to indices, the highest if it gets several.
LEMMA OpenFacts ==
    ASSUME NEW c \in CircuitMaps, NEW ks \in Maps(Index, HTLCs), IsFiniteSet(DOMAIN ks)
    PROVE  LET d == OpenCircuits(c, ks) IN
           /\ d \in CircuitMaps
           /\ d.adds = c.adds /\ d.closed = c.closed
           /\ d.keys = Overlay(c.keys, ks) /\ d.opened = Overlay(c.opened, ks)
           /\ DOMAIN d.pending = DOMAIN c.pending
           /\ \A h \in DOMAIN c.pending \ Range(ks) : d.pending[h] = c.pending[h]
           /\ \A h \in DOMAIN c.pending \cap Range(ks) :
                 /\ d.pending[h].disk = c.pending[h].disk /\ d.pending[h].ref = c.pending[h].ref
                 /\ \E i \in DOMAIN ks : ks[i] = h /\ d.pending[h].out = i
<1>. DEFINE d == OpenCircuits(c, ks)
            Of(h) == {i \in DOMAIN ks : ks[i] = h}
            q == [h \in DOMAIN c.pending |->
                    IF h \in Range(ks) THEN [c.pending[h] EXCEPT !.out = Max(Of(h))]
                    ELSE c.pending[h]]
<1>1. /\ c.pending \in Maps(HTLCs, Circuits) /\ c.keys \in Maps(Index, HTLCs)
      /\ c.opened \in Maps(Index, HTLCs) /\ IsFiniteSet(DOMAIN c.keys)
  BY DEF CircuitMaps
<1>2. c.pending \in [DOMAIN c.pending -> Circuits] /\ DOMAIN c.pending \subseteq HTLCs
      /\ DOMAIN ks \subseteq Index
  BY <1>1, MapsFacts
<1>3. ASSUME NEW h \in Range(ks) PROVE Max(Of(h)) \in Of(h)
  <2>1. Of(h) # {} /\ Of(h) \subseteq DOMAIN ks
    BY DEF Range
  <2>2. Of(h) \subseteq Nat /\ IsFiniteSet(Of(h))
    BY <2>1, <1>2, FS_Subset DEF Index
  <2>. HIDE DEF Of
  <2>. QED  BY <2>1, <2>2, MaxIsLargest
<1>4. d = [c EXCEPT !.keys = Overlay(c.keys, ks), !.opened = Overlay(c.opened, ks), !.pending = q]
  BY DEF OpenCircuits
<1>5. ASSUME NEW h \in DOMAIN c.pending
      PROVE  /\ q[h] \in Circuits
             /\ h \notin Range(ks) => q[h] = c.pending[h]
             /\ h \in Range(ks) =>
                   /\ q[h].disk = c.pending[h].disk /\ q[h].ref = c.pending[h].ref
                   /\ \E i \in DOMAIN ks : ks[i] = h /\ q[h].out = i
  <2>1. c.pending[h] \in Circuits
    BY <1>2
  <2>2. CASE h \in Range(ks)
    <3>1. q[h] = [c.pending[h] EXCEPT !.out = Max(Of(h))]
      BY <2>2
    <3>2. Max(Of(h)) \in DOMAIN ks /\ ks[Max(Of(h))] = h
      BY <2>2, <1>3
    <3>3. Max(Of(h)) \in Nat
      BY <3>2, <1>2 DEF Index
    <3>. HIDE DEF Of, q
    <3>. QED  BY <2>1, <2>2, <3>1, <3>2, <3>3 DEF Circuits
  <2>3. CASE h \notin Range(ks)
    BY <2>1, <2>3
  <2>. QED  BY <2>2, <2>3
<1>6. DOMAIN q = DOMAIN c.pending /\ q \in Maps(HTLCs, Circuits)
  <2>1. DOMAIN q = DOMAIN c.pending
    OBVIOUS
  <2>2. q \in [DOMAIN c.pending -> Circuits]
    BY <1>5
  <2>. HIDE DEF q
  <2>. QED  BY <2>1, <2>2, <1>2, MapsFacts
<1>7. /\ Overlay(c.keys, ks) \in Maps(Index, HTLCs) /\ Overlay(c.opened, ks) \in Maps(Index, HTLCs)
      /\ IsFiniteSet(DOMAIN Overlay(c.keys, ks))
  <2>1. DOMAIN Overlay(c.keys, ks) = DOMAIN c.keys \cup DOMAIN ks
    BY <1>1, OverlayFacts
  <2>2. IsFiniteSet(DOMAIN c.keys \cup DOMAIN ks)
    BY <1>1, FS_Union
  <2>. QED  BY <2>1, <2>2, <1>1, OverlayFacts
<1>. HIDE DEF q
<1>8. /\ d \in CircuitMaps /\ d.pending = q /\ d.adds = c.adds /\ d.closed = c.closed
      /\ d.keys = Overlay(c.keys, ks) /\ d.opened = Overlay(c.opened, ks)
  <2>. HIDE DEF d
  <2>. QED  BY <1>4, <1>6, <1>7 DEF CircuitMaps
<1>. HIDE DEF d, Of
<1>. QED  BY <1>5, <1>6, <1>8 DEF d

\* DeleteCircuits forgets circuits and the keystone each one names.
LEMMA DeleteFacts ==
    ASSUME NEW c \in CircuitMaps, NEW hs
    PROVE  LET d == DeleteCircuits(c, hs)
               found == hs \cap DOMAIN c.pending
               outs == {c.pending[h].out : h \in found} IN
           /\ d \in CircuitMaps /\ d.closed = c.closed \ found
           /\ DOMAIN d.adds = DOMAIN c.adds \ found
           /\ DOMAIN d.pending = DOMAIN c.pending \ found
           /\ DOMAIN d.keys = DOMAIN c.keys \ outs /\ DOMAIN d.opened = DOMAIN c.opened \ outs
           /\ \A h \in DOMAIN d.adds : d.adds[h] = c.adds[h]
           /\ \A h \in DOMAIN d.pending : d.pending[h] = c.pending[h]
           /\ \A i \in DOMAIN d.keys : d.keys[i] = c.keys[i]
           /\ \A i \in DOMAIN d.opened : d.opened[i] = c.opened[i]
<1>. DEFINE d == DeleteCircuits(c, hs)
            found == hs \cap DOMAIN c.pending
            outs == {c.pending[h].out : h \in found}
<1>1. d = [adds |-> Without(c.adds, found), keys |-> Without(c.keys, outs),
           pending |-> Without(c.pending, found), opened |-> Without(c.opened, outs),
           closed |-> c.closed \ found]
  BY DEF DeleteCircuits
<1>2. /\ c.adds \in Maps(HTLCs, AddRefs) /\ c.pending \in Maps(HTLCs, Circuits)
      /\ c.keys \in Maps(Index, HTLCs) /\ c.opened \in Maps(Index, HTLCs)
      /\ c.closed \in SUBSET HTLCs /\ IsFiniteSet(DOMAIN c.keys)
  BY DEF CircuitMaps
<1>. HIDE DEF found, outs, d
<1>3. /\ DOMAIN Without(c.adds, found) = DOMAIN c.adds \ found
      /\ DOMAIN Without(c.pending, found) = DOMAIN c.pending \ found
      /\ DOMAIN Without(c.keys, outs) = DOMAIN c.keys \ outs
      /\ DOMAIN Without(c.opened, outs) = DOMAIN c.opened \ outs
  BY RestrictFacts
<1>4. /\ \A h \in DOMAIN c.adds \ found : Without(c.adds, found)[h] = c.adds[h]
      /\ \A h \in DOMAIN c.pending \ found : Without(c.pending, found)[h] = c.pending[h]
      /\ \A h \in DOMAIN c.keys \ outs : Without(c.keys, outs)[h] = c.keys[h]
      /\ \A h \in DOMAIN c.opened \ outs : Without(c.opened, outs)[h] = c.opened[h]
  BY RestrictFacts
<1>5. /\ Without(c.adds, found) \in Maps(HTLCs, AddRefs)
      /\ Without(c.pending, found) \in Maps(HTLCs, Circuits)
      /\ Without(c.keys, outs) \in Maps(Index, HTLCs)
      /\ Without(c.opened, outs) \in Maps(Index, HTLCs)
  BY <1>2, RestrictFacts, Zenon
<1>6. IsFiniteSet(DOMAIN c.keys \ outs)
  BY <1>2, FS_Subset
<1>7. d \in CircuitMaps
  BY <1>1, <1>2, <1>3, <1>5, <1>6 DEF CircuitMaps
<1>8. /\ d.adds = Without(c.adds, found) /\ d.pending = Without(c.pending, found)
      /\ d.keys = Without(c.keys, outs) /\ d.opened = Without(c.opened, outs)
      /\ d.closed = c.closed \ found
  BY <1>1
<1>. QED  BY <1>3, <1>4, <1>7, <1>8 DEF d, found, outs

\* TrimOpenCircuits closes the keystones it reaches, and the circuits stay.
LEMMA TrimFacts ==
    ASSUME NEW c \in CircuitMaps, NEW start
    PROVE  LET d == TrimOpenCircuits(c, start)
               trimmed == TrimmedFrom(c, start)
               reverted == {c.opened[i] : i \in trimmed} IN
           /\ d \in CircuitMaps /\ d.adds = c.adds /\ d.closed = c.closed
           /\ DOMAIN d.keys = DOMAIN c.keys \ trimmed
           /\ DOMAIN d.opened = DOMAIN c.opened \ trimmed
           /\ DOMAIN d.pending = DOMAIN c.pending
           /\ \A i \in DOMAIN d.keys : d.keys[i] = c.keys[i]
           /\ \A i \in DOMAIN d.opened : d.opened[i] = c.opened[i]
           /\ \A h \in DOMAIN d.pending :
                 /\ d.pending[h].disk = c.pending[h].disk /\ d.pending[h].ref = c.pending[h].ref
                 /\ d.pending[h].out = IF h \in reverted THEN 0 ELSE c.pending[h].out
<1>. DEFINE d == TrimOpenCircuits(c, start)
            trimmed == TrimmedFrom(c, start)
            reverted == {c.opened[i] : i \in trimmed}
            q == [h \in DOMAIN c.pending |->
                    IF h \in reverted THEN [c.pending[h] EXCEPT !.out = 0] ELSE c.pending[h]]
<1>1. d = [c EXCEPT !.keys = Without(c.keys, trimmed), !.opened = Without(c.opened, trimmed),
                    !.pending = q]
  BY DEF TrimOpenCircuits
<1>2. /\ c.pending \in Maps(HTLCs, Circuits) /\ c.keys \in Maps(Index, HTLCs)
      /\ c.opened \in Maps(Index, HTLCs) /\ IsFiniteSet(DOMAIN c.keys)
  BY DEF CircuitMaps
<1>3. c.pending \in [DOMAIN c.pending -> Circuits] /\ DOMAIN c.pending \subseteq HTLCs
  BY <1>2, MapsFacts
<1>. HIDE DEF trimmed, reverted, d
<1>4. ASSUME NEW h \in DOMAIN c.pending
      PROVE  /\ q[h] \in Circuits /\ q[h].disk = c.pending[h].disk /\ q[h].ref = c.pending[h].ref
             /\ q[h].out = IF h \in reverted THEN 0 ELSE c.pending[h].out
  <2>1. c.pending[h] \in Circuits
    BY <1>3
  <2>2. q[h] = IF h \in reverted THEN [c.pending[h] EXCEPT !.out = 0] ELSE c.pending[h]
    OBVIOUS
  <2>. HIDE DEF q
  <2>. QED  BY <2>1, <2>2 DEF Circuits
<1>5. DOMAIN q = DOMAIN c.pending /\ q \in Maps(HTLCs, Circuits)
  <2>1. DOMAIN q = DOMAIN c.pending
    OBVIOUS
  <2>2. q \in [DOMAIN c.pending -> Circuits]
    BY <1>4
  <2>. HIDE DEF q
  <2>. QED  BY <2>1, <2>2, <1>3, MapsFacts
<1>. HIDE DEF q
<1>6. /\ DOMAIN Without(c.keys, trimmed) = DOMAIN c.keys \ trimmed
      /\ DOMAIN Without(c.opened, trimmed) = DOMAIN c.opened \ trimmed
      /\ \A h \in DOMAIN c.keys \ trimmed : Without(c.keys, trimmed)[h] = c.keys[h]
      /\ \A h \in DOMAIN c.opened \ trimmed : Without(c.opened, trimmed)[h] = c.opened[h]
  BY RestrictFacts
<1>7. /\ Without(c.keys, trimmed) \in Maps(Index, HTLCs)
      /\ Without(c.opened, trimmed) \in Maps(Index, HTLCs)
  BY <1>2, RestrictFacts, Zenon
<1>8. IsFiniteSet(DOMAIN c.keys \ trimmed)
  BY <1>2, FS_Subset
<1>9. /\ d \in CircuitMaps /\ d.adds = c.adds /\ d.closed = c.closed /\ d.pending = q
      /\ d.keys = Without(c.keys, trimmed) /\ d.opened = Without(c.opened, trimmed)
  BY <1>1, <1>5, <1>6, <1>7, <1>8 DEF CircuitMaps
<1>. QED  BY <1>4, <1>5, <1>6, <1>9 DEF d, trimmed, reverted

\* restoreMemState rebuilds the memory from the buckets.
LEMMA RestoreFacts ==
    ASSUME NEW c \in CircuitMaps
    PROVE  LET d == RestoreMemState(c) IN
           /\ d \in CircuitMaps /\ d.adds = c.adds /\ d.keys = c.keys /\ d.closed = {}
           /\ DOMAIN d.pending = DOMAIN c.adds
           /\ DOMAIN d.opened = {i \in DOMAIN c.keys : c.keys[i] \in DOMAIN c.adds}
           /\ \A i \in DOMAIN d.opened : d.opened[i] = c.keys[i]
           /\ \A h \in DOMAIN d.pending :
                 /\ d.pending[h].disk /\ d.pending[h].ref = c.adds[h]
                 /\ \/ d.pending[h].out = 0 /\ \A i \in DOMAIN c.keys : c.keys[i] # h
                    \/ d.pending[h].out \in DOMAIN c.keys /\ c.keys[d.pending[h].out] = h
<1>. DEFINE d == RestoreMemState(c)
            Of(h) == {0} \cup {i \in DOMAIN c.keys : c.keys[i] = h}
            q == [h \in DOMAIN c.adds |->
                    [out |-> Max(Of(h)), disk |-> TRUE, ref |-> c.adds[h]]]
            I == {i \in DOMAIN c.keys : c.keys[i] \in DOMAIN c.adds}
<1>1. d = [c EXCEPT !.pending = q, !.opened = Restrict(c.keys, I), !.closed = {}]
  BY DEF RestoreMemState
<1>2. /\ c.adds \in Maps(HTLCs, AddRefs) /\ c.keys \in Maps(Index, HTLCs)
      /\ IsFiniteSet(DOMAIN c.keys)
  BY DEF CircuitMaps
<1>3. /\ c.adds \in [DOMAIN c.adds -> AddRefs] /\ DOMAIN c.adds \subseteq HTLCs
      /\ DOMAIN c.keys \subseteq Index
  BY <1>2, MapsFacts
<1>4. ASSUME NEW h
      PROVE  Max(Of(h)) \in Of(h) /\ \A i \in Of(h) : i <= Max(Of(h))
  <2>1. Of(h) # {} /\ Of(h) \subseteq Nat
    BY <1>3 DEF Index
  <2>2. IsFiniteSet(Of(h))
    <3>1. IsFiniteSet({i \in DOMAIN c.keys : c.keys[i] = h})
      BY <1>2, FS_Subset
    <3>2. IsFiniteSet({0})
      BY FS_Singleton
    <3>. QED  BY <3>1, <3>2, FS_Union
  <2>. HIDE DEF Of
  <2>. QED  BY <2>1, <2>2, MaxIsLargest
<1>5. ASSUME NEW h \in DOMAIN c.adds
      PROVE  /\ q[h] \in Circuits /\ q[h].disk /\ q[h].ref = c.adds[h]
             /\ \/ q[h].out = 0 /\ \A i \in DOMAIN c.keys : c.keys[i] # h
                \/ q[h].out \in DOMAIN c.keys /\ c.keys[q[h].out] = h
  <2>. DEFINE m == Max(Of(h))
  <2>1. m \in Of(h) /\ \A i \in Of(h) : i <= m
    BY <1>4
  <2>2. q[h] = [out |-> m, disk |-> TRUE, ref |-> c.adds[h]]
    OBVIOUS
  <2>. HIDE DEF m, q
  <2>3. m \in Nat /\ DOMAIN c.keys \subseteq Index
    BY <2>1, <1>3 DEF Index
  <2>4. q[h] \in Circuits /\ q[h].disk /\ q[h].ref = c.adds[h] /\ q[h].out = m
    BY <2>2, <2>3, <1>3 DEF Circuits
  <2>5. m = 0 => \A i \in DOMAIN c.keys : c.keys[i] # h
    BY <2>1, <2>3 DEF Index
  <2>6. m # 0 => m \in DOMAIN c.keys /\ c.keys[m] = h
    BY <2>1
  <2>. QED  BY <2>4, <2>5, <2>6
<1>6. DOMAIN q = DOMAIN c.adds /\ q \in Maps(HTLCs, Circuits)
  <2>1. DOMAIN q = DOMAIN c.adds
    OBVIOUS
  <2>2. q \in [DOMAIN c.adds -> Circuits]
    BY <1>5
  <2>. HIDE DEF q
  <2>. QED  BY <2>1, <2>2, <1>3, MapsFacts
<1>7. I \subseteq DOMAIN c.keys
  OBVIOUS
<1>. HIDE DEF q, I, d, Of
<1>8. /\ Restrict(c.keys, I) \in Maps(Index, HTLCs) /\ DOMAIN Restrict(c.keys, I) = I
      /\ \A i \in I : Restrict(c.keys, I)[i] = c.keys[i]
  BY <1>2, <1>7, RestrictFacts, Zenon
<1>9. /\ d \in CircuitMaps /\ d.adds = c.adds /\ d.keys = c.keys /\ d.closed = {}
      /\ d.pending = q /\ d.opened = Restrict(c.keys, I)
  BY <1>1, <1>6, <1>8 DEF CircuitMaps
<1>. QED  BY <1>5, <1>6, <1>8, <1>9 DEF d, I

-----------------------------------------------------------------------------
(* Every action keeps the types.                                           *)

\* The fields of a typed state.
LEMMA TypedFields ==
    ASSUME Typed
    PROVE  /\ inCh.fate \in [HTLCs -> Fates] /\ inCh.diff.open \in BOOLEAN
           /\ inCh.diff.circuits \in SUBSET HTLCs /\ inCh.pkgs \in [DOMAIN Packages -> PkgTypes]
           /\ outCh.htlcs \in Seq(OutHtlcs) /\ Len(outCh.htlcs) \in Nat
           /\ DOMAIN outCh.htlcs = 1..Len(outCh.htlcs)
           /\ outCh.window \in BOOLEAN /\ outCh.acked \in SUBSET Index
           /\ sw.icpt \in Seq(Adds) /\ sw.route \in Seq(Adds)
           /\ sw.plex \in SUBSET (Responses \cup FailAdds)
           /\ sw.pendingSettleFails \in SUBSET Index
           /\ outBox.pkts \in Seq(Adds) /\ outBox.head \in Index
           /\ outBox.head <= Len(outBox.pkts) + 1 /\ Len(outBox.pkts) \in Nat
           /\ inLink.up \in BOOLEAN /\ inLink.todo \in Seq(DOMAIN Packages)
           /\ inLink.paused \in BOOLEAN /\ inLink.log \in Maps(HTLCs, LogReplies)
           /\ inLink.acking \in BOOLEAN /\ inLink.closing \in SUBSET HTLCs
           /\ outLink.up \in BOOLEAN /\ outLink.log \in Seq(HTLCs)
           /\ outLink.batch \in Maps(Index, HTLCs) /\ outLink.signing \in BOOLEAN
           /\ IsFiniteSet(DOMAIN outLink.batch)
<1>1. /\ inCh.fate \in [HTLCs -> Fates] /\ inCh.diff.open \in BOOLEAN
      /\ inCh.diff.circuits \in SUBSET HTLCs /\ inCh.pkgs \in [DOMAIN Packages -> PkgTypes]
  BY DEF Typed, InChTypes
<1>2. /\ outCh.htlcs \in Seq(OutHtlcs) /\ Len(outCh.htlcs) \in Nat
      /\ DOMAIN outCh.htlcs = 1..Len(outCh.htlcs)
      /\ outCh.window \in BOOLEAN /\ outCh.acked \in SUBSET Index
  BY DEF Typed, OutChTypes
<1>3. /\ sw.icpt \in Seq(Adds) /\ sw.route \in Seq(Adds)
      /\ sw.plex \in SUBSET (Responses \cup FailAdds) /\ sw.pendingSettleFails \in SUBSET Index
  BY DEF Typed, Switches
<1>4. /\ outBox.pkts \in Seq(Adds) /\ outBox.head \in Index
      /\ outBox.head <= Len(outBox.pkts) + 1 /\ Len(outBox.pkts) \in Nat
  BY DEF Typed, OutBoxes
<1>5. /\ inLink.up \in BOOLEAN /\ inLink.todo \in Seq(DOMAIN Packages)
      /\ inLink.paused \in BOOLEAN /\ inLink.log \in Maps(HTLCs, LogReplies)
      /\ inLink.acking \in BOOLEAN /\ inLink.closing \in SUBSET HTLCs
  BY DEF Typed, InLinks
<1>6. /\ outLink.up \in BOOLEAN /\ outLink.log \in Seq(HTLCs)
      /\ outLink.batch \in Maps(Index, HTLCs) /\ outLink.signing \in BOOLEAN
      /\ IsFiniteSet(DOMAIN outLink.batch)
  BY DEF Typed, OutLinks
<1>. QED  BY <1>1, <1>2, <1>3, <1>4, <1>5, <1>6

\* The fields of the circuit map.
LEMMA TypedCircuits ==
    ASSUME Typed
    PROVE  /\ DOMAIN cm.pending \subseteq HTLCs /\ DOMAIN cm.adds \subseteq HTLCs
           /\ DOMAIN cm.opened \subseteq Index /\ DOMAIN cm.keys \subseteq Index
           /\ \A h \in DOMAIN cm.pending : cm.pending[h] \in Circuits
           /\ \A h \in DOMAIN cm.adds : cm.adds[h] \in AddRefs
           /\ \A i \in DOMAIN cm.opened : cm.opened[i] \in HTLCs
           /\ \A i \in DOMAIN cm.keys : cm.keys[i] \in HTLCs
           /\ cm.closed \subseteq HTLCs
<1>1. /\ cm.adds \in Maps(HTLCs, AddRefs) /\ cm.keys \in Maps(Index, HTLCs)
      /\ cm.pending \in Maps(HTLCs, Circuits) /\ cm.opened \in Maps(Index, HTLCs)
      /\ cm.closed \in SUBSET HTLCs
  BY DEF Typed, CircuitMaps
<1>2. cm.adds \in [DOMAIN cm.adds -> AddRefs] /\ DOMAIN cm.adds \subseteq HTLCs
  BY <1>1, MapsFacts
<1>3. cm.keys \in [DOMAIN cm.keys -> HTLCs] /\ DOMAIN cm.keys \subseteq Index
  BY <1>1, MapsFacts
<1>4. cm.pending \in [DOMAIN cm.pending -> Circuits] /\ DOMAIN cm.pending \subseteq HTLCs
  BY <1>1, MapsFacts
<1>5. cm.opened \in [DOMAIN cm.opened -> HTLCs] /\ DOMAIN cm.opened \subseteq Index
  BY <1>1, MapsFacts
<1>. QED  BY <1>1, <1>2, <1>3, <1>4, <1>5

\* The incoming side: packages are locked in and handed to the switch.
LEMMA TypedIncoming ==
    ASSUME Typed, \/ \E p \in DOMAIN Packages : LockIn(p)
                  \/ ProcessRemoteAdds
    PROVE  Typed'
<1>1. ASSUME NEW p \in DOMAIN Packages, LockIn(p) PROVE Typed'
  <2>1. inCh' \in InChTypes
    <3>. DEFINE pk == [inCh.pkgs EXCEPT ![p].state = "LockedIn"]
                ft == [h \in HTLCs |-> IF h \in Range(Packages[p]) THEN "live" ELSE inCh.fate[h]]
    <3>1. inCh' = [inCh EXCEPT !.pkgs = pk, !.fate = ft]
      BY <1>1 DEF LockIn
    <3>2. pk \in [DOMAIN Packages -> PkgTypes] /\ ft \in [HTLCs -> Fates]
      <4>1. inCh.pkgs \in [DOMAIN Packages -> PkgTypes] /\ inCh.fate \in [HTLCs -> Fates]
        BY TypedFields
      <4>. QED  BY <4>1 DEF PkgTypes, Fates
    <3>. HIDE DEF pk, ft
    <3>. QED  BY <3>1, <3>2 DEF Typed, InChTypes
  <2>2. inLink' \in InLinks
    <3>1. <<p>> \in Seq(DOMAIN Packages)
      OBVIOUS
    <3>. QED  BY <1>1, <3>1 DEF LockIn, Typed, InLinks
  <2>. QED  BY <1>1, <2>1, <2>2 DEF LockIn, Typed
<1>2. ASSUME ProcessRemoteAdds PROVE Typed'
  <2>. DEFINE p == Head(inLink.todo)
              refs == SourceRefs(p)
              fresh == inCh.pkgs[p].state = "LockedIn"
              rejected == {h \in DOMAIN refs \cap Invalid : Removable(h)}
              forwarded == {h \in DOMAIN refs \ Invalid :
                              fresh \/ refs[h].idx \in inCh.pkgs[p].fwd}
              Sent(h) == h \in forwarded /\ h \notin DOMAIN inBox
              adds == UnackedAdds(p)
              I == {k \in DOMAIN adds : Sent(adds[k])}
              batch == SubsequenceAt(adds, I)
              new == [h \in rejected |-> [fate |-> "failed", ref |-> refs[h], dest |-> 0,
                                          circuit |-> FALSE]]
              fwd == {refs[h].idx : h \in forwarded}
              out == [k \in DOMAIN batch |-> [h |-> batch[k], ref |-> refs[batch[k]]]]
  <2>1. /\ inCh' = IF fresh
                   THEN [inCh EXCEPT !.pkgs[p].state = "Processed", !.pkgs[p].fwd = fwd]
                   ELSE inCh
        /\ inLink' = [inLink EXCEPT !.todo = Tail(@), !.paused = ~fresh /\ batch # << >>,
                                    !.log = Overlay(@, new)]
        /\ sw' = [sw EXCEPT !.icpt = out]
        /\ UNCHANGED <<outCh, cm, inBox, outBox, outLink>>
        /\ inLink.todo # << >>
    BY <1>2 DEF ProcessRemoteAdds
  <2>2. p \in DOMAIN Packages /\ Tail(inLink.todo) \in Seq(DOMAIN Packages)
    BY <2>1, TypedFields, HeadTail
  <2>. HIDE DEF p
  <2>3. /\ adds \in Seq(HTLCs) /\ refs \in Maps(HTLCs, AddRefs) /\ DOMAIN refs = Range(adds)
    BY <2>2, SourceRefsFacts
  <2>4. \A h \in DOMAIN refs : h \in HTLCs /\ refs[h] \in AddRefs /\ refs[h].idx \in Index
    <3>. HIDE DEF refs
    <3>1. refs \in [DOMAIN refs -> AddRefs] /\ DOMAIN refs \subseteq HTLCs
      BY <2>3, MapsFacts
    <3>. QED  BY <3>1 DEF AddRefs
  <2>5. fwd \in SUBSET Index
    <3>. HIDE DEF refs
    <3>. QED  BY <2>4
  <2>6. new \in Maps(HTLCs, LogReplies)
    <3>. HIDE DEF refs
    <3>1. \A h \in rejected : [fate |-> "failed", ref |-> refs[h], dest |-> 0, circuit |-> FALSE]
                                 \in LogReplies
      BY <2>4 DEF LogReplies
    <3>2. rejected \subseteq HTLCs
      BY <2>4
    <3>. HIDE DEF rejected
    <3>. QED  BY <3>1, <3>2, MapsFacts
  <2>7. out \in Seq(Adds)
    <3>1. I \in SUBSET DOMAIN adds /\ \A k \in I : adds[k] \in DOMAIN refs
      OBVIOUS
    <3>. HIDE DEF adds, refs, I
    <3>2. /\ DOMAIN batch = 1..Cardinality(I) /\ Cardinality(I) \in Nat
          /\ \A k \in DOMAIN batch : PlaceAt(I, k) \in I /\ batch[k] = adds[PlaceAt(I, k)]
      BY <2>3, <3>1, SubsequenceFacts
    <3>. HIDE DEF batch
    <3>3. \A k \in DOMAIN batch : [h |-> batch[k], ref |-> refs[batch[k]]] \in Adds
      BY <3>1, <3>2, <2>4 DEF Adds
    <3>. QED  BY <3>2, <3>3
  <2>. HIDE DEF fwd, new, out, batch, refs, fresh
  <2>8. inCh' \in InChTypes
    <3>. DEFINE pk == [inCh.pkgs EXCEPT ![p].state = "Processed", ![p].fwd = fwd]
    <3>1. pk \in [DOMAIN Packages -> PkgTypes]
      <4>1. inCh.pkgs \in [DOMAIN Packages -> PkgTypes]
        BY TypedFields
      <4>. QED  BY <4>1, <2>5 DEF PkgTypes
    <3>2. inCh' = IF fresh THEN [inCh EXCEPT !.pkgs = pk] ELSE inCh
      BY <2>1
    <3>. HIDE DEF pk
    <3>. QED  BY <3>1, <3>2 DEF Typed, InChTypes
  <2>9. inLink' \in InLinks
    <3>1. Overlay(inLink.log, new) \in Maps(HTLCs, LogReplies)
      BY <2>6, TypedFields, OverlayFacts, Zenon
    <3>. QED  BY <2>1, <2>2, <3>1 DEF Typed, InLinks
  <2>10. sw' \in Switches
    BY <2>1, <2>7 DEF Typed, Switches
  <2>. QED  BY <2>1, <2>8, <2>9, <2>10 DEF Typed
<1>. QED  BY <1>1, <1>2

\* The switch commits circuits and routes Adds.
LEMMA TypedSwitch ==
    ASSUME Typed, ForwardPackets \/ ForwardPacketsWriteError \/ RouteAdd \/ RejectAdd
    PROVE  Typed'
<1>. DEFINE fails == CircuitAdds(cm, IcptRefs) \cup CircuitFails(cm, IcptRefs)
<1>1. /\ IcptRefs \in Maps(HTLCs, AddRefs) /\ cm \in CircuitMaps
      /\ inBox \in Maps(HTLCs, Replies) /\ inLink \in InLinks /\ outBox \in OutBoxes
  BY IcptRefsFacts DEF Typed
<1>2. /\ CircuitFails(cm, IcptRefs) \subseteq DOMAIN IcptRefs
      /\ fails \subseteq DOMAIN IcptRefs
  BY DEF CircuitAdds, CircuitFails
<1>3. ASSUME NEW S \in SUBSET DOMAIN IcptRefs
      PROVE  FailAddPackets(inBox, Restrict(IcptRefs, S)) \in Maps(HTLCs, Replies)
  <2>1. Restrict(IcptRefs, S) \in Maps(HTLCs, AddRefs)
    BY <1>1, RestrictFacts, Zenon
  <2>. QED  BY <2>1, <1>1, FailAddFacts
<1>4. [inLink EXCEPT !.paused = FALSE] \in InLinks
  BY <1>1 DEF InLinks
<1>5. ASSUME ForwardPackets PROVE Typed'
  <2>. DEFINE I == {k \in DOMAIN sw.icpt : sw.icpt[k].h \in CircuitAdds(cm, IcptRefs)}
  <2>1. /\ cm' = CommitCircuits(cm, IcptRefs)
        /\ inBox' = FailAddPackets(inBox, Restrict(IcptRefs, CircuitFails(cm, IcptRefs)))
        /\ sw' = [sw EXCEPT !.icpt = << >>, !.route = SubsequenceAt(sw.icpt, I)]
        /\ inLink' = [inLink EXCEPT !.paused = FALSE]
        /\ UNCHANGED <<inCh, outCh, outBox, outLink>>
    BY <1>5 DEF ForwardPackets, IcptRefs
  <2>2. cm' \in CircuitMaps
    BY <2>1, <1>1, CommitFacts
  <2>3. inBox' \in Maps(HTLCs, Replies)
    BY <2>1, <1>2, <1>3
  <2>4. sw' \in Switches
    <3>1. sw.icpt \in Seq(Adds) /\ I \in SUBSET DOMAIN sw.icpt
      BY TypedFields
    <3>. HIDE DEF I
    <3>2. SubsequenceAt(sw.icpt, I) \in Seq(Adds)
      BY <3>1, SubsequenceFacts
    <3>3. << >> \in Seq(Adds)
      OBVIOUS
    <3>. QED  BY <2>1, <3>2, <3>3 DEF Typed, Switches
  <2>. QED  BY <2>1, <2>2, <2>3, <2>4, <1>4 DEF Typed
<1>6. ASSUME ForwardPacketsWriteError PROVE Typed'
  <2>1. /\ inBox' = FailAddPackets(inBox, Restrict(IcptRefs, fails))
        /\ sw' = [sw EXCEPT !.icpt = << >>]
        /\ inLink' = [inLink EXCEPT !.paused = FALSE]
        /\ UNCHANGED <<inCh, outCh, cm, outBox, outLink>>
    BY <1>6 DEF ForwardPacketsWriteError, IcptRefs
  <2>2. inBox' \in Maps(HTLCs, Replies)
    BY <2>1, <1>2, <1>3
  <2>3. sw' \in Switches
    <3>1. << >> \in Seq(Adds)
      OBVIOUS
    <3>. QED  BY <2>1, <3>1 DEF Typed, Switches
  <2>. QED  BY <2>1, <2>2, <2>3, <1>4 DEF Typed
<1>7. ASSUME sw.route # << >>
      PROVE  Head(sw.route) \in Adds /\ [sw EXCEPT !.route = Tail(sw.route)] \in Switches
  BY <1>7, TypedFields, HeadTail DEF Typed, Switches
<1>8. ASSUME RouteAdd PROVE Typed'
  <2>1. outBox' \in OutBoxes
    <3>1. outBox' = AddPacket(outBox, Head(sw.route)) /\ sw.route # << >>
      BY <1>8 DEF RouteAdd
    <3>2. Head(sw.route) \in Adds
      BY <3>1, <1>7
    <3>. QED  BY <3>1, <3>2, <1>1 DEF AddPacket, OutBoxes, Index
  <2>. QED  BY <1>7, <1>8, <2>1 DEF RouteAdd, Typed
<1>9. ASSUME RejectAdd PROVE Typed'
  <2>. DEFINE pkt == Head(sw.route)
              refs == [h \in {pkt.h} |-> pkt.ref]
  <2>1. inBox' = FailAddPackets(inBox, refs) /\ sw.route # << >>
    BY <1>9 DEF RejectAdd
  <2>2. refs \in Maps(HTLCs, AddRefs)
    <3>1. pkt.h \in HTLCs /\ pkt.ref \in AddRefs
      BY <2>1, <1>7 DEF Adds
    <3>. QED  BY <3>1, SingleFacts
  <2>3. inBox' \in Maps(HTLCs, Replies)
    BY <2>1, <2>2, <1>1, FailAddFacts
  <2>. QED  BY <1>7, <1>9, <2>3 DEF RejectAdd, Typed
<1>. QED  BY <1>5, <1>6, <1>8, <1>9

\* Responses find their circuit; failed Adds fail it.
LEMMA TypedResponses ==
    ASSUME Typed, CircuitsOK,
           \/ \E pkt \in sw.plex : HandleResponse(pkt) \/ HandleFailedAdd(pkt)
           \/ AckPendingSettleFails
    PROVE  Typed'
<1>1. /\ cm \in CircuitMaps /\ inBox \in Maps(HTLCs, Replies) /\ sw \in Switches
      /\ sw.plex \in SUBSET (Responses \cup FailAdds)
  BY TypedFields DEF Typed
<1>2. ASSUME NEW h \in HTLCs PROVE CloseCircuit(cm, h) \in CircuitMaps
  BY <1>1 DEF CloseCircuit, CircuitMaps
<1>3. ASSUME NEW pkt \in sw.plex, HandleResponse(pkt) PROVE Typed'
  <2>1. pkt \in Responses
    BY <1>1, <1>3 DEF HandleResponse, FailAdds
  <2>2. sw' \in Switches
    <3>1. \/ sw' = [sw EXCEPT !.plex = @ \ {pkt}]
          \/ sw' = [sw EXCEPT !.plex = @ \ {pkt},
                              !.pendingSettleFails = @ \cup {i \in {pkt.out} : pkt.dest}]
      BY <1>3 DEF HandleResponse
    <3>2. pkt.out \in Index
      BY <2>1 DEF Responses
    <3>. QED  BY <1>1, <3>1, <3>2 DEF Switches
  <2>3. cm' \in CircuitMaps /\ inBox' \in Maps(HTLCs, Replies)
    <3>1. CASE cm' = cm /\ inBox' = inBox
      BY <3>1, <1>1
    <3>2. CASE ~(cm' = cm /\ inBox' = inBox)
      <4>. DEFINE h == cm.opened[pkt.out]
                  r == [fate |-> pkt.type, ref |-> cm.pending[h].ref,
                        dest |-> IF pkt.dest THEN pkt.out ELSE 0]
      <4>1. /\ pkt.out \in DOMAIN cm.opened /\ h \notin cm.closed
            /\ cm' = CloseCircuit(cm, h) /\ inBox' = DeliverReply(inBox, h, r)
        BY <1>3, <3>2 DEF HandleResponse
      <4>2. h \in DOMAIN cm.pending
        BY <4>1 DEF CircuitsOK
      <4>3. h \in HTLCs /\ cm.pending[h] \in Circuits
        BY <4>2, TypedCircuits
      <4>4. r \in Replies
        BY <2>1, <4>3 DEF Replies, Circuits, Responses, Index
      <4>. HIDE DEF h, r
      <4>5. DeliverReply(inBox, h, r) \in Maps(HTLCs, Replies)
        BY <1>1, <4>3, <4>4, DeliverReplyFacts
      <4>. QED  BY <1>2, <4>1, <4>3, <4>5
    <3>. QED  BY <3>1, <3>2
  <2>. QED  BY <1>3, <2>2, <2>3 DEF HandleResponse, Typed
<1>4. ASSUME NEW pkt \in sw.plex, HandleFailedAdd(pkt) PROVE Typed'
  <2>. DEFINE r == [fate |-> "failed", ref |-> pkt.ref, dest |-> 0]
  <2>1. pkt \in FailAdds
    BY <1>1, <1>4 DEF HandleFailedAdd, Responses
  <2>2. pkt.h \in HTLCs /\ r \in Replies
    BY <2>1 DEF FailAdds, Replies
  <2>3. DeliverReply(inBox, pkt.h, r) \in Maps(HTLCs, Replies)
    BY <1>1, <2>2, DeliverReplyFacts
  <2>4. cm' \in CircuitMaps /\ inBox' \in Maps(HTLCs, Replies)
    BY <1>1, <1>2, <1>4, <2>2, <2>3 DEF HandleFailedAdd
  <2>5. sw' \in Switches
    BY <1>1, <1>4 DEF HandleFailedAdd, Switches
  <2>. QED  BY <1>4, <2>4, <2>5 DEF HandleFailedAdd, Typed
<1>5. ASSUME AckPendingSettleFails PROVE Typed'
  BY <1>5 DEF AckPendingSettleFails, Typed, Switches, OutChTypes
<1>. QED  BY <1>3, <1>4, <1>5

\* The outgoing link takes Adds from its mailbox and signs for them.
LEMMA TypedOutgoing ==
    ASSUME Typed, \/ DownstreamAdd \/ DownstreamFailAdd \/ ExpireAdd
                  \/ SignOut \/ NoWindow \/ RevokeOut
    PROVE  Typed'
<1>1. /\ outBox \in OutBoxes /\ outLink \in OutLinks /\ sw \in Switches /\ outCh \in OutChTypes
      /\ outBox.pkts \in Seq(Adds) /\ outBox.head \in Index
  BY TypedFields DEF Typed
<1>2. ASSUME outBox.head <= Len(outBox.pkts)
      PROVE  outBox.head \in DOMAIN outBox.pkts /\ outBox.pkts[outBox.head] \in Adds
  BY <1>1, <1>2 DEF Index
<1>3. ASSUME DownstreamAdd PROVE Typed'
  <2>. DEFINE h == outBox.pkts[outBox.head].h
              index == NextOutIndex + Len(outLink.log)
              one == [i \in {index} |-> h]
              b == Overlay(outLink.batch, one)
  <2>1. /\ outBox.head <= Len(outBox.pkts) /\ outBox' = [outBox EXCEPT !.head = @ + 1]
        /\ outLink' = [outLink EXCEPT !.log = Append(@, h), !.batch = b]
        /\ UNCHANGED <<inCh, outCh, cm, sw, inBox, inLink>>
    BY <1>3 DEF DownstreamAdd
  <2>2. h \in HTLCs
    BY <1>2, <2>1 DEF Adds
  <2>3. index \in Index
    <3>1. Len(outCh.htlcs) \in Nat /\ Len(outLink.log) \in Nat
      BY TypedFields
    <3>2. \A a, c \in Nat : a + 1 + c \in Nat /\ a + 1 + c # 0
      OBVIOUS
    <3>. QED  BY <3>1, <3>2, Zenon DEF NextOutIndex, Index
  <2>4. one \in Maps(Index, HTLCs) /\ DOMAIN one = {index}
    <3>. HIDE DEF h, index
    <3>. QED  BY <2>2, <2>3, SingleFacts
  <2>. HIDE DEF one
  <2>5. b \in Maps(Index, HTLCs) /\ IsFiniteSet(DOMAIN b)
    <3>1. outLink.batch \in Maps(Index, HTLCs) /\ IsFiniteSet(DOMAIN outLink.batch)
      BY TypedFields
    <3>2. DOMAIN b = DOMAIN outLink.batch \cup DOMAIN one /\ b \in Maps(Index, HTLCs)
      BY <2>4, <3>1, OverlayFacts, Zenon
    <3>3. IsFiniteSet(DOMAIN outLink.batch \cup {index})
      BY <3>1, FS_AddElement
    <3>. QED  BY <3>2, <3>3, <2>4
  <2>6. outLink' \in OutLinks
    <3>. HIDE DEF h, b
    <3>1. Append(outLink.log, h) \in Seq(HTLCs)
      BY <2>2, TypedFields, AppendFacts
    <3>. QED  BY <1>1, <2>1, <2>5, <3>1 DEF OutLinks
  <2>7. outBox' \in OutBoxes
    BY <1>1, <2>1 DEF OutBoxes, Index
  <2>. QED  BY <2>1, <2>6, <2>7 DEF Typed
<1>4. ASSUME DownstreamFailAdd \/ ExpireAdd PROVE Typed'
  <2>. DEFINE pkt == outBox.pkts[outBox.head]
  <2>1. /\ outBox.head <= Len(outBox.pkts) /\ outBox' = AckPackets(outBox, {pkt.h})
        /\ sw' = [sw EXCEPT !.plex = @ \cup {FailAddPkt(pkt)}]
        /\ UNCHANGED <<inCh, outCh, cm, inBox, inLink, outLink>>
    BY <1>4 DEF DownstreamFailAdd, ExpireAdd
  <2>2. FailAddPkt(pkt) \in FailAdds
    BY <1>2, <2>1 DEF FailAddPkt, FailAdds, Adds
  <2>3. outBox' \in OutBoxes
    BY <1>1, <2>1, AckPacketsFacts
  <2>4. sw' \in Switches
    <3>. HIDE DEF pkt
    <3>. QED  BY <1>1, <2>1, <2>2 DEF Switches
  <2>. QED  BY <2>1, <2>3, <2>4 DEF Typed
<1>5. ASSUME SignOut PROVE Typed'
  <2>. DEFINE new == [k \in DOMAIN outLink.log |-> [h |-> outLink.log[k], fate |-> "live"]]
  <2>1. /\ outCh' = [outCh EXCEPT !.htlcs = @ \o new, !.window = FALSE]
        /\ outBox' = AckPackets(outBox, Range(outLink.log))
        /\ outLink' = [outLink EXCEPT !.log = << >>, !.signing = FALSE]
        /\ UNCHANGED <<inCh, cm, sw, inBox, inLink>>
    BY <1>5 DEF SignOut
  <2>2. new \in Seq(OutHtlcs)
    <3>1. outLink.log \in Seq(HTLCs)
      BY TypedFields
    <3>2. \A k \in DOMAIN outLink.log : [h |-> outLink.log[k], fate |-> "live"] \in OutHtlcs
      BY <3>1 DEF OutHtlcs, OutStates
    <3>3. Len(outLink.log) \in Nat /\ DOMAIN outLink.log = 1..Len(outLink.log)
      BY <3>1
    <3>4. new \in [1..Len(outLink.log) -> OutHtlcs]
      BY <3>2, <3>3
    <3>. HIDE DEF new
    <3>. QED  BY <3>3, <3>4, SeqFacts
  <2>. HIDE DEF new
  <2>3. outCh' \in OutChTypes
    <3>1. outCh.htlcs \o new \in Seq(OutHtlcs)
      BY <2>2, TypedFields, ConcatFacts
    <3>. QED  BY <1>1, <2>1, <3>1 DEF OutChTypes
  <2>4. outBox' \in OutBoxes
    BY <1>1, <2>1, AckPacketsFacts
  <2>5. outLink' \in OutLinks
    <3>1. << >> \in Seq(HTLCs)
      OBVIOUS
    <3>. QED  BY <1>1, <2>1, <3>1 DEF OutLinks
  <2>. QED  BY <2>1, <2>3, <2>4, <2>5 DEF Typed
<1>6. ASSUME NoWindow PROVE Typed'
  BY <1>1, <1>6 DEF NoWindow, OutLinks, Typed
<1>7. ASSUME RevokeOut PROVE Typed'
  BY <1>1, <1>7 DEF RevokeOut, OutChTypes, Typed
<1>. QED  BY <1>3, <1>4, <1>5, <1>6, <1>7

\* The outgoing peer claims or fails HTLCs.
LEMMA TypedPeer ==
    ASSUME Typed, \E i \in DOMAIN outCh.htlcs : RemoteFulfill(i) \/ LockInResponse(i)
    PROVE  Typed'
<1>1. /\ sw \in Switches /\ outCh \in OutChTypes /\ outCh.htlcs \in Seq(OutHtlcs)
  BY TypedFields DEF Typed
<1>. PICK i \in DOMAIN outCh.htlcs : RemoteFulfill(i) \/ LockInResponse(i)
  OBVIOUS
<1>2. i \in Index
  BY <1>1 DEF Index
<1>3. PICK f \in {"claimed", "settled", "failed"}, t \in {"settled", "failed"}, d \in BOOLEAN :
         /\ outCh' = [outCh EXCEPT !.htlcs[i].fate = f]
         /\ sw' = [sw EXCEPT !.plex = @ \cup {[type |-> t, out |-> i, dest |-> d]}]
         /\ UNCHANGED <<inCh, cm, inBox, outBox, inLink, outLink>>
  BY DEF RemoteFulfill, LockInResponse
<1>4. outCh' \in OutChTypes
  <2>. DEFINE hs == [outCh.htlcs EXCEPT ![i].fate = f]
  <2>1. hs \in Seq(OutHtlcs)
    <3>1. [outCh.htlcs[i] EXCEPT !.fate = f] \in OutHtlcs
      <4>1. outCh.htlcs[i] \in OutHtlcs
        BY <1>1
      <4>. QED  BY <4>1 DEF OutHtlcs, OutStates
    <3>2. hs = [outCh.htlcs EXCEPT ![i] = [outCh.htlcs[i] EXCEPT !.fate = f]]
      OBVIOUS
    <3>. HIDE DEF hs
    <3>. QED  BY <1>1, <3>1, <3>2
  <2>2. outCh' = [outCh EXCEPT !.htlcs = hs]
    BY <1>3
  <2>. HIDE DEF hs
  <2>. QED  BY <1>1, <2>1, <2>2 DEF OutChTypes
<1>5. sw' \in Switches
  <2>1. [type |-> t, out |-> i, dest |-> d] \in Responses
    BY <1>2 DEF Responses
  <2>. QED  BY <1>1, <1>3, <2>1 DEF Switches
<1>. QED  BY <1>3, <1>4, <1>5 DEF Typed

\* The incoming link answers HTLCs.
LEMMA TypedAnswers ==
    ASSUME Typed, \/ \E h \in HTLCs : DownstreamReply(h)
                  \/ SignIn \/ AckDownStreamPackets \/ RevokeIn
    PROVE  Typed'
<1>1. /\ inLink \in InLinks /\ inCh \in InChTypes /\ outCh \in OutChTypes /\ cm \in CircuitMaps
      /\ inBox \in Maps(HTLCs, Replies) /\ inLink.log \in Maps(HTLCs, LogReplies)
  BY TypedFields DEF Typed
<1>2. /\ inLink.log \in [DOMAIN inLink.log -> LogReplies] /\ DOMAIN inLink.log \subseteq HTLCs
  BY <1>1, MapsFacts
<1>3. ASSUME NEW h \in HTLCs, DownstreamReply(h) PROVE Typed'
  <2>. DEFINE r == [fate |-> inBox[h].fate, ref |-> inBox[h].ref, dest |-> inBox[h].dest,
                    circuit |-> TRUE]
              one == [x \in {h} |-> r]
  <2>1. /\ h \in DOMAIN inBox /\ inLink' = [inLink EXCEPT !.log = Overlay(@, one)]
        /\ UNCHANGED <<inCh, outCh, cm, sw, inBox, outBox, outLink>>
    BY <1>3 DEF DownstreamReply
  <2>2. r \in LogReplies
    <3>1. inBox \in [DOMAIN inBox -> Replies]
      BY <1>1, MapsFacts
    <3>2. inBox[h] \in Replies
      BY <3>1, <2>1
    <3>. QED  BY <3>2 DEF Replies, LogReplies
  <2>3. one \in Maps(HTLCs, LogReplies)
    <3>. HIDE DEF r
    <3>. QED  BY <2>2, SingleFacts
  <2>. HIDE DEF one
  <2>4. Overlay(inLink.log, one) \in Maps(HTLCs, LogReplies)
    BY <1>1, <2>3, OverlayFacts, Zenon
  <2>5. inLink' \in InLinks
    BY <1>1, <2>1, <2>4 DEF InLinks
  <2>. QED  BY <2>1, <2>5 DEF Typed
<1>4. ASSUME SignIn PROVE Typed'
  <2>. DEFINE log == inLink.log
              closed == {h \in DOMAIN log : log[h].circuit}
              refs == {log[h].ref : h \in DOMAIN log}
              ft == [h \in HTLCs |-> IF h \in DOMAIN log THEN log[h].fate ELSE inCh.fate[h]]
              df == [open |-> TRUE, circuits |-> closed]
              pk == [p \in DOMAIN Packages |->
                       [inCh.pkgs[p] EXCEPT !.ack = @ \cup {r.idx : r \in {x \in refs : x.pkg = p}}]]
              dests == {log[h].dest : h \in DOMAIN log}
  <2>1. /\ inCh' = AckAdds([inCh EXCEPT !.fate = ft, !.diff = df], refs)
        /\ outCh' = AckSettleFails(outCh, dests)
        /\ inLink' = [inLink EXCEPT !.log = << >>, !.acking = TRUE, !.closing = closed]
        /\ UNCHANGED <<cm, sw, inBox, outBox, outLink>>
    BY <1>4 DEF SignIn
  <2>2. inCh.pkgs \in [DOMAIN Packages -> PkgTypes] /\ inCh.fate \in [HTLCs -> Fates]
    BY TypedFields
  <2>3. inCh' = [inCh EXCEPT !.fate = ft, !.diff = df, !.pkgs = pk]
    <3>. DEFINE c == [inCh EXCEPT !.fate = ft, !.diff = df]
    <3>1. c.pkgs = inCh.pkgs /\ DOMAIN inCh.pkgs = DOMAIN Packages
      BY <1>1, <2>2 DEF InChTypes
    <3>2. inCh' = [c EXCEPT !.pkgs = pk]
      <4>1. inCh' = AckAdds(c, refs)
        BY <2>1
      <4>. HIDE DEF c, refs
      <4>2. AckAdds(c, refs) = [c EXCEPT !.pkgs = [p \in DOMAIN c.pkgs |->
               [c.pkgs[p] EXCEPT !.ack = @ \cup {r.idx : r \in {x \in refs : x.pkg = p}}]]]
        BY Zenon DEF AckAdds
      <4>. QED  BY <3>1, <4>1, <4>2
    <3>. HIDE DEF ft, df, pk
    <3>. QED  BY <3>2
  <2>4. \A h \in DOMAIN log : /\ log[h].fate \in {"settled", "failed"} /\ log[h].ref \in AddRefs
                              /\ log[h].dest \in Nat
    BY <1>2 DEF LogReplies
  <2>5. ft \in [HTLCs -> Fates]
    BY <2>2, <2>4 DEF Fates
  <2>6. df \in [open : BOOLEAN, circuits : SUBSET HTLCs] /\ closed \in SUBSET HTLCs
    BY <1>2
  <2>7. pk \in [DOMAIN Packages -> PkgTypes]
    <3>1. refs \subseteq AddRefs
      BY <2>4
    <3>2. \A r \in refs : r.idx \in Index
      <4>. HIDE DEF refs
      <4>. QED  BY <3>1 DEF AddRefs
    <3>. HIDE DEF refs
    <3>3. ASSUME NEW p \in DOMAIN Packages
          PROVE  [inCh.pkgs[p] EXCEPT !.ack = @ \cup {r.idx : r \in {x \in refs : x.pkg = p}}]
                    \in PkgTypes
      <4>1. inCh.pkgs[p] \in PkgTypes
        BY <2>2
      <4>2. {r.idx : r \in {x \in refs : x.pkg = p}} \subseteq Index
        BY <3>2
      <4>. QED  BY <4>1, <4>2 DEF PkgTypes
    <3>. QED  BY <3>3
  <2>. HIDE DEF ft, df, pk, closed, refs
  <2>8. inCh' \in InChTypes
    BY <1>1, <2>3, <2>5, <2>6, <2>7 DEF InChTypes
  <2>9. outCh' \in OutChTypes
    <3>1. dests \ {0} \subseteq Index
      BY <2>4 DEF Index
    <3>. HIDE DEF dests
    <3>. QED  BY <1>1, <2>1, <3>1 DEF AckSettleFails, OutChTypes
  <2>10. inLink' \in InLinks
    <3>1. << >> \in Maps(HTLCs, LogReplies)
      BY EmptyMap
    <3>. QED  BY <1>1, <2>1, <2>6, <3>1 DEF InLinks
  <2>. QED  BY <2>1, <2>8, <2>9, <2>10 DEF Typed
<1>5. ASSUME AckDownStreamPackets PROVE Typed'
  <2>1. cm' \in CircuitMaps
    BY <1>1, <1>5, DeleteFacts DEF AckDownStreamPackets
  <2>2. inBox' \in Maps(HTLCs, Replies)
    <3>1. inBox' = Without(inBox, inLink.closing)
      BY <1>5 DEF AckDownStreamPackets
    <3>2. Without(inBox, inLink.closing) \in Maps(HTLCs, Replies)
      BY <1>1, RestrictFacts, Zenon
    <3>. QED  BY <3>1, <3>2
  <2>3. inLink' \in InLinks
    BY <1>1, <1>5 DEF AckDownStreamPackets, InLinks
  <2>. QED  BY <1>5, <2>1, <2>2, <2>3 DEF AckDownStreamPackets, Typed
<1>6. ASSUME RevokeIn PROVE Typed'
  <2>1. inCh' = [inCh EXCEPT !.diff = [open |-> FALSE, circuits |-> {}]]
    BY <1>6 DEF RevokeIn, InitInCh
  <2>2. inCh' \in InChTypes
    BY <1>1, <2>1 DEF InChTypes
  <2>. QED  BY <1>6, <2>2 DEF RevokeIn, Typed
<1>. QED  BY <1>3, <1>4, <1>5, <1>6

\* The packages that the incoming link processes when it starts.
LEMMA UnresolvedFacts ==
    LET todo == SubsequenceAt([p \in DOMAIN Packages |-> p], UnresolvedPkgs) IN
    /\ todo \in Seq(DOMAIN Packages)
    /\ \A p : p \in UnresolvedPkgs <=> \E k \in DOMAIN todo : todo[k] = p
    /\ \A j, k \in DOMAIN todo : todo[j] = todo[k] => j = k
<1>. DEFINE s == [p \in DOMAIN Packages |-> p]
            D == DOMAIN Packages
            t == SubsequenceAt(s, UnresolvedPkgs)
<1>1. Len(Packages) \in Nat /\ D = 1..Len(Packages)
  BY PackageFacts
<1>2. s \in [1..Len(Packages) -> D] /\ DOMAIN s = D /\ \A p \in D : s[p] = p
  BY <1>1
<1>3. s \in Seq(D)
  <2>. HIDE DEF s, D
  <2>. QED  BY <1>1, <1>2, SeqFacts
<1>4. UnresolvedPkgs \in SUBSET DOMAIN s
  BY DEF UnresolvedPkgs
<1>. HIDE DEF s, D
<1>5. /\ t \in Seq(D)
      /\ \A k \in DOMAIN t : PlaceAt(UnresolvedPkgs, k) \in UnresolvedPkgs
                             /\ t[k] = s[PlaceAt(UnresolvedPkgs, k)]
      /\ \A i \in UnresolvedPkgs : Rank(UnresolvedPkgs, i) \in DOMAIN t
                                   /\ t[Rank(UnresolvedPkgs, i)] = s[i]
      /\ \A j, k \in DOMAIN t :
            PlaceAt(UnresolvedPkgs, j) = PlaceAt(UnresolvedPkgs, k) => j = k
  BY <1>3, <1>4, SubsequenceFacts
<1>. HIDE DEF t
<1>6. \A p \in UnresolvedPkgs : s[p] = p
  BY <1>2, <1>4
<1>7. ASSUME NEW p PROVE p \in UnresolvedPkgs <=> \E k \in DOMAIN t : t[k] = p
  BY <1>5, <1>6
<1>8. \A j, k \in DOMAIN t : t[j] = t[k] => j = k
  BY <1>5, <1>6
<1>. QED  BY <1>5, <1>7, <1>8 DEF t, s, D

\* Links stop and start, keystones are written and the daemon restarts.
LEMMA TypedRestarts ==
    ASSUME Typed, \/ InLinkDown \/ InLinkUp \/ OutLinkFlaps \/ OpenKeystones \/ OutLinkUp \/ Crash
    PROVE  Typed'
<1>1. /\ cm \in CircuitMaps /\ inBox \in Maps(HTLCs, Replies) /\ sw \in Switches
      /\ outBox \in OutBoxes /\ outLink \in OutLinks /\ sw.route \in Seq(Adds)
      /\ << >> \in Seq(Adds) /\ Len(sw.route) \in Nat
  BY TypedFields DEF Typed
<1>2. UnackedSettleFails \subseteq Responses /\ ResentFulfills \subseteq Responses
  <2>1. DOMAIN outCh.htlcs \subseteq Index
    BY TypedFields DEF Index
  <2>2. \A i \in DOMAIN outCh.htlcs : \A t \in {"settled", "failed"}, d \in BOOLEAN :
           [type |-> t, out |-> i, dest |-> d] \in Responses
    BY <2>1 DEF Responses
  <2>3. UnackedSettleFails \subseteq Responses
    BY <2>2 DEF UnackedSettleFails
  <2>4. ResentFulfills \subseteq Responses
    BY <2>2 DEF ResentFulfills
  <2>. QED  BY <2>3, <2>4
<1>3. ASSUME InLinkDown PROVE Typed'
  <2>1. PICK routed \in 0..Len(sw.route), accepted \in BOOLEAN :
           sw' = [sw EXCEPT !.route = SubSeq(@, 1, routed), !.icpt = IF accepted THEN @ ELSE << >>]
    BY <1>3 DEF InLinkDown
  <2>2. SubSeq(sw.route, 1, routed) \in Seq(Adds)
    BY <1>1
  <2>3. sw' \in Switches
    BY <1>1, <2>1, <2>2 DEF Switches
  <2>. QED  BY <1>3, <2>3, DownLinksTyped DEF InLinkDown, Typed
<1>4. ASSUME InLinkUp PROVE Typed'
  <2>. DEFINE todo == SubsequenceAt([p \in DOMAIN Packages |-> p], UnresolvedPkgs)
  <2>1. /\ inLink' = [DownInLink EXCEPT !.up = TRUE, !.todo = todo]
        /\ cm' = DeleteCircuits(cm, inCh.diff.circuits)
        /\ inBox' = Without(inBox, inCh.diff.circuits)
        /\ UNCHANGED <<inCh, outCh, sw, outBox, outLink>>
    BY <1>4 DEF InLinkUp
  <2>2. todo \in Seq(DOMAIN Packages)
    BY UnresolvedFacts
  <2>3. inLink' \in InLinks
    <3>. HIDE DEF todo
    <3>1. inLink' = [[DownInLink EXCEPT !.up = TRUE] EXCEPT !.todo = todo]
      BY <2>1 DEF DownInLink
    <3>. QED  BY <3>1, <2>2, DownLinksTyped DEF InLinks
  <2>4. cm' \in CircuitMaps
    BY <1>1, <2>1, DeleteFacts
  <2>5. Without(inBox, inCh.diff.circuits) \in Maps(HTLCs, Replies)
    BY <1>1, RestrictFacts, Zenon
  <2>. QED  BY <2>1, <2>3, <2>4, <2>5 DEF Typed
<1>5. ASSUME OutLinkDown PROVE Typed'
  <2>1. outBox' \in OutBoxes
    <3>1. outBox' = [outBox EXCEPT !.head = 1]
      BY <1>5 DEF OutLinkDown, ResetPackets
    <3>2. Len(outBox.pkts) \in Nat
      BY TypedFields
    <3>. QED  BY <1>1, <3>1, <3>2 DEF OutBoxes, Index
  <2>2. sw' \in Switches
    BY <1>1, <1>5 DEF OutLinkDown, Switches
  <2>. QED  BY <1>5, <2>1, <2>2, DownLinksTyped DEF OutLinkDown, Typed
<1>6. ASSUME OpenKeystones PROVE Typed'
  <2>1. CASE OutLinkDown
    BY <2>1, <1>5
  <2>2. CASE ~OutLinkDown
    <3>1. /\ cm' = OpenCircuits(cm, outLink.batch)
          /\ outLink' = [outLink EXCEPT !.batch = << >>, !.signing = TRUE]
          /\ UNCHANGED <<inCh, outCh, sw, inBox, outBox, inLink>>
      BY <1>6, <2>2 DEF OpenKeystones
    <3>2. cm' \in CircuitMaps
      BY <1>1, <3>1, TypedFields, OpenFacts
    <3>3. outLink' \in OutLinks
      <4>1. << >> \in Maps(Index, HTLCs) /\ IsFiniteSet(DOMAIN << >>)
        BY EmptyMap, FS_EmptySet
      <4>. QED  BY <1>1, <3>1, <4>1 DEF OutLinks
    <3>. QED  BY <3>1, <3>2, <3>3 DEF Typed
  <2>. QED  BY <2>1, <2>2
<1>7. ASSUME OutLinkUp PROVE Typed'
  <2>1. cm' \in CircuitMaps
    BY <1>1, <1>7, TrimFacts DEF OutLinkUp
  <2>2. sw' \in Switches
    BY <1>1, <1>2, <1>7 DEF OutLinkUp, Switches
  <2>. QED  BY <1>7, <2>1, <2>2, DownLinksTyped DEF OutLinkUp, Typed
<1>8. ASSUME Crash PROVE Typed'
  <2>1. cm' \in CircuitMaps
    <3>1. RestoreMemState(cm) \in CircuitMaps
      BY <1>1, RestoreFacts
    <3>2. TrimOpenCircuits(RestoreMemState(cm), NextOutIndex) \in CircuitMaps
      BY <3>1, TrimFacts
    <3>. QED  BY <1>8, <3>2 DEF Crash, NewCircuitMap
  <2>2. sw' \in Switches
    <3>1. sw' = [icpt |-> << >>, route |-> << >>, plex |-> UnackedSettleFails,
                 pendingSettleFails |-> {}]
      BY <1>8 DEF Crash, InitSwitch
    <3>. QED  BY <1>1, <1>2, <3>1 DEF Switches
  <2>3. inBox' \in Maps(HTLCs, Replies)
    BY <1>8, EmptyMap DEF Crash
  <2>4. outBox' \in OutBoxes
    BY <1>1, <1>8 DEF Crash, EmptyOutBox, OutBoxes, Index
  <2>. QED  BY <1>8, <2>1, <2>2, <2>3, <2>4, DownLinksTyped DEF Crash, Typed
<1>. QED  BY <1>3, <1>4, <1>5, <1>6, <1>7, <1>8 DEF OutLinkFlaps

\* The types are kept by every step.
LEMMA TypedNext ==
    ASSUME Typed, CircuitsOK, [Next]_vars
    PROVE  Typed'
<1>1. CASE Forwarding
  BY <1>1, TypedIncoming, TypedSwitch, TypedOutgoing, TypedRestarts DEF Forwarding
<1>2. CASE Answering
  <2>1. CASE \E i \in DOMAIN outCh.htlcs : RemoteFulfill(i) \/ LockInResponse(i)
    BY <2>1, TypedPeer
  <2>2. CASE \/ \E pkt \in sw.plex : HandleResponse(pkt) \/ HandleFailedAdd(pkt)
             \/ AckPendingSettleFails
    BY <2>2, TypedResponses
  <2>3. CASE \/ \E h \in HTLCs : DownstreamReply(h)
             \/ SignIn \/ AckDownStreamPackets \/ RevokeIn
    BY <2>3, TypedAnswers
  <2>. QED  BY <1>2, <2>1, <2>2, <2>3 DEF Answering
<1>3. CASE InLinkUp \/ OutLinkUp
  BY <1>3, TypedRestarts
<1>4. CASE Faults
  BY <1>4, TypedSwitch, TypedOutgoing, TypedRestarts DEF Faults
<1>5. CASE UNCHANGED vars
  BY <1>5 DEF vars, Typed
<1>. QED  BY <1>1, <1>2, <1>3, <1>4, <1>5 DEF Next

-----------------------------------------------------------------------------
(* Every action keeps the invariant.                                      *)

\* No commitment can be signed.
LEMMA StepNoWindow ==
    ASSUME IInv, Typed', NoWindow
    PROVE  IInv'
<1>. USE DEF IInv
<1>1. outLink' = [outLink EXCEPT !.signing = FALSE] /\ outLink'.log = outLink.log
          /\ outLink'.batch = outLink.batch /\ outLink'.up /\ outLink.up /\ ~outLink'.signing
      /\ UNCHANGED <<inCh, outCh, cm, sw, inBox, outBox, inLink>>
  BY DEF NoWindow, Typed, OutLinks
<1>RefsOK. RefsOK'
  BY <1>1 DEF RefsOK
<1>OutLinkOK. OutLinkOK'
  BY <1>1 DEF OutLinkOK
<1>KeysOK. KeysOK'
  BY <1>1 DEF KeysOK, Numbered, NextOutIndex
<1>CircuitsOK. CircuitsOK'
  BY <1>1 DEF CircuitsOK
<1>SentOK. SentOK'
  BY <1>1 DEF SentOK
<1>PlaceOK. PlaceOK'
  BY <1>1 DEF PlaceOK, OnWay, Committed, Failing, Named
<1>IcptOK. IcptOK'
  BY <1>1 DEF IcptOK, PkgOf, Named
<1>PkgsOK. PkgsOK'
  BY <1>1 DEF PkgsOK, PkgOf, Answered
<1>InLinkOK. InLinkOK'
  BY <1>1 DEF InLinkOK, Answered
<1>RepliesOK. RepliesOK'
  BY <1>1 DEF RepliesOK, Backed, Dead, OnWay, Committed, Named
<1>ResponsesOK. ResponsesOK'
  BY <1>1 DEF ResponsesOK, Answered
<1>. QED  BY <1>RefsOK, <1>OutLinkOK, <1>KeysOK, <1>CircuitsOK, <1>SentOK, <1>PlaceOK,
        <1>IcptOK, <1>PkgsOK, <1>InLinkOK, <1>RepliesOK, <1>ResponsesOK

\* A revocation of the incoming peer.
LEMMA StepRevokeIn ==
    ASSUME IInv, Typed', RevokeIn
    PROVE  IInv'
<1>. USE DEF IInv
<1>1. inCh'.fate = inCh.fate /\ inCh'.pkgs = inCh.pkgs /\ inCh'.diff.circuits = {}
          /\ inLink.up /\ ~inLink.acking
      /\ UNCHANGED <<outCh, cm, sw, inBox, outBox, inLink, outLink>>
  BY DEF RevokeIn, Typed, InChTypes, InitInCh
<1>RefsOK. RefsOK'
  BY <1>1 DEF RefsOK
<1>OutLinkOK. OutLinkOK'
  BY <1>1 DEF OutLinkOK
<1>KeysOK. KeysOK'
  BY <1>1 DEF KeysOK, Numbered, NextOutIndex
<1>CircuitsOK. CircuitsOK'
  BY <1>1 DEF CircuitsOK
<1>SentOK. SentOK'
  BY <1>1 DEF SentOK
<1>PlaceOK. PlaceOK'
  BY <1>1 DEF PlaceOK, OnWay, Committed, Failing, Named
<1>IcptOK. IcptOK'
  BY <1>1 DEF IcptOK, PkgOf, Named
<1>PkgsOK. PkgsOK'
  BY <1>1 DEF PkgsOK, PkgOf, Answered
<1>InLinkOK. InLinkOK'
  BY <1>1 DEF InLinkOK, Answered
<1>RepliesOK. RepliesOK'
  BY <1>1 DEF RepliesOK, Backed, Dead, OnWay, Committed, Named
<1>ResponsesOK. ResponsesOK'
  BY <1>1 DEF ResponsesOK, Answered
<1>. QED  BY <1>RefsOK, <1>OutLinkOK, <1>KeysOK, <1>CircuitsOK, <1>SentOK, <1>PlaceOK,
        <1>IcptOK, <1>PkgsOK, <1>InLinkOK, <1>RepliesOK, <1>ResponsesOK

\* Responses without circuit are acknowledged.
LEMMA StepAckPending ==
    ASSUME IInv, Typed', AckPendingSettleFails
    PROVE  IInv'
<1>. USE DEF IInv
<1>1. outCh'.htlcs = outCh.htlcs /\ outCh'.acked = outCh.acked \cup sw.pendingSettleFails
          /\ sw'.icpt = sw.icpt /\ sw'.route = sw.route /\ sw'.plex = sw.plex
          /\ sw'.pendingSettleFails = {}
      /\ UNCHANGED <<inCh, cm, inBox, outBox, inLink, outLink>>
  BY DEF AckPendingSettleFails, Typed, OutChTypes, Switches
<1>RefsOK. RefsOK'
  BY <1>1 DEF RefsOK
<1>OutLinkOK. OutLinkOK'
  BY <1>1 DEF OutLinkOK
<1>KeysOK. KeysOK'
  BY <1>1 DEF KeysOK, Numbered, NextOutIndex
<1>CircuitsOK. CircuitsOK'
  BY <1>1 DEF CircuitsOK
<1>SentOK. SentOK'
  BY <1>1 DEF SentOK
<1>PlaceOK. PlaceOK'
  <2>1. OnWay' = OnWay /\ Committed' = Committed /\ Failing' = Failing
    BY <1>1 DEF OnWay, Committed, Failing, Named
  <2>. QED  BY <1>1, <2>1 DEF PlaceOK
<1>IcptOK. IcptOK'
  BY <1>1 DEF IcptOK, PkgOf, Named
<1>PkgsOK. PkgsOK'
  BY <1>1 DEF PkgsOK, PkgOf, Answered
<1>InLinkOK. InLinkOK'
  BY <1>1 DEF InLinkOK, Answered
<1>RepliesOK. RepliesOK'
  BY <1>1 DEF RepliesOK, Backed, Dead, OnWay, Committed, Named
<1>ResponsesOK. ResponsesOK'
  BY <1>1 DEF ResponsesOK, Answered
<1>. QED  BY <1>RefsOK, <1>OutLinkOK, <1>KeysOK, <1>CircuitsOK, <1>SentOK, <1>PlaceOK,
        <1>IcptOK, <1>PkgsOK, <1>InLinkOK, <1>RepliesOK, <1>ResponsesOK

\* The Add that the switch routes next, and the others.
LEMMA RouteFirst ==
    ASSUME IInv, sw.route # << >>
    PROVE  LET first == Head(sw.route)
               rest == Tail(sw.route)
           IN
           /\ first = sw.route[1] /\ first \in Adds /\ 1 \in DOMAIN sw.route
           /\ \A k \in DOMAIN rest : k + 1 \in DOMAIN sw.route /\ rest[k] = sw.route[k + 1]
           /\ \A j, k \in DOMAIN rest : rest[j].h = rest[k].h => j = k
           /\ Named(sw.route) = Named(rest) \cup {first.h} /\ first.h \notin Named(rest)
           /\ sw.icpt = << >>
<1>. DEFINE first == Head(sw.route)
            rest == Tail(sw.route)
            n == Len(sw.route)
<1>1. sw.route \in Seq(Adds) /\ sw.icpt = << >>
      /\ \A j, k \in DOMAIN sw.route : sw.route[j].h = sw.route[k].h => j = k
  BY TypedFields DEF IInv, PlaceOK
<1>2. /\ first \in Adds /\ first = sw.route[1] /\ n \in Nat /\ n >= 1
      /\ rest \in Seq(Adds) /\ Len(rest) = n - 1
      /\ \A k \in 1..n - 1 : rest[k] = sw.route[k + 1]
  BY <1>1, HeadTail
<1>3. DOMAIN sw.route = 1..n /\ DOMAIN rest = 1..n - 1
  BY <1>1, <1>2
<1>. HIDE DEF first, rest, n
<1>4. /\ 1 \in DOMAIN sw.route
      /\ \A k \in DOMAIN rest : k \in Nat /\ k + 1 \in DOMAIN sw.route /\ k + 1 # 1
                                /\ rest[k] = sw.route[k + 1]
  BY <1>2, <1>3
<1>5. \A k \in DOMAIN sw.route : k = 1 \/ (k - 1 \in DOMAIN rest /\ rest[k - 1] = sw.route[k])
  BY <1>2, <1>3
<1>6. \A j, k \in DOMAIN rest : rest[j].h = rest[k].h => j = k
  <2>. SUFFICES ASSUME NEW j \in DOMAIN rest, NEW k \in DOMAIN rest, rest[j].h = rest[k].h
                PROVE  j = k
    OBVIOUS
  <2>1. j + 1 = k + 1
    BY <1>1, <1>4
  <2>. QED  BY <1>4, <2>1
<1>7. first.h \notin Named(rest)
  BY <1>1, <1>2, <1>4 DEF Named
<1>8. Named(sw.route) = Named(rest) \cup {first.h}
  <2>1. ASSUME NEW x \in Named(sw.route) PROVE x \in Named(rest) \cup {first.h}
    <3>1. PICK k \in DOMAIN sw.route : x = sw.route[k].h
      BY DEF Named
    <3>. QED  BY <1>2, <1>5, <3>1 DEF Named
  <2>2. ASSUME NEW x \in Named(rest) PROVE x \in Named(sw.route)
    <3>1. PICK k \in DOMAIN rest : x = rest[k].h
      BY DEF Named
    <3>2. k + 1 \in DOMAIN sw.route /\ x = sw.route[k + 1].h
      BY <1>4, <3>1
    <3>. QED  BY <3>2 DEF Named
  <2>3. first.h \in Named(sw.route)
    BY <1>2, <1>4 DEF Named
  <2>. QED  BY <2>1, <2>2, <2>3
<1>. QED  BY <1>1, <1>2, <1>4, <1>6, <1>7, <1>8 DEF first, rest

\* A revocation of the outgoing peer.
LEMMA StepRevokeOut ==
    ASSUME IInv, Typed', RevokeOut
    PROVE  IInv'
<1>. USE DEF IInv
<1>1. outCh' = [outCh EXCEPT !.window = TRUE] /\ outCh'.htlcs = outCh.htlcs
          /\ outCh'.acked = outCh.acked
      /\ UNCHANGED <<inCh, cm, sw, inBox, outBox, inLink, outLink>>
  BY DEF RevokeOut, Typed, OutChTypes
<1>RefsOK. RefsOK'
  BY <1>1 DEF RefsOK
<1>OutLinkOK. OutLinkOK'
  BY <1>1 DEF OutLinkOK
<1>KeysOK. KeysOK'
  BY <1>1 DEF KeysOK, Numbered, NextOutIndex
<1>CircuitsOK. CircuitsOK'
  BY <1>1 DEF CircuitsOK
<1>SentOK. SentOK'
  BY <1>1 DEF SentOK
<1>PlaceOK. PlaceOK'
  <2>1. OnWay' = OnWay /\ Committed' = Committed /\ Failing' = Failing
    BY <1>1 DEF OnWay, Committed, Failing, Named
  <2>. QED  BY <1>1, <2>1 DEF PlaceOK
<1>IcptOK. IcptOK'
  BY <1>1 DEF IcptOK, PkgOf, Named
<1>PkgsOK. PkgsOK'
  BY <1>1 DEF PkgsOK, PkgOf, Answered
<1>InLinkOK. InLinkOK'
  BY <1>1 DEF InLinkOK, Answered
<1>RepliesOK. RepliesOK'
  BY <1>1 DEF RepliesOK, Backed, Dead, OnWay, Committed, Named
<1>ResponsesOK. ResponsesOK'
  BY <1>1 DEF ResponsesOK, Answered
<1>. QED  BY <1>RefsOK, <1>OutLinkOK, <1>KeysOK, <1>CircuitsOK, <1>SentOK, <1>PlaceOK,
        <1>IcptOK, <1>PkgsOK, <1>InLinkOK, <1>RepliesOK, <1>ResponsesOK

\* An Add reaches the mailbox of the outgoing link.
LEMMA StepRouteAdd ==
    ASSUME IInv, Typed', RouteAdd
    PROVE  IInv'
<1>. USE DEF IInv
<1>1. /\ sw.route # << >> /\ sw'.route = Tail(sw.route) /\ sw'.icpt = sw.icpt /\ sw'.plex = sw.plex
      /\ sw'.pendingSettleFails = sw.pendingSettleFails
      /\ outBox' = AddPacket(outBox, Head(sw.route))
      /\ UNCHANGED <<inCh, outCh, cm, inBox, inLink, outLink>>
  BY DEF RouteAdd, Typed, Switches
<1>. DEFINE pkt == Head(sw.route)
            rest == Tail(sw.route)
<1>2. /\ pkt = sw.route[1] /\ pkt \in Adds /\ 1 \in DOMAIN sw.route /\ sw.icpt = << >>
      /\ \A k \in DOMAIN rest : k + 1 \in DOMAIN sw.route /\ rest[k] = sw.route[k + 1]
      /\ \A j, k \in DOMAIN rest : rest[j].h = rest[k].h => j = k
      /\ Named(sw.route) = Named(rest) \cup {pkt.h} /\ pkt.h \notin Named(rest)
  BY <1>1, RouteFirst
<1>0. sw'.route = rest
  BY <1>1
<1>. HIDE DEF pkt, rest
<1>3. pkt \notin Range(outBox.pkts)
  <2>1. pkt.h \notin Named(outBox.pkts)
    BY <1>2 DEF PlaceOK
  <2>. QED  BY <2>1 DEF Named, Range
<1>4. /\ outBox'.head = outBox.head /\ outBox.pkts \in Seq(Adds)
      /\ outBox'.pkts = Append(outBox.pkts, pkt) /\ Len(outBox'.pkts) = Len(outBox.pkts) + 1
      /\ DOMAIN outBox'.pkts = DOMAIN outBox.pkts \cup {Len(outBox.pkts) + 1}
      /\ \A k \in DOMAIN outBox.pkts : outBox'.pkts[k] = outBox.pkts[k]
      /\ outBox'.pkts[Len(outBox.pkts) + 1] = pkt
  <2>1. outBox \in [pkts : Seq(Adds), head : Index]
            /\ outBox' = [outBox EXCEPT !.pkts = Append(@, pkt)]
    BY <1>1, <1>3 DEF AddPacket, pkt, Typed, OutBoxes
  <2>. QED  BY <1>2, <2>1
<1>RefsOK. RefsOK'
  <2>1. pkt.ref = RefOf(pkt.h)
    BY <1>2 DEF RefsOK
  <2>2. \A k \in DOMAIN rest : rest[k].ref = RefOf(rest[k].h)
    BY <1>2 DEF RefsOK
  <2>. QED  BY <1>0, <1>1, <1>2, <1>4, <2>1, <2>2 DEF RefsOK
<1>OutLinkOK. OutLinkOK'
  <2>1. \A k \in DOMAIN outBox.pkts : outBox.pkts[k].h # pkt.h
    BY <1>2 DEF PlaceOK, Named
  <2>2. \A k \in DOMAIN outLink.log : k \in DOMAIN outBox.pkts
    <3>1. outLink.log \in Seq(HTLCs) /\ Len(outLink.log) = outBox.head - 1
          /\ outBox.head <= Len(outBox.pkts) + 1 /\ outBox.head \in Nat /\ outBox.pkts \in Seq(Adds)
      BY TypedFields DEF OutLinkOK, Index
    <3>. QED  BY <3>1
  <2>. QED  BY <1>1, <1>4, <2>1, <2>2 DEF OutLinkOK
<1>KeysOK. KeysOK'
  BY <1>1 DEF KeysOK, Numbered, NextOutIndex
<1>CircuitsOK. CircuitsOK'
  BY <1>1 DEF CircuitsOK
<1>SentOK. SentOK'
  BY <1>1 DEF SentOK
<1>PlaceOK. PlaceOK'
  <2>1. OnWay' = OnWay /\ Committed' = Committed /\ Failing' = Failing
    <3>1. Named(sw.route)' = Named(rest) /\ Named(outBox.pkts)' = Named(outBox.pkts) \cup {pkt.h}
      BY <1>0, <1>4 DEF Named
    <3>2. Committed' = Committed /\ Failing' = Failing
      BY <1>1 DEF Committed, Failing, Named
    <3>. QED  BY <1>2, <3>1, <3>2 DEF OnWay
  <2>2. Named(sw.route)' \cap Named(outBox.pkts)' = {}
    <3>1. Named(sw.route)' = Named(rest) /\ Named(outBox.pkts)' = Named(outBox.pkts) \cup {pkt.h}
      BY <1>0, <1>4 DEF Named
    <3>. QED  BY <1>2, <3>1 DEF PlaceOK
  <2>3. \A j, k \in DOMAIN sw'.route : sw'.route[j].h = sw'.route[k].h => j = k
    BY <1>0, <1>2
  <2>. QED  BY <1>1, <1>2, <2>1, <2>2, <2>3 DEF PlaceOK
<1>IcptOK. IcptOK'
  BY <1>1 DEF IcptOK, PkgOf, Named
<1>PkgsOK. PkgsOK'
  BY <1>1 DEF PkgsOK, PkgOf, Answered
<1>InLinkOK. InLinkOK'
  BY <1>1 DEF InLinkOK, Answered
<1>RepliesOK. RepliesOK'
  <2>1. OnWay' = OnWay /\ Committed' = Committed
    <3>1. Named(sw.route)' = Named(rest) /\ Named(outBox.pkts)' = Named(outBox.pkts) \cup {pkt.h}
      BY <1>0, <1>4 DEF Named
    <3>2. Committed' = Committed
      BY <1>1 DEF Committed, Named
    <3>. QED  BY <1>2, <3>1, <3>2 DEF OnWay
  <2>. QED  BY <1>1, <2>1 DEF RepliesOK, Backed, Dead
<1>ResponsesOK. ResponsesOK'
  BY <1>1 DEF ResponsesOK, Answered
<1>. QED  BY <1>RefsOK, <1>OutLinkOK, <1>KeysOK, <1>CircuitsOK, <1>SentOK, <1>PlaceOK,
        <1>IcptOK, <1>PkgsOK, <1>InLinkOK, <1>RepliesOK, <1>ResponsesOK

\* The switch fails an Add it cannot route.
LEMMA StepRejectAdd ==
    ASSUME IInv, Typed', RejectAdd
    PROVE  IInv'
<1>. USE DEF IInv
<1>1. /\ sw.route # << >> /\ sw'.route = Tail(sw.route) /\ sw'.icpt = sw.icpt /\ sw'.plex = sw.plex
      /\ sw'.pendingSettleFails = sw.pendingSettleFails
      /\ inBox' = FailAddPackets(inBox, [h \in {Head(sw.route).h} |-> Head(sw.route).ref])
      /\ UNCHANGED <<inCh, outCh, cm, outBox, inLink, outLink>>
  BY DEF RejectAdd, Typed, Switches
<1>. DEFINE rest == Tail(sw.route)
<1>2. PICK pkt \in Adds :
         /\ pkt = sw.route[1] /\ pkt = Head(sw.route) /\ 1 \in DOMAIN sw.route /\ sw.icpt = << >>
         /\ \A k \in DOMAIN rest : k + 1 \in DOMAIN sw.route /\ rest[k] = sw.route[k + 1]
         /\ \A j, k \in DOMAIN rest : rest[j].h = rest[k].h => j = k
         /\ Named(sw.route) = Named(rest) \cup {pkt.h} /\ pkt.h \notin Named(rest)
  BY <1>1, RouteFirst
<1>0. sw'.route = rest
  BY <1>1
<1>. HIDE DEF rest
<1>. DEFINE refs == [h \in {pkt.h} |-> pkt.ref]
<1>3. /\ DOMAIN inBox' = DOMAIN inBox \cup {pkt.h} /\ \A x \in DOMAIN inBox : inBox'[x] = inBox[x]
      /\ inBox'[pkt.h] = [fate |-> "failed", ref |-> pkt.ref, dest |-> 0]
  <2>1. inBox \in Maps(HTLCs, Replies) /\ refs \in Maps(HTLCs, AddRefs) /\ DOMAIN refs = {pkt.h}
    <3>1. pkt.h \in HTLCs /\ pkt.ref \in AddRefs
      BY <1>2 DEF Adds
    <3>. QED  BY <3>1, SingleFacts DEF Typed
  <2>2. refs[pkt.h] = pkt.ref /\ pkt.h \notin DOMAIN inBox
    BY <1>2 DEF PlaceOK, OnWay
  <2>3. inBox' = FailAddPackets(inBox, refs)
    BY <1>1, <1>2
  <2>. HIDE DEF refs
  <2>. QED  BY <2>1, <2>2, <2>3, FailAddFacts
<1>4. /\ pkt.h \in HTLCs /\ pkt.h \notin Named(outBox.pkts) /\ pkt.h \notin Committed
      /\ pkt.h \in DOMAIN cm.pending /\ inCh.fate[pkt.h] = "live"
  BY <1>2 DEF PlaceOK, OnWay, Adds
<1>5. OnWay' = OnWay \ {pkt.h} /\ Committed' = Committed /\ Failing' = Failing
  <2>1. Named(sw.route)' = Named(rest)
    BY <1>0 DEF Named
  <2>2. Named(outBox.pkts)' = Named(outBox.pkts) /\ Committed' = Committed /\ Failing' = Failing
    BY <1>1 DEF Committed, Failing, Named
  <2>. QED  BY <1>2, <1>4, <2>1, <2>2 DEF OnWay
<1>RefsOK. RefsOK'
  <2>1. \A k \in DOMAIN rest : rest[k].ref = RefOf(rest[k].h)
    BY <1>2 DEF RefsOK
  <2>. QED  BY <1>0, <1>1, <2>1 DEF RefsOK
<1>OutLinkOK. OutLinkOK'
  BY <1>1 DEF OutLinkOK
<1>KeysOK. KeysOK'
  BY <1>1 DEF KeysOK, Numbered, NextOutIndex
<1>CircuitsOK. CircuitsOK'
  BY <1>1 DEF CircuitsOK
<1>SentOK. SentOK'
  BY <1>1 DEF SentOK
<1>PlaceOK. PlaceOK'
  <2>1. \A j, k \in DOMAIN sw'.route : sw'.route[j].h = sw'.route[k].h => j = k
    BY <1>0, <1>2
  <2>2. Named(sw.route)' = Named(rest) /\ Named(outBox.pkts)' = Named(outBox.pkts)
    BY <1>0, <1>1 DEF Named
  <2>. QED  BY <1>1, <1>2, <1>3, <1>5, <2>1, <2>2 DEF PlaceOK
<1>IcptOK. IcptOK'
  BY <1>1, <1>2, EmptyLen DEF IcptOK, Named
<1>PkgsOK. PkgsOK'
  <2>1. PkgOf(pkt.h).state = "Processed"
    BY <1>4 DEF PkgsOK
  <2>. QED  BY <1>1, <1>3, <2>1 DEF PkgsOK, PkgOf, Answered
<1>InLinkOK. InLinkOK'
  BY <1>1 DEF InLinkOK, Answered
<1>RepliesOK. RepliesOK'
  <2>1. \A h \in DOMAIN inBox \cup DOMAIN inLink.log : \A r : Backed(h, r) => Backed(h, r)'
    BY <1>1, <1>5 DEF Backed, Dead
  <2>2. Backed(pkt.h, [fate |-> "failed", ref |-> pkt.ref, dest |-> 0])'
    <3>1. pkt.ref = RefOf(pkt.h)
      BY <1>2 DEF RefsOK
    <3>. QED  BY <1>4, <1>5, <3>1 DEF Backed, Dead
  <2>. QED  BY <1>1, <1>3, <1>4, <2>1, <2>2 DEF RepliesOK
<1>ResponsesOK. ResponsesOK'
  BY <1>1 DEF ResponsesOK, Answered
<1>. QED  BY <1>RefsOK, <1>OutLinkOK, <1>KeysOK, <1>CircuitsOK, <1>SentOK, <1>PlaceOK,
        <1>IcptOK, <1>PkgsOK, <1>InLinkOK, <1>RepliesOK, <1>ResponsesOK

\* The circuit of an Add that the outgoing mailbox failed.
LEMMA StepFailedAdd ==
    ASSUME IInv, Typed', NEW pkt \in sw.plex, HandleFailedAdd(pkt)
    PROVE  IInv'
<1>. USE DEF IInv
<1>1. /\ sw'.route = sw.route /\ sw'.icpt = sw.icpt /\ sw'.plex = sw.plex \ {pkt}
      /\ sw'.pendingSettleFails = sw.pendingSettleFails /\ pkt \in FailAdds
      /\ UNCHANGED <<inCh, outCh, outBox, inLink, outLink>>
  BY DEF HandleFailedAdd, Typed, Switches, Responses
<1>2. /\ DOMAIN inBox \subseteq DOMAIN inBox' /\ \A x \in DOMAIN inBox : inBox'[x] = inBox[x]
      /\ \A x \in DOMAIN inBox' \ DOMAIN inBox :
            /\ x = pkt.h /\ pkt.h \in DOMAIN cm.pending
            /\ inBox'[x] = [fate |-> "failed", ref |-> pkt.ref, dest |-> 0]
  <2>. DEFINE r == [fate |-> "failed", ref |-> pkt.ref, dest |-> 0]
  <2>1. r \in Replies /\ pkt.h \in HTLCs /\ inBox \in Maps(HTLCs, Replies)
    BY <1>1 DEF Replies, FailAdds, Typed
  <2>2. \/ inBox' = inBox
        \/ pkt.h \in DOMAIN cm.pending /\ inBox' = DeliverReply(inBox, pkt.h, r)
    BY DEF HandleFailedAdd, LookupCircuit
  <2>. HIDE DEF r
  <2>3. /\ DOMAIN DeliverReply(inBox, pkt.h, r) = DOMAIN inBox \cup {pkt.h}
        /\ \A x \in DOMAIN inBox : DeliverReply(inBox, pkt.h, r)[x] = inBox[x]
        /\ pkt.h \notin DOMAIN inBox => DeliverReply(inBox, pkt.h, r)[pkt.h] = r
    BY <2>1, DeliverReplyFacts
  <2>. QED  BY <2>2, <2>3 DEF r
<1>3. /\ cm'.adds = cm.adds /\ cm'.keys = cm.keys /\ cm'.pending = cm.pending
      /\ cm'.opened = cm.opened
      /\ pkt.h \in HTLCs
  BY <1>1 DEF HandleFailedAdd, CloseCircuit, Typed, CircuitMaps, FailAdds
<1>4. /\ pkt.h \in Failing /\ pkt.h \notin OnWay /\ pkt.h \notin Committed
      /\ inCh.fate[pkt.h] # "none"
  BY <1>1 DEF PlaceOK, Failing
<1>5. OnWay' = OnWay /\ Committed' = Committed /\ Failing' \subseteq Failing
  BY <1>1 DEF OnWay, Committed, Failing, Named
<1>RefsOK. RefsOK'
  BY <1>1 DEF RefsOK
<1>OutLinkOK. OutLinkOK'
  BY <1>1 DEF OutLinkOK
<1>KeysOK. KeysOK'
  BY <1>1, <1>3 DEF KeysOK, Numbered, NextOutIndex
<1>CircuitsOK. CircuitsOK'
  BY <1>1, <1>3 DEF CircuitsOK
<1>SentOK. SentOK'
  BY <1>1, <1>3 DEF SentOK
<1>PlaceOK. PlaceOK'
  BY <1>1, <1>2, <1>3, <1>4, <1>5 DEF PlaceOK
<1>IcptOK. IcptOK'
  BY <1>1, <1>2, <1>3 DEF IcptOK, PkgOf, Named
<1>PkgsOK. PkgsOK'
  <2>1. pkt.h \in DOMAIN cm.pending => PkgOf(pkt.h).state = "Processed"
    BY <1>3 DEF PkgsOK
  <2>. QED  BY <1>1, <1>2, <1>3, <2>1 DEF PkgsOK, PkgOf, Answered
<1>InLinkOK. InLinkOK'
  BY <1>1, <1>3 DEF InLinkOK, Answered
<1>RepliesOK. RepliesOK'
  <2>1. \A h \in DOMAIN inBox \cup DOMAIN inLink.log : \A r : Backed(h, r) => Backed(h, r)'
    BY <1>1, <1>5 DEF Backed, Dead
  <2>2. Backed(pkt.h, [fate |-> "failed", ref |-> pkt.ref, dest |-> 0])'
    <3>1. pkt.ref = RefOf(pkt.h)
      BY <1>1 DEF RefsOK
    <3>. QED  BY <1>4, <1>5, <3>1 DEF Backed, Dead
  <2>. QED  BY <1>1, <1>2, <1>3, <1>4, <2>1, <2>2 DEF RepliesOK
<1>ResponsesOK. ResponsesOK'
  BY <1>1 DEF ResponsesOK, Answered
<1>. QED  BY <1>RefsOK, <1>OutLinkOK, <1>KeysOK, <1>CircuitsOK, <1>SentOK, <1>PlaceOK,
        <1>IcptOK, <1>PkgsOK, <1>InLinkOK, <1>RepliesOK, <1>ResponsesOK

\* A response of the outgoing peer closes its circuit.
LEMMA StepResponse ==
    ASSUME IInv, Typed', NEW pkt \in sw.plex, HandleResponse(pkt)
    PROVE  IInv'
<1>. USE DEF IInv
<1>1. /\ sw'.route = sw.route /\ sw'.icpt = sw.icpt /\ sw'.plex = sw.plex \ {pkt}
      /\ pkt \in Responses
      /\ UNCHANGED <<inCh, outCh, outBox, inLink, outLink>>
  BY DEF HandleResponse, Typed, Switches, FailAdds
<1>2. /\ cm'.adds = cm.adds /\ cm'.keys = cm.keys /\ cm'.pending = cm.pending
      /\ cm'.opened = cm.opened
  BY DEF HandleResponse, CloseCircuit, Typed, CircuitMaps
<1>3. \A i \in sw'.pendingSettleFails \ sw.pendingSettleFails :
         i = pkt.out /\ pkt.out \notin DOMAIN cm.opened
  <2>1. CASE pkt.out \notin DOMAIN cm.opened
    <3>1. sw' = [sw EXCEPT !.plex = @ \ {pkt},
                           !.pendingSettleFails = @ \cup {i \in {pkt.out} : pkt.dest}]
      BY <2>1 DEF HandleResponse
    <3>. QED  BY <2>1, <3>1 DEF Typed, Switches
  <2>2. CASE pkt.out \in DOMAIN cm.opened
    <3>1. sw' = [sw EXCEPT !.plex = @ \ {pkt}]
      BY <2>2 DEF HandleResponse
    <3>. QED  BY <3>1 DEF Typed, Switches
  <2>. QED  BY <2>1, <2>2
\* The HTLC that the response answers.
<1>4. PICK g \in HTLCs :
         /\ pkt.out \in DOMAIN outCh.htlcs /\ outCh.htlcs[pkt.out].h = g /\ g \in Committed
         /\ inCh.fate[g] # "none" /\ g \notin OnWay /\ g \notin Failing
         /\ pkt.out \in DOMAIN cm.opened => cm.opened[pkt.out] = g
  <2>1. pkt.out \in DOMAIN outCh.htlcs
    BY <1>1 DEF ResponsesOK
  <2>2. outCh.htlcs[pkt.out].h \in HTLCs
    <3>1. outCh.htlcs \in Seq(OutHtlcs)
      BY TypedFields
    <3>2. outCh.htlcs[pkt.out] \in OutHtlcs
      BY <2>1, <3>1
    <3>. QED  BY <3>2 DEF OutHtlcs
  <2>3. outCh.htlcs[pkt.out].h \in Committed
    BY <2>1 DEF Committed, Named
  <2>. QED  BY <2>1, <2>2, <2>3 DEF SentOK, PlaceOK
<1>5. /\ pkt.out \in DOMAIN cm.opened => g \in DOMAIN cm.pending
      /\ pkt.out \notin DOMAIN cm.opened => Answered(g)
  <2>1. pkt.out # 0 /\ inCh.fate[g] \in Fates
    BY <1>1, <1>4, TypedFields DEF Responses, Index
  <2>. QED  BY <1>4, <2>1 DEF SentOK, CircuitsOK, Answered, Fates
<1>. PICK reply : reply = [fate |-> pkt.type, ref |-> cm.pending[g].ref,
                           dest |-> IF pkt.dest THEN pkt.out ELSE 0]
  OBVIOUS
<1>6. /\ DOMAIN inBox \subseteq DOMAIN inBox' /\ \A x \in DOMAIN inBox : inBox'[x] = inBox[x]
      /\ \A x \in DOMAIN inBox' \ DOMAIN inBox :
            x = g /\ pkt.out \in DOMAIN cm.opened /\ inBox'[x] = reply
  <2>1. \/ inBox' = inBox
        \/ pkt.out \in DOMAIN cm.opened /\ inBox' = DeliverReply(inBox, g, reply)
    BY <1>4 DEF HandleResponse
  <2>2. ASSUME pkt.out \in DOMAIN cm.opened PROVE reply \in Replies
    <3>1. cm.pending[g] \in Circuits
      BY <2>2, <1>5, TypedCircuits
    <3>. QED  BY <1>1, <3>1 DEF Replies, Circuits, Responses, Index
  <2>3. pkt.out \in DOMAIN cm.opened =>
           /\ DOMAIN DeliverReply(inBox, g, reply) = DOMAIN inBox \cup {g}
           /\ \A x \in DOMAIN inBox : DeliverReply(inBox, g, reply)[x] = inBox[x]
           /\ g \notin DOMAIN inBox => DeliverReply(inBox, g, reply)[g] = reply
    <3>1. inBox \in Maps(HTLCs, Replies)
      BY DEF Typed
    <3>. QED  BY <2>2, <3>1, DeliverReplyFacts
  <2>. QED  BY <2>1, <2>3
<1>7. \A x \in DOMAIN inBox' \ DOMAIN inBox : x = g /\ g \in DOMAIN cm.pending
  BY <1>5, <1>6
<1>8. OnWay' = OnWay /\ Committed' = Committed /\ Failing' = Failing
  BY <1>1 DEF OnWay, Committed, Failing, Named, Responses, FailAdds
<1>RefsOK. RefsOK'
  BY <1>1 DEF RefsOK
<1>OutLinkOK. OutLinkOK'
  BY <1>1 DEF OutLinkOK
<1>KeysOK. KeysOK'
  BY <1>1, <1>2 DEF KeysOK, Numbered, NextOutIndex
<1>CircuitsOK. CircuitsOK'
  BY <1>1, <1>2 DEF CircuitsOK
<1>SentOK. SentOK'
  BY <1>1, <1>2 DEF SentOK
<1>PlaceOK. PlaceOK'
  BY <1>1, <1>2, <1>4, <1>6, <1>7, <1>8 DEF PlaceOK
<1>IcptOK. IcptOK'
  BY <1>1, <1>2, <1>6, <1>7 DEF IcptOK, PkgOf, Named
<1>PkgsOK. PkgsOK'
  <2>1. g \in DOMAIN cm.pending => PkgOf(g).state = "Processed"
    BY <1>4 DEF PkgsOK
  <2>. QED  BY <1>1, <1>2, <1>6, <1>7, <2>1 DEF PkgsOK, PkgOf, Answered
<1>InLinkOK. InLinkOK'
  BY <1>1, <1>2 DEF InLinkOK, Answered
<1>RepliesOK. RepliesOK'
  <2>1. \A h \in DOMAIN inBox \cup DOMAIN inLink.log : \A r : Backed(h, r) => Backed(h, r)'
    BY <1>1, <1>8 DEF Backed, Dead
  <2>2. ASSUME pkt.out \in DOMAIN cm.opened PROVE Backed(g, reply)'
    <3>1. cm.pending[g].ref = RefOf(g)
      BY <2>2, <1>5 DEF CircuitsOK
    <3>2. reply.ref = RefOf(g) /\ reply.fate = pkt.type /\ reply.dest \in {0, pkt.out}
      BY <3>1
    <3>. QED  BY <1>1, <1>4, <3>2 DEF Backed, ResponsesOK
  <2>. QED  BY <1>1, <1>4, <1>6, <2>1, <2>2 DEF RepliesOK
<1>ResponsesOK. ResponsesOK'
  <2>1. \A i \in sw'.pendingSettleFails \ sw.pendingSettleFails : i = pkt.out /\ Answered(g)
    BY <1>3, <1>5
  <2>. QED  BY <1>1, <1>4, <2>1 DEF ResponsesOK, Answered
<1>. QED  BY <1>RefsOK, <1>OutLinkOK, <1>KeysOK, <1>CircuitsOK, <1>SentOK, <1>PlaceOK,
        <1>IcptOK, <1>PkgsOK, <1>InLinkOK, <1>RepliesOK, <1>ResponsesOK

\* The outgoing peer claims an HTLC, or its response is locked in.
LEMMA StepPeer ==
    ASSUME IInv, Typed', NEW n \in DOMAIN outCh.htlcs, RemoteFulfill(n) \/ LockInResponse(n)
    PROVE  IInv'
<1>. USE DEF IInv
<1>1. PICK pkt \in Responses, f \in {"claimed", "settled", "failed"} :
         /\ sw'.route = sw.route /\ sw'.icpt = sw.icpt /\ sw'.plex = sw.plex \cup {pkt}
         /\ pkt.out = n
         /\ sw'.pendingSettleFails = sw.pendingSettleFails /\ outCh'.acked = outCh.acked
         /\ outCh'.htlcs = [outCh.htlcs EXCEPT ![n].fate = f]
         /\ IF outCh.htlcs[n].fate = "live"
            THEN \/ f = "failed" /\ pkt.type = "failed"
                 \/ f = "claimed" /\ pkt.type = "settled"
            ELSE outCh.htlcs[n].fate = "claimed" /\ f = "settled" /\ pkt.type = "settled"
         /\ UNCHANGED <<inCh, cm, inBox, outBox, inLink, outLink>>
  <2>1. n \in Index
    BY TypedFields DEF Index
  <2>2. CASE RemoteFulfill(n)
    <3>. DEFINE p == [type |-> "settled", out |-> n, dest |-> FALSE]
    <3>1. p \in Responses
      BY <2>1 DEF Responses
    <3>. QED  BY <2>2, <3>1 DEF RemoteFulfill, Typed, Switches, OutChTypes
  <2>3. CASE LockInResponse(n)
    <3>. DEFINE t == IF outCh.htlcs[n].fate = "live" THEN "failed" ELSE "settled"
                p == [type |-> t, out |-> n, dest |-> TRUE]
    <3>1. p \in Responses
      BY <2>1 DEF Responses
    <3>. QED  BY <2>3, <3>1 DEF LockInResponse, Typed, Switches, OutChTypes
  <2>. QED  BY <2>2, <2>3
<1>2. /\ DOMAIN outCh'.htlcs = DOMAIN outCh.htlcs /\ Len(outCh'.htlcs) = Len(outCh.htlcs)
      /\ \A i \in DOMAIN outCh.htlcs : outCh'.htlcs[i].h = outCh.htlcs[i].h
      /\ \A i \in DOMAIN outCh.htlcs \ {n} : outCh'.htlcs[i].fate = outCh.htlcs[i].fate
      /\ outCh'.htlcs[n].fate = f
  <2>1. outCh.htlcs \in Seq(OutHtlcs) /\ outCh.htlcs[n] \in OutHtlcs
    BY TypedFields
  <2>. QED  BY <1>1, <2>1 DEF OutHtlcs
<1>3. OnWay' = OnWay /\ Committed' = Committed /\ Failing' = Failing
  BY <1>1, <1>2 DEF OnWay, Committed, Failing, Named, Responses, FailAdds
<1>RefsOK. RefsOK'
  BY <1>1 DEF RefsOK, Responses, FailAdds
<1>OutLinkOK. OutLinkOK'
  BY <1>1 DEF OutLinkOK
<1>KeysOK. KeysOK'
  <2>1. NextOutIndex' = NextOutIndex
    BY <1>2 DEF NextOutIndex
  <2>. QED  BY <1>1, <2>1 DEF KeysOK, Numbered
<1>CircuitsOK. CircuitsOK'
  BY <1>1 DEF CircuitsOK
<1>SentOK. SentOK'
  BY <1>1, <1>2 DEF SentOK
<1>PlaceOK. PlaceOK'
  BY <1>1, <1>3 DEF PlaceOK
<1>IcptOK. IcptOK'
  BY <1>1 DEF IcptOK, PkgOf, Named
<1>PkgsOK. PkgsOK'
  BY <1>1 DEF PkgsOK, PkgOf, Answered
<1>InLinkOK. InLinkOK'
  BY <1>1 DEF InLinkOK, Answered
<1>RepliesOK. RepliesOK'
  <2>1. \A h \in DOMAIN inBox \cup DOMAIN inLink.log : \A r : Backed(h, r) => Backed(h, r)'
    BY <1>1, <1>2, <1>3 DEF Backed, Dead
  <2>. QED  BY <1>1, <2>1 DEF RepliesOK
<1>ResponsesOK. ResponsesOK'
  BY <1>1, <1>2 DEF ResponsesOK, Answered
<1>. QED  BY <1>RefsOK, <1>OutLinkOK, <1>KeysOK, <1>CircuitsOK, <1>SentOK, <1>PlaceOK,
        <1>IcptOK, <1>PkgsOK, <1>InLinkOK, <1>RepliesOK, <1>ResponsesOK

\* The Adds left in the mailbox, and their order.
LEMMA AckKept ==
    ASSUME IInv, NEW hs
    PROVE  LET b == AckPackets(outBox, hs) IN
           /\ b \in OutBoxes /\ Named(b.pkts) = Named(outBox.pkts) \ hs
           /\ \A k \in DOMAIN b.pkts : \E j \in Kept(outBox, hs) : b.pkts[k] = outBox.pkts[j]
           /\ \A j, k \in DOMAIN b.pkts : b.pkts[j].h = b.pkts[k].h => j = k
           /\ \A m \in 0..Len(outBox.pkts) : 1..m \subseteq Kept(outBox, hs) =>
                 \A k \in 1..m : k \in DOMAIN b.pkts /\ b.pkts[k] = outBox.pkts[k]
           /\ b.head = 1 + Cardinality({i \in Kept(outBox, hs) : i < outBox.head})
<1>. DEFINE I == Kept(outBox, hs)
            b == AckPackets(outBox, hs)
            n == Len(outBox.pkts)
<1>1. outBox \in OutBoxes /\ outBox.pkts \in Seq(Adds) /\ n \in Nat /\ DOMAIN outBox.pkts = 1..n
  BY TypedFields DEF IInv, Typed
<1>2. /\ b \in OutBoxes /\ I \in SUBSET (DOMAIN outBox.pkts)
      /\ b.pkts = SubsequenceAt(outBox.pkts, I)
      /\ b.head = 1 + Cardinality({i \in I : i < outBox.head})
  BY <1>1, AckPacketsFacts
<1>3. \A i : i \in I <=> i \in DOMAIN outBox.pkts /\ outBox.pkts[i].h \notin hs
  BY DEF Kept
<1>. HIDE DEF I, b, n
<1>4. /\ \A k \in DOMAIN b.pkts : PlaceAt(I, k) \in I /\ b.pkts[k] = outBox.pkts[PlaceAt(I, k)]
      /\ \A i \in I : Rank(I, i) \in DOMAIN b.pkts /\ b.pkts[Rank(I, i)] = outBox.pkts[i]
      /\ \A j, k \in DOMAIN b.pkts : PlaceAt(I, j) = PlaceAt(I, k) => j = k
  BY <1>1, <1>2, SubsequenceFacts
<1>5. Named(b.pkts) = Named(outBox.pkts) \ hs
  BY <1>2, <1>3, <1>4 DEF Named
<1>6. \A j, k \in DOMAIN b.pkts : b.pkts[j].h = b.pkts[k].h => j = k
  BY <1>2, <1>4 DEF IInv, OutLinkOK
<1>7. ASSUME NEW m \in 0..n, 1..m \subseteq I, NEW k \in 1..m
      PROVE  k \in DOMAIN b.pkts /\ b.pkts[k] = outBox.pkts[k]
  <2>1. Rank(I, k) = k
    BY <1>1, <1>2, <1>7, PrefixPlaces
  <2>. QED  BY <1>4, <1>7, <2>1
<1>. QED  BY <1>2, <1>4, <1>5, <1>6, <1>7 DEF I, b, n

\* The Add at the head leaves the mailbox.
LEMMA AckHead ==
    ASSUME IInv, outBox.head <= Len(outBox.pkts)
    PROVE  LET b == AckPackets(outBox, {outBox.pkts[outBox.head].h}) IN
           /\ b.head = outBox.head
           /\ \A k \in 1..outBox.head - 1 : k \in DOMAIN b.pkts /\ b.pkts[k] = outBox.pkts[k]
<1>. DEFINE m == outBox.head
            hs == {outBox.pkts[m].h}
            I == Kept(outBox, hs)
<1>1. m \in 1..Len(outBox.pkts) /\ Len(outBox.pkts) \in Nat
          /\ DOMAIN outBox.pkts = 1..Len(outBox.pkts)
  BY TypedFields DEF IInv, Index
<1>2. I = (1..Len(outBox.pkts)) \ {m}
  BY <1>1 DEF Kept, IInv, OutLinkOK
<1>. HIDE DEF I, m, hs
<1>3. 1..m - 1 \subseteq I /\ m - 1 \in 0..Len(outBox.pkts)
  BY <1>1, <1>2
<1>4. {i \in I : i < m} = 1..m - 1
  <2>1. \A i \in I : i < m => i \in 1..m - 1
    BY <1>1, <1>2
  <2>2. \A i \in 1..m - 1 : i \in I /\ i < m
    BY <1>1, <1>3
  <2>. QED  BY <2>1, <2>2
<1>5. Cardinality(1..m - 1) = m - 1
  BY <1>1, <1>3, FS_Interval
<1>6. AckPackets(outBox, hs).head = 1 + Cardinality({i \in I : i < m})
  BY AckKept DEF I, m
<1>7. AckPackets(outBox, hs).head = m
  <2>1. AckPackets(outBox, hs).head = 1 + (m - 1)
    BY <1>4, <1>5, <1>6, Zenon
  <2>2. 1 + (m - 1) = m
    BY <1>1
  <2>. QED  BY <2>1, <2>2, Zenon
<1>8. \A k \in 1..m - 1 : /\ k \in DOMAIN AckPackets(outBox, hs).pkts
                          /\ AckPackets(outBox, hs).pkts[k] = outBox.pkts[k]
  BY <1>3, AckKept DEF I
<1>. QED  BY <1>7, <1>8 DEF m, hs

\* The Adds that a commitment is signed for leave the mailbox.
LEMMA AckLog ==
    ASSUME IInv
    PROVE  LET b == AckPackets(outBox, Range(outLink.log)) IN
           /\ b.head = 1
           /\ Range(outLink.log) = {outBox.pkts[k].h : k \in 1..outBox.head - 1}
<1>. DEFINE hs == Range(outLink.log)
            I == Kept(outBox, hs)
<1>1. /\ outBox.head \in Nat /\ outBox.head >= 1 /\ outBox.head <= Len(outBox.pkts) + 1
      /\ Len(outBox.pkts) \in Nat /\ DOMAIN outBox.pkts = 1..Len(outBox.pkts)
      /\ DOMAIN outLink.log = 1..outBox.head - 1
  <2>1. outLink.log \in Seq(HTLCs) /\ Len(outLink.log) = outBox.head - 1
    BY TypedFields DEF IInv, OutLinkOK
  <2>2. /\ outBox.head \in Nat /\ outBox.head >= 1 /\ outBox.head <= Len(outBox.pkts) + 1
        /\ Len(outBox.pkts) \in Nat /\ DOMAIN outBox.pkts = 1..Len(outBox.pkts)
    BY TypedFields DEF IInv, Index
  <2>. QED  BY <2>1, <2>2
<1>2. hs = {outBox.pkts[k].h : k \in 1..outBox.head - 1}
  <2>1. \A k \in DOMAIN outLink.log : outLink.log[k] = outBox.pkts[k].h
    BY DEF IInv, OutLinkOK
  <2>. QED  BY <1>1, <2>1 DEF Range
<1>3. {i \in I : i < outBox.head} = {}
  <2>1. \A i \in DOMAIN outBox.pkts : i < outBox.head => outBox.pkts[i].h \in hs
    BY <1>1, <1>2
  <2>. HIDE DEF hs
  <2>. QED  BY <2>1 DEF Kept
<1>4. AckPackets(outBox, hs).head = 1 + Cardinality({i \in I : i < outBox.head})
  BY AckKept
<1>5. AckPackets(outBox, hs).head = 1
  BY <1>3, <1>4, FS_EmptySet
<1>. QED  BY <1>2, <1>5

\* The outgoing link or its mailbox fails the Add at the head.
LEMMA StepFailHead ==
    ASSUME IInv, Typed', DownstreamFailAdd \/ ExpireAdd
    PROVE  IInv'
<1>. USE DEF IInv
<1>1. PICK pkt \in Adds :
         /\ outBox.head <= Len(outBox.pkts) /\ pkt = outBox.pkts[outBox.head]
         /\ outBox.head \in DOMAIN outBox.pkts
         /\ sw'.route = sw.route /\ sw'.icpt = sw.icpt /\ sw'.plex = sw.plex \cup {FailAddPkt(pkt)}
         /\ sw'.pendingSettleFails = sw.pendingSettleFails /\ outBox' = AckPackets(outBox, {pkt.h})
         /\ UNCHANGED <<inCh, outCh, cm, inBox, inLink, outLink>>
  <2>1. outBox.head <= Len(outBox.pkts)
    BY DEF DownstreamFailAdd, ExpireAdd
  <2>2. outBox.head \in DOMAIN outBox.pkts /\ outBox.pkts[outBox.head] \in Adds
    BY <2>1, TypedFields DEF Index
  <2>. QED  BY <2>1, <2>2 DEF DownstreamFailAdd, ExpireAdd, Typed, Switches
<1>2. /\ Named(outBox'.pkts) = Named(outBox.pkts) \ {pkt.h}
      /\ \A k \in DOMAIN outBox'.pkts : \E j \in Kept(outBox, {pkt.h}) :
            outBox'.pkts[k] = outBox.pkts[j]
      /\ \A j, k \in DOMAIN outBox'.pkts : outBox'.pkts[j].h = outBox'.pkts[k].h => j = k
  <2>. DEFINE b == AckPackets(outBox, {pkt.h})
  <2>1. /\ Named(b.pkts) = Named(outBox.pkts) \ {pkt.h}
        /\ \A k \in DOMAIN b.pkts : \E j \in Kept(outBox, {pkt.h}) : b.pkts[k] = outBox.pkts[j]
        /\ \A j, k \in DOMAIN b.pkts : b.pkts[j].h = b.pkts[k].h => j = k
    BY AckKept
  <2>2. outBox' = b
    BY <1>1
  <2>. HIDE DEF b
  <2>. QED  BY <2>1, <2>2
<1>3. Kept(outBox, {pkt.h}) \subseteq DOMAIN outBox.pkts
  BY DEF Kept
<1>4. /\ outBox'.head = outBox.head
      /\ \A k \in 1..outBox.head - 1 : outBox'.pkts[k] = outBox.pkts[k]
  BY <1>1, AckHead
<1>5. pkt.h \in Named(outBox.pkts) /\ pkt.h \in OnWay /\ pkt.h \notin Named(sw.route)
  <2>1. pkt.h \in Named(outBox.pkts)
    BY <1>1 DEF Named
  <2>. QED  BY <2>1 DEF OnWay, PlaceOK
<1>6. OnWay' = OnWay \ {pkt.h} /\ Committed' = Committed /\ Failing' = Failing \cup {pkt.h}
  <2>1. Named(sw'.route) = Named(sw.route) /\ Named(outCh'.htlcs) = Named(outCh.htlcs)
    BY <1>1
  <2>2. OnWay' = OnWay \ {pkt.h} /\ Committed' = Committed
    BY <1>2, <1>5, <2>1 DEF OnWay, Committed
  <2>3. FailAddPkt(pkt) \in FailAdds /\ FailAddPkt(pkt).h = pkt.h
    BY <1>1 DEF FailAdds, FailAddPkt, Adds
  <2>4. sw'.plex \cap FailAdds = (sw.plex \cap FailAdds) \cup {FailAddPkt(pkt)}
    BY <1>1, <2>3
  <2>5. Failing' = Failing \cup {pkt.h}
    BY <2>3, <2>4 DEF Failing
  <2>. QED  BY <2>2, <2>5
<1>RefsOK. RefsOK'
  <2>1. \A k \in DOMAIN outBox'.pkts : outBox'.pkts[k].ref = RefOf(outBox'.pkts[k].h)
    <3>. SUFFICES ASSUME NEW k \in DOMAIN outBox'.pkts
                  PROVE  outBox'.pkts[k].ref = RefOf(outBox'.pkts[k].h)
      OBVIOUS
    <3>1. PICK j \in DOMAIN outBox.pkts : outBox'.pkts[k] = outBox.pkts[j]
      BY <1>2, <1>3
    <3>. QED  BY <3>1 DEF RefsOK
  <2>2. FailAddPkt(pkt).ref = RefOf(FailAddPkt(pkt).h)
    BY <1>1 DEF RefsOK, FailAddPkt
  <2>. QED  BY <1>1, <2>1, <2>2 DEF RefsOK
<1>OutLinkOK. OutLinkOK'
  <2>1. \A k \in DOMAIN outLink.log : k \in 1..outBox.head - 1
    <3>1. outLink.log \in Seq(HTLCs) /\ Len(outLink.log) = outBox.head - 1
      BY TypedFields DEF OutLinkOK
    <3>. QED  BY <3>1
  <2>2. \A k \in DOMAIN outLink'.log : outLink'.log[k] = outBox'.pkts[k].h
    BY <1>1, <1>4, <2>1 DEF OutLinkOK
  <2>. QED  BY <1>1, <1>2, <1>4, <2>2 DEF OutLinkOK
<1>KeysOK. KeysOK'
  BY <1>1 DEF KeysOK, Numbered, NextOutIndex
<1>CircuitsOK. CircuitsOK'
  BY <1>1 DEF CircuitsOK
<1>SentOK. SentOK'
  BY <1>1 DEF SentOK
<1>PlaceOK. PlaceOK'
  <2>1. Named(sw.route)' = Named(sw.route) /\ Named(outBox.pkts)' = Named(outBox.pkts) \ {pkt.h}
    <3>1. Named(sw.route)' = Named(sw.route) /\ Named(outBox.pkts)' = Named(outBox'.pkts)
      BY <1>1 DEF Named
    <3>. QED  BY <1>2, <3>1
  <2>2. Named(sw.route)' \cap Named(outBox.pkts)' = {}
    BY <2>1 DEF PlaceOK
  <2>. QED  BY <1>1, <1>5, <1>6, <2>2 DEF PlaceOK
<1>IcptOK. IcptOK'
  BY <1>1 DEF IcptOK, PkgOf, Named
<1>PkgsOK. PkgsOK'
  BY <1>1 DEF PkgsOK, PkgOf, Answered
<1>InLinkOK. InLinkOK'
  BY <1>1 DEF InLinkOK, Answered
<1>RepliesOK. RepliesOK'
  <2>1. \A h \in DOMAIN inBox \cup DOMAIN inLink.log : \A r : Backed(h, r) => Backed(h, r)'
    BY <1>1, <1>6 DEF Backed, Dead
  <2>. QED  BY <1>1, <2>1 DEF RepliesOK
<1>ResponsesOK. ResponsesOK'
  <2>1. FailAddPkt(pkt) \notin Responses
    BY DEF FailAddPkt, Responses
  <2>. QED  BY <1>1, <2>1 DEF ResponsesOK, Answered
<1>. QED  BY <1>RefsOK, <1>OutLinkOK, <1>KeysOK, <1>CircuitsOK, <1>SentOK, <1>PlaceOK,
        <1>IcptOK, <1>PkgsOK, <1>InLinkOK, <1>RepliesOK, <1>ResponsesOK

\* The outgoing link adds the HTLC at the head to its channel.
LEMMA StepDownstreamAdd ==
    ASSUME IInv, Typed', DownstreamAdd
    PROVE  IInv'
<1>. USE DEF IInv
<1>1. /\ outLink.up /\ ~outLink.signing /\ outBox.head <= Len(outBox.pkts)
      /\ UNCHANGED <<inCh, outCh, cm, sw, inBox, inLink>>
  BY DEF DownstreamAdd
<1>2. outBox'.pkts = outBox.pkts /\ outBox'.head = outBox.head + 1
  BY DEF DownstreamAdd, Typed, OutBoxes
<1>3. /\ NextOutIndex \in Nat /\ outLink.log \in Seq(HTLCs) /\ Len(outLink.log) \in Nat
      /\ outBox.head \in DOMAIN outBox.pkts /\ outBox.head \in Nat
      /\ Len(outLink.log) = outBox.head - 1 /\ DOMAIN outLink.log = 1..Len(outLink.log)
  <2>1. NextOutIndex \in Nat
    BY TypedFields DEF NextOutIndex
  <2>2. outLink.log \in Seq(HTLCs) /\ Len(outLink.log) = outBox.head - 1
    BY TypedFields DEF OutLinkOK
  <2>3. outBox.head \in DOMAIN outBox.pkts /\ outBox.head \in Nat
    BY <1>1, TypedFields DEF Index
  <2>. QED  BY <2>1, <2>2, <2>3
<1>. PICK h \in HTLCs : h = outBox.pkts[outBox.head].h
  <2>1. outBox.pkts[outBox.head] \in Adds
    BY <1>3, TypedFields
  <2>. QED  BY <2>1 DEF Adds
<1>4. /\ Len(outLink'.log) = Len(outLink.log) + 1 /\ outLink'.up /\ ~outLink'.signing
      /\ DOMAIN outLink'.log = DOMAIN outLink.log \cup {Len(outLink.log) + 1}
      /\ \A k \in 1..Len(outLink.log) : outLink'.log[k] = outLink.log[k]
      /\ outLink'.log[Len(outLink.log) + 1] = h
  <2>1. /\ outLink'.log = Append(outLink.log, h) /\ outLink'.up = outLink.up
        /\ outLink'.signing = outLink.signing
    BY DEF DownstreamAdd, Typed, OutLinks
  <2>. QED  BY <1>1, <1>3, <2>1, AppendFacts
<1>5. Len(outLink.log) + 1 = outBox.head
  BY <1>3
<1>6. /\ DOMAIN outLink'.batch = DOMAIN outLink.batch \cup {NextOutIndex + Len(outLink.log)}
      /\ outLink'.batch[NextOutIndex + Len(outLink.log)] = h
      /\ \A i \in DOMAIN outLink.batch \ {NextOutIndex + Len(outLink.log)} :
            outLink'.batch[i] = outLink.batch[i]
  <2>. DEFINE x == NextOutIndex + Len(outLink.log)
              one == [i \in {x} |-> h]
  <2>1. outLink'.batch = Overlay(outLink.batch, one)
    BY DEF DownstreamAdd, Typed, OutLinks
  <2>2. DOMAIN one = {x} /\ one[x] = h
    OBVIOUS
  <2>. HIDE DEF one
  <2>3. /\ DOMAIN Overlay(outLink.batch, one) = DOMAIN outLink.batch \cup DOMAIN one
        /\ \A i \in DOMAIN one : Overlay(outLink.batch, one)[i] = one[i]
        /\ \A i \in DOMAIN outLink.batch \ DOMAIN one :
              Overlay(outLink.batch, one)[i] = outLink.batch[i]
    BY OverlayFacts
  <2>. HIDE DEF x
  <2>4. /\ DOMAIN outLink'.batch = DOMAIN outLink.batch \cup {x} /\ outLink'.batch[x] = h
        /\ \A i \in DOMAIN outLink.batch \ {x} : outLink'.batch[i] = outLink.batch[i]
    BY <2>1, <2>2, <2>3
  <2>. QED  BY <2>4 DEF x
<1>7. NextOutIndex' = NextOutIndex
  BY <1>1 DEF NextOutIndex
<1>RefsOK. RefsOK'
  BY <1>1, <1>2 DEF RefsOK
<1>OutLinkOK. OutLinkOK'
  <2>1. \A k \in DOMAIN outLink'.log : outLink'.log[k] = outBox.pkts[k].h
    BY <1>3, <1>4, <1>5 DEF OutLinkOK
  <2>2. Len(outLink'.log) = outBox'.head - 1
    BY <1>2, <1>3, <1>4
  <2>. QED  BY <1>1, <1>2, <1>4, <2>1, <2>2 DEF OutLinkOK
<1>KeysOK. KeysOK'
  <2>1. \A j \in DOMAIN outLink'.batch : j \in DOMAIN outLink.batch
            \/ j = NextOutIndex + Len(outLink.log)
    BY <1>6
  <2>2. \A i \in DOMAIN cm.opened : i \in Nat /\ i < NextOutIndex + Len(outLink.log)
    <3>1. \A i \in DOMAIN cm.opened : i \in Nat
              /\ (i >= NextOutIndex => i < NextOutIndex + Len(outLink.log))
      BY <1>1, TypedCircuits DEF KeysOK, Numbered, Index
    <3>. QED  BY <1>3, <3>1
  <2>3. \A j \in DOMAIN outLink.batch : j \in Nat
    BY TypedFields, MapsFacts DEF Index
  <2>4. \A i \in DOMAIN cm.opened, j \in DOMAIN outLink'.batch : i < j
    BY <2>1, <2>2 DEF KeysOK
  <2>5. \A j \in DOMAIN outLink'.batch : j >= NextOutIndex
    BY <1>3, <2>1 DEF KeysOK
  <2>6. Numbered(cm.opened)'
    <3>. SUFFICES ASSUME NEW i \in DOMAIN cm.opened, i >= NextOutIndex
                  PROVE  i < NextOutIndex + Len(outLink'.log)
                      /\ cm.opened[i] = outLink'.log[i - NextOutIndex + 1]
      BY <1>1, <1>7 DEF Numbered
    <3>1. i < NextOutIndex + Len(outLink.log) /\ cm.opened[i] = outLink.log[i - NextOutIndex + 1]
      BY <1>1 DEF KeysOK, Numbered
    <3>2. i \in Nat
      BY <2>2
    <3>3. i - NextOutIndex + 1 \in 1..Len(outLink.log)
      BY <1>3, <3>1, <3>2
    <3>4. outLink'.log[i - NextOutIndex + 1] = outLink.log[i - NextOutIndex + 1]
      BY <1>4, <3>3
    <3>. QED  BY <1>3, <1>4, <3>1, <3>2, <3>4
  <2>7. Numbered(outLink.batch)'
    <3>. SUFFICES ASSUME NEW i \in DOMAIN outLink'.batch
                  PROVE  i < NextOutIndex + Len(outLink'.log)
                      /\ outLink'.batch[i] = outLink'.log[i - NextOutIndex + 1]
      BY <1>1, <1>7 DEF Numbered
    <3>1. CASE i = NextOutIndex + Len(outLink.log)
      <4>1. i - NextOutIndex + 1 = Len(outLink.log) + 1 /\ i < NextOutIndex + (Len(outLink.log) + 1)
        BY <1>3, <3>1
      <4>2. outLink'.batch[i] = h
        BY <1>6, <3>1
      <4>3. outLink'.log[i - NextOutIndex + 1] = h
        BY <1>4, <4>1, Zenon
      <4>. QED  BY <1>4, <4>1, <4>2, <4>3
    <3>2. CASE i # NextOutIndex + Len(outLink.log)
      <4>1. i \in DOMAIN outLink.batch /\ outLink'.batch[i] = outLink.batch[i] /\ i \in Nat
                /\ i >= NextOutIndex
        BY <1>6, <2>1, <2>3, <2>5, <3>2
      <4>2. i < NextOutIndex + Len(outLink.log)
                /\ outLink.batch[i] = outLink.log[i - NextOutIndex + 1]
        BY <1>1, <4>1 DEF KeysOK, Numbered
      <4>3. i - NextOutIndex + 1 \in 1..Len(outLink.log)
        BY <1>3, <4>1, <4>2
      <4>4. outLink'.log[i - NextOutIndex + 1] = outLink.log[i - NextOutIndex + 1]
        BY <1>4, <4>3
      <4>. QED  BY <1>3, <1>4, <4>1, <4>2, <4>4
    <3>. QED  BY <3>1, <3>2
  <2>8. \A i \in NextOutIndex..NextOutIndex + Len(outLink'.log) - 1 :
            i \in DOMAIN cm.opened \cup DOMAIN outLink'.batch
    <3>. SUFFICES ASSUME NEW i \in NextOutIndex..NextOutIndex + Len(outLink'.log) - 1
                  PROVE  i \in DOMAIN cm.opened \cup DOMAIN outLink'.batch
      OBVIOUS
    <3>1. i = NextOutIndex + Len(outLink.log)
              \/ i \in NextOutIndex..NextOutIndex + Len(outLink.log) - 1
      BY <1>3, <1>4
    <3>. QED  BY <1>1, <1>6, <3>1 DEF KeysOK
  <2>. QED  BY <1>1, <1>7, <2>4, <2>5, <2>6, <2>7, <2>8 DEF KeysOK
<1>CircuitsOK. CircuitsOK'
  BY <1>1 DEF CircuitsOK
<1>SentOK. SentOK'
  BY <1>1 DEF SentOK
<1>PlaceOK. PlaceOK'
  <2>1. OnWay' = OnWay /\ Committed' = Committed /\ Failing' = Failing
    BY <1>1, <1>2 DEF OnWay, Committed, Failing, Named
  <2>. QED  BY <1>1, <1>2, <2>1 DEF PlaceOK
<1>IcptOK. IcptOK'
  BY <1>1 DEF IcptOK, PkgOf, Named
<1>PkgsOK. PkgsOK'
  BY <1>1 DEF PkgsOK, PkgOf, Answered
<1>InLinkOK. InLinkOK'
  BY <1>1 DEF InLinkOK, Answered
<1>RepliesOK. RepliesOK'
  <2>1. OnWay' = OnWay /\ Committed' = Committed
    BY <1>1, <1>2 DEF OnWay, Committed, Named
  <2>. QED  BY <1>1, <2>1 DEF RepliesOK, Backed, Dead
<1>ResponsesOK. ResponsesOK'
  BY <1>1 DEF ResponsesOK, Answered
<1>. QED  BY <1>RefsOK, <1>OutLinkOK, <1>KeysOK, <1>CircuitsOK, <1>SentOK, <1>PlaceOK,
        <1>IcptOK, <1>PkgsOK, <1>InLinkOK, <1>RepliesOK, <1>ResponsesOK

\* Responses that are forwarded again say what became of their HTLCs.
LEMMA ForwardedAgain ==
    ASSUME IInv, NEW pkt \in UnackedSettleFails \cup ResentFulfills
    PROVE  /\ pkt \in Responses /\ pkt \notin FailAdds /\ pkt.out \in DOMAIN outCh.htlcs
           /\ IF pkt.type = "failed" THEN outCh.htlcs[pkt.out].fate = "failed"
              ELSE outCh.htlcs[pkt.out].fate \in {"claimed", "settled"}
<1>1. DOMAIN outCh.htlcs \subseteq Index
  BY TypedFields DEF IInv, Index
<1>2. PICK i \in DOMAIN outCh.htlcs, t \in {"settled", "failed"}, d \in BOOLEAN :
         /\ pkt = [type |-> t, out |-> i, dest |-> d]
         /\ \/ outCh.htlcs[i].fate = t
            \/ outCh.htlcs[i].fate = "claimed" /\ t = "settled"
  BY DEF UnackedSettleFails, ResentFulfills
<1>. QED  BY <1>1, <1>2 DEF Responses, FailAdds

\* The outgoing link stops.
LEMMA StepOutLinkDown ==
    ASSUME IInv, Typed', OutLinkDown
    PROVE  IInv'
<1>. USE DEF IInv
<1>1. /\ outLink' = DownOutLink /\ outBox'.pkts = outBox.pkts /\ outBox'.head = 1
      /\ sw'.route = sw.route /\ sw'.icpt = sw.icpt /\ sw'.plex \subseteq sw.plex
      /\ sw'.pendingSettleFails = sw.pendingSettleFails
      /\ UNCHANGED <<inCh, outCh, cm, inBox, inLink>>
  BY DEF OutLinkDown, ResetPackets, Typed, OutBoxes, Switches
<1>RefsOK. RefsOK'
  BY <1>1 DEF RefsOK
<1>OutLinkOK. OutLinkOK'
  <2>1. Len(outLink'.log) = outBox'.head - 1 /\ DOMAIN outLink'.log = {} /\ ~outLink'.signing
    BY <1>1, EmptyLen DEF DownOutLink
  <2>. QED  BY <1>1, <2>1 DEF OutLinkOK
<1>KeysOK. KeysOK'
  <2>1. DOMAIN outLink'.batch = {} /\ ~outLink'.up
    BY <1>1, EmptyLen DEF DownOutLink
  <2>. QED  BY <2>1 DEF KeysOK
<1>CircuitsOK. CircuitsOK'
  BY <1>1 DEF CircuitsOK
<1>SentOK. SentOK'
  BY <1>1 DEF SentOK
<1>PlaceOK. PlaceOK'
  <2>1. OnWay' = OnWay /\ Committed' = Committed /\ Failing' \subseteq Failing
    BY <1>1 DEF OnWay, Committed, Failing, Named
  <2>. QED  BY <1>1, <2>1 DEF PlaceOK
<1>IcptOK. IcptOK'
  BY <1>1 DEF IcptOK, PkgOf, Named
<1>PkgsOK. PkgsOK'
  BY <1>1 DEF PkgsOK, PkgOf, Answered
<1>InLinkOK. InLinkOK'
  BY <1>1 DEF InLinkOK, Answered
<1>RepliesOK. RepliesOK'
  BY <1>1 DEF RepliesOK, Backed, Dead, OnWay, Committed, Named
<1>ResponsesOK. ResponsesOK'
  BY <1>1 DEF ResponsesOK, Answered
<1>. QED  BY <1>RefsOK, <1>OutLinkOK, <1>KeysOK, <1>CircuitsOK, <1>SentOK, <1>PlaceOK,
        <1>IcptOK, <1>PkgsOK, <1>InLinkOK, <1>RepliesOK, <1>ResponsesOK

\* Trimming a copy of the circuit map that agrees with it leaves the circuits sound.
LEMMA TrimmedOK ==
    ASSUME IInv, KeystonesContiguous, NEW c \in CircuitMaps,
           c.adds = cm.adds, c.keys = cm.keys, DOMAIN c.opened = DOMAIN cm.opened,
           DOMAIN c.pending = DOMAIN cm.pending,
           \A i \in DOMAIN cm.opened : c.opened[i] = cm.opened[i],
           \A h \in DOMAIN cm.pending :
              c.pending[h].out = cm.pending[h].out /\ c.pending[h].ref = cm.pending[h].ref,
           cm' = TrimOpenCircuits(c, NextOutIndex), UNCHANGED <<inCh, outCh>>
    PROVE  /\ CircuitsOK' /\ SentOK'
           /\ DOMAIN cm'.pending = DOMAIN cm.pending
           /\ \A h \in DOMAIN cm.pending : cm'.pending[h].disk = c.pending[h].disk
           /\ \A i \in DOMAIN cm'.opened : ~(i >= NextOutIndex)
<1>. USE DEF IInv
<1>. DEFINE trimmed == TrimmedFrom(c, NextOutIndex)
            reverted == {c.opened[i] : i \in trimmed}
<1>1. NextOutIndex \in Nat
  BY TypedFields DEF NextOutIndex
<1>2. /\ cm'.adds = c.adds /\ DOMAIN cm'.keys = DOMAIN c.keys \ trimmed
      /\ DOMAIN cm'.opened = DOMAIN c.opened \ trimmed /\ DOMAIN cm'.pending = DOMAIN c.pending
      /\ \A i \in DOMAIN cm'.keys : cm'.keys[i] = c.keys[i]
      /\ \A i \in DOMAIN cm'.opened : cm'.opened[i] = c.opened[i]
      /\ \A h \in DOMAIN cm'.pending :
            /\ cm'.pending[h].disk = c.pending[h].disk /\ cm'.pending[h].ref = c.pending[h].ref
            /\ cm'.pending[h].out = IF h \in reverted THEN 0 ELSE c.pending[h].out
  <2>. HIDE DEF trimmed
  <2>. QED  BY TrimFacts DEF trimmed
<1>3. \A i : i \in trimmed <=> i \in DOMAIN cm.opened /\ i >= NextOutIndex
  BY DEF TrimmedFrom, KeystonesContiguous
<1>. HIDE DEF trimmed
<1>4. \A h : h \in reverted <=> h \in DOMAIN cm.pending /\ cm.pending[h].out \in trimmed
  <2>1. \A i \in trimmed : /\ c.opened[i] = cm.opened[i] /\ cm.opened[i] \in DOMAIN cm.pending
                           /\ cm.pending[cm.opened[i]].out = i
    BY <1>3 DEF CircuitsOK
  <2>2. \A h \in DOMAIN cm.pending :
           cm.pending[h].out \in trimmed => c.opened[cm.pending[h].out] = h
    <3>1. \A i \in trimmed : i \in DOMAIN cm.opened /\ i # 0
      BY <1>3, TypedCircuits DEF Index
    <3>. QED  BY <3>1 DEF CircuitsOK
  <2>. QED  BY <2>1, <2>2
<1>. HIDE DEF reverted
<1>5. /\ cm'.adds = cm.adds /\ DOMAIN cm'.keys = DOMAIN cm.keys \ trimmed
      /\ DOMAIN cm'.opened = DOMAIN cm.opened \ trimmed /\ DOMAIN cm'.pending = DOMAIN cm.pending
      /\ \A i \in DOMAIN cm'.keys : cm'.keys[i] = cm.keys[i]
      /\ \A i \in DOMAIN cm'.opened : cm'.opened[i] = cm.opened[i]
      /\ \A h \in DOMAIN cm'.pending :
            /\ cm'.pending[h].ref = cm.pending[h].ref
            /\ cm'.pending[h].out = IF h \in reverted THEN 0 ELSE cm.pending[h].out
  BY <1>2
<1>6. CircuitsOK'
  <2>1. ASSUME NEW i \in DOMAIN cm'.opened
        PROVE  cm'.opened[i] \in DOMAIN cm'.pending /\ cm'.pending[cm'.opened[i]].out = i
    <3>1. i \in DOMAIN cm.opened /\ i \notin trimmed /\ cm'.opened[i] = cm.opened[i]
      BY <1>5
    <3>2. cm.opened[i] \in DOMAIN cm.pending /\ cm.pending[cm.opened[i]].out = i
      BY <3>1 DEF CircuitsOK
    <3>3. cm.opened[i] \notin reverted
      BY <1>4, <3>1, <3>2
    <3>. QED  BY <1>5, <3>1, <3>2, <3>3
  <2>2. ASSUME NEW h \in DOMAIN cm'.pending, cm'.pending[h].out # 0
        PROVE  cm'.pending[h].out \in DOMAIN cm'.opened /\ cm'.opened[cm'.pending[h].out] = h
    <3>1. h \in DOMAIN cm.pending /\ h \notin reverted /\ cm'.pending[h].out = cm.pending[h].out
      BY <1>5, <2>2
    <3>2. cm.pending[h].out \in DOMAIN cm.opened /\ cm.opened[cm.pending[h].out] = h
      BY <2>2, <3>1 DEF CircuitsOK
    <3>3. cm.pending[h].out \notin trimmed
      BY <1>4, <3>1, <3>2
    <3>. QED  BY <1>5, <3>1, <3>2, <3>3
  <2>. QED  BY <1>5, <2>1, <2>2 DEF CircuitsOK
<1>7. SentOK'
  <2>. SUFFICES ASSUME NEW i \in DOMAIN outCh.htlcs
                PROVE  /\ outCh.htlcs[i].h \in DOMAIN cm'.pending =>
                             cm'.pending[outCh.htlcs[i].h].out = i
                       /\ i \in DOMAIN cm'.opened => cm'.opened[i] = outCh.htlcs[i].h
    BY <1>5 DEF SentOK
  <2>1. i \in DOMAIN cm'.opened => cm'.opened[i] = outCh.htlcs[i].h
    BY <1>5 DEF SentOK
  <2>2. ASSUME outCh.htlcs[i].h \in DOMAIN cm'.pending
        PROVE  cm'.pending[outCh.htlcs[i].h].out = i
    <3>1. cm.pending[outCh.htlcs[i].h].out = i /\ outCh.htlcs[i].h \in DOMAIN cm.pending
      BY <1>5, <2>2 DEF SentOK
    <3>2. i \notin trimmed
      <4>1. i \in Nat /\ i < NextOutIndex
        BY TypedFields DEF NextOutIndex
      <4>. QED  BY <1>1, <1>3, <4>1
    <3>3. outCh.htlcs[i].h \notin reverted
      BY <1>4, <3>1, <3>2
    <3>. QED  BY <1>5, <3>1, <3>3
  <2>. QED  BY <2>1, <2>2
<1>8. /\ \A h \in DOMAIN cm.pending : cm'.pending[h].disk = c.pending[h].disk
      /\ \A i \in DOMAIN cm'.opened : ~(i >= NextOutIndex)
  BY <1>2, <1>3, <1>5
<1>. QED  BY <1>5, <1>6, <1>7, <1>8

\* The outgoing link starts and trims its circuits.
LEMMA StepOutLinkUp ==
    ASSUME IInv, Typed', KeystonesContiguous, OutLinkUp
    PROVE  IInv'
<1>. USE DEF IInv
<1>1. /\ outLink' = [DownOutLink EXCEPT !.up = TRUE] /\ ~outLink.up
      /\ cm' = TrimOpenCircuits(cm, NextOutIndex)
      /\ sw'.route = sw.route /\ sw'.icpt = sw.icpt
      /\ sw'.plex = sw.plex \cup (UnackedSettleFails \cup ResentFulfills)
      /\ sw'.pendingSettleFails = sw.pendingSettleFails
      /\ UNCHANGED <<inCh, outCh, inBox, outBox, inLink>>
  BY DEF OutLinkUp, Typed, Switches
<1>2. outLink'.log = << >> /\ Len(outLink'.log) = 0 /\ DOMAIN outLink'.log = {} /\ outLink'.up
      /\ ~outLink'.signing /\ DOMAIN outLink'.batch = {} /\ outBox.head = 1 /\ outBox'.head = 1
  <2>1. outLink = DownOutLink
    BY <1>1 DEF OutLinkOK
  <2>2. Len(outLink.log) = 0
    BY <2>1, EmptyLen DEF DownOutLink
  <2>3. outBox.head = 1
    <3>1. outBox.head \in Nat /\ Len(outLink.log) = outBox.head - 1
      BY TypedFields DEF OutLinkOK, Index
    <3>. QED  BY <2>2, <3>1
  <2>. QED  BY <1>1, <2>3, EmptyLen DEF DownOutLink
<1>3. NextOutIndex \in Nat
  BY TypedFields DEF NextOutIndex
<1>4. /\ CircuitsOK' /\ SentOK' /\ DOMAIN cm'.pending = DOMAIN cm.pending
      /\ \A h \in DOMAIN cm.pending : cm'.pending[h].disk = cm.pending[h].disk
      /\ \A i \in DOMAIN cm'.opened : ~(i >= NextOutIndex)
  <2>1. cm \in CircuitMaps
    BY DEF Typed
  <2>. QED  BY <1>1, <2>1, TrimmedOK
<1>RefsOK. RefsOK'
  BY <1>1, ForwardedAgain DEF RefsOK
<1>OutLinkOK. OutLinkOK'
  BY <1>1, <1>2 DEF OutLinkOK
<1>KeysOK. KeysOK'
  <2>1. /\ outLink'.up /\ DOMAIN outLink'.batch = {} /\ outLink'.log = << >>
        /\ NextOutIndex' = NextOutIndex
    BY <1>1, <1>2 DEF NextOutIndex
  <2>2. \A i \in NextOutIndex..NextOutIndex + Len(<< >>) - 1 : FALSE
    BY <1>3, EmptyLen
  <2>3. \A i \in DOMAIN cm'.opened : ~(i >= NextOutIndex)
    BY <1>4
  <2>. QED  BY <2>1, <2>2, <2>3 DEF KeysOK, Numbered
<1>CircuitsOK. CircuitsOK'
  BY <1>4
<1>SentOK. SentOK'
  BY <1>4
<1>PlaceOK. PlaceOK'
  <2>1. OnWay' = OnWay /\ Committed' = Committed
    BY <1>1 DEF OnWay, Committed, Named
  <2>2. Failing' = Failing
    BY <1>1, ForwardedAgain DEF Failing
  <2>. QED  BY <1>1, <1>4, <2>1, <2>2 DEF PlaceOK
<1>IcptOK. IcptOK'
  BY <1>1, <1>4 DEF IcptOK, PkgOf, Named
<1>PkgsOK. PkgsOK'
  BY <1>1, <1>4 DEF PkgsOK, PkgOf, Answered
<1>InLinkOK. InLinkOK'
  BY <1>1, <1>4 DEF InLinkOK, Answered
<1>RepliesOK. RepliesOK'
  <2>1. OnWay' = OnWay /\ Committed' = Committed
    BY <1>1 DEF OnWay, Committed, Named
  <2>. QED  BY <1>1, <2>1 DEF RepliesOK, Backed, Dead
<1>ResponsesOK. ResponsesOK'
  BY <1>1, ForwardedAgain DEF ResponsesOK, Answered
<1>. QED  BY <1>RefsOK, <1>OutLinkOK, <1>KeysOK, <1>CircuitsOK, <1>SentOK, <1>PlaceOK,
        <1>IcptOK, <1>PkgsOK, <1>InLinkOK, <1>RepliesOK, <1>ResponsesOK

\* A keystone to open is the number of an Add in the mailbox, and of no other.
LEMMA BatchFacts ==
    ASSUME IInv, outLink.up
    PROVE  LET ks == outLink.batch IN
           /\ ks \in Maps(Index, HTLCs) /\ IsFiniteSet(DOMAIN ks)
           /\ \A i \in DOMAIN ks : i \in Nat /\ i >= NextOutIndex /\ ks[i] \in Named(outBox.pkts)
           /\ \A i, j \in DOMAIN ks : ks[i] = ks[j] => i = j
           /\ \A i \in DOMAIN cm.opened, j \in DOMAIN ks : cm.opened[i] # ks[j]
<1>. USE DEF IInv
<1>. DEFINE At(i) == i - NextOutIndex + 1
<1>1. /\ outLink.batch \in Maps(Index, HTLCs) /\ IsFiniteSet(DOMAIN outLink.batch)
      /\ \A i \in DOMAIN outLink.batch : i \in Nat /\ i >= NextOutIndex
  BY TypedFields, MapsFacts DEF KeysOK, Index
<1>2. /\ NextOutIndex \in Nat /\ Len(outLink.log) \in Nat
      /\ DOMAIN outLink.log = 1..Len(outLink.log)
      /\ DOMAIN outCh.htlcs = 1..NextOutIndex - 1
  <2>1. outLink.log \in Seq(HTLCs) /\ outCh.htlcs \in Seq(OutHtlcs)
    BY TypedFields
  <2>. QED  BY <2>1 DEF NextOutIndex
<1>3. \A i \in DOMAIN cm.opened : i \in Nat
  BY TypedCircuits DEF Index
<1>4. \A k \in DOMAIN outLink.log : k \in DOMAIN outBox.pkts /\ outLink.log[k] = outBox.pkts[k].h
  <2>1. Len(outLink.log) = outBox.head - 1 /\ outBox.head <= Len(outBox.pkts) + 1
            /\ outBox.head \in Nat
    BY TypedFields DEF OutLinkOK, Index
  <2>2. outBox.pkts \in Seq(Adds)
    BY TypedFields
  <2>3. DOMAIN outBox.pkts = 1..Len(outBox.pkts) /\ Len(outBox.pkts) \in Nat
    BY <2>2
  <2>. QED  BY <1>2, <2>1, <2>3 DEF OutLinkOK
<1>5. \A i \in DOMAIN outLink.batch : At(i) \in DOMAIN outLink.log
          /\ outLink.batch[i] = outLink.log[At(i)]
  <2>. SUFFICES ASSUME NEW i \in DOMAIN outLink.batch
                PROVE  At(i) \in DOMAIN outLink.log /\ outLink.batch[i] = outLink.log[At(i)]
    OBVIOUS
  <2>1. i < NextOutIndex + Len(outLink.log) /\ outLink.batch[i] = outLink.log[At(i)]
    BY <1>1 DEF KeysOK, Numbered
  <2>2. At(i) \in 1..Len(outLink.log)
    BY <1>1, <1>2, <2>1
  <2>. QED  BY <1>2, <2>1, <2>2
<1>6. \A i \in DOMAIN cm.opened : i >= NextOutIndex =>
         At(i) \in DOMAIN outLink.log /\ cm.opened[i] = outLink.log[At(i)]
  <2>. SUFFICES ASSUME NEW i \in DOMAIN cm.opened, i >= NextOutIndex
                PROVE  At(i) \in DOMAIN outLink.log /\ cm.opened[i] = outLink.log[At(i)]
    OBVIOUS
  <2>1. i < NextOutIndex + Len(outLink.log) /\ cm.opened[i] = outLink.log[At(i)]
    BY DEF KeysOK, Numbered
  <2>2. At(i) \in 1..Len(outLink.log)
    BY <1>2, <1>3, <2>1
  <2>. QED  BY <1>2, <2>1, <2>2
<1>7. \A j, k \in DOMAIN outLink.log : outLink.log[j] = outLink.log[k] => j = k
  BY <1>4 DEF OutLinkOK
<1>8. \A i \in DOMAIN outLink.batch : outLink.batch[i] \in Named(outBox.pkts)
  <2>. HIDE DEF At
  <2>. QED  BY <1>4, <1>5 DEF Named
<1>9. ASSUME NEW i \in DOMAIN outLink.batch, NEW j \in DOMAIN outLink.batch,
          outLink.batch[i] = outLink.batch[j]
      PROVE  i = j
  <2>1. At(i) = At(j)
    <3>. HIDE DEF At
    <3>. QED  BY <1>5, <1>7, <1>9
  <2>. QED  BY <1>1, <1>2, <2>1
<1>10. ASSUME NEW i \in DOMAIN cm.opened, NEW j \in DOMAIN outLink.batch
       PROVE  cm.opened[i] # outLink.batch[j]
  <2>1. CASE i >= NextOutIndex
    <3>1. i < j
      BY DEF KeysOK
    <3>2. At(i) # At(j)
      BY <1>1, <1>2, <1>3, <3>1
    <3>. HIDE DEF At
    <3>. QED  BY <1>5, <1>6, <1>7, <2>1, <3>2
  <2>2. CASE ~(i >= NextOutIndex)
    <3>1. i \in DOMAIN outCh.htlcs
      <4>1. i >= 1
        BY TypedCircuits DEF Index
      <4>. QED  BY <1>2, <1>3, <2>2, <4>1
    <3>2. cm.opened[i] \in Committed
      BY <3>1 DEF SentOK, Committed, Named
    <3>. QED  BY <1>8, <3>2 DEF PlaceOK, OnWay
  <2>. QED  BY <2>1, <2>2
<1>. QED  BY <1>1, <1>8, <1>9, <1>10

\* The outgoing link opens the circuits of its batch.
LEMMA StepOpenKeystones ==
    ASSUME IInv, Typed', OpenKeystones
    PROVE  IInv'
<1>. USE DEF IInv
<1>. SUFFICES ASSUME ~OutLinkDown PROVE IInv'
  BY StepOutLinkDown
<1>. DEFINE ks == outLink.batch
<1>1. /\ outLink.up /\ ~outLink.signing
      /\ cm' = OpenCircuits(cm, ks) /\ DOMAIN ks \cap DOMAIN cm.opened = {}
      /\ \A i \in DOMAIN ks : ks[i] \in DOMAIN cm.pending
      /\ outLink' = [outLink EXCEPT !.batch = << >>, !.signing = TRUE]
      /\ UNCHANGED <<inCh, outCh, sw, inBox, outBox, inLink>>
  BY DEF OpenKeystones, DuplicateKeystone, UnknownCircuit, LookupCircuit
<1>2. /\ ks \in Maps(Index, HTLCs) /\ IsFiniteSet(DOMAIN ks)
      /\ \A i \in DOMAIN ks : i \in Nat /\ i >= NextOutIndex /\ ks[i] \in Named(outBox.pkts)
      /\ \A i, j \in DOMAIN ks : ks[i] = ks[j] => i = j
      /\ \A i \in DOMAIN cm.opened, j \in DOMAIN ks : cm.opened[i] # ks[j]
  BY <1>1, BatchFacts DEF ks
<1>. HIDE DEF ks
<1>3. /\ DOMAIN cm'.opened = DOMAIN cm.opened \cup DOMAIN ks
      /\ DOMAIN cm'.keys = DOMAIN cm.keys \cup DOMAIN ks
      /\ \A i \in DOMAIN ks : cm'.opened[i] = ks[i] /\ cm'.keys[i] = ks[i]
      /\ \A i \in DOMAIN cm.opened \ DOMAIN ks : cm'.opened[i] = cm.opened[i]
      /\ \A i \in DOMAIN cm.keys \ DOMAIN ks : cm'.keys[i] = cm.keys[i]
  <2>1. cm \in CircuitMaps
    BY DEF Typed
  <2>2. cm'.keys = Overlay(cm.keys, ks) /\ cm'.opened = Overlay(cm.opened, ks)
    BY <1>1, <1>2, <2>1, OpenFacts
  <2>3. /\ DOMAIN Overlay(cm.keys, ks) = DOMAIN cm.keys \cup DOMAIN ks
        /\ \A x \in DOMAIN ks : Overlay(cm.keys, ks)[x] = ks[x]
        /\ \A x \in DOMAIN cm.keys \ DOMAIN ks : Overlay(cm.keys, ks)[x] = cm.keys[x]
    BY OverlayFacts
  <2>4. /\ DOMAIN Overlay(cm.opened, ks) = DOMAIN cm.opened \cup DOMAIN ks
        /\ \A x \in DOMAIN ks : Overlay(cm.opened, ks)[x] = ks[x]
        /\ \A x \in DOMAIN cm.opened \ DOMAIN ks : Overlay(cm.opened, ks)[x] = cm.opened[x]
    BY OverlayFacts
  <2>. QED  BY <2>2, <2>3, <2>4
<1>4. /\ DOMAIN cm'.pending = DOMAIN cm.pending /\ cm'.adds = cm.adds
      /\ \A h \in DOMAIN cm.pending \ Range(ks) : cm'.pending[h] = cm.pending[h]
      /\ \A h \in DOMAIN cm.pending \cap Range(ks) :
            /\ cm'.pending[h].disk = cm.pending[h].disk /\ cm'.pending[h].ref = cm.pending[h].ref
            /\ cm'.pending[h].out \in DOMAIN ks /\ ks[cm'.pending[h].out] = h
      /\ \A i \in DOMAIN ks : cm'.pending[ks[i]].out = i
  <2>1. cm \in CircuitMaps
    BY DEF Typed
  <2>2. /\ DOMAIN cm'.pending = DOMAIN cm.pending /\ cm'.adds = cm.adds
        /\ \A h \in DOMAIN cm.pending \ Range(ks) : cm'.pending[h] = cm.pending[h]
        /\ \A h \in DOMAIN cm.pending \cap Range(ks) :
            /\ cm'.pending[h].disk = cm.pending[h].disk /\ cm'.pending[h].ref = cm.pending[h].ref
            /\ cm'.pending[h].out \in DOMAIN ks /\ ks[cm'.pending[h].out] = h
    BY <1>1, <1>2, <2>1, OpenFacts
  <2>3. \A i \in DOMAIN ks : ks[i] \in DOMAIN cm.pending \cap Range(ks)
    BY <1>1 DEF Range
  <2>. QED  BY <1>2, <2>2, <2>3
<1>5. /\ outLink'.up /\ outLink'.signing /\ DOMAIN outLink'.batch = {} /\ outLink'.log = outLink.log
  <2>1. outLink'.batch = << >> /\ outLink'.up = outLink.up /\ outLink'.signing
            /\ outLink'.log = outLink.log
    BY <1>1 DEF Typed, OutLinks
  <2>. QED  BY <1>1, <2>1, EmptyLen
<1>6. NextOutIndex' = NextOutIndex
  BY <1>1 DEF NextOutIndex
<1>RefsOK. RefsOK'
  BY <1>1 DEF RefsOK
<1>OutLinkOK. OutLinkOK'
  BY <1>1, <1>2, <1>5 DEF OutLinkOK
<1>KeysOK. KeysOK'
  <2>1. Numbered(cm.opened)'
    <3>. SUFFICES ASSUME NEW i \in DOMAIN cm'.opened, i >= NextOutIndex
                  PROVE  /\ i < NextOutIndex + Len(outLink.log)
                         /\ cm'.opened[i] = outLink.log[i - NextOutIndex + 1]
      BY <1>5, <1>6 DEF Numbered
    <3>1. CASE i \in DOMAIN ks
      BY <1>1, <1>3, <3>1 DEF KeysOK, Numbered, ks
    <3>2. CASE i \notin DOMAIN ks
      BY <1>1, <1>3, <3>2 DEF KeysOK, Numbered
    <3>. QED  BY <3>1, <3>2
  <2>2. \A i \in NextOutIndex..NextOutIndex + Len(outLink.log) - 1 : i \in DOMAIN cm'.opened
    BY <1>1, <1>3 DEF KeysOK, ks
  <2>3. Numbered(outLink.batch)'
    BY <1>5 DEF Numbered
  <2>. QED  BY <1>5, <1>6, <2>1, <2>2, <2>3 DEF KeysOK
<1>CircuitsOK. CircuitsOK'
  <2>1. ASSUME NEW i \in DOMAIN cm'.opened
        PROVE  /\ cm'.keys[i] = cm'.opened[i]
               /\ cm'.opened[i] \in DOMAIN cm'.pending /\ cm'.pending[cm'.opened[i]].out = i
    <3>1. CASE i \in DOMAIN ks
      BY <1>1, <1>2, <1>3, <1>4, <3>1
    <3>2. CASE i \notin DOMAIN ks
      <4>1. i \in DOMAIN cm.opened /\ cm'.opened[i] = cm.opened[i] /\ cm'.keys[i] = cm.keys[i]
        BY <1>3, <3>2 DEF CircuitsOK
      <4>2. cm.opened[i] \in DOMAIN cm.pending \ Range(ks)
        BY <1>2, <4>1 DEF CircuitsOK, Range
      <4>. QED  BY <1>3, <1>4, <4>1, <4>2 DEF CircuitsOK
    <3>. QED  BY <3>1, <3>2
  <2>2. ASSUME NEW h \in DOMAIN cm'.pending, cm'.pending[h].out # 0
        PROVE  cm'.pending[h].out \in DOMAIN cm'.opened /\ cm'.opened[cm'.pending[h].out] = h
    <3>1. CASE h \in Range(ks)
      BY <1>3, <1>4, <3>1
    <3>2. CASE h \notin Range(ks)
      BY <1>1, <1>3, <1>4, <2>2, <3>2 DEF CircuitsOK
    <3>. QED  BY <3>1, <3>2
  <2>3. \A h \in DOMAIN cm'.pending : cm'.pending[h].ref = cm.pending[h].ref
    BY <1>4
  <2>. QED  BY <1>3, <1>4, <2>1, <2>2, <2>3 DEF CircuitsOK
<1>SentOK. SentOK'
  <2>. SUFFICES ASSUME NEW i \in DOMAIN outCh.htlcs
                PROVE  /\ outCh.htlcs[i].h \in DOMAIN cm'.pending =>
                             cm'.pending[outCh.htlcs[i].h].out = i
                       /\ i \in DOMAIN cm'.opened => cm'.opened[i] = outCh.htlcs[i].h
    BY <1>1, <1>4 DEF SentOK
  <2>1. outCh.htlcs[i].h \notin Range(ks)
    <3>1. outCh.htlcs[i].h \in Committed
      BY DEF Committed, Named
    <3>2. \A j \in DOMAIN ks : ks[j] \in OnWay /\ ks[j] \notin Committed
      BY <1>2 DEF PlaceOK, OnWay
    <3>. QED  BY <3>1, <3>2 DEF Range
  <2>2. i \notin DOMAIN ks
    <3>1. i \in Nat /\ i < NextOutIndex /\ NextOutIndex \in Nat
      BY TypedFields DEF NextOutIndex
    <3>. QED  BY <1>2, <3>1
  <2>. QED  BY <1>3, <1>4, <2>1, <2>2 DEF SentOK
<1>PlaceOK. PlaceOK'
  <2>1. OnWay' = OnWay /\ Committed' = Committed /\ Failing' = Failing
    BY <1>1 DEF OnWay, Committed, Failing, Named
  <2>2. \A h \in DOMAIN cm'.pending : cm'.pending[h].disk = cm.pending[h].disk
    BY <1>4
  <2>. QED  BY <1>1, <1>4, <2>1, <2>2 DEF PlaceOK
<1>IcptOK. IcptOK'
  BY <1>1, <1>4 DEF IcptOK, PkgOf, Named
<1>PkgsOK. PkgsOK'
  BY <1>1, <1>4 DEF PkgsOK, PkgOf, Answered
<1>InLinkOK. InLinkOK'
  BY <1>1, <1>4 DEF InLinkOK, Answered
<1>RepliesOK. RepliesOK'
  BY <1>1 DEF RepliesOK, Backed, Dead, OnWay, Committed, Named
<1>ResponsesOK. ResponsesOK'
  BY <1>1 DEF ResponsesOK, Answered
<1>. QED  BY <1>RefsOK, <1>OutLinkOK, <1>KeysOK, <1>CircuitsOK, <1>SentOK, <1>PlaceOK,
        <1>IcptOK, <1>PkgsOK, <1>InLinkOK, <1>RepliesOK, <1>ResponsesOK

\* The outgoing link signs its log and the Adds leave the mailbox.
LEMMA StepSignOut ==
    ASSUME IInv, Typed', SignOut
    PROVE  IInv'
<1>. USE DEF IInv
<1>1. /\ outLink.up /\ outLink.signing
      /\ outCh'.htlcs = outCh.htlcs \o [k \in DOMAIN outLink.log |-> [h |-> outLink.log[k], fate |-> "live"]]
      /\ outCh'.acked = outCh.acked /\ outBox' = AckPackets(outBox, Range(outLink.log))
      /\ outLink' = [outLink EXCEPT !.log = << >>, !.signing = FALSE]
      /\ UNCHANGED <<inCh, cm, sw, inBox, inLink>>
  BY DEF SignOut, Typed, OutChTypes
<1>2. /\ NextOutIndex \in Nat /\ outLink.log \in Seq(HTLCs) /\ Len(outLink.log) \in Nat
      /\ DOMAIN outLink.log = 1..Len(outLink.log) /\ outCh.htlcs \in Seq(OutHtlcs)
      /\ NextOutIndex = Len(outCh.htlcs) + 1
  <2>1. outLink.log \in Seq(HTLCs) /\ outCh.htlcs \in Seq(OutHtlcs)
    BY TypedFields
  <2>. QED  BY <2>1 DEF NextOutIndex
<1>3. /\ outLink'.log = << >> /\ Len(outLink'.log) = 0 /\ DOMAIN outLink'.log = {}
      /\ ~outLink'.signing
      /\ outLink'.up /\ DOMAIN outLink'.batch = {} /\ DOMAIN outLink.batch = {}
  <2>1. /\ outLink'.log = << >> /\ outLink'.up = outLink.up /\ ~outLink'.signing
        /\ outLink'.batch = outLink.batch
    BY <1>1 DEF Typed, OutLinks
  <2>. QED  BY <1>1, <2>1, EmptyLen DEF OutLinkOK
<1>. PICK n \in Nat : n = NextOutIndex
  BY <1>2
<1>. PICK m \in Nat : m = Len(outLink.log)
  BY <1>2
<1>4. /\ NextOutIndex' = n + m /\ DOMAIN outLink.log = 1..m /\ n >= 1
      /\ DOMAIN outCh'.htlcs = 1..n + m - 1 /\ DOMAIN outCh.htlcs = 1..n - 1
      /\ \A i \in DOMAIN outCh.htlcs : outCh'.htlcs[i] = outCh.htlcs[i]
      /\ \A k \in 1..m : outCh'.htlcs[n - 1 + k].h = outLink.log[k]
  <2>. DEFINE t == [k \in DOMAIN outLink.log |-> [h |-> outLink.log[k], fate |-> "live"]]
  <2>1. t \in [1..m -> OutHtlcs]
    BY <1>2 DEF OutHtlcs, OutStates
  <2>2. t \in Seq(OutHtlcs)
    BY <2>1, SeqFacts
  <2>3. DOMAIN t = 1..m /\ \A k \in 1..m : t[k].h = outLink.log[k]
    BY <1>2
  <2>. HIDE DEF t
  <2>4. Len(t) = m
    BY <2>2, <2>3
  <2>5. outCh'.htlcs = outCh.htlcs \o t
    BY <1>1 DEF t
  <2>6. /\ Len(outCh'.htlcs) = Len(outCh.htlcs) + Len(t) /\ outCh'.htlcs \in Seq(OutHtlcs)
        /\ \A k \in 1..Len(outCh.htlcs) : outCh'.htlcs[k] = outCh.htlcs[k]
        /\ \A k \in 1..Len(t) : outCh'.htlcs[Len(outCh.htlcs) + k] = t[k]
    BY <1>2, <2>2, <2>5, ConcatFacts
  <2>7. NextOutIndex' = Len(outCh'.htlcs) + 1
    BY DEF NextOutIndex
  <2>8. DOMAIN outCh.htlcs = 1..Len(outCh.htlcs) /\ DOMAIN outCh'.htlcs = 1..Len(outCh'.htlcs)
    BY <1>2, <2>6
  <2>. PICK l \in Nat : l = Len(outCh.htlcs) /\ n = l + 1
    BY <1>2
  <2>9. l = n - 1 /\ l + m = n + m - 1 /\ l + m + 1 = n + m /\ n >= 1
    <3>1. \A a, b, c \in Nat : c = a + 1 =>
             a = c - 1 /\ a + b = c + b - 1 /\ a + b + 1 = c + b /\ c >= 1
      OBVIOUS
    <3>2. n = l + 1
      OBVIOUS
    <3>. QED  BY <3>1, <3>2, ZenonT(60)
  <2>10. Len(outCh'.htlcs) = l + m
    BY <2>4, <2>6
  <2>11. NextOutIndex' = n + m
    BY <2>7, <2>9, <2>10
  <2>12. DOMAIN outCh'.htlcs = 1..n + m - 1 /\ DOMAIN outCh.htlcs = 1..n - 1
    BY <2>8, <2>9, <2>10
  <2>13. \A k \in 1..m : outCh'.htlcs[n - 1 + k].h = outLink.log[k]
    <3>1. \A k \in 1..m : outCh'.htlcs[l + k] = t[k]
      BY <2>4, <2>6
    <3>. QED  BY <2>3, <2>9, <3>1, Zenon
  <2>. QED  BY <1>2, <2>6, <2>8, <2>9, <2>11, <2>12, <2>13
<1>5. /\ DOMAIN outCh.htlcs \subseteq DOMAIN outCh'.htlcs
      /\ \A i \in DOMAIN outCh.htlcs : outCh'.htlcs[i] = outCh.htlcs[i]
  <2>1. 1..n - 1 \subseteq 1..n + m - 1
    OBVIOUS
  <2>. QED  BY <1>4, <2>1
<1>6. \A h \in Range(outLink.log) : h \in Named(outBox.pkts) /\ h \in OnWay
  <2>1. Range(outLink.log) = {outBox.pkts[k].h : k \in 1..outBox.head - 1}
    BY AckLog
  <2>2. \A k \in 1..outBox.head - 1 : k \in DOMAIN outBox.pkts
    <3>1. /\ outBox.head \in Nat /\ outBox.head <= Len(outBox.pkts) + 1 /\ outBox.pkts \in Seq(Adds)
      BY TypedFields DEF Index
    <3>. QED  BY <3>1
  <2>. QED  BY <2>1, <2>2 DEF Named, OnWay
<1>7. \A i \in DOMAIN outCh'.htlcs \ DOMAIN outCh.htlcs :
         /\ outCh'.htlcs[i].h \in Range(outLink.log)
         /\ i \in DOMAIN cm.opened /\ cm.opened[i] = outCh'.htlcs[i].h
  <2>. SUFFICES ASSUME NEW i \in DOMAIN outCh'.htlcs \ DOMAIN outCh.htlcs
                PROVE  /\ outCh'.htlcs[i].h \in Range(outLink.log)
                       /\ i \in DOMAIN cm.opened /\ cm.opened[i] = outCh'.htlcs[i].h
    OBVIOUS
  <2>. DEFINE k == i - n + 1
  <2>0. i \in 1..n + m - 1 /\ i \notin 1..n - 1
    BY <1>4
  <2>1. i \in Nat /\ i >= n /\ k \in 1..m /\ i = n - 1 + k /\ i \in n..n + m - 1
    BY <2>0
  <2>2. i \in DOMAIN cm.opened
    BY <1>1, <1>3, <2>1 DEF KeysOK
  <2>3. cm.opened[i] = outLink.log[k]
    BY <1>1, <2>1, <2>2 DEF KeysOK, Numbered
  <2>. HIDE DEF k
  <2>4. outCh'.htlcs[i].h = outLink.log[k]
    BY <1>4, <2>1
  <2>. QED  BY <1>4, <2>1, <2>2, <2>3, <2>4 DEF Range
<1>8. \A i, j \in DOMAIN outCh'.htlcs \ DOMAIN outCh.htlcs :
          outCh'.htlcs[i].h = outCh'.htlcs[j].h => i = j
  BY <1>7 DEF CircuitsOK
<1>9. Named(outBox.pkts)' = Named(outBox.pkts) \ Range(outLink.log)
  <2>1. Named(outBox'.pkts) = Named(outBox.pkts) \ Range(outLink.log)
    BY <1>1, AckKept
  <2>. QED  BY <2>1 DEF Named
<1>10. \A h \in Committed' : h \in Committed \/ h \in Range(outLink.log)
  BY <1>5, <1>7 DEF Committed, Named
<1>RefsOK. RefsOK'
  <2>1. \A k \in DOMAIN outBox'.pkts : outBox'.pkts[k].ref = RefOf(outBox'.pkts[k].h)
    <3>1. \A k \in DOMAIN outBox'.pkts : \E j \in DOMAIN outBox.pkts :
              outBox'.pkts[k] = outBox.pkts[j]
      <4>. DEFINE b == AckPackets(outBox, Range(outLink.log))
      <4>1. \A k \in DOMAIN b.pkts : \E j \in Kept(outBox, Range(outLink.log)) :
                b.pkts[k] = outBox.pkts[j]
        BY AckKept
      <4>. HIDE DEF b
      <4>2. outBox' = b
        BY <1>1 DEF b
      <4>. QED  BY <4>1, <4>2 DEF Kept
    <3>. QED  BY <3>1 DEF RefsOK
  <2>. QED  BY <1>1, <2>1 DEF RefsOK
<1>OutLinkOK. OutLinkOK'
  <2>1. \A j, k \in DOMAIN outBox'.pkts : outBox'.pkts[j].h = outBox'.pkts[k].h => j = k
    BY <1>1, AckKept
  <2>2. outBox'.head = 1
    BY <1>1, AckLog
  <2>. QED  BY <1>3, <2>1, <2>2 DEF OutLinkOK
<1>KeysOK. KeysOK'
  <2>1. \A i \in DOMAIN cm.opened : ~(i >= NextOutIndex')
    <3>1. \A i \in DOMAIN cm.opened : i \in Nat /\ (i >= n => i < n + m)
      BY <1>1, TypedCircuits DEF KeysOK, Numbered, Index
    <3>2. \A i \in DOMAIN cm.opened : ~(i >= n + m)
      BY <3>1
    <3>. QED  BY <1>4, <3>2
  <2>2. \A i \in NextOutIndex'..NextOutIndex' + Len(outLink'.log) - 1 : FALSE
    <3>1. \A i \in n + m..n + m + 0 - 1 : FALSE
      OBVIOUS
    <3>. QED  BY <1>3, <1>4, <3>1
  <2>3. Numbered(cm.opened)' /\ Numbered(outLink.batch)'
    BY <1>1, <1>3, <2>1 DEF Numbered
  <2>. QED  BY <1>1, <1>3, <2>2, <2>3 DEF KeysOK
<1>CircuitsOK. CircuitsOK'
  BY <1>1 DEF CircuitsOK
<1>SentOK. SentOK'
  <2>1. \A i \in DOMAIN outCh.htlcs, j \in DOMAIN outCh'.htlcs \ DOMAIN outCh.htlcs :
           outCh'.htlcs[i].h # outCh'.htlcs[j].h
    BY <1>5, <1>6, <1>7 DEF Committed, Named, PlaceOK
  <2>2. \A i, j \in DOMAIN outCh'.htlcs : outCh'.htlcs[i].h = outCh'.htlcs[j].h => i = j
    BY <1>5, <1>8, <2>1 DEF SentOK
  <2>3. \A i \in DOMAIN outCh'.htlcs \ DOMAIN outCh.htlcs :
          /\ outCh'.htlcs[i].h \in DOMAIN cm.pending /\ cm.pending[outCh'.htlcs[i].h].out = i
          /\ inCh.fate[outCh'.htlcs[i].h] = "live"
          /\ i \in DOMAIN cm.opened /\ cm.opened[i] = outCh'.htlcs[i].h
    BY <1>6, <1>7 DEF CircuitsOK, PlaceOK
  <2>4. \A i \in DOMAIN outCh.htlcs :
          /\ outCh'.htlcs[i].h \in DOMAIN cm.pending => cm.pending[outCh'.htlcs[i].h].out = i
          /\ inCh.fate[outCh'.htlcs[i].h] = "live" => outCh'.htlcs[i].h \in DOMAIN cm.pending
          /\ inCh.fate[outCh'.htlcs[i].h] # "none"
          /\ i \in DOMAIN cm.opened => cm.opened[i] = outCh'.htlcs[i].h
    BY <1>5 DEF SentOK
  <2>. QED  BY <1>1, <2>2, <2>3, <2>4 DEF SentOK
<1>PlaceOK. PlaceOK'
  <2>1. OnWay' \subseteq OnWay /\ Failing' = Failing
            /\ \A h \in OnWay' : h \notin Range(outLink.log)
    <3>1. \A h \in Range(outLink.log) : h \in Named(outBox.pkts)
      BY <1>6
    <3>2. Named(sw.route)' = Named(sw.route) /\ Failing' = Failing
      BY <1>1 DEF Named, Failing
    <3>3. Named(sw.route) \cap Named(outBox.pkts) = {}
      BY DEF PlaceOK
    <3>. QED  BY <1>9, <3>1, <3>2, <3>3 DEF OnWay
  <2>2. \A h \in Committed' : h \in Committed \/ h \in Range(outLink.log)
    BY <1>10
  <2>3. \A h \in Range(outLink.log) : h \in OnWay
    BY <1>6 DEF OnWay
  <2>4. Named(sw.route)' \cap Named(outBox.pkts)' = {}
    <3>1. Named(sw.route)' = Named(sw.route)
      BY <1>1 DEF Named
    <3>. QED  BY <1>9, <3>1 DEF PlaceOK
  <2>. QED  BY <1>1, <2>1, <2>2, <2>3, <2>4 DEF PlaceOK
<1>IcptOK. IcptOK'
  BY <1>1 DEF IcptOK, PkgOf, Named
<1>PkgsOK. PkgsOK'
  BY <1>1 DEF PkgsOK, PkgOf, Answered
<1>InLinkOK. InLinkOK'
  BY <1>1 DEF InLinkOK, Answered
<1>RepliesOK. RepliesOK'
  <2>1. ASSUME NEW h, NEW r, Backed(h, r) PROVE Backed(h, r)'
    <3>1. Dead(h) => Dead(h)'
      <4>1. \A x \in Range(outLink.log) : x \in OnWay
        BY <1>6 DEF OnWay
      <4>2. OnWay' \subseteq OnWay
        BY <1>1, <1>9 DEF OnWay, Named
      <4>. QED  BY <1>10, <4>1, <4>2 DEF Dead
    <3>. QED  BY <1>5, <2>1, <3>1 DEF Backed
  <2>2. \A h \in DOMAIN inBox : Backed(h, inBox[h])' /\ inCh.fate[h] # "none"
    <3>. SUFFICES ASSUME NEW h \in DOMAIN inBox PROVE Backed(h, inBox[h])' /\ inCh.fate[h] # "none"
      OBVIOUS
    <3>. PICK r : r = inBox[h]
      OBVIOUS
    <3>1. Backed(h, r)'
      BY <2>1 DEF RepliesOK
    <3>2. inBox'[h] = r /\ inCh.fate[h] # "none"
      BY <1>1 DEF RepliesOK
    <3>. QED  BY <3>1, <3>2 DEF Backed
  <2>3. \A h \in DOMAIN inLink.log : Backed(h, inLink.log[h])'
    <3>. SUFFICES ASSUME NEW h \in DOMAIN inLink.log PROVE Backed(h, inLink.log[h])'
      OBVIOUS
    <3>. PICK r : r = inLink.log[h]
      OBVIOUS
    <3>1. Backed(h, r)'
      BY <2>1 DEF RepliesOK
    <3>. QED  BY <1>1, <3>1 DEF Backed
  <2>. QED  BY <1>1, <2>2, <2>3 DEF RepliesOK
<1>ResponsesOK. ResponsesOK'
  BY <1>1, <1>5 DEF ResponsesOK, Answered
<1>. QED  BY <1>RefsOK, <1>OutLinkOK, <1>KeysOK, <1>CircuitsOK, <1>SentOK, <1>PlaceOK,
        <1>IcptOK, <1>PkgsOK, <1>InLinkOK, <1>RepliesOK, <1>ResponsesOK

\* The Adds that the interceptable switch holds, and what is known of their references.
LEMMA IcptFacts ==
    ASSUME IInv, sw.icpt # << >>
    PROVE  /\ sw.icpt \in Seq(Adds) /\ sw.route = << >>
           /\ IcptRefs \in Maps(HTLCs, AddRefs) /\ DOMAIN IcptRefs = Named(sw.icpt)
           /\ \A h \in Named(sw.icpt) : IcptRefs[h] = RefOf(h)
<1>. USE DEF IInv
<1>1. sw.icpt \in Seq(Adds) /\ sw.route = << >>
  BY TypedFields DEF PlaceOK
<1>2. /\ IcptRefs \in Maps(HTLCs, AddRefs)
      /\ \A k \in DOMAIN sw.icpt : sw.icpt[k].h \in DOMAIN IcptRefs
      /\ \A h \in DOMAIN IcptRefs : \E k \in DOMAIN sw.icpt :
            sw.icpt[k].h = h /\ IcptRefs[h] = sw.icpt[k].ref
  BY IcptRefsFacts
<1>3. DOMAIN IcptRefs = Named(sw.icpt)
  <2>1. ASSUME NEW h \in DOMAIN IcptRefs PROVE h \in Named(sw.icpt)
    BY <1>2 DEF Named
  <2>2. ASSUME NEW h \in Named(sw.icpt) PROVE h \in DOMAIN IcptRefs
    <3>1. PICK k \in DOMAIN sw.icpt : h = sw.icpt[k].h
      BY DEF Named
    <3>. QED  BY <1>2, <3>1
  <2>. QED  BY <2>1, <2>2
<1>4. \A h \in Named(sw.icpt) : IcptRefs[h] = RefOf(h)
  BY <1>2, <1>3 DEF RefsOK
<1>. QED  BY <1>1, <1>2, <1>3, <1>4

\* The switch takes the Adds it holds and at most fails them back.
LEMMA StepFailedBack ==
    ASSUME IInv, Typed', sw.icpt # << >>, sw'.icpt = << >>,
           sw'.route = << >>, sw'.plex = sw.plex, sw'.pendingSettleFails = sw.pendingSettleFails,
           inLink' = [inLink EXCEPT !.paused = FALSE], UNCHANGED <<inCh, outCh, cm, outBox, outLink>>,
           \A h \in DOMAIN inBox : h \in DOMAIN inBox' /\ inBox'[h] = inBox[h],
           \A h \in DOMAIN inBox' \ DOMAIN inBox :
              /\ h \in Named(sw.icpt) /\ Dead(h)
              /\ inBox'[h] = [fate |-> "failed", ref |-> RefOf(h), dest |-> 0]
    PROVE  IInv'
<1>. USE DEF IInv
<1>1. /\ Named(sw.icpt)' = {} /\ Named(sw.route)' = {}
      /\ DOMAIN sw'.icpt = {} /\ DOMAIN sw'.route = {} /\ Named(sw.route) = {}
  BY IcptFacts, EmptyLen DEF Named
<1>2. /\ inLink'.up = inLink.up /\ inLink'.todo = inLink.todo /\ inLink'.log = inLink.log
      /\ inLink'.acking = inLink.acking /\ inLink'.closing = inLink.closing
  BY DEF Typed, InLinks
<1>3. OnWay' = OnWay /\ Committed' = Committed /\ Failing' = Failing
  BY <1>1 DEF OnWay, Committed, Failing, Named
<1>4. \A h \in DOMAIN inBox' :
         h \in DOMAIN inBox \/ (h \in Named(sw.icpt) /\ inCh.fate[h] = "live" /\ Dead(h))
  BY DEF IcptOK
<1>5. \A h \in Named(sw.icpt) : PkgOf(h).state = "Processed"
  BY DEF IcptOK
<1>6. ~inLink'.up => inLink' = DownInLink
  <2>1. ~inLink.up => inLink = DownInLink /\ ~inLink.paused
    BY DEF InLinkOK, DownInLink
  <2>2. ~inLink.paused => inLink' = inLink
    BY DEF Typed, InLinks
  <2>. QED  BY <1>2, <2>1, <2>2
<1>RefsOK. RefsOK'
  BY <1>1 DEF RefsOK
<1>OutLinkOK. OutLinkOK'
  BY <1>1 DEF OutLinkOK
<1>KeysOK. KeysOK'
  BY <1>1 DEF KeysOK, Numbered, NextOutIndex
<1>CircuitsOK. CircuitsOK'
  BY <1>1 DEF CircuitsOK
<1>SentOK. SentOK'
  BY <1>1 DEF SentOK
<1>PlaceOK. PlaceOK'
  BY <1>1, <1>2, <1>3, <1>4 DEF PlaceOK, Dead
<1>IcptOK. IcptOK'
  BY <1>1 DEF IcptOK
<1>PkgsOK. PkgsOK'
  BY <1>2, <1>3, <1>4, <1>5 DEF PkgsOK, PkgOf, Answered
<1>InLinkOK. InLinkOK'
  BY <1>2, <1>6 DEF InLinkOK, Answered
<1>RepliesOK. RepliesOK'
  <2>1. \A h, r : Backed(h, r) => Backed(h, r)'
    BY <1>3 DEF Backed, Dead
  <2>2. \A h \in DOMAIN inBox' : inCh'.fate[h] # "none"
    BY <1>4 DEF RepliesOK
  <2>3. \A h \in DOMAIN inBox' : Backed(h, inBox[h])'
    <3>. SUFFICES ASSUME NEW h \in DOMAIN inBox' PROVE Backed(h, inBox[h])'
      OBVIOUS
    <3>. PICK r : r = inBox'[h]
      OBVIOUS
    <3>1. Backed(h, r)
      <4>1. CASE h \in DOMAIN inBox
        BY <4>1 DEF RepliesOK
      <4>2. CASE h \notin DOMAIN inBox
        BY <4>2 DEF Backed
      <4>. QED  BY <4>1, <4>2
    <3>2. Backed(h, r)'
      BY <2>1, <3>1
    <3>. QED  BY <3>2 DEF Backed
  <2>4. \A h \in DOMAIN inLink.log : Backed(h, inLink.log[h])'
    <3>. SUFFICES ASSUME NEW h \in DOMAIN inLink.log PROVE Backed(h, inLink.log[h])'
      OBVIOUS
    <3>. PICK r : r = inLink.log[h]
      OBVIOUS
    <3>1. Backed(h, r)'
      BY <2>1 DEF RepliesOK
    <3>. QED  BY <1>2, <3>1 DEF Backed
  <2>. QED  BY <1>2, <1>4, <2>2, <2>3, <2>4 DEF RepliesOK
<1>ResponsesOK. ResponsesOK'
  BY <1>1 DEF ResponsesOK, Answered
<1>. QED  BY <1>RefsOK, <1>OutLinkOK, <1>KeysOK, <1>CircuitsOK, <1>SentOK, <1>PlaceOK,
        <1>IcptOK, <1>PkgsOK, <1>InLinkOK, <1>RepliesOK, <1>ResponsesOK

\* The switch commits the circuits of the Adds it does not know, and fails back some others.
LEMMA StepForwardNew ==
    ASSUME IInv, Typed', sw.icpt # << >>, sw'.icpt = << >>, sw'.plex = sw.plex,
           sw'.route =
              SubsequenceAt(sw.icpt, {k \in DOMAIN sw.icpt : sw.icpt[k].h \notin DOMAIN cm.pending}),
           sw'.pendingSettleFails = sw.pendingSettleFails,
           inLink' = [inLink EXCEPT !.paused = FALSE],
           cm' = CommitCircuits(cm, IcptRefs), UNCHANGED <<inCh, outCh, outBox, outLink>>,
           \A h \in DOMAIN inBox : h \in DOMAIN inBox' /\ inBox'[h] = inBox[h],
           \A h \in DOMAIN inBox' \ DOMAIN inBox :
              /\ h \in Named(sw.icpt) /\ h \in DOMAIN cm.pending /\ Dead(h)
              /\ inBox'[h] = [fate |-> "failed", ref |-> RefOf(h), dest |-> 0]
    PROVE  IInv'
<1>. USE DEF IInv
<1>. DEFINE N == Named(sw.icpt) \ DOMAIN cm.pending
            I == {k \in DOMAIN sw.icpt : sw.icpt[k].h \notin DOMAIN cm.pending}
<1>1. /\ sw.icpt \in Seq(Adds) /\ Named(sw.route) = {}
      /\ IcptRefs \in Maps(HTLCs, AddRefs) /\ DOMAIN IcptRefs = Named(sw.icpt)
      /\ \A h \in N : IcptRefs[h] = RefOf(h)
  BY IcptFacts, EmptyLen DEF Named
<1>2. /\ \A k \in DOMAIN sw'.route : \E i \in I : sw'.route[k] = sw.icpt[i]
      /\ \A j, k \in DOMAIN sw'.route : sw'.route[j].h = sw'.route[k].h => j = k
      /\ Named(sw.route)' = N
  <2>. DEFINE t == SubsequenceAt(sw.icpt, I)
              n == Len(sw.icpt)
  <2>1. I \in SUBSET (DOMAIN sw.icpt) /\ n \in Nat /\ I \in SUBSET (1..n)
    BY <1>1
  <2>5. \A i \in I : i \in DOMAIN sw.icpt /\ sw.icpt[i].h \notin DOMAIN cm.pending
    OBVIOUS
  <2>6. \A i \in DOMAIN sw.icpt : sw.icpt[i].h \notin DOMAIN cm.pending => i \in I
    OBVIOUS
  <2>4. sw'.route = t
    OBVIOUS
  <2>. HIDE DEF I, n
  <2>2. /\ DOMAIN t = 1..Cardinality(I)
        /\ \A k \in DOMAIN t : PlaceAt(I, k) \in I /\ t[k] = sw.icpt[PlaceAt(I, k)]
        /\ \A i \in I : Rank(I, i) \in DOMAIN t /\ t[Rank(I, i)] = sw.icpt[i]
    BY <1>1, <2>1, SubsequenceFacts
  <2>3. \A k \in 1..Cardinality(I) : Rank(I, PlaceAt(I, k)) = k
    BY <2>1, PlaceFacts
  <2>. HIDE DEF t
  <2>7. ASSUME NEW j \in DOMAIN t, NEW k \in DOMAIN t, t[j].h = t[k].h PROVE j = k
    <3>1. PlaceAt(I, j) \in DOMAIN sw.icpt /\ PlaceAt(I, k) \in DOMAIN sw.icpt
      BY <2>2, <2>5
    <3>2. PlaceAt(I, j) = PlaceAt(I, k)
      BY <2>2, <2>7, <3>1 DEF PlaceOK
    <3>. QED  BY <2>2, <2>3, <3>2
  <2>8. Named(t) = N
    BY <2>2, <2>5, <2>6 DEF Named
  <2>9. Named(sw.route)' = Named(t)
    BY <2>4 DEF Named
  <2>. QED  BY <2>2, <2>4, <2>7, <2>8, <2>9
<1>3. /\ cm'.keys = cm.keys /\ cm'.opened = cm.opened
      /\ DOMAIN cm'.adds = DOMAIN cm.adds \cup N
      /\ DOMAIN cm'.pending = DOMAIN cm.pending \cup N
      /\ \A h \in N : /\ cm'.adds[h] = RefOf(h)
                      /\ cm'.pending[h] = [out |-> 0, disk |-> FALSE, ref |-> RefOf(h)]
      /\ \A g \in DOMAIN cm.adds \ N : cm'.adds[g] = cm.adds[g]
      /\ \A g \in DOMAIN cm.pending : cm'.pending[g] = cm.pending[g]
  <2>. DEFINE new == DOMAIN IcptRefs \ DOMAIN cm.pending
  <2>1. cm \in CircuitMaps /\ N = new
    BY <1>1 DEF Typed
  <2>2. /\ cm'.keys = cm.keys /\ cm'.opened = cm.opened
        /\ DOMAIN cm'.adds = DOMAIN cm.adds \cup new
        /\ DOMAIN cm'.pending = DOMAIN cm.pending \cup new
        /\ \A g \in new : cm'.adds[g] = IcptRefs[g]
                          /\ cm'.pending[g] = [out |-> 0, disk |-> FALSE, ref |-> IcptRefs[g]]
        /\ \A g \in DOMAIN cm.adds \ new : cm'.adds[g] = cm.adds[g]
        /\ \A g \in DOMAIN cm.pending : cm'.pending[g] = cm.pending[g]
    BY <1>1, <2>1, CommitFacts
  <2>. HIDE DEF new, N
  <2>. QED  BY <1>1, <2>1, <2>2
<1>4. ASSUME NEW h \in N
      PROVE  /\ inCh.fate[h] = "live" /\ h \notin Invalid /\ h \notin DOMAIN inLink.log
             /\ h \notin DOMAIN inBox /\ h \notin DOMAIN inBox' /\ h \notin DOMAIN cm.pending
             /\ h \notin Failing /\ h \notin Committed /\ PkgOf(h).state = "Processed"
             /\ h \notin OnWay
  <2>1. /\ inCh.fate[h] = "live" /\ h \notin Invalid /\ h \notin DOMAIN inLink.log
        /\ h \notin DOMAIN inBox /\ PkgOf(h).state = "Processed" /\ h \notin DOMAIN cm.pending
    BY DEF IcptOK
  <2>2. h \notin Failing /\ h \notin OnWay
    BY <2>1 DEF PlaceOK
  <2>3. h \notin Committed
    BY <2>1 DEF SentOK, Committed, Named
  <2>. QED  BY <2>1, <2>2, <2>3
<1>5. OnWay' = OnWay \cup N /\ Committed' = Committed /\ Failing' = Failing
  <2>1. Named(outBox.pkts)' = Named(outBox.pkts) /\ Named(outCh.htlcs)' = Named(outCh.htlcs)
    BY DEF Named
  <2>2. Failing' = Failing
    BY DEF Failing
  <2>. QED  BY <1>1, <1>2, <2>1, <2>2 DEF OnWay, Committed
<1>6. /\ inLink'.up = inLink.up /\ inLink'.todo = inLink.todo /\ inLink'.log = inLink.log
      /\ inLink'.acking = inLink.acking /\ inLink'.closing = inLink.closing
  BY DEF Typed, InLinks
<1>7. ~inLink'.up => inLink' = DownInLink
  <2>1. ~inLink.up => inLink = DownInLink /\ ~inLink.paused
    BY DEF InLinkOK, DownInLink
  <2>2. ~inLink.paused => inLink' = inLink
    BY DEF Typed, InLinks
  <2>. QED  BY <1>6, <2>1, <2>2
<1>8. ASSUME NEW h \in DOMAIN inBox' \ DOMAIN inBox
      PROVE  /\ h \in DOMAIN cm.pending /\ Dead(h) /\ inCh.fate[h] = "live"
             /\ PkgOf(h).state = "Processed"
             /\ inBox'[h] = [fate |-> "failed", ref |-> RefOf(h), dest |-> 0]
  BY <1>8 DEF IcptOK
<1>9. \A k \in I : k \in DOMAIN sw.icpt
  OBVIOUS
<1>. HIDE DEF N, I
<1>RefsOK. RefsOK'
  <2>1. \A k \in DOMAIN sw'.route : sw'.route[k].ref = RefOf(sw'.route[k].h)
    BY <1>2, <1>9 DEF RefsOK
  <2>2. DOMAIN sw'.icpt = {}
    BY EmptyLen
  <2>. QED  BY <2>1, <2>2 DEF RefsOK
<1>OutLinkOK. OutLinkOK'
  BY <1>1 DEF OutLinkOK
<1>KeysOK. KeysOK'
  <2>1. cm'.opened = cm.opened /\ NextOutIndex' = NextOutIndex
    BY <1>3 DEF NextOutIndex
  <2>. QED  BY <2>1 DEF KeysOK, Numbered
<1>CircuitsOK. CircuitsOK'
  <2>1. \A i \in DOMAIN cm.opened : cm.opened[i] \in DOMAIN cm.pending
            /\ cm.pending[cm.opened[i]].out = i
    BY DEF CircuitsOK
  <2>2. \A h \in N : h \notin Invalid /\ h \notin DOMAIN cm.pending
    BY <1>4
  <2>3. ASSUME NEW h \in N
        PROVE  cm'.pending[h].out = 0 /\ cm'.pending[h].ref = RefOf(h) /\ cm'.adds[h] = RefOf(h)
    <3>1. /\ cm'.adds[h] = RefOf(h)
          /\ cm'.pending[h] = [out |-> 0, disk |-> FALSE, ref |-> RefOf(h)]
      BY <1>3
    <3>. QED  BY <3>1
  <2>4. \A h \in DOMAIN cm'.pending :
           /\ cm'.adds[h] = RefOf(h) /\ cm'.pending[h].ref = RefOf(h)
           /\ cm'.pending[h].out # 0 => h \in DOMAIN cm.pending /\ cm'.pending[h] = cm.pending[h]
    <3>. SUFFICES ASSUME NEW h \in DOMAIN cm'.pending
                  PROVE  /\ cm'.adds[h] = RefOf(h) /\ cm'.pending[h].ref = RefOf(h)
                         /\ cm'.pending[h].out # 0 =>
                                h \in DOMAIN cm.pending /\ cm'.pending[h] = cm.pending[h]
      OBVIOUS
    <3>1. CASE h \in N
      BY <2>3, <3>1
    <3>2. CASE h \notin N
      <4>1. h \in DOMAIN cm.pending /\ h \in DOMAIN cm.adds \ N
        BY <1>3, <3>2 DEF CircuitsOK
      <4>. QED  BY <1>3, <4>1 DEF CircuitsOK
    <3>. QED  BY <3>1, <3>2
  <2>5. /\ DOMAIN cm'.adds = DOMAIN cm'.pending /\ DOMAIN cm'.keys = DOMAIN cm'.opened
        /\ \A i \in DOMAIN cm'.opened : cm'.keys[i] = cm'.opened[i]
        /\ DOMAIN cm'.pending \cap Invalid = {}
    BY <1>3, <2>2 DEF CircuitsOK
  <2>6. \A i \in DOMAIN cm'.opened :
          cm'.opened[i] \in DOMAIN cm'.pending /\ cm'.pending[cm'.opened[i]].out = i
    BY <1>3, <2>1
  <2>7. \A h \in DOMAIN cm'.pending :
          cm'.pending[h].out # 0 =>
              cm'.pending[h].out \in DOMAIN cm'.opened /\ cm'.opened[cm'.pending[h].out] = h
    BY <1>3, <2>4 DEF CircuitsOK
  <2>. QED  BY <2>4, <2>5, <2>6, <2>7 DEF CircuitsOK
<1>SentOK. SentOK'
  <2>1. \A i \in DOMAIN outCh.htlcs : outCh.htlcs[i].h \notin N
    BY <1>4 DEF Committed, Named
  <2>. QED  BY <1>3, <2>1 DEF SentOK
<1>PlaceOK. PlaceOK'
  <2>1. N \cap Named(outBox.pkts) = {}
    BY <1>4 DEF OnWay
  <2>2. Named(outBox.pkts)' = Named(outBox.pkts) /\ Named(sw.route)' = N
    BY <1>2 DEF Named
  <2>3. sw'.icpt = << >> /\ DOMAIN sw'.icpt = {}
    BY EmptyLen
  <2>4. ASSUME NEW g \in OnWay
        PROVE  /\ inCh.fate[g] = "live" /\ g \in DOMAIN cm'.pending /\ ~cm'.pending[g].disk
               /\ g \notin DOMAIN inBox' /\ g \notin Failing' /\ g \notin Committed'
    <3>1. g \notin DOMAIN inBox'
      BY <1>8 DEF PlaceOK, Dead
    <3>. QED  BY <1>3, <1>5, <3>1 DEF PlaceOK
  <2>5. ASSUME NEW h \in N
        PROVE  /\ inCh.fate[h] = "live" /\ h \in DOMAIN cm'.pending /\ ~cm'.pending[h].disk
               /\ h \notin DOMAIN inBox' /\ h \notin Failing' /\ h \notin Committed'
    <3>1. h \in DOMAIN cm'.pending
              /\ cm'.pending[h] = [out |-> 0, disk |-> FALSE, ref |-> RefOf(h)]
      BY <1>3
    <3>. QED  BY <1>4, <1>5, <3>1
  <2>6. \A g \in Failing' :
          /\ g \notin Committed' /\ inCh.fate[g] # "none"
          /\ inCh.fate[g] = "live" => g \in DOMAIN cm'.pending
    BY <1>3, <1>5 DEF PlaceOK
  <2>. QED  BY <1>2, <1>5, <2>1, <2>2, <2>3, <2>4, <2>5, <2>6 DEF PlaceOK
<1>IcptOK. IcptOK'
  BY EmptyLen DEF IcptOK, Named
<1>PkgsOK. PkgsOK'
  <2>1. \A h \in N : PkgOf(h).state = "Processed"
    BY <1>4
  <2>2. \A g : PkgOf(g)' = PkgOf(g) /\ Answered(g)' = Answered(g)
    BY DEF PkgOf, Answered
  <2>3. \A h \in DOMAIN inBox' : h \in DOMAIN inBox \/ PkgOf(h).state = "Processed"
    BY <1>8
  <2>. QED  BY <1>3, <1>6, <2>1, <2>2, <2>3 DEF PkgsOK
<1>InLinkOK. InLinkOK'
  <2>1. \A h \in N : ~Answered(h) /\ inCh.fate[h] # "none"
    BY <1>4 DEF Answered
  <2>2. \A g : Answered(g)' = Answered(g)
    BY DEF Answered
  <2>. QED  BY <1>3, <1>6, <1>7, <2>1, <2>2 DEF InLinkOK
<1>RepliesOK. RepliesOK'
  <2>1. \A g, r : g \notin N /\ Backed(g, r) => Backed(g, r)'
    BY <1>5 DEF Backed, Dead
  <2>2. ASSUME NEW g \in DOMAIN inBox' PROVE Backed(g, inBox[g])' /\ inCh.fate[g] # "none"
    <3>. PICK r : r = inBox'[g]
      OBVIOUS
    <3>1. Backed(g, r) /\ g \notin N /\ inCh.fate[g] # "none"
      <4>1. CASE g \in DOMAIN inBox
        BY <1>4, <4>1 DEF RepliesOK
      <4>2. CASE g \notin DOMAIN inBox
        <5>1. /\ g \in DOMAIN cm.pending /\ Dead(g) /\ inCh.fate[g] = "live"
              /\ r = [fate |-> "failed", ref |-> RefOf(g), dest |-> 0]
          BY <1>8, <4>2
        <5>2. g \notin N
          BY <1>4, <5>1
        <5>. QED  BY <5>1, <5>2 DEF Backed
      <4>. QED  BY <4>1, <4>2
    <3>2. Backed(g, r)'
      BY <2>1, <3>1
    <3>. QED  BY <3>1, <3>2 DEF Backed
  <2>3. \A g \in DOMAIN inLink.log : Backed(g, inLink.log[g])'
    <3>. SUFFICES ASSUME NEW g \in DOMAIN inLink.log PROVE Backed(g, inLink.log[g])'
      OBVIOUS
    <3>. PICK r : r = inLink.log[g]
      OBVIOUS
    <3>1. Backed(g, r)'
      BY <1>4, <2>1 DEF RepliesOK
    <3>. QED  BY <1>6, <3>1 DEF Backed
  <2>4. \A h \in DOMAIN inLink.log : inLink.log[h].circuit => h \in DOMAIN inBox'
    BY DEF RepliesOK
  <2>. QED  BY <1>6, <2>2, <2>3, <2>4 DEF RepliesOK
<1>ResponsesOK. ResponsesOK'
  BY <1>1 DEF ResponsesOK, Answered
<1>. QED  BY <1>RefsOK, <1>OutLinkOK, <1>KeysOK, <1>CircuitsOK, <1>SentOK, <1>PlaceOK,
        <1>IcptOK, <1>PkgsOK, <1>InLinkOK, <1>RepliesOK, <1>ResponsesOK

\* ForwardPackets hands an Add to the mailboxes once, and fails one that a crash left half open.
LEMMA StepForwardPackets ==
    ASSUME IInv, Typed', ForwardPackets \/ ForwardPacketsWriteError
    PROVE  IInv'
<1>. USE DEF IInv
<1>1. sw.icpt # << >> /\ sw'.icpt = << >> /\ sw'.plex = sw.plex
          /\ sw'.pendingSettleFails = sw.pendingSettleFails
      /\ inLink' = [inLink EXCEPT !.paused = FALSE] /\ UNCHANGED <<inCh, outCh, outBox, outLink>>
  BY DEF ForwardPackets, ForwardPacketsWriteError, Typed, Switches
<1>. DEFINE H == Named(sw.icpt)
            A == CircuitAdds(cm, IcptRefs)
            F == CircuitFails(cm, IcptRefs)
<1>2. /\ sw.route = << >> /\ IcptRefs \in Maps(HTLCs, AddRefs) /\ DOMAIN IcptRefs = H
      /\ \A h \in H : IcptRefs[h] = RefOf(h)
  BY <1>1, IcptFacts
<1>3. /\ A = H \ DOMAIN cm.pending
      /\ \A h : h \in F <=> /\ h \in H /\ h \in DOMAIN cm.pending
                            /\ cm.pending[h].out = 0 /\ cm.pending[h].disk
  BY <1>2 DEF CircuitAdds, CircuitFails, LookupCircuit, HasKeystone
<1>. HIDE DEF A, F, H
<1>4. ASSUME NEW S \in SUBSET H, inBox' = FailAddPackets(inBox, Restrict(IcptRefs, S))
      PROVE  /\ DOMAIN inBox' = DOMAIN inBox \cup S /\ \A x \in DOMAIN inBox : inBox'[x] = inBox[x]
             /\ \A x \in S \ DOMAIN inBox :
                   inBox'[x] = [fate |-> "failed", ref |-> RefOf(x), dest |-> 0]
  <2>. DEFINE f == Restrict(IcptRefs, S)
  <2>1. f \in Maps(HTLCs, AddRefs) /\ DOMAIN f = S /\ \A x \in S : f[x] = IcptRefs[x]
    <3>1. S \subseteq DOMAIN IcptRefs
      BY <1>2
    <3>2. DOMAIN Restrict(IcptRefs, S) = S /\ \A x \in S : Restrict(IcptRefs, S)[x] = IcptRefs[x]
      BY RestrictFacts
    <3>3. Restrict(IcptRefs, S) \in Maps(HTLCs, AddRefs)
      BY <1>2, <3>1, RestrictFacts, Zenon
    <3>. QED  BY <3>2, <3>3
  <2>2. inBox \in Maps(HTLCs, Replies)
    BY DEF Typed
  <2>. HIDE DEF f
  <2>3. inBox' = FailAddPackets(inBox, f)
    BY <1>4 DEF f
  <2>4. \A x \in S : f[x] = RefOf(x)
    BY <1>2, <2>1
  <2>. DEFINE b == FailAddPackets(inBox, f)
  <2>5. /\ DOMAIN b = DOMAIN inBox \cup DOMAIN f /\ \A x \in DOMAIN inBox : b[x] = inBox[x]
        /\ \A x \in DOMAIN f \ DOMAIN inBox : b[x] = [fate |-> "failed", ref |-> f[x], dest |-> 0]
    BY <2>1, <2>2, FailAddFacts
  <2>6. inBox' = b
    BY <2>3
  <2>. HIDE DEF b
  <2>7. DOMAIN inBox' = DOMAIN inBox \cup S /\ \A x \in DOMAIN inBox : inBox'[x] = inBox[x]
    BY <2>1, <2>5, <2>6
  <2>8. \A x \in S \ DOMAIN inBox : inBox'[x] = [fate |-> "failed", ref |-> RefOf(x), dest |-> 0]
    BY <2>1, <2>4, <2>5, <2>6
  <2>. QED  BY <2>7, <2>8
<1>5. ASSUME NEW h \in F PROVE Dead(h)
  <2>1. h \in DOMAIN cm.pending /\ cm.pending[h].out = 0 /\ cm.pending[h].disk
    BY <1>3
  <2>2. h \notin Committed
    <3>1. \A i \in DOMAIN outCh.htlcs : i # 0
      BY TypedFields
    <3>. QED  BY <2>1, <3>1 DEF Committed, Named, SentOK
  <2>3. h \notin OnWay
    BY <2>1 DEF PlaceOK
  <2>. QED  BY <2>2, <2>3 DEF Dead
<1>6. ASSUME NEW h \in A PROVE Dead(h)
  <2>1. h \notin DOMAIN cm.pending /\ inCh.fate[h] = "live"
    BY <1>3 DEF IcptOK, H
  <2>2. h \notin OnWay
    BY <2>1 DEF PlaceOK
  <2>3. h \notin Committed
    BY <2>1 DEF SentOK, Committed, Named
  <2>. QED  BY <2>2, <2>3 DEF Dead
<1>7. CASE ForwardPackets
  <2>. DEFINE I == {k \in DOMAIN sw.icpt : sw.icpt[k].h \in A}
  <2>1. cm' = CommitCircuits(cm, IcptRefs) /\ sw'.route = SubsequenceAt(sw.icpt, I)
        /\ inBox' = FailAddPackets(inBox, Restrict(IcptRefs, F))
    BY <1>7 DEF ForwardPackets, IcptRefs, Typed, Switches, A, F
  <2>2. I = {k \in DOMAIN sw.icpt : sw.icpt[k].h \notin DOMAIN cm.pending}
    BY <1>3 DEF H, Named
  <2>. HIDE DEF I
  <2>3. sw'.route =
          SubsequenceAt(sw.icpt, {k \in DOMAIN sw.icpt : sw.icpt[k].h \notin DOMAIN cm.pending})
    BY <2>1, <2>2
  <2>4. F \in SUBSET H
    BY <1>3
  <2>5. /\ DOMAIN inBox' = DOMAIN inBox \cup F /\ \A x \in DOMAIN inBox : inBox'[x] = inBox[x]
        /\ \A x \in F \ DOMAIN inBox : inBox'[x] = [fate |-> "failed", ref |-> RefOf(x), dest |-> 0]
    BY <1>4, <2>1, <2>4
  <2>6. \A x \in DOMAIN inBox' \ DOMAIN inBox :
           /\ x \in Named(sw.icpt) /\ x \in DOMAIN cm.pending /\ Dead(x)
           /\ inBox'[x] = [fate |-> "failed", ref |-> RefOf(x), dest |-> 0]
    BY <1>3, <1>5, <2>5 DEF H
  <2>7. \A h \in DOMAIN inBox : h \in DOMAIN inBox' /\ inBox'[h] = inBox[h]
    BY <2>5
  <2>. QED  BY <1>1, <2>1, <2>3, <2>6, <2>7, StepForwardNew
<1>8. CASE ForwardPacketsWriteError
  <2>1. UNCHANGED cm /\ sw'.route = << >>
        /\ inBox' = FailAddPackets(inBox, Restrict(IcptRefs, A \cup F))
    BY <1>2, <1>8 DEF ForwardPacketsWriteError, IcptRefs, Typed, Switches, A, F
  <2>2. A \cup F \in SUBSET H
    BY <1>3
  <2>3. /\ DOMAIN inBox' = DOMAIN inBox \cup (A \cup F) /\ \A x \in DOMAIN inBox : inBox'[x] = inBox[x]
        /\ \A x \in (A \cup F) \ DOMAIN inBox :
              inBox'[x] = [fate |-> "failed", ref |-> RefOf(x), dest |-> 0]
    BY <1>4, <2>1, <2>2
  <2>4. \A x \in DOMAIN inBox' \ DOMAIN inBox :
           /\ x \in Named(sw.icpt) /\ Dead(x)
           /\ inBox'[x] = [fate |-> "failed", ref |-> RefOf(x), dest |-> 0]
    BY <1>5, <1>6, <2>2, <2>3 DEF H
  <2>5. \A h \in DOMAIN inBox : h \in DOMAIN inBox' /\ inBox'[h] = inBox[h]
    BY <2>3
  <2>. QED  BY <1>1, <2>1, <2>4, <2>5, StepFailedBack
<1>. QED  BY <1>7, <1>8

\* The HTLCs of packets, mailboxes and logs are HTLCs of the packages.
LEMMA TypedNames ==
    ASSUME Typed
    PROVE  /\ DOMAIN inBox \subseteq HTLCs /\ DOMAIN inLink.log \subseteq HTLCs
           /\ Named(sw.icpt) \subseteq HTLCs /\ OnWay \subseteq HTLCs
           /\ Committed \subseteq HTLCs /\ Failing \subseteq HTLCs
           /\ \A i \in DOMAIN outCh.htlcs : outCh.htlcs[i].h \in HTLCs
<1>1. DOMAIN inBox \subseteq HTLCs /\ DOMAIN inLink.log \subseteq HTLCs
  BY TypedFields, MapsFacts DEF Typed
<1>2. ASSUME NEW s \in Seq(Adds) PROVE Named(s) \subseteq HTLCs
  <2>1. \A k \in DOMAIN s : s[k] \in Adds
    OBVIOUS
  <2>. QED  BY <2>1 DEF Named, Adds
<1>3. sw.icpt \in Seq(Adds) /\ sw.route \in Seq(Adds) /\ outBox.pkts \in Seq(Adds)
          /\ outCh.htlcs \in Seq(OutHtlcs)
  BY TypedFields
<1>4. Named(sw.icpt) \subseteq HTLCs /\ OnWay \subseteq HTLCs
  BY <1>2, <1>3 DEF OnWay
<1>5. \A i \in DOMAIN outCh.htlcs : outCh.htlcs[i].h \in HTLCs
  <2>1. \A i \in DOMAIN outCh.htlcs : outCh.htlcs[i] \in OutHtlcs
    BY <1>3
  <2>. QED  BY <2>1 DEF OutHtlcs
<1>6. Failing \subseteq HTLCs
  BY DEF Failing, FailAdds
<1>. QED  BY <1>1, <1>4, <1>5, <1>6 DEF Committed, Named

\* The Adds of a package are locked in.
LEMMA StepLockIn ==
    ASSUME IInv, Typed', NEW p \in DOMAIN Packages, LockIn(p)
    PROVE  IInv'
<1>. USE DEF IInv
<1>1. /\ inLink.up /\ inLink.todo = << >> /\ ~inLink.paused /\ ~inLink.acking
      /\ inCh.pkgs[p].state = "none" /\ inLink'.todo = <<p>>
      /\ inLink'.up = inLink.up /\ inLink'.paused = inLink.paused /\ inLink'.log = inLink.log
      /\ inLink'.acking = inLink.acking /\ inLink'.closing = inLink.closing
      /\ inCh'.diff = inCh.diff
      /\ UNCHANGED <<outCh, cm, sw, inBox, outBox, outLink>>
  BY DEF LockIn, InLinkIdle, Typed, InLinks, InChTypes
<1>0. /\ inCh'.fate = [h \in HTLCs |-> IF h \in Range(Packages[p]) THEN "live" ELSE inCh.fate[h]]
      /\ inCh'.pkgs = [inCh.pkgs EXCEPT ![p].state = "LockedIn"]
  BY DEF LockIn, Typed, InChTypes
<1>2. /\ \A q \in DOMAIN Packages : inCh'.pkgs[q].ack = inCh.pkgs[q].ack
      /\ \A q \in DOMAIN Packages : q # p => inCh'.pkgs[q].state = inCh.pkgs[q].state
      /\ inCh'.pkgs[p].state = "LockedIn"
  <2>1. inCh.pkgs \in [DOMAIN Packages -> PkgTypes]
    BY TypedFields
  <2>. QED  BY <1>0, <2>1 DEF PkgTypes
<1>3. \A h \in HTLCs : /\ inCh'.fate[h] = IF RefOf(h).pkg = p THEN "live" ELSE inCh.fate[h]
                       /\ RefOf(h).pkg = p => inCh.fate[h] = "none"
  <2>1. \A h \in HTLCs : h \in Range(Packages[p]) <=> RefOf(h).pkg = p
    BY PackageFacts DEF Range
  <2>. QED  BY <1>0, <1>1, <2>1 DEF PkgsOK, PkgOf
<1>4. \A h \in HTLCs : /\ PkgOf(h)'.ack = PkgOf(h).ack
                       /\ PkgOf(h)'.state = IF RefOf(h).pkg = p THEN "LockedIn" ELSE PkgOf(h).state
                       /\ RefOf(h).pkg = p => PkgOf(h).state = "none"
  <2>1. \A h \in HTLCs : RefOf(h).pkg \in DOMAIN Packages
    BY PackageFacts DEF AddRefs
  <2>. QED  BY <1>1, <1>2, <2>1 DEF PkgOf
<1>5. \A h \in HTLCs : Answered(h)' <=> Answered(h)
  BY <1>3 DEF Answered
<1>RefsOK. RefsOK'
  BY <1>1 DEF RefsOK
<1>OutLinkOK. OutLinkOK'
  BY <1>1 DEF OutLinkOK
<1>KeysOK. KeysOK'
  BY <1>1 DEF KeysOK, Numbered, NextOutIndex
<1>CircuitsOK. CircuitsOK'
  BY <1>1 DEF CircuitsOK
<1>SentOK. SentOK'
  <2>1. \A i \in DOMAIN outCh.htlcs : inCh'.fate[outCh.htlcs[i].h] = inCh.fate[outCh.htlcs[i].h]
    BY <1>3, TypedNames DEF SentOK
  <2>. QED  BY <1>1, <2>1 DEF SentOK
<1>PlaceOK. PlaceOK'
  <2>1. OnWay' = OnWay /\ Committed' = Committed /\ Failing' = Failing
    BY <1>1 DEF OnWay, Committed, Failing, Named
  <2>2. \A h \in OnWay \cup Failing : inCh'.fate[h] = inCh.fate[h]
    BY <1>3, TypedNames DEF PlaceOK
  <2>3. Named(sw.route)' = Named(sw.route) /\ Named(outBox.pkts)' = Named(outBox.pkts)
    BY <1>1 DEF Named
  <2>. QED  BY <1>1, <2>1, <2>2, <2>3 DEF PlaceOK
<1>IcptOK. IcptOK'
  <2>. SUFFICES ASSUME NEW h \in Named(sw.icpt)
                PROVE  /\ inCh'.fate[h] = "live" /\ h \notin Invalid /\ h \notin DOMAIN inLink.log
                       /\ PkgOf(h)'.state = "Processed" /\ h \notin DOMAIN inBox
                       /\ h \notin DOMAIN cm.pending
    BY <1>1 DEF IcptOK, Named
  <2>1. h \in HTLCs /\ inCh.fate[h] = "live" /\ h \notin Invalid /\ h \notin DOMAIN inLink.log
        /\ PkgOf(h).state = "Processed"
    BY TypedNames DEF IcptOK
  <2>2. h \notin DOMAIN cm.pending /\ h \notin DOMAIN inBox
    BY <1>1, EmptyLen DEF IcptOK, Range
  <2>. QED  BY <1>3, <1>4, <2>1, <2>2
<1>PkgsOK. PkgsOK'
  <2>1. Range(inLink'.todo) = {p} /\ Range(inLink.todo) = {}
    <3>1. DOMAIN <<p>> = {1} /\ <<p>>[1] = p
      OBVIOUS
    <3>. QED  BY <1>1, <3>1, EmptyLen DEF Range
  <2>2. \A q \in DOMAIN Packages : inCh'.pkgs[q].ack = inCh.pkgs[q].ack
    BY <1>2
  <2>3. inCh'.pkgs[p].state = "LockedIn"
    BY <1>2
  <2>4. \A h \in HTLCs :
          /\ (inCh.fate[h] = "none" <=> PkgOf(h).state = "none")'
          /\ (RefOf(h).idx \in PkgOf(h).ack <=> Answered(h))'
    BY <1>3, <1>4, <1>5 DEF PkgsOK
  <2>5. \A h \in HTLCs : PkgOf(h)'.state # "Processed" =>
                /\ h \notin DOMAIN cm.pending /\ h \notin DOMAIN inBox
                /\ h \notin DOMAIN inLink.log /\ ~Answered(h)
    BY <1>4 DEF PkgsOK
  <2>6. \A h \in HTLCs : RefOf(h).pkg # p /\ PkgOf(h)'.state # "none" =>
                /\ PkgOf(h)'.state = "Processed"
                /\ h \in Invalid => h \in DOMAIN inLink.log \/ Answered(h)
    BY <1>1, <1>4, <2>1 DEF PkgsOK
  <2>7. \A h \in HTLCs : Answered(h) => \A g \in Invalid : RefOf(g).pkg = RefOf(h).pkg =>
            Answered(g)
    BY DEF PkgsOK
  <2>8. \A g \in Invalid : g \in HTLCs
    BY BoundsAssumption
  <2>. QED  BY <1>1, <1>5, <2>1, <2>2, <2>3, <2>4, <2>5, <2>6, <2>7, <2>8 DEF PkgsOK
<1>InLinkOK. InLinkOK'
  <2>1. \A h \in DOMAIN cm.pending : h \in HTLCs /\ inCh'.fate[h] # "none"
    BY <1>3, TypedCircuits DEF InLinkOK
  <2>2. \A h \in inCh.diff.circuits : h \in HTLCs
    BY TypedFields
  <2>. QED  BY <1>1, <1>5, <2>1, <2>2 DEF InLinkOK
<1>RepliesOK. RepliesOK'
  <2>1. OnWay' = OnWay /\ Committed' = Committed
    BY <1>1 DEF OnWay, Committed, Named
  <2>2. \A h, r : Backed(h, r)' <=> Backed(h, r)
    BY <1>1, <2>1 DEF Backed, Dead
  <2>3. \A h \in DOMAIN inBox \cup DOMAIN inLink.log : inCh'.fate[h] = inCh.fate[h]
    BY <1>3, TypedNames DEF RepliesOK
  <2>. QED  BY <1>1, <2>1, <2>3 DEF RepliesOK, Backed, Dead
<1>ResponsesOK. ResponsesOK'
  <2>1. \A i \in DOMAIN outCh.htlcs : Answered(outCh.htlcs[i].h)' = Answered(outCh.htlcs[i].h)
    BY <1>1, <1>5, TypedNames DEF Answered
  <2>. QED  BY <1>1, <2>1 DEF ResponsesOK
<1>. QED  BY <1>RefsOK, <1>OutLinkOK, <1>KeysOK, <1>CircuitsOK, <1>SentOK, <1>PlaceOK,
        <1>IcptOK, <1>PkgsOK, <1>InLinkOK, <1>RepliesOK, <1>ResponsesOK

\* The place of an unacknowledged Add among the unacknowledged ones is its place in the
\* package, as long as replays are in place.
LEMMA UnackedRefs ==
    ASSUME IInv, NEW p \in DOMAIN Packages, inCh.pkgs[p].state # "none",
           \A k \in DOMAIN UnackedAdds(p) : UnackedAdds(p)[k] = Packages[p][k]
    PROVE  /\ \A h \in DOMAIN SourceRefs(p) :
                 /\ h \in HTLCs /\ RefOf(h).pkg = p /\ SourceRefs(p)[h] = RefOf(h)
                 /\ inCh.fate[h] = "live"
           /\ \A h \in HTLCs : RefOf(h).pkg = p
                 /\ inCh.fate[h] = "live" => h \in DOMAIN SourceRefs(p)
           /\ \A k \in DOMAIN UnackedAdds(p) :
                 UnackedAdds(p)[k] \in DOMAIN SourceRefs(p) /\ RefOf(UnackedAdds(p)[k]).idx = k
<1>. USE DEF IInv
<1>. DEFINE s == Packages[p]
            n == Len(Packages[p])
            u == UnackedAdds(p)
            I == {i \in DOMAIN s : ~(inCh.pkgs[p].state = "Processed" /\ i \in inCh.pkgs[p].ack)}
<1>1. /\ s \in Seq(HTLCs) /\ n \in Nat /\ DOMAIN s = 1..n
      /\ \A i \in DOMAIN s : s[i] \in HTLCs /\ RefOf(s[i]) = [pkg |-> p, idx |-> i]
      /\ \A h \in HTLCs : RefOf(h).pkg = p => RefOf(h).idx \in DOMAIN s /\ s[RefOf(h).idx] = h
  BY PackageFacts
<1>2. \A i \in DOMAIN s : i \in I <=> inCh.fate[s[i]] = "live"
  <2>. SUFFICES ASSUME NEW i \in DOMAIN s PROVE i \in I <=> inCh.fate[s[i]] = "live"
    OBVIOUS
  <2>. DEFINE h == s[i]
  <2>1. h \in HTLCs /\ PkgOf(h) = inCh.pkgs[p] /\ RefOf(h).idx = i
    BY <1>1 DEF PkgOf
  <2>. HIDE DEF h
  <2>2. /\ inCh.fate[h] # "none" /\ (i \in inCh.pkgs[p].ack <=> Answered(h))
        /\ inCh.pkgs[p].state # "Processed" => ~Answered(h)
    BY <2>1 DEF PkgsOK
  <2>3. inCh.fate[h] \in {"none", "live", "settled", "failed"}
    BY <2>1, TypedFields DEF Fates
  <2>4. i \in I <=> ~Answered(h)
    BY <2>2
  <2>5. inCh.fate[h] = "live" <=> ~Answered(h)
    BY <2>2, <2>3 DEF Answered
  <2>. QED  BY <2>4, <2>5 DEF h
<1>. HIDE DEF I
<1>4. I \in SUBSET (1..n)
  BY <1>1 DEF I
<1>6. u = SubsequenceAt(s, I)
  BY SourceRefsFacts DEF I
<1>0. \A k \in DOMAIN u : u[k] = s[k]
  OBVIOUS
<1>. HIDE DEF u, s, n
<1>7. /\ \A k \in DOMAIN u : PlaceAt(I, k) \in I /\ u[k] = s[PlaceAt(I, k)]
      /\ \A i \in I : Rank(I, i) \in DOMAIN u /\ u[Rank(I, i)] = s[i]
            /\ DOMAIN u = 1..Cardinality(I)
  <2>. DEFINE t == SubsequenceAt(s, I)
  <2>1. I \in SUBSET (DOMAIN s)
    BY <1>1, <1>4
  <2>2. /\ \A k \in DOMAIN t : PlaceAt(I, k) \in I /\ t[k] = s[PlaceAt(I, k)]
        /\ \A i \in I : Rank(I, i) \in DOMAIN t /\ t[Rank(I, i)] = s[i]
        /\ DOMAIN t = 1..Cardinality(I)
    BY <1>1, <2>1, SubsequenceFacts
  <2>. HIDE DEF t
  <2>3. u = t
    BY <1>6 DEF t
  <2>. QED  BY <2>2, <2>3
<1>8. ASSUME NEW k \in DOMAIN u PROVE k \in I /\ u[k] = s[k]
  <2>1. PlaceAt(I, k) \in I /\ u[k] = s[PlaceAt(I, k)]
    BY <1>7
  <2>2. k \in 1..Cardinality(I)
    BY <1>7, <2>1
  <2>3. Cardinality(I) \in Nat /\ Cardinality(I) <= n
    <3>1. IsFiniteSet(1..n) /\ Cardinality(1..n) = n
      BY <1>1, FS_Interval
    <3>. QED  BY <1>4, <3>1, FS_Subset, FS_CardinalityType
  <2>4. k \in DOMAIN s /\ PlaceAt(I, k) \in DOMAIN s /\ u[k] = s[k]
    <3>1. k \in 1..n
      BY <1>1, <2>2, <2>3
    <3>. QED  BY <1>0, <1>1, <1>4, <2>1, <3>1
  <2>5. [pkg |-> p, idx |-> k] = [pkg |-> p, idx |-> PlaceAt(I, k)]
    BY <1>1, <2>1, <2>4
  <2>6. k = PlaceAt(I, k)
    BY <2>5
  <2>. QED  BY <2>1, <2>4, <2>6
<1>9. \A i \in I : i \in DOMAIN u /\ u[i] = s[i]
  <2>. SUFFICES ASSUME NEW i \in I PROVE i \in DOMAIN u /\ u[i] = s[i]
    OBVIOUS
  <2>1. Rank(I, i) \in DOMAIN u /\ u[Rank(I, i)] = s[i]
    BY <1>7
  <2>2. Rank(I, i) \in I /\ s[Rank(I, i)] = s[i]
    BY <1>8, <2>1
  <2>3. [pkg |-> p, idx |-> Rank(I, i)] = [pkg |-> p, idx |-> i]
    BY <1>1, <1>4, <2>2
  <2>4. Rank(I, i) = i
    BY <2>3
  <2>. QED  BY <2>1, <2>4
<1>10. /\ DOMAIN SourceRefs(p) = Range(u)
       /\ \A h \in DOMAIN SourceRefs(p) :
             /\ SourceRefs(p)[h].pkg = p /\ SourceRefs(p)[h].idx \in DOMAIN u
             /\ u[SourceRefs(p)[h].idx] = h /\ SourceRefs(p)[h] \in AddRefs
  <2>1. DOMAIN SourceRefs(p) = Range(u) /\ SourceRefs(p) \in Maps(HTLCs, AddRefs)
    BY SourceRefsFacts DEF u
  <2>2. \A h \in DOMAIN SourceRefs(p) :
             /\ SourceRefs(p)[h].pkg = p /\ SourceRefs(p)[h].idx \in DOMAIN u
             /\ u[SourceRefs(p)[h].idx] = h
    BY SourceRefsFacts DEF u
  <2>3. SourceRefs(p) \in [DOMAIN SourceRefs(p) -> AddRefs]
    BY <2>1, MapsFacts, Zenon
  <2>. QED  BY <2>1, <2>2, <2>3
<1>11. ASSUME NEW h \in DOMAIN SourceRefs(p)
       PROVE  h \in HTLCs /\ RefOf(h).pkg = p /\ SourceRefs(p)[h] = RefOf(h)
           /\ inCh.fate[h] = "live"
  <2>. PICK r \in AddRefs : r = SourceRefs(p)[h]
    BY <1>10
  <2>1. r.pkg = p /\ r.idx \in I /\ s[r.idx] = h
    BY <1>8, <1>10
  <2>2. r.idx \in DOMAIN s
    BY <1>1, <1>4, <2>1
  <2>3. h \in HTLCs /\ RefOf(h) = [pkg |-> p, idx |-> r.idx] /\ inCh.fate[h] = "live"
    BY <1>1, <1>2, <2>1, <2>2
  <2>4. r = [pkg |-> p, idx |-> r.idx]
    BY <2>1 DEF AddRefs
  <2>. QED  BY <2>3, <2>4
<1>12. ASSUME NEW h \in HTLCs, RefOf(h).pkg = p, inCh.fate[h] = "live"
       PROVE  h \in DOMAIN SourceRefs(p)
  <2>1. RefOf(h).idx \in DOMAIN s /\ s[RefOf(h).idx] = h
    BY <1>1, <1>12
  <2>2. RefOf(h).idx \in I
    BY <1>2, <1>12, <2>1
  <2>3. RefOf(h).idx \in DOMAIN u /\ u[RefOf(h).idx] = h
    BY <1>9, <2>1, <2>2
  <2>. QED  BY <1>10, <2>3 DEF Range
<1>13. ASSUME NEW k \in DOMAIN u PROVE u[k] \in DOMAIN SourceRefs(p) /\ RefOf(u[k]).idx = k
  <2>1. k \in DOMAIN s /\ u[k] = s[k]
    BY <1>1, <1>4, <1>8
  <2>. QED  BY <1>1, <1>10, <2>1 DEF Range
<1>. QED  BY <1>11, <1>12, <1>13 DEF u

\* What processRemoteAdds does to a package, its log and the switch.
LEMMA ProcessFacts ==
    ASSUME IInv, ReplaysInPlace, ProcessRemoteAdds
    PROVE  \E p \in DOMAIN Packages, R \in SUBSET HTLCs :
      /\ inLink.up /\ inLink'.up /\ inLink'.acking = inLink.acking
      /\ inLink'.closing = inLink.closing
      /\ inLink.todo # << >> /\ sw.icpt = << >> /\ sw.route = << >> /\ sw'.route = << >>
      /\ sw'.plex = sw.plex /\ sw'.pendingSettleFails = sw.pendingSettleFails
      /\ inCh.pkgs[p].state # "none" /\ Range(inLink.todo) = Range(inLink'.todo) \cup {p}
      /\ inCh'.fate = inCh.fate /\ inCh'.diff = inCh.diff
      /\ \A q \in DOMAIN Packages :
            /\ inCh'.pkgs[q].ack = inCh.pkgs[q].ack
            /\ inCh'.pkgs[q].state = IF q = p THEN "Processed" ELSE inCh.pkgs[q].state
      /\ R = {h \in Invalid : RefOf(h).pkg = p /\ inCh.fate[h] = "live" /\ h \notin DOMAIN inLink.log}
      /\ DOMAIN inLink'.log = DOMAIN inLink.log \cup R
      /\ \A h \in DOMAIN inLink.log : inLink'.log[h] = inLink.log[h]
      /\ \A h \in R : inLink'.log[h] = [fate |-> "failed", ref |-> RefOf(h), dest |-> 0, circuit |-> FALSE]
      /\ \A j, k \in DOMAIN sw'.icpt : sw'.icpt[j].h = sw'.icpt[k].h => j = k
      /\ \A k \in DOMAIN sw'.icpt : sw'.icpt[k].ref = RefOf(sw'.icpt[k].h)
      /\ \A h \in Named(sw'.icpt) :
            /\ h \in HTLCs \ Invalid /\ RefOf(h).pkg = p /\ inCh.fate[h] = "live"
            /\ h \notin DOMAIN inBox
            /\ h \in DOMAIN cm.pending => inLink'.paused
      /\ UNCHANGED <<outCh, cm, inBox, outBox, outLink>>
<1>. USE DEF IInv
<1>. DEFINE p == Head(inLink.todo)
            refs == SourceRefs(p)
            fresh == inCh.pkgs[p].state = "LockedIn"
            R == {h \in DOMAIN refs \cap Invalid : Removable(h)}
            forwarded == {h \in DOMAIN refs \ Invalid :
                            fresh \/ refs[h].idx \in inCh.pkgs[p].fwd}
            Sent(h) == h \in forwarded /\ h \notin DOMAIN inBox
            adds == UnackedAdds(p)
            I == {k \in DOMAIN adds : Sent(adds[k])}
            batch == SubsequenceAt(adds, I)
            new == [h \in R |-> [fate |-> "failed", ref |-> refs[h], dest |-> 0,
                                 circuit |-> FALSE]]
            fwd == {refs[h].idx : h \in forwarded}
            icpt == [k \in DOMAIN batch |-> [h |-> batch[k], ref |-> refs[batch[k]]]]
<1>1. /\ inCh' = IF fresh
                 THEN [inCh EXCEPT !.pkgs[p].state = "Processed", !.pkgs[p].fwd = fwd]
                 ELSE inCh
      /\ inLink' = [inLink EXCEPT !.todo = Tail(@), !.paused = ~fresh /\ batch # << >>,
                                  !.log = Overlay(@, new)]
      /\ sw' = [sw EXCEPT !.icpt = icpt]
      /\ UNCHANGED <<outCh, cm, inBox, outBox, outLink>>
      /\ inLink.todo # << >> /\ inLink.up /\ sw.icpt = << >> /\ sw.route = << >>
  BY DEF ProcessRemoteAdds
<1>2. /\ p \in DOMAIN Packages /\ Range(inLink.todo) = Range(Tail(inLink.todo)) \cup {p}
      /\ inCh.pkgs[p].state # "none"
  <2>1. inLink.todo \in Seq(DOMAIN Packages) /\ inLink.todo # << >>
    BY <1>1, TypedFields
  <2>2. /\ p \in DOMAIN Packages /\ p = inLink.todo[1] /\ Tail(inLink.todo) \in Seq(DOMAIN Packages)
        /\ Len(inLink.todo) \in Nat /\ Len(inLink.todo) >= 1
        /\ Len(Tail(inLink.todo)) = Len(inLink.todo) - 1
        /\ \A k \in 1..Len(inLink.todo) - 1 : Tail(inLink.todo)[k] = inLink.todo[k + 1]
    BY <2>1, HeadTail
  <2>. HIDE DEF p
  <2>3. DOMAIN inLink.todo = 1..Len(inLink.todo)
            /\ DOMAIN Tail(inLink.todo) = 1..Len(inLink.todo) - 1
    BY <2>1, <2>2
  <2>4. \A k \in DOMAIN inLink.todo : k = 1
            \/ (k - 1 \in DOMAIN Tail(inLink.todo) /\ (k - 1) + 1 = k)
    BY <2>2, <2>3
  <2>5. \A k \in DOMAIN Tail(inLink.todo) : k + 1 \in DOMAIN inLink.todo
            /\ Tail(inLink.todo)[k] = inLink.todo[k + 1]
    BY <2>2, <2>3
  <2>6. Range(inLink.todo) \subseteq Range(Tail(inLink.todo)) \cup {p}
    <3>. SUFFICES ASSUME NEW k \in DOMAIN inLink.todo
                  PROVE  inLink.todo[k] \in Range(Tail(inLink.todo)) \cup {p}
      BY DEF Range
    <3>1. CASE k = 1
      BY <2>2, <3>1
    <3>2. CASE k # 1
      <4>1. k - 1 \in DOMAIN Tail(inLink.todo) /\ Tail(inLink.todo)[k - 1] = inLink.todo[k]
        BY <2>4, <2>5, <3>2
      <4>. QED  BY <4>1 DEF Range
    <3>. QED  BY <3>1, <3>2
  <2>7. 1 \in DOMAIN inLink.todo
    BY <2>2, <2>3
  <2>8. Range(Tail(inLink.todo)) \cup {p} \subseteq Range(inLink.todo)
    BY <2>2, <2>5, <2>7 DEF Range
  <2>9. p \in Range(inLink.todo)
    BY <2>8
  <2>. QED  BY <2>2, <2>6, <2>8, <2>9 DEF PkgsOK
<1>0. \A k \in DOMAIN UnackedAdds(p) : UnackedAdds(p)[k] = Packages[p][k]
  BY <1>1 DEF ReplaysInPlace
<1>. HIDE DEF p
<1>3. /\ \A h \in DOMAIN refs : /\ h \in HTLCs /\ RefOf(h).pkg = p /\ refs[h] = RefOf(h)
                                /\ inCh.fate[h] = "live"
      /\ \A h \in HTLCs : RefOf(h).pkg = p /\ inCh.fate[h] = "live" => h \in DOMAIN refs
      /\ \A k \in DOMAIN adds : adds[k] \in DOMAIN refs /\ RefOf(adds[k]).idx = k
  BY <1>0, <1>2, UnackedRefs
<1>4. adds \in Seq(HTLCs)
  BY <1>2, SourceRefsFacts
<1>. HIDE DEF refs, adds
<1>5. /\ R = {h \in Invalid : RefOf(h).pkg = p /\ inCh.fate[h] = "live" /\ h \notin DOMAIN inLink.log}
      /\ R \in SUBSET HTLCs
  BY <1>3, BoundsAssumption DEF Removable
<1>6. DOMAIN new = R /\ \A h \in R :
          new[h] = [fate |-> "failed", ref |-> RefOf(h), dest |-> 0, circuit |-> FALSE]
  BY <1>3
<1>7. \A k \in I : Sent(adds[k]) /\ RefOf(adds[k]).idx = k
  BY <1>3
<1>8. \A h : Sent(h) => /\ h \in HTLCs \ Invalid /\ RefOf(h).pkg = p /\ inCh.fate[h] = "live"
                        /\ h \notin DOMAIN inBox /\ h \in DOMAIN refs
  BY <1>3
<1>9. I \in SUBSET DOMAIN adds
  OBVIOUS
<1>. HIDE DEF Sent, R, new, fwd, I
<1>10. /\ DOMAIN batch = 1..Cardinality(I) /\ batch \in Seq(HTLCs) /\ Len(batch) = Cardinality(I)
       /\ Cardinality(I) \in Nat
       /\ \A k \in DOMAIN batch : Sent(batch[k])
       /\ \A j, k \in DOMAIN batch : batch[j] = batch[k] => j = k
  <2>1. /\ DOMAIN batch = 1..Cardinality(I) /\ batch \in Seq(HTLCs) /\ Len(batch) = Cardinality(I)
        /\ \A k \in DOMAIN batch : PlaceAt(I, k) \in I /\ batch[k] = adds[PlaceAt(I, k)]
    BY <1>4, <1>9, SubsequenceFacts
  <2>. DEFINE n == Len(adds)
  <2>2. n \in Nat /\ I \in SUBSET (1..n)
    BY <1>4, <1>9
  <2>3. \A k \in 1..Cardinality(I) : Rank(I, PlaceAt(I, k)) = k
    <3>. HIDE DEF n
    <3>. QED  BY <2>2, PlaceFacts
  <2>4. Len(batch) \in Nat
    BY <2>1
  <2>. HIDE DEF batch
  <2>5. \A j, k \in DOMAIN batch : batch[j] = batch[k] => j = k
    <3>. SUFFICES ASSUME NEW j \in DOMAIN batch, NEW k \in DOMAIN batch, batch[j] = batch[k]
                  PROVE  j = k
      OBVIOUS
    <3>1. PlaceAt(I, j) = PlaceAt(I, k)
      BY <1>7, <2>1
    <3>. QED  BY <2>1, <2>3, <3>1
  <2>. QED  BY <1>7, <2>1, <2>4, <2>5
<1>. HIDE DEF batch
<1>11. /\ DOMAIN icpt = DOMAIN batch /\ icpt \in Seq([h : HTLCs, ref : {refs[x] : x \in HTLCs}])
       /\ \A k \in DOMAIN icpt : icpt[k].h = batch[k] /\ icpt[k].ref = RefOf(batch[k])
  <2>1. \A k \in DOMAIN batch : batch[k] \in HTLCs /\ refs[batch[k]] = RefOf(batch[k])
    BY <1>3, <1>8, <1>10
  <2>. DEFINE T == [h : HTLCs, ref : {refs[x] : x \in HTLCs}]
              m == Cardinality(I)
  <2>2. icpt \in [1..m -> T]
    BY <1>10, <2>1
  <2>3. m \in Nat
    BY <1>10
  <2>. HIDE DEF T, m
  <2>4. icpt \in Seq(T)
    BY <2>2, <2>3, SeqFacts
  <2>. QED  BY <2>1, <2>4 DEF T
<1>12. \A j, k \in DOMAIN icpt : icpt[j].h = icpt[k].h => j = k
  BY <1>10, <1>11
<1>13. sw'.icpt = icpt /\ sw'.route = << >> /\ sw'.plex = sw.plex
           /\ sw'.pendingSettleFails = sw.pendingSettleFails
  <2>. HIDE DEF icpt
  <2>. QED  BY <1>1 DEF Typed, Switches
<1>14. /\ inLink'.up /\ inLink'.acking = inLink.acking /\ inLink'.closing = inLink.closing
       /\ inLink'.todo = Tail(inLink.todo) /\ inLink'.paused = (~fresh /\ batch # << >>)
       /\ inLink'.log = Overlay(inLink.log, new)
  BY <1>1 DEF Typed, InLinks
<1>15. /\ DOMAIN inLink'.log = DOMAIN inLink.log \cup R
       /\ \A h \in DOMAIN inLink.log : inLink'.log[h] = inLink.log[h]
       /\ \A h \in R : inLink'.log[h] = [fate |-> "failed", ref |-> RefOf(h), dest |-> 0, circuit |-> FALSE]
  <2>. DEFINE o == Overlay(inLink.log, new)
  <2>1. /\ DOMAIN o = DOMAIN inLink.log \cup DOMAIN new /\ \A x \in DOMAIN new : o[x] = new[x]
        /\ \A x \in DOMAIN inLink.log \ DOMAIN new : o[x] = inLink.log[x]
    BY OverlayFacts
  <2>. HIDE DEF o
  <2>2. inLink'.log = o
    BY <1>14 DEF o
  <2>3. \A h \in R : h \notin DOMAIN inLink.log
    BY <1>5
  <2>. QED  BY <1>6, <2>1, <2>2, <2>3
<1>16. /\ inCh'.fate = inCh.fate /\ inCh'.diff = inCh.diff
       /\ \A q \in DOMAIN Packages :
            /\ inCh'.pkgs[q].ack = inCh.pkgs[q].ack
            /\ inCh'.pkgs[q].state = IF q = p THEN "Processed" ELSE inCh.pkgs[q].state
  <2>1. inCh.pkgs \in [DOMAIN Packages -> PkgTypes]
    BY TypedFields
  <2>2. CASE fresh
    <3>. DEFINE pk == [inCh.pkgs EXCEPT ![p].state = "Processed", ![p].fwd = fwd]
    <3>1. inCh' = [inCh EXCEPT !.pkgs = pk]
      BY <1>1, <2>2
    <3>2. \A q \in DOMAIN Packages :
            /\ pk[q].ack = inCh.pkgs[q].ack
            /\ pk[q].state = IF q = p THEN "Processed" ELSE inCh.pkgs[q].state
      BY <1>2, <2>1 DEF PkgTypes
    <3>. HIDE DEF pk
    <3>. QED  BY <3>1, <3>2 DEF Typed, InChTypes
  <2>3. CASE ~fresh
    <3>1. inCh.pkgs[p].state = "Processed"
      BY <1>2, <2>1, <2>3 DEF PkgTypes
    <3>. QED  BY <1>1, <2>3, <3>1
  <2>. QED  BY <2>2, <2>3
<1>17. ASSUME NEW h \in Named(sw'.icpt)
       PROVE  /\ h \in HTLCs \ Invalid /\ RefOf(h).pkg = p /\ inCh.fate[h] = "live"
              /\ h \notin DOMAIN inBox
              /\ h \in DOMAIN cm.pending => inLink'.paused
  <2>1. DOMAIN batch # {} /\ Sent(h)
    <3>. HIDE DEF icpt
    <3>. QED  BY <1>10, <1>11, <1>13 DEF Named
  <2>2. batch # << >>
    BY <2>1, EmptyLen
  <2>3. h \in HTLCs \ Invalid /\ RefOf(h).pkg = p /\ inCh.fate[h] = "live" /\ h \notin DOMAIN inBox
    BY <1>8, <2>1
  <2>4. fresh => h \notin DOMAIN cm.pending
    BY <2>3 DEF PkgsOK, PkgOf
  <2>. QED  BY <1>14, <2>2, <2>3, <2>4
<1>18. Range(inLink.todo) = Range(inLink'.todo) \cup {p}
  BY <1>2, <1>14
<1>. HIDE DEF icpt
<1>19. /\ \A k \in DOMAIN sw'.icpt : sw'.icpt[k].ref = RefOf(sw'.icpt[k].h)
       /\ \A j, k \in DOMAIN sw'.icpt : sw'.icpt[j].h = sw'.icpt[k].h => j = k
  BY <1>8, <1>10, <1>11, <1>12, <1>13
<1>20. p \in DOMAIN Packages /\ R \in SUBSET HTLCs
  BY <1>2, <1>5
<1>. USE <1>20
<1>. WITNESS p \in DOMAIN Packages, R \in SUBSET HTLCs
<1>. QED  BY <1>1, <1>2, <1>5, <1>13, <1>14, <1>15, <1>16, <1>17, <1>18, <1>19

\* A package is processed.
LEMMA StepProcessRemoteAdds ==
    ASSUME IInv, Typed', ReplaysInPlace, ProcessRemoteAdds
    PROVE  IInv'
<1>. USE DEF IInv
<1>1. PICK p \in DOMAIN Packages, R \in SUBSET HTLCs :
      /\ inLink.up /\ inLink'.up /\ inLink'.acking = inLink.acking
      /\ inLink'.closing = inLink.closing
      /\ inLink.todo # << >> /\ sw.icpt = << >> /\ sw.route = << >> /\ sw'.route = << >>
      /\ sw'.plex = sw.plex /\ sw'.pendingSettleFails = sw.pendingSettleFails
      /\ inCh.pkgs[p].state # "none" /\ Range(inLink.todo) = Range(inLink'.todo) \cup {p}
      /\ inCh'.fate = inCh.fate /\ inCh'.diff = inCh.diff
      /\ \A q \in DOMAIN Packages :
            /\ inCh'.pkgs[q].ack = inCh.pkgs[q].ack
            /\ inCh'.pkgs[q].state = IF q = p THEN "Processed" ELSE inCh.pkgs[q].state
      /\ R = {h \in Invalid : RefOf(h).pkg = p /\ inCh.fate[h] = "live" /\ h \notin DOMAIN inLink.log}
      /\ DOMAIN inLink'.log = DOMAIN inLink.log \cup R
      /\ \A h \in DOMAIN inLink.log : inLink'.log[h] = inLink.log[h]
      /\ \A h \in R : inLink'.log[h] = [fate |-> "failed", ref |-> RefOf(h), dest |-> 0, circuit |-> FALSE]
      /\ \A j, k \in DOMAIN sw'.icpt : sw'.icpt[j].h = sw'.icpt[k].h => j = k
      /\ \A k \in DOMAIN sw'.icpt : sw'.icpt[k].ref = RefOf(sw'.icpt[k].h)
      /\ \A h \in Named(sw'.icpt) :
            /\ h \in HTLCs \ Invalid /\ RefOf(h).pkg = p /\ inCh.fate[h] = "live"
            /\ h \notin DOMAIN inBox
            /\ h \in DOMAIN cm.pending => inLink'.paused
      /\ UNCHANGED <<outCh, cm, inBox, outBox, outLink>>
  BY ProcessFacts
<1>RefsOK. RefsOK'
  BY <1>1 DEF RefsOK
<1>OutLinkOK. OutLinkOK'
  BY <1>1 DEF OutLinkOK
<1>KeysOK. KeysOK'
  BY <1>1 DEF KeysOK, Numbered, NextOutIndex
<1>CircuitsOK. CircuitsOK'
  BY <1>1 DEF CircuitsOK
<1>SentOK. SentOK'
  BY <1>1 DEF SentOK
<1>PlaceOK. PlaceOK'
  <2>1. OnWay' = OnWay /\ Committed' = Committed /\ Failing' = Failing
        /\ Named(sw.route)' = {}
    BY <1>1, EmptyLen DEF OnWay, Committed, Failing, Named
  <2>2. sw'.route = << >> /\ DOMAIN sw'.route = {}
    BY <1>1, EmptyLen
  <2>. QED  BY <1>1, <2>1, <2>2 DEF PlaceOK
<1>IcptOK. IcptOK'
  <2>. SUFFICES ASSUME NEW h \in Named(sw'.icpt)
                PROVE  /\ h \notin DOMAIN inLink'.log /\ PkgOf(h)'.state = "Processed"
                       /\ h \notin Invalid /\ inCh.fate[h] = "live" /\ h \notin DOMAIN inBox
                       /\ h \notin DOMAIN cm.pending \/ inLink'.paused
    BY <1>1 DEF IcptOK, Named
  <2>1. h \in HTLCs \ Invalid /\ RefOf(h).pkg = p /\ h \notin DOMAIN inBox
    BY <1>1
  <2>2. h \notin DOMAIN inLink.log
    BY <2>1 DEF RepliesOK
  <2>3. PkgOf(h)'.state = "Processed"
    BY <1>1, <2>1 DEF PkgOf
  <2>4. h \notin DOMAIN inLink'.log
    BY <1>1, <2>1, <2>2
  <2>. QED  BY <1>1, <2>1, <2>3, <2>4
<1>PkgsOK. PkgsOK'
  <2>1. \A h \in HTLCs : /\ PkgOf(h)'.ack = PkgOf(h).ack
                         /\ PkgOf(h)'.state = IF RefOf(h).pkg = p THEN "Processed" ELSE PkgOf(h).state
                         /\ RefOf(h).pkg = p => PkgOf(h).state # "none"
                         /\ (Answered(h)' <=> Answered(h))
    <3>1. \A h \in HTLCs : RefOf(h).pkg \in DOMAIN Packages
      BY PackageFacts DEF AddRefs
    <3>. QED  BY <1>1, <3>1 DEF PkgOf, Answered
  <2>2. \A h \in HTLCs : RefOf(h).pkg = p
            /\ h \in Invalid => h \in DOMAIN inLink'.log \/ Answered(h)
    <3>. SUFFICES ASSUME NEW h \in HTLCs, RefOf(h).pkg = p, h \in Invalid, ~Answered(h)
                  PROVE  h \in DOMAIN inLink'.log
      OBVIOUS
    <3>1. inCh.fate[h] # "none"
      BY <2>1 DEF PkgsOK
    <3>2. inCh.fate[h] \in {"none", "live", "settled", "failed"}
      BY TypedFields DEF Fates
    <3>3. inCh.fate[h] = "live"
      BY <3>1, <3>2 DEF Answered
    <3>. QED  BY <1>1, <3>3
  <2>3. \A h \in DOMAIN inLink'.log : h \in DOMAIN inLink.log \/ RefOf(h).pkg = p
    BY <1>1
  <2>4. \A h \in DOMAIN inLink.log : h \in DOMAIN inLink'.log
    BY <1>1
  <2>5. \A q \in Range(inLink.todo) : q \in Range(inLink'.todo) \/ q = p
    BY <1>1
  <2>6. \A q \in Range(inLink'.todo) : q \in Range(inLink.todo)
    BY <1>1
  <2>7. \A q \in Range(inLink'.todo) : inCh'.pkgs[q].state # "none"
    <3>1. \A q \in Range(inLink.todo) : q \in DOMAIN Packages /\ inCh.pkgs[q].state # "none"
      <4>1. inLink.todo \in Seq(DOMAIN Packages)
        BY TypedFields
      <4>2. \A k \in DOMAIN inLink.todo : inLink.todo[k] \in DOMAIN Packages
        BY <4>1
      <4>. QED  BY <4>2 DEF PkgsOK, Range
    <3>. QED  BY <1>1, <2>6, <3>1
  <2>8. \A q \in DOMAIN Packages : inCh'.pkgs[q].ack \subseteq DOMAIN Packages[q]
    BY <1>1 DEF PkgsOK
  <2>9. ASSUME NEW h \in HTLCs
        PROVE  /\ (inCh.fate[h] = "none" <=> PkgOf(h).state = "none")'
               /\ (RefOf(h).idx \in PkgOf(h).ack <=> Answered(h))'
               /\ PkgOf(h)'.state # "Processed" =>
                     /\ h \notin DOMAIN cm'.pending /\ h \notin DOMAIN inBox'
                     /\ h \notin DOMAIN inLink'.log /\ ~Answered(h)'
    BY <1>1, <2>1, <2>3 DEF PkgsOK
  <2>10. ASSUME NEW h \in HTLCs, Answered(h)', NEW g \in Invalid, RefOf(g).pkg = RefOf(h).pkg
         PROVE  Answered(g)'
    BY <2>1, <2>10, BoundsAssumption DEF PkgsOK
  <2>11. ASSUME NEW h \in HTLCs, RefOf(h).pkg \notin Range(inLink'.todo), PkgOf(h)'.state # "none"
         PROVE  /\ PkgOf(h)'.state = "Processed"
                /\ h \in Invalid => h \in DOMAIN inLink'.log \/ Answered(h)'
    <3>1. CASE RefOf(h).pkg = p
      BY <2>1, <2>2, <3>1
    <3>2. CASE RefOf(h).pkg # p
      BY <1>1, <2>1, <2>4, <2>5, <2>11, <3>2 DEF PkgsOK
    <3>. QED  BY <3>1, <3>2
  <2>. QED  BY <2>7, <2>8, <2>9, <2>10, <2>11 DEF PkgsOK
<1>InLinkOK. InLinkOK'
  <2>1. ~inLink.acking
    BY <1>1 DEF InLinkOK
  <2>. QED  BY <1>1, <2>1 DEF InLinkOK, Answered
<1>RepliesOK. RepliesOK'
  <2>1. \A h, r : Backed(h, r) => Backed(h, r)'
    <3>1. OnWay' = OnWay /\ Committed' = Committed
      BY <1>1, EmptyLen DEF OnWay, Committed, Named
    <3>. QED  BY <1>1, <3>1 DEF Backed, Dead
  <2>2. \A h \in DOMAIN inBox : Backed(h, inBox[h])' /\ inCh'.fate[h] # "none"
    <3>. SUFFICES ASSUME NEW h \in DOMAIN inBox PROVE Backed(h, inBox[h])' /\ inCh'.fate[h] # "none"
      OBVIOUS
    <3>. PICK r : r = inBox[h]
      OBVIOUS
    <3>1. Backed(h, r)' /\ inCh'.fate[h] # "none" /\ inBox'[h] = r
      BY <1>1, <2>1 DEF RepliesOK
    <3>. QED  BY <3>1 DEF Backed
  <2>3. ASSUME NEW h \in DOMAIN inLink'.log
        PROVE  /\ Backed(h, inLink.log[h])' /\ inCh'.fate[h] = "live"
               /\ h \in Invalid <=> ~inLink'.log[h].circuit
               /\ inLink'.log[h].circuit => h \in DOMAIN inBox
    <3>. PICK r : r = inLink'.log[h]
      OBVIOUS
    <3>1. /\ Backed(h, r) /\ inCh'.fate[h] = "live" /\ (h \in Invalid <=> ~r.circuit)
          /\ r.circuit => h \in DOMAIN inBox
      <4>1. CASE h \in DOMAIN inLink.log
        BY <1>1, <4>1 DEF RepliesOK
      <4>2. CASE h \in R
        <5>1. h \in Invalid /\ inCh.fate[h] = "live"
          BY <1>1, <4>2
        <5>2. h \notin DOMAIN cm.pending
          BY <5>1 DEF CircuitsOK
        <5>3. h \notin OnWay /\ h \notin Committed
          BY <5>1, <5>2 DEF PlaceOK, SentOK, Committed, Named
        <5>4. r = [fate |-> "failed", ref |-> RefOf(h), dest |-> 0, circuit |-> FALSE]
          BY <1>1, <4>2
        <5>5. Backed(h, r)
          BY <5>3, <5>4 DEF Backed, Dead
        <5>. QED  BY <1>1, <5>1, <5>4, <5>5
      <4>. QED  BY <1>1, <4>1, <4>2
    <3>2. Backed(h, r)'
      BY <2>1, <3>1
    <3>. QED  BY <3>1, <3>2 DEF Backed
  <2>. QED  BY <1>1, <2>2, <2>3 DEF RepliesOK
<1>ResponsesOK. ResponsesOK'
  BY <1>1 DEF ResponsesOK, Answered
<1>. QED  BY <1>RefsOK, <1>OutLinkOK, <1>KeysOK, <1>CircuitsOK, <1>SentOK, <1>PlaceOK,
        <1>IcptOK, <1>PkgsOK, <1>InLinkOK, <1>RepliesOK, <1>ResponsesOK

\* The incoming link takes a reply from its mailbox.
LEMMA StepDownstreamReply ==
    ASSUME IInv, Typed', NEW h \in HTLCs, DownstreamReply(h)
    PROVE  IInv'
<1>. USE DEF IInv
<1>1. /\ inLink.up /\ inLink.todo = << >> /\ ~inLink.paused /\ ~inLink.acking
      /\ h \in DOMAIN inBox /\ inCh.fate[h] = "live" /\ h \notin DOMAIN inLink.log
      /\ inLink'.todo = inLink.todo
      /\ inLink'.up = inLink.up /\ inLink'.paused = inLink.paused
      /\ inLink'.acking = inLink.acking /\ inLink'.closing = inLink.closing
      /\ UNCHANGED <<inCh, outCh, cm, sw, inBox, outBox, outLink>>
  BY DEF DownstreamReply, Removable, InLinkIdle, Typed, InLinks
<1>2. /\ DOMAIN inLink'.log = DOMAIN inLink.log \cup {h}
      /\ inLink'.log[h] = [fate |-> inBox[h].fate, ref |-> inBox[h].ref, dest |-> inBox[h].dest, circuit |-> TRUE]
      /\ \A x \in DOMAIN inLink.log : x # h => inLink'.log[x] = inLink.log[x]
  <2>. DEFINE v == [fate |-> inBox[h].fate, ref |-> inBox[h].ref, dest |-> inBox[h].dest, circuit |-> TRUE]
              one == [x \in {h} |-> v]
  <2>1. inLink'.log = Overlay(inLink.log, one)
    BY DEF DownstreamReply, Typed, InLinks
  <2>. HIDE DEF v
  <2>2. DOMAIN one = {h} /\ one[h] = v
    OBVIOUS
  <2>. HIDE DEF one
  <2>3. /\ DOMAIN Overlay(inLink.log, one) = DOMAIN inLink.log \cup DOMAIN one
        /\ \A x \in DOMAIN one : Overlay(inLink.log, one)[x] = one[x]
        /\ \A x \in DOMAIN inLink.log \ DOMAIN one : Overlay(inLink.log, one)[x] = inLink.log[x]
    BY OverlayFacts
  <2>4. /\ DOMAIN inLink'.log = DOMAIN inLink.log \cup {h} /\ inLink'.log[h] = v
        /\ \A x \in DOMAIN inLink.log : x # h => inLink'.log[x] = inLink.log[x]
    BY <2>1, <2>2, <2>3
  <2>. QED  BY <2>4 DEF v
<1>4. Range(inLink.todo) = {}
  BY <1>1, EmptyLen DEF Range
<1>3. h \notin Invalid
  <2>1. PkgOf(h).state # "none" /\ ~Answered(h)
    BY <1>1 DEF PkgsOK, Answered
  <2>. QED  BY <1>1, <1>4, <2>1 DEF PkgsOK
<1>RefsOK. RefsOK'
  BY <1>1 DEF RefsOK
<1>OutLinkOK. OutLinkOK'
  BY <1>1 DEF OutLinkOK
<1>KeysOK. KeysOK'
  BY <1>1 DEF KeysOK, Numbered, NextOutIndex
<1>CircuitsOK. CircuitsOK'
  BY <1>1 DEF CircuitsOK
<1>SentOK. SentOK'
  BY <1>1 DEF SentOK
<1>PlaceOK. PlaceOK'
  <2>1. OnWay' = OnWay /\ Committed' = Committed /\ Failing' = Failing
        /\ Named(sw.route)' = Named(sw.route) /\ Named(outBox.pkts)' = Named(outBox.pkts)
    BY <1>1 DEF OnWay, Committed, Failing, Named
  <2>. QED  BY <1>1, <2>1 DEF PlaceOK
<1>IcptOK. IcptOK'
  <2>1. h \notin Named(sw.icpt)
    <3>1. h \in Named(sw.icpt) => h \notin DOMAIN cm.pending
      BY <1>1, <1>4 DEF IcptOK
    <3>. QED  BY <1>1, <3>1 DEF IcptOK
  <2>2. Named(sw.icpt)' = Named(sw.icpt)
            /\ \A x \in DOMAIN inLink'.log : x = h \/ x \in DOMAIN inLink.log
    BY <1>1, <1>2 DEF Named
  <2>. QED  BY <1>1, <2>1, <2>2 DEF IcptOK, PkgOf
<1>PkgsOK. PkgsOK'
  <2>1. PkgOf(h).state = "Processed"
    BY <1>1 DEF PkgsOK
  <2>2. \A x : x \in DOMAIN inLink'.log <=> x = h \/ x \in DOMAIN inLink.log
    BY <1>2
  <2>3. \A x : PkgOf(x)' = PkgOf(x) /\ Answered(x)' = Answered(x)
    BY <1>1 DEF PkgOf, Answered
  <2>. QED  BY <1>1, <2>1, <2>2, <2>3 DEF PkgsOK
<1>InLinkOK. InLinkOK'
  BY <1>1 DEF InLinkOK, Answered
<1>RepliesOK. RepliesOK'
  <2>1. \A x, r : Backed(x, r) => Backed(x, r)'
    BY <1>1 DEF Backed, Dead, OnWay, Committed, Named
  <2>2. \A x \in DOMAIN inBox : Backed(x, inBox[x])' /\ inCh'.fate[x] # "none"
    <3>. SUFFICES ASSUME NEW x \in DOMAIN inBox PROVE Backed(x, inBox[x])' /\ inCh'.fate[x] # "none"
      OBVIOUS
    <3>. PICK r : r = inBox[x]
      OBVIOUS
    <3>1. Backed(x, r)' /\ inCh'.fate[x] # "none" /\ inBox'[x] = r
      BY <1>1, <2>1 DEF RepliesOK
    <3>. QED  BY <3>1 DEF Backed
  <2>3. ASSUME NEW x \in DOMAIN inLink'.log
        PROVE  /\ Backed(x, inLink.log[x])' /\ inCh'.fate[x] = "live"
               /\ x \in Invalid <=> ~inLink'.log[x].circuit
               /\ inLink'.log[x].circuit => x \in DOMAIN inBox
    <3>. PICK r : r = inLink'.log[x]
      OBVIOUS
    <3>1. /\ Backed(x, r) /\ inCh'.fate[x] = "live" /\ (x \in Invalid <=> ~r.circuit)
          /\ r.circuit => x \in DOMAIN inBox
      <4>1. CASE x # h
        BY <1>1, <1>2, <4>1 DEF RepliesOK
      <4>2. CASE x = h
        <5>1. Backed(h, inBox[h])
          BY <1>1 DEF RepliesOK
        <5>2. r.fate = inBox[h].fate /\ r.ref = inBox[h].ref /\ r.dest = inBox[h].dest /\ r.circuit
          BY <1>2, <4>2
        <5>3. Backed(h, r)
          BY <5>1, <5>2 DEF Backed
        <5>. QED  BY <1>1, <1>3, <4>2, <5>2, <5>3
      <4>. QED  BY <4>1, <4>2
    <3>2. Backed(x, r)'
      BY <2>1, <3>1
    <3>. QED  BY <3>1, <3>2 DEF Backed
  <2>. QED  BY <1>1, <2>2, <2>3 DEF RepliesOK
<1>ResponsesOK. ResponsesOK'
  BY <1>1 DEF ResponsesOK, Answered
<1>. QED  BY <1>RefsOK, <1>OutLinkOK, <1>KeysOK, <1>CircuitsOK, <1>SentOK, <1>PlaceOK,
        <1>IcptOK, <1>PkgsOK, <1>InLinkOK, <1>RepliesOK, <1>ResponsesOK

\* The incoming link signs its log and acknowledges what it answers.
LEMMA StepSignIn ==
    ASSUME IInv, Typed', SignIn
    PROVE  IInv'
<1>. USE DEF IInv
<1>. DEFINE closed == {h \in DOMAIN inLink.log : inLink.log[h].circuit}
<1>1. /\ inLink.up /\ inLink.todo = << >> /\ ~inLink.paused /\ ~inLink.acking /\ ~inCh.diff.open
      /\ inCh'.diff.open /\ inCh'.diff.circuits = closed /\ outCh'.htlcs = outCh.htlcs
      /\ inLink'.todo = inLink.todo /\ inLink'.up = inLink.up /\ inLink'.paused = inLink.paused
      /\ inLink'.acking /\ inLink'.closing = closed /\ DOMAIN inLink'.log = {}
      /\ UNCHANGED <<cm, sw, inBox, outBox, outLink>>
  <2>1. inLink'.log = << >>
    BY DEF SignIn, Typed, InLinks
  <2>2. /\ inCh'.diff = [open |-> TRUE, circuits |-> closed] /\ outCh'.htlcs = outCh.htlcs
        /\ inLink'.todo = inLink.todo /\ inLink'.up = inLink.up /\ inLink'.paused = inLink.paused
        /\ inLink'.acking /\ inLink'.closing = closed
    BY DEF SignIn, AckAdds, AckSettleFails, Typed, InLinks, InChTypes, OutChTypes
  <2>3. inCh'.diff.open /\ inCh'.diff.circuits = closed /\ DOMAIN inLink'.log = {}
    BY <2>1, <2>2, EmptyLen
  <2>4. /\ inLink.up /\ inLink.todo = << >> /\ ~inLink.paused /\ ~inLink.acking /\ ~inCh.diff.open
        /\ UNCHANGED <<cm, sw, inBox, outBox, outLink>>
    BY DEF SignIn, InLinkIdle
  <2>. HIDE DEF closed
  <2>. QED  BY <2>2, <2>3, <2>4
<1>0. \A h \in DOMAIN inLink.log : /\ inLink.log[h].ref = RefOf(h) /\ inCh.fate[h] = "live"
                                     /\ inLink.log[h].fate \in {"settled", "failed"}
  <2>1. \A h \in DOMAIN inLink.log : inLink.log[h] \in LogReplies
    BY TypedFields, MapsFacts
  <2>. QED  BY <2>1 DEF RepliesOK, Backed, LogReplies
<1>2. \A q \in DOMAIN Packages :
         /\ inCh'.pkgs[q].state = inCh.pkgs[q].state
         /\ inCh'.pkgs[q].ack = inCh.pkgs[q].ack \cup
               {RefOf(g).idx : g \in {x \in DOMAIN inLink.log : RefOf(x).pkg = q}}
  <2>. DEFINE refs == {inLink.log[h].ref : h \in DOMAIN inLink.log}
              pk == [p \in DOMAIN inCh.pkgs |->
                       [inCh.pkgs[p] EXCEPT !.ack = @ \cup {r.idx : r \in {x \in refs : x.pkg = p}}]]
  <2>1. inCh.pkgs \in [DOMAIN Packages -> PkgTypes]
    BY TypedFields
  <2>2. inCh'.pkgs = pk
    BY DEF SignIn, AckAdds, Typed, InChTypes
  <2>3. \A q : {r.idx : r \in {x \in refs : x.pkg = q}} =
               {RefOf(g).idx : g \in {x \in DOMAIN inLink.log : RefOf(x).pkg = q}}
    BY <1>0
  <2>. HIDE DEF refs
  <2>4. \A q \in DOMAIN Packages :
           /\ pk[q].state = inCh.pkgs[q].state
           /\ pk[q].ack = inCh.pkgs[q].ack \cup {r.idx : r \in {x \in refs : x.pkg = q}}
    BY <2>1 DEF PkgTypes
  <2>. HIDE DEF pk
  <2>. QED  BY <2>2, <2>3, <2>4
<1>3. \A h \in HTLCs : /\ h \notin DOMAIN inLink.log => inCh'.fate[h] = inCh.fate[h]
                       /\ h \in DOMAIN inLink.log => inCh'.fate[h] \in {"settled", "failed"}
                             /\ inCh.fate[h] = "live"
  <2>1. inCh'.fate = [h \in HTLCs |-> IF h \in DOMAIN inLink.log THEN inLink.log[h].fate ELSE inCh.fate[h]]
    BY DEF SignIn, AckAdds, Typed, InChTypes
  <2>. QED  BY <1>0, <2>1
<1>4. \A h \in HTLCs : PkgOf(h)'.state = PkgOf(h).state
  <2>1. \A h \in HTLCs : RefOf(h).pkg \in DOMAIN Packages
    BY PackageFacts DEF AddRefs
  <2>. QED  BY <1>2, <2>1 DEF PkgOf
<1>5. \A h \in HTLCs : Answered(h)' <=> Answered(h) \/ h \in DOMAIN inLink.log
  BY <1>3 DEF Answered
<1>6. \A h \in HTLCs : RefOf(h).idx \in PkgOf(h)'.ack <=> RefOf(h).idx \in PkgOf(h).ack
          \/ h \in DOMAIN inLink.log
  <2>. SUFFICES ASSUME NEW h \in HTLCs
                PROVE  RefOf(h).idx \in PkgOf(h)'.ack <=> RefOf(h).idx \in PkgOf(h).ack
                    \/ h \in DOMAIN inLink.log
    OBVIOUS
  <2>1. RefOf(h).pkg \in DOMAIN Packages
    BY PackageFacts DEF AddRefs
  <2>2. \A g \in DOMAIN inLink.log : RefOf(g).pkg = RefOf(h).pkg
            /\ RefOf(g).idx = RefOf(h).idx => g = h
    BY PackageFacts, TypedNames
  <2>. QED  BY <1>2, <2>1, <2>2 DEF PkgOf
<1>7. \A i \in outCh'.acked : i \in outCh.acked
          \/ \E h \in DOMAIN inLink.log : i = inLink.log[h].dest /\ i # 0
  <2>1. outCh'.acked = outCh.acked \cup ({inLink.log[h].dest : h \in DOMAIN inLink.log} \ {0})
    BY DEF SignIn, AckSettleFails, Typed, OutChTypes
  <2>. QED  BY <2>1
<1>RefsOK. RefsOK'
  BY <1>1 DEF RefsOK
<1>OutLinkOK. OutLinkOK'
  BY <1>1 DEF OutLinkOK
<1>KeysOK. KeysOK'
  BY <1>1 DEF KeysOK, Numbered, NextOutIndex
<1>CircuitsOK. CircuitsOK'
  BY <1>1 DEF CircuitsOK
<1>SentOK. SentOK'
  <2>1. \A i \in DOMAIN outCh.htlcs :
          /\ inCh'.fate[outCh.htlcs[i].h] = "live" => inCh.fate[outCh.htlcs[i].h] = "live"
          /\ inCh'.fate[outCh.htlcs[i].h] # "none"
    BY <1>3, TypedNames DEF SentOK
  <2>. QED  BY <1>1, <2>1 DEF SentOK
<1>PlaceOK. PlaceOK'
  <2>1. OnWay' = OnWay /\ Committed' = Committed /\ Failing' = Failing
        /\ Named(sw.route)' = Named(sw.route) /\ Named(outBox.pkts)' = Named(outBox.pkts)
    BY <1>1 DEF OnWay, Committed, Failing, Named
  <2>2. \A h \in OnWay : h \notin DOMAIN inLink.log
    BY DEF PlaceOK, RepliesOK, CircuitsOK
  <2>3. \A h \in OnWay : inCh'.fate[h] = inCh.fate[h]
    BY <1>3, <2>2, TypedNames
  <2>4. \A h \in Failing : inCh'.fate[h] # "none"
            /\ (inCh'.fate[h] = "live" => inCh.fate[h] = "live")
    BY <1>3, TypedNames DEF PlaceOK
  <2>. QED  BY <1>1, <2>1, <2>3, <2>4 DEF PlaceOK
<1>IcptOK. IcptOK'
  <2>1. Named(sw.icpt)' = Named(sw.icpt)
    BY <1>1 DEF Named
  <2>2. \A h \in Named(sw.icpt) : inCh'.fate[h] = inCh.fate[h] /\ PkgOf(h)'.state = PkgOf(h).state
    BY <1>3, <1>4, TypedNames DEF IcptOK
  <2>. QED  BY <1>1, <2>1, <2>2 DEF IcptOK
<1>PkgsOK. PkgsOK'
  <2>1. Range(inLink'.todo) = {} /\ Range(inLink.todo) = {}
    BY <1>1, EmptyLen DEF Range
  <2>2. \A q \in DOMAIN Packages : inCh'.pkgs[q].ack \subseteq DOMAIN Packages[q]
    <3>. SUFFICES ASSUME NEW q \in DOMAIN Packages, NEW i \in inCh'.pkgs[q].ack
                  PROVE i \in DOMAIN Packages[q]
      OBVIOUS
    <3>1. i \in inCh.pkgs[q].ack \/ \E g \in DOMAIN inLink.log : RefOf(g).pkg = q
              /\ RefOf(g).idx = i
      BY <1>2
    <3>2. CASE i \in inCh.pkgs[q].ack
      BY <3>2 DEF PkgsOK
    <3>3. CASE \E g \in DOMAIN inLink.log : RefOf(g).pkg = q /\ RefOf(g).idx = i
      <4>1. PICK g \in HTLCs : RefOf(g).pkg = q /\ RefOf(g).idx = i
        BY <3>3, TypedNames
      <4>. QED  BY <4>1, PackageFacts
    <3>. QED  BY <3>1, <3>2, <3>3
  <2>3. ASSUME NEW h \in HTLCs
        PROVE  /\ (inCh.fate[h] = "none" <=> PkgOf(h).state = "none")'
               /\ (RefOf(h).idx \in PkgOf(h).ack <=> Answered(h))'
               /\ PkgOf(h)'.state # "Processed" =>
                     /\ h \notin DOMAIN cm'.pending /\ h \notin DOMAIN inBox'
                     /\ h \notin DOMAIN inLink'.log /\ ~Answered(h)'
    <3>1. h \in DOMAIN inLink.log => PkgOf(h).state = "Processed"
      BY DEF PkgsOK
    <3>2. inCh'.fate[h] = "none" <=> inCh.fate[h] = "none"
      BY <1>3
    <3>. QED  BY <1>1, <1>4, <1>5, <1>6, <3>1, <3>2 DEF PkgsOK
  <2>4. ASSUME NEW h \in HTLCs, Answered(h)', NEW g \in Invalid, RefOf(g).pkg = RefOf(h).pkg
        PROVE  Answered(g)'
    <3>1. g \in HTLCs /\ PkgOf(g) = PkgOf(h)
      BY <2>4, BoundsAssumption DEF PkgOf
    <3>2. PkgOf(h).state = "Processed"
      BY <1>5, <2>4 DEF PkgsOK
    <3>3. g \in DOMAIN inLink.log \/ Answered(g)
      BY <1>1, <2>1, <3>1, <3>2 DEF PkgsOK
    <3>. QED  BY <1>5, <3>1, <3>3
  <2>5. ASSUME NEW h \in HTLCs, PkgOf(h)'.state # "none"
        PROVE  PkgOf(h)'.state = "Processed" /\ (h \in Invalid => Answered(h)')
    BY <1>1, <1>4, <1>5, <2>1, <2>5 DEF PkgsOK
  <2>. QED  BY <2>1, <2>2, <2>3, <2>4, <2>5 DEF PkgsOK
<1>InLinkOK. InLinkOK'
  <2>1. \A h \in closed : Answered(h)'
    BY <1>5, TypedNames
  <2>2. inCh.diff.circuits = {}
    BY <1>1 DEF InLinkOK
  <2>3. ASSUME NEW h \in DOMAIN cm.pending
        PROVE  inCh'.fate[h] # "none" /\ (Answered(h)' => h \in closed)
    <3>1. h \in HTLCs /\ inCh.fate[h] # "none" /\ ~Answered(h)
      BY <2>2, TypedCircuits DEF InLinkOK
    <3>2. h \notin Invalid
      BY DEF CircuitsOK
    <3>3. h \in DOMAIN inLink.log => inLink.log[h].circuit
      BY <3>2 DEF RepliesOK
    <3>. QED  BY <1>3, <1>5, <3>1, <3>3
  <2>. QED  BY <1>1, <2>1, <2>3 DEF InLinkOK
<1>RepliesOK. RepliesOK'
  <2>1. OnWay' = OnWay /\ Committed' = Committed
    BY <1>1 DEF OnWay, Committed, Named
  <2>2. \A h \in DOMAIN inBox : inCh'.fate[h] # "none"
    BY <1>3, TypedNames DEF RepliesOK
  <2>. QED  BY <1>1, <2>1, <2>2 DEF RepliesOK, Backed, Dead
<1>ResponsesOK. ResponsesOK'
  <2>1. \A i \in DOMAIN outCh.htlcs : Answered(outCh.htlcs[i].h) => Answered(outCh.htlcs[i].h)'
    <3>. SUFFICES ASSUME NEW i \in DOMAIN outCh.htlcs, Answered(outCh.htlcs[i].h)
                  PROVE  Answered(outCh.htlcs[i].h)'
      OBVIOUS
    <3>. PICK h : h = outCh.htlcs[i].h
      OBVIOUS
    <3>1. Answered(h)'
      BY <1>5, TypedNames
    <3>. QED  BY <1>1, <3>1 DEF Answered
  <2>2. \A i \in outCh'.acked : i \in outCh.acked
            \/ (i \in DOMAIN outCh.htlcs /\ Answered(outCh.htlcs[i].h)')
    <3>. SUFFICES ASSUME NEW i \in outCh'.acked, i \notin outCh.acked
                  PROVE  i \in DOMAIN outCh.htlcs /\ Answered(outCh.htlcs[i].h)'
      OBVIOUS
    <3>1. PICK h \in DOMAIN inLink.log : i = inLink.log[h].dest /\ i # 0
      BY <1>7
    <3>2. i \in DOMAIN outCh.htlcs /\ outCh.htlcs[i].h = h
      BY <3>1 DEF RepliesOK, Backed
    <3>3. Answered(h)'
      BY <1>5, TypedNames
    <3>. QED  BY <1>1, <3>2, <3>3 DEF Answered
  <2>. QED  BY <1>1, <2>1, <2>2 DEF ResponsesOK
<1>. QED  BY <1>RefsOK, <1>OutLinkOK, <1>KeysOK, <1>CircuitsOK, <1>SentOK, <1>PlaceOK,
        <1>IcptOK, <1>PkgsOK, <1>InLinkOK, <1>RepliesOK, <1>ResponsesOK

\* Deleting the circuits of answered HTLCs leaves the others as they were.
LEMMA DeletedOK ==
    ASSUME IInv, cm' = DeleteCircuits(cm, inCh.diff.circuits), inBox' = Without(inBox, inCh.diff.circuits),
           UNCHANGED <<inCh, outCh, sw, outBox, outLink>>
    PROVE  /\ KeysOK' /\ CircuitsOK' /\ SentOK' /\ PlaceOK'
           /\ \A h \in DOMAIN cm'.pending : h \in DOMAIN cm.pending /\ ~Answered(h)
           /\ \A h \in DOMAIN inBox' : h \in DOMAIN inBox /\ inBox'[h] = inBox[h]
<1>. USE DEF IInv
<1>. DEFINE found == inCh.diff.circuits \cap DOMAIN cm.pending
            outs == {cm.pending[h].out : h \in found}
<1>1. /\ DOMAIN cm'.adds = DOMAIN cm.adds \ found /\ DOMAIN cm'.pending = DOMAIN cm.pending \ found
      /\ DOMAIN cm'.keys = DOMAIN cm.keys \ outs /\ DOMAIN cm'.opened = DOMAIN cm.opened \ outs
      /\ \A h \in DOMAIN cm'.adds : cm'.adds[h] = cm.adds[h]
      /\ \A h \in DOMAIN cm'.pending : cm'.pending[h] = cm.pending[h]
      /\ \A i \in DOMAIN cm'.keys : cm'.keys[i] = cm.keys[i]
      /\ \A i \in DOMAIN cm'.opened : cm'.opened[i] = cm.opened[i]
  <2>. DEFINE D == inCh.diff.circuits
  <2>1. cm \in CircuitMaps /\ cm' = DeleteCircuits(cm, D)
    BY DEF Typed
  <2>. HIDE DEF D
  <2>. DEFINE d == DeleteCircuits(cm, D)
              fo == D \cap DOMAIN cm.pending
              ou == {cm.pending[h].out : h \in fo}
  <2>2. /\ DOMAIN d.adds = DOMAIN cm.adds \ fo /\ DOMAIN d.pending = DOMAIN cm.pending \ fo
        /\ DOMAIN d.keys = DOMAIN cm.keys \ ou /\ DOMAIN d.opened = DOMAIN cm.opened \ ou
        /\ \A h \in DOMAIN d.adds : d.adds[h] = cm.adds[h]
        /\ \A h \in DOMAIN d.pending : d.pending[h] = cm.pending[h]
        /\ \A i \in DOMAIN d.keys : d.keys[i] = cm.keys[i]
        /\ \A i \in DOMAIN d.opened : d.opened[i] = cm.opened[i]
    BY <2>1, DeleteFacts
  <2>3. cm' = d /\ fo = found /\ ou = outs
    BY <2>1 DEF D
  <2>. HIDE DEF d, fo, ou, found, outs
  <2>. QED  BY <2>2, <2>3
<1>2. \A h \in found : h \in DOMAIN cm.pending /\ Answered(h) /\ cm.pending[h].out \in outs
  BY DEF InLinkOK
<1>3. \A i \in outs : \E h \in found : i = cm.pending[h].out
  OBVIOUS
<1>4. \A h \in DOMAIN cm'.pending : h \in DOMAIN cm.pending /\ ~Answered(h)
  BY <1>1 DEF InLinkOK
<1>5. \A h \in DOMAIN inBox' : h \in DOMAIN inBox /\ inBox'[h] = inBox[h]
  <2>. DEFINE D == inCh.diff.circuits
              b == Without(inBox, D)
  <2>. HIDE DEF D
  <2>1. DOMAIN b = DOMAIN inBox \ D /\ \A x \in DOMAIN inBox \ D : b[x] = inBox[x]
    BY RestrictFacts
  <2>2. inBox' = b
    BY DEF D
  <2>. HIDE DEF b
  <2>. QED  BY <2>1, <2>2
<1>6. \A h \in found : inCh.fate[h] # "live"
  BY <1>2 DEF Answered
<1>. HIDE DEF found, outs
<1>7. NextOutIndex' = NextOutIndex
  BY DEF NextOutIndex
<1>8. \A i \in DOMAIN cm.opened \cap outs : i >= NextOutIndex => ~outLink.up
  <2>. SUFFICES ASSUME NEW i \in DOMAIN cm.opened, i \in outs, i >= NextOutIndex,
           outLink.up PROVE FALSE
    OBVIOUS
  <2>1. PICK h \in found : i = cm.pending[h].out
    BY <1>3
  <2>2. i # 0 /\ i \in Nat
    BY TypedCircuits DEF Index
  <2>3. cm.opened[i] = h
    BY <1>2, <2>1, <2>2 DEF CircuitsOK
  <2>4. i < NextOutIndex + Len(outLink.log) /\ cm.opened[i] = outLink.log[i - NextOutIndex + 1]
    BY DEF KeysOK, Numbered
  <2>5. i - NextOutIndex + 1 \in DOMAIN outLink.log /\ NextOutIndex \in Nat
    <3>1. NextOutIndex \in Nat /\ outLink.log \in Seq(HTLCs)
      BY TypedFields DEF NextOutIndex
    <3>2. DOMAIN outLink.log = 1..Len(outLink.log) /\ Len(outLink.log) \in Nat
      BY <3>1
    <3>3. i - NextOutIndex + 1 \in 1..Len(outLink.log)
      BY <2>2, <2>4, <3>1, <3>2
    <3>. QED  BY <3>1, <3>2, <3>3
  <2>6. h \in Named(outBox.pkts)
    <3>1. Range(outLink.log) = {outBox.pkts[k].h : k \in 1..outBox.head - 1}
      BY AckLog
    <3>2. outBox.head \in Nat /\ outBox.head <= Len(outBox.pkts) + 1 /\ outBox.pkts \in Seq(Adds)
      BY TypedFields DEF Index
    <3>3. 1..outBox.head - 1 \subseteq DOMAIN outBox.pkts
      BY <3>2
    <3>4. h \in Range(outLink.log)
      BY <2>3, <2>4, <2>5 DEF Range
    <3>. QED  BY <3>1, <3>3, <3>4 DEF Named
  <2>. QED  BY <1>6, <2>6 DEF PlaceOK, OnWay
<1>9. KeysOK'
  <2>1. \A i \in DOMAIN cm'.opened : i \in DOMAIN cm.opened /\ cm'.opened[i] = cm.opened[i]
    BY <1>1
  <2>2. outLink.up => \A i \in NextOutIndex..NextOutIndex + Len(outLink.log) - 1 :
                         i \in DOMAIN cm'.opened \cup DOMAIN outLink.batch
    <3>. SUFFICES ASSUME outLink.up, NEW i \in NextOutIndex..NextOutIndex + Len(outLink.log) - 1,
                         i \notin DOMAIN outLink.batch
                  PROVE  i \in DOMAIN cm'.opened
      OBVIOUS
    <3>1. i \in DOMAIN cm.opened
      BY DEF KeysOK
    <3>2. i >= NextOutIndex
      <4>1. NextOutIndex \in Nat
        BY TypedFields DEF NextOutIndex
      <4>. QED  BY <4>1
    <3>. QED  BY <1>1, <1>8, <3>1, <3>2
  <2>3. outLink.up => Numbered(cm.opened)' /\ Numbered(outLink.batch)'
    BY <1>7, <2>1 DEF KeysOK, Numbered
  <2>. QED  BY <1>7, <2>1, <2>2, <2>3 DEF KeysOK
<1>10. CircuitsOK'
  <2>1. ASSUME NEW i \in DOMAIN cm'.opened
        PROVE  cm'.opened[i] \in DOMAIN cm'.pending /\ cm'.pending[cm'.opened[i]].out = i
    <3>1. i \in DOMAIN cm.opened /\ i \notin outs /\ cm'.opened[i] = cm.opened[i]
      BY <1>1
    <3>2. cm.opened[i] \in DOMAIN cm.pending /\ cm.pending[cm.opened[i]].out = i
      BY <3>1 DEF CircuitsOK
    <3>3. cm.opened[i] \notin found
      BY <1>2, <3>1, <3>2
    <3>. QED  BY <1>1, <3>1, <3>2, <3>3
  <2>2. ASSUME NEW h \in DOMAIN cm'.pending, cm'.pending[h].out # 0
        PROVE  cm'.pending[h].out \in DOMAIN cm'.opened /\ cm'.opened[cm'.pending[h].out] = h
    <3>1. h \in DOMAIN cm.pending /\ h \notin found /\ cm'.pending[h].out = cm.pending[h].out
      BY <1>1
    <3>2. cm.pending[h].out \in DOMAIN cm.opened /\ cm.opened[cm.pending[h].out] = h
      BY <2>2, <3>1 DEF CircuitsOK
    <3>3. cm.pending[h].out \notin outs
      <4>. SUFFICES ASSUME NEW g \in found, cm.pending[h].out = cm.pending[g].out PROVE FALSE
        BY <1>3
      <4>1. cm.opened[cm.pending[g].out] = g
        BY <1>2, <2>2, <3>1 DEF CircuitsOK
      <4>. QED  BY <3>1, <3>2, <4>1
    <3>. QED  BY <1>1, <3>1, <3>2, <3>3
  <2>. QED  BY <1>1, <2>1, <2>2 DEF CircuitsOK
<1>11. \A h \in DOMAIN cm.pending : inCh.fate[h] = "live" => h \in DOMAIN cm'.pending
  BY <1>1, <1>6
<1>12. SentOK'
  BY <1>1, <1>11 DEF SentOK
<1>13. PlaceOK'
  <2>1. OnWay' = OnWay /\ Committed' = Committed /\ Failing' = Failing
        /\ Named(sw.route)' = Named(sw.route) /\ Named(outBox.pkts)' = Named(outBox.pkts)
    BY DEF OnWay, Committed, Failing, Named
  <2>. QED  BY <1>1, <1>5, <1>11, <2>1 DEF PlaceOK
<1>. QED  BY <1>4, <1>5, <1>9, <1>10, <1>12, <1>13

\* The circuits and the replies of a signed commitment are removed.
LEMMA StepAckDownStream ==
    ASSUME IInv, Typed', AckDownStreamPackets
    PROVE  IInv'
<1>. USE DEF IInv
<1>1. /\ inLink.up /\ inLink.acking /\ ~inLink'.acking /\ inLink'.closing = {}
      /\ inLink'.todo = inLink.todo /\ inLink'.up = inLink.up /\ inLink'.paused = inLink.paused
      /\ inLink'.log = inLink.log /\ inLink.closing = inCh.diff.circuits
      /\ cm' = DeleteCircuits(cm, inCh.diff.circuits) /\ inBox' = Without(inBox, inCh.diff.circuits)
      /\ UNCHANGED <<inCh, outCh, sw, outBox, outLink>>
  <2>1. inLink.acking => inLink.closing = inCh.diff.circuits
    BY DEF InLinkOK
  <2>. QED  BY <2>1 DEF AckDownStreamPackets, Typed, InLinks
<1>2. /\ KeysOK' /\ CircuitsOK' /\ SentOK' /\ PlaceOK'
      /\ \A h \in DOMAIN cm'.pending : h \in DOMAIN cm.pending /\ ~Answered(h)
      /\ \A h \in DOMAIN inBox' : h \in DOMAIN inBox /\ inBox'[h] = inBox[h]
  BY <1>1, DeletedOK
<1>3. \A h \in DOMAIN inBox' : Backed(h, inBox[h])' /\ inCh'.fate[h] # "none"
  <2>. SUFFICES ASSUME NEW h \in DOMAIN inBox' PROVE Backed(h, inBox[h])' /\ inCh'.fate[h] # "none"
    OBVIOUS
  <2>. PICK r : r = inBox'[h]
    OBVIOUS
  <2>1. Backed(h, r) /\ inCh'.fate[h] # "none"
    BY <1>1, <1>2 DEF RepliesOK
  <2>2. Backed(h, r)'
    <3>1. OnWay' = OnWay /\ Committed' = Committed
      BY <1>1 DEF OnWay, Committed, Named
    <3>. QED  BY <1>1, <2>1, <3>1 DEF Backed, Dead
  <2>. QED  BY <2>1, <2>2 DEF Backed
<1>4. \A h \in DOMAIN cm.pending : ~Answered(h) => h \in DOMAIN cm'.pending
  <2>1. \A h \in inCh.diff.circuits : Answered(h)
    BY DEF InLinkOK
  <2>2. cm \in CircuitMaps
    BY DEF Typed
  <2>3. DOMAIN cm'.pending = DOMAIN cm.pending \ (inCh.diff.circuits \cap DOMAIN cm.pending)
    BY <1>1, <2>2, DeleteFacts
  <2>. QED  BY <2>1, <2>3
<1>RefsOK. RefsOK'
  BY <1>1 DEF RefsOK
<1>OutLinkOK. OutLinkOK'
  BY <1>1 DEF OutLinkOK
<1>KeysOK. KeysOK'
  BY <1>2
<1>CircuitsOK. CircuitsOK'
  BY <1>2
<1>SentOK. SentOK'
  BY <1>2
<1>PlaceOK. PlaceOK'
  BY <1>2
<1>IcptOK. IcptOK'
  <2>1. \A h \in Named(sw.icpt) : ~Answered(h)
    BY DEF IcptOK, Answered
  <2>2. \A h \in Named(sw.icpt) : h \in DOMAIN cm.pending => h \in DOMAIN cm'.pending
    BY <1>1, <1>4, <2>1
  <2>3. Named(sw.icpt)' = Named(sw.icpt)
    BY <1>1 DEF Named
  <2>. QED  BY <1>1, <1>2, <2>2, <2>3 DEF IcptOK, PkgOf
<1>PkgsOK. PkgsOK'
  <2>1. \A h : PkgOf(h)' = PkgOf(h) /\ Answered(h)' = Answered(h)
    BY <1>1 DEF PkgOf, Answered
  <2>. QED  BY <1>1, <1>2, <2>1 DEF PkgsOK
<1>InLinkOK. InLinkOK'
  <2>1. \A h : Answered(h)' = Answered(h)
    BY <1>1 DEF Answered
  <2>. QED  BY <1>1, <1>2, <2>1 DEF InLinkOK
<1>RepliesOK. RepliesOK'
  <2>1. DOMAIN inLink'.log = {}
    BY <1>1 DEF InLinkOK
  <2>. QED  BY <1>3, <2>1 DEF RepliesOK
<1>ResponsesOK. ResponsesOK'
  BY <1>1 DEF ResponsesOK, Answered
<1>. QED  BY <1>RefsOK, <1>OutLinkOK, <1>KeysOK, <1>CircuitsOK, <1>SentOK, <1>PlaceOK,
        <1>IcptOK, <1>PkgsOK, <1>InLinkOK, <1>RepliesOK, <1>ResponsesOK

\* The incoming link starts: it cleans up and processes its packages again.
LEMMA StepInLinkUp ==
    ASSUME IInv, Typed', InLinkUp
    PROVE  IInv'
<1>. USE DEF IInv
<1>1. /\ ~inLink.up /\ inLink'.up /\ ~inLink'.acking /\ inLink'.closing = {}
      /\ DOMAIN inLink'.log = {}
      /\ inLink'.todo = SubsequenceAt([p \in DOMAIN Packages |-> p], UnresolvedPkgs)
      /\ cm' = DeleteCircuits(cm, inCh.diff.circuits) /\ inBox' = Without(inBox, inCh.diff.circuits)
      /\ UNCHANGED <<inCh, outCh, sw, outBox, outLink>>
  BY EmptyLen DEF InLinkUp, DownInLink
<1>2. /\ KeysOK' /\ CircuitsOK' /\ SentOK' /\ PlaceOK'
      /\ \A h \in DOMAIN cm'.pending : h \in DOMAIN cm.pending /\ ~Answered(h)
      /\ \A h \in DOMAIN inBox' : h \in DOMAIN inBox /\ inBox'[h] = inBox[h]
  BY <1>1, DeletedOK
<1>3. \A h \in DOMAIN inBox' : Backed(h, inBox[h])' /\ inCh'.fate[h] # "none"
  <2>. SUFFICES ASSUME NEW h \in DOMAIN inBox' PROVE Backed(h, inBox[h])' /\ inCh'.fate[h] # "none"
    OBVIOUS
  <2>. PICK r : r = inBox'[h]
    OBVIOUS
  <2>1. Backed(h, r) /\ inCh'.fate[h] # "none"
    BY <1>1, <1>2 DEF RepliesOK
  <2>2. Backed(h, r)'
    <3>1. OnWay' = OnWay /\ Committed' = Committed
      BY <1>1 DEF OnWay, Committed, Named
    <3>. QED  BY <1>1, <2>1, <3>1 DEF Backed, Dead
  <2>. QED  BY <2>1, <2>2 DEF Backed
<1>4. /\ \A q : q \in Range(inLink'.todo) <=> q \in UnresolvedPkgs
      /\ \A h \in HTLCs : PkgOf(h).state # "none"
            /\ ~Answered(h) => RefOf(h).pkg \in Range(inLink'.todo)
  <2>1. \A q : q \in Range(inLink'.todo) <=> q \in UnresolvedPkgs
    <3>. DEFINE t == SubsequenceAt([p \in DOMAIN Packages |-> p], UnresolvedPkgs)
    <3>1. \A p : p \in UnresolvedPkgs <=> \E k \in DOMAIN t : t[k] = p
      BY UnresolvedFacts
    <3>. HIDE DEF t
    <3>2. inLink'.todo = t
      BY <1>1 DEF t
    <3>. QED  BY <3>1, <3>2 DEF Range
  <2>2. ASSUME NEW h \in HTLCs, PkgOf(h).state # "none", ~Answered(h)
        PROVE RefOf(h).pkg \in UnresolvedPkgs
    <3>1. RefOf(h).pkg \in DOMAIN Packages /\ RefOf(h).idx \in DOMAIN Packages[RefOf(h).pkg]
      BY PackageFacts DEF AddRefs
    <3>2. RefOf(h).idx \notin PkgOf(h).ack
      BY <2>2 DEF PkgsOK
    <3>. QED  BY <2>2, <3>1, <3>2 DEF UnresolvedPkgs, PkgOf
  <2>. QED  BY <2>1, <2>2
<1>5. \A h \in DOMAIN cm.pending : ~Answered(h) => h \in DOMAIN cm'.pending
  <2>1. \A h \in inCh.diff.circuits : Answered(h)
    BY DEF InLinkOK
  <2>2. cm \in CircuitMaps
    BY DEF Typed
  <2>3. DOMAIN cm'.pending = DOMAIN cm.pending \ (inCh.diff.circuits \cap DOMAIN cm.pending)
    BY <1>1, <2>2, DeleteFacts
  <2>. QED  BY <2>1, <2>3
<1>RefsOK. RefsOK'
  BY <1>1 DEF RefsOK
<1>OutLinkOK. OutLinkOK'
  BY <1>1 DEF OutLinkOK
<1>KeysOK. KeysOK'
  BY <1>2
<1>CircuitsOK. CircuitsOK'
  BY <1>2
<1>SentOK. SentOK'
  BY <1>2
<1>PlaceOK. PlaceOK'
  BY <1>2
<1>IcptOK. IcptOK'
  <2>1. Named(sw.icpt)' = Named(sw.icpt)
    BY <1>1 DEF Named
  <2>2. ASSUME NEW h \in Named(sw.icpt) PROVE RefOf(h).pkg \in Range(inLink'.todo)
    <3>1. h \in HTLCs /\ ~Answered(h) /\ PkgOf(h).state # "none"
      BY TypedNames DEF IcptOK, Answered
    <3>. QED  BY <1>4, <3>1
  <2>3. \A h \in Named(sw.icpt) : h \notin DOMAIN cm'.pending => h \notin DOMAIN cm.pending
    <3>1. \A h \in Named(sw.icpt) : ~Answered(h)
      BY DEF IcptOK, Answered
    <3>. QED  BY <1>5, <3>1
  <2>. QED  BY <1>1, <1>2, <2>1, <2>2, <2>3 DEF IcptOK, PkgOf
<1>PkgsOK. PkgsOK'
  <2>1. \A h : PkgOf(h)' = PkgOf(h) /\ Answered(h)' = Answered(h)
    BY <1>1 DEF PkgOf, Answered
  <2>2. \A q \in Range(inLink'.todo) : inCh'.pkgs[q].state # "none"
    BY <1>1, <1>4 DEF UnresolvedPkgs
  <2>3. ASSUME NEW h \in HTLCs, RefOf(h).pkg \notin Range(inLink'.todo), PkgOf(h).state # "none"
        PROVE  PkgOf(h).state = "Processed" /\ Answered(h)
    BY <1>4, <2>3 DEF PkgsOK
  <2>. QED  BY <1>1, <1>2, <2>1, <2>2, <2>3 DEF PkgsOK
<1>InLinkOK. InLinkOK'
  <2>1. \A h : Answered(h)' = Answered(h)
    BY <1>1 DEF Answered
  <2>. QED  BY <1>1, <1>2, <2>1 DEF InLinkOK
<1>RepliesOK. RepliesOK'
  BY <1>1, <1>3 DEF RepliesOK
<1>ResponsesOK. ResponsesOK'
  BY <1>1 DEF ResponsesOK, Answered
<1>. QED  BY <1>RefsOK, <1>OutLinkOK, <1>KeysOK, <1>CircuitsOK, <1>SentOK, <1>PlaceOK,
        <1>IcptOK, <1>PkgsOK, <1>InLinkOK, <1>RepliesOK, <1>ResponsesOK

\* The incoming link stops, and a batch it was handing over may be lost.
LEMMA StepInLinkDown ==
    ASSUME IInv, Typed', InLinkDown
    PROVE  IInv'
<1>. USE DEF IInv
<1>1. /\ inLink' = DownInLink /\ ~inLink.acking
      /\ sw'.plex = sw.plex /\ sw'.pendingSettleFails = sw.pendingSettleFails
      /\ sw'.icpt = sw.icpt \/ sw'.icpt = << >>
      /\ \E n \in 0..Len(sw.route) : sw'.route = SubSeq(sw.route, 1, n)
      /\ UNCHANGED <<inCh, outCh, cm, inBox, outBox, outLink>>
  BY DEF InLinkDown, Typed, Switches
<1>2. /\ \A k \in DOMAIN sw'.route : k \in DOMAIN sw.route /\ sw'.route[k] = sw.route[k]
      /\ sw.route = << >> => sw'.route = << >>
  <2>1. sw.route \in Seq(Adds) /\ Len(sw.route) \in Nat
    BY TypedFields
  <2>2. PICK n \in 0..Len(sw.route) : sw'.route = SubSeq(sw.route, 1, n)
    BY <1>1
  <2>. DEFINE t == SubSeq(sw.route, 1, n)
  <2>3. t \in Seq(Adds) /\ Len(t) = n /\ DOMAIN t = 1..n /\ \A k \in 1..n : t[k] = sw.route[k]
    BY <2>1
  <2>4. DOMAIN sw.route = 1..Len(sw.route)
    BY <2>1
  <2>5. sw.route = << >> => n = 0
    BY EmptyLen
  <2>. HIDE DEF t
  <2>6. sw.route = << >> => t = << >>
    BY <2>3, <2>5, EmptySeq
  <2>. QED  BY <2>1, <2>2, <2>3, <2>4, <2>6 DEF t
<1>3. /\ \A k \in DOMAIN sw'.route : k \in DOMAIN sw.route /\ sw'.route[k] = sw.route[k]
      /\ \A k \in DOMAIN sw'.icpt : k \in DOMAIN sw.icpt /\ sw'.icpt[k] = sw.icpt[k]
  BY <1>1, <1>2, EmptyLen
<1>4. Named(sw.route)' \subseteq Named(sw.route) /\ Named(sw.icpt)' \subseteq Named(sw.icpt)
  BY <1>3 DEF Named
<1>5. /\ ~inLink'.up /\ inLink'.todo = << >> /\ DOMAIN inLink'.log = {} /\ ~inLink'.acking
      /\ inLink'.closing = {} /\ Range(inLink'.todo) = {}
  BY <1>1, EmptyLen DEF DownInLink, Range
<1>RefsOK. RefsOK'
  BY <1>1, <1>2, <1>3 DEF RefsOK
<1>OutLinkOK. OutLinkOK'
  BY <1>1 DEF OutLinkOK
<1>KeysOK. KeysOK'
  BY <1>1 DEF KeysOK, Numbered, NextOutIndex
<1>CircuitsOK. CircuitsOK'
  BY <1>1 DEF CircuitsOK
<1>SentOK. SentOK'
  BY <1>1 DEF SentOK
<1>PlaceOK. PlaceOK'
  <2>1. OnWay' \subseteq OnWay /\ Committed' = Committed /\ Failing' = Failing
    BY <1>1, <1>4 DEF OnWay, Committed, Failing, Named
  <2>2. \A h \in OnWay' : h \in OnWay
    BY <2>1
  <2>3. Named(sw.route)' \cap Named(outBox.pkts)' = {}
    <3>1. Named(outBox.pkts)' = Named(outBox.pkts)
      BY <1>1 DEF Named
    <3>. QED  BY <1>4, <3>1 DEF PlaceOK
  <2>4. /\ sw'.icpt = << >> \/ sw'.route = << >>
        /\ \A j, k \in DOMAIN sw'.icpt : sw'.icpt[j].h = sw'.icpt[k].h => j = k
        /\ \A j, k \in DOMAIN sw'.route : sw'.route[j].h = sw'.route[k].h => j = k
    BY <1>1, <1>2, <1>3, EmptyLen DEF PlaceOK
  <2>. QED  BY <1>1, <2>1, <2>2, <2>3, <2>4 DEF PlaceOK
<1>IcptOK. IcptOK'
  <2>1. \A h \in Named(sw.icpt)' : h \in Named(sw.icpt)
    BY <1>4
  <2>. QED  BY <1>1, <1>5, <2>1 DEF IcptOK, PkgOf
<1>PkgsOK. PkgsOK'
  BY <1>1, <1>5 DEF PkgsOK, PkgOf, Answered
<1>InLinkOK. InLinkOK'
  BY <1>1, <1>5 DEF InLinkOK, Answered, DownInLink
<1>RepliesOK. RepliesOK'
  <2>1. OnWay' \subseteq OnWay /\ Committed' = Committed
    BY <1>1, <1>4 DEF OnWay, Committed, Named
  <2>2. ASSUME NEW h, NEW r, Backed(h, r) PROVE Backed(h, r)'
    BY <1>1, <2>1, <2>2 DEF Backed, Dead
  <2>3. \A h \in DOMAIN inBox : Backed(h, inBox[h]) /\ inCh.fate[h] # "none"
    BY DEF RepliesOK
  <2>4. ASSUME NEW h \in DOMAIN inBox PROVE (Backed(h, inBox[h]) /\ inCh.fate[h] # "none")'
    <3>1. PICK r : r = inBox[h]
      OBVIOUS
    <3>2. Backed(h, r)'
      BY <2>2, <2>3, <3>1
    <3>. QED  BY <1>1, <2>3, <3>1, <3>2
  <2>. QED  BY <1>1, <1>5, <2>4 DEF RepliesOK
<1>ResponsesOK. ResponsesOK'
  BY <1>1 DEF ResponsesOK, Answered
<1>. QED  BY <1>RefsOK, <1>OutLinkOK, <1>KeysOK, <1>CircuitsOK, <1>SentOK, <1>PlaceOK,
        <1>IcptOK, <1>PkgsOK, <1>InLinkOK, <1>RepliesOK, <1>ResponsesOK

\* What a restart reads from disk is what the circuit map held in memory.
LEMMA RestoredSame ==
    ASSUME IInv
    PROVE  LET c == RestoreMemState(cm) IN
           /\ c \in CircuitMaps /\ c.adds = cm.adds /\ c.keys = cm.keys
           /\ DOMAIN c.opened = DOMAIN cm.opened /\ DOMAIN c.pending = DOMAIN cm.pending
           /\ \A i \in DOMAIN cm.opened : c.opened[i] = cm.opened[i]
           /\ \A h \in DOMAIN cm.pending :
                 c.pending[h].out = cm.pending[h].out /\ c.pending[h].ref = cm.pending[h].ref
<1>. USE DEF IInv
<1>. DEFINE c == RestoreMemState(cm)
<1>1. cm \in CircuitMaps
  BY DEF Typed
<1>2. /\ c \in CircuitMaps /\ c.adds = cm.adds /\ c.keys = cm.keys
      /\ DOMAIN c.pending = DOMAIN cm.adds
      /\ DOMAIN c.opened = {i \in DOMAIN cm.keys : cm.keys[i] \in DOMAIN cm.adds}
      /\ \A i \in DOMAIN c.opened : c.opened[i] = cm.keys[i]
      /\ \A h \in DOMAIN c.pending :
            /\ c.pending[h].disk /\ c.pending[h].ref = cm.adds[h]
            /\ \/ c.pending[h].out = 0 /\ \A i \in DOMAIN cm.keys : cm.keys[i] # h
               \/ c.pending[h].out \in DOMAIN cm.keys /\ cm.keys[c.pending[h].out] = h
  BY <1>1, RestoreFacts
<1>. HIDE DEF c
<1>3. DOMAIN c.pending = DOMAIN cm.pending /\ DOMAIN c.opened = DOMAIN cm.opened
  BY <1>2 DEF CircuitsOK
<1>4. \A i \in DOMAIN cm.opened : c.opened[i] = cm.opened[i]
  BY <1>2, <1>3 DEF CircuitsOK
<1>5. ASSUME NEW h \in DOMAIN cm.pending
      PROVE  c.pending[h].out = cm.pending[h].out
  <2>1. CASE c.pending[h].out = 0 /\ \A i \in DOMAIN cm.keys : cm.keys[i] # h
    BY <2>1 DEF CircuitsOK
  <2>2. CASE c.pending[h].out \in DOMAIN cm.keys /\ cm.keys[c.pending[h].out] = h
    BY <2>2 DEF CircuitsOK
  <2>. QED  BY <1>2, <1>3, <2>1, <2>2
<1>6. \A h \in DOMAIN cm.pending : c.pending[h].ref = cm.pending[h].ref
  BY <1>2, <1>3 DEF CircuitsOK
<1>. QED  BY <1>2, <1>3, <1>4, <1>5, <1>6 DEF c

\* A crash trims every keystone above the channel's HTLCs.
LEMMA CrashTrims ==
    ASSUME IInv, KeystonesContiguous, Crash
    PROVE  /\ CircuitsOK' /\ SentOK' /\ DOMAIN cm'.pending = DOMAIN cm.pending
           /\ \A i \in DOMAIN cm'.opened : ~(i >= NextOutIndex)
<1>1. cm' = TrimOpenCircuits(RestoreMemState(cm), NextOutIndex) /\ UNCHANGED <<inCh, outCh>>
  BY DEF Crash, NewCircuitMap
<1>2. PICK c : c = RestoreMemState(cm)
  OBVIOUS
<1>3. /\ c \in CircuitMaps /\ c.adds = cm.adds /\ c.keys = cm.keys
      /\ DOMAIN c.opened = DOMAIN cm.opened /\ DOMAIN c.pending = DOMAIN cm.pending
      /\ \A i \in DOMAIN cm.opened : c.opened[i] = cm.opened[i]
      /\ \A h \in DOMAIN cm.pending :
            c.pending[h].out = cm.pending[h].out /\ c.pending[h].ref = cm.pending[h].ref
  BY <1>2, RestoredSame, Zenon
<1>. QED  BY <1>1, <1>2, <1>3, TrimmedOK

\* The daemon restarts from what is on disk.
LEMMA StepCrash ==
    ASSUME IInv, Typed', KeystonesContiguous, Crash
    PROVE  IInv'
<1>. USE DEF IInv
<1>1. /\ cm' = TrimOpenCircuits(RestoreMemState(cm), NextOutIndex)
      /\ sw'.icpt = << >> /\ sw'.route = << >> /\ sw'.plex = UnackedSettleFails
      /\ sw'.pendingSettleFails = {}
      /\ inBox' = << >> /\ outBox'.pkts = << >> /\ outBox'.head = 1
      /\ inLink' = DownInLink /\ outLink' = DownOutLink
      /\ UNCHANGED <<inCh, outCh>>
  BY DEF Crash, NewCircuitMap, InitSwitch, EmptyOutBox
<1>2. /\ ~inLink'.up /\ inLink'.todo = << >> /\ DOMAIN inLink'.log = {} /\ ~inLink'.acking
      /\ inLink'.closing = {} /\ Range(inLink'.todo) = {} /\ DOMAIN inBox' = {}
      /\ DOMAIN sw'.icpt = {} /\ DOMAIN sw'.route = {} /\ DOMAIN outBox'.pkts = {}
      /\ ~outLink'.up /\ ~outLink'.signing /\ DOMAIN outLink'.batch = {}
      /\ DOMAIN outLink'.log = {} /\ Len(outLink'.log) = outBox'.head - 1
  BY <1>1, EmptyLen DEF DownInLink, DownOutLink, Range
<1>3. CircuitsOK' /\ SentOK' /\ DOMAIN cm'.pending = DOMAIN cm.pending
  BY CrashTrims
<1>RefsOK. RefsOK'
  BY <1>1, <1>2, ForwardedAgain DEF RefsOK
<1>OutLinkOK. OutLinkOK'
  BY <1>1, <1>2 DEF OutLinkOK
<1>KeysOK. KeysOK'
  BY <1>2 DEF KeysOK
<1>CircuitsOK. CircuitsOK'
  BY <1>3
<1>SentOK. SentOK'
  BY <1>3
<1>PlaceOK. PlaceOK'
  <2>1. OnWay' = {} /\ Failing' = {} /\ Named(sw.route)' = {}
    BY <1>1, <1>2, ForwardedAgain DEF OnWay, Failing, Named
  <2>. QED  BY <1>1, <2>1, EmptyLen DEF PlaceOK
<1>IcptOK. IcptOK'
  BY <1>1, <1>2 DEF IcptOK, Named
<1>PkgsOK. PkgsOK'
  BY <1>1, <1>2, <1>3 DEF PkgsOK, PkgOf, Answered
<1>InLinkOK. InLinkOK'
  BY <1>1, <1>2, <1>3 DEF InLinkOK, Answered, DownInLink
<1>RepliesOK. RepliesOK'
  BY <1>1, <1>2 DEF RepliesOK
<1>ResponsesOK. ResponsesOK'
  BY <1>1, ForwardedAgain DEF ResponsesOK, Answered
<1>. QED  BY <1>RefsOK, <1>OutLinkOK, <1>KeysOK, <1>CircuitsOK, <1>SentOK, <1>PlaceOK,
        <1>IcptOK, <1>PkgsOK, <1>InLinkOK, <1>RepliesOK, <1>ResponsesOK

-----------------------------------------------------------------------------
(* The invariant, and what it implies.                                     *)

\* The invariant holds initially: nothing has been forwarded.
LEMMA IInvInit == Init => IInv
<1>. SUFFICES ASSUME Init PROVE IInv
  OBVIOUS
<1>1. /\ DOMAIN sw.icpt = {} /\ DOMAIN sw.route = {} /\ sw.icpt = << >> /\ sw.route = << >>
      /\ sw.plex = {} /\ sw.pendingSettleFails = {}
      /\ outBox.pkts = << >> /\ DOMAIN outBox.pkts = {} /\ outBox.head = 1
  BY EmptyLen DEF Init, InitSwitch, EmptyOutBox
<1>2. /\ outLink.up /\ ~outLink.signing /\ outLink.log = << >> /\ DOMAIN outLink.log = {}
      /\ Len(outLink.log) = 0 /\ DOMAIN outLink.batch = {}
      /\ outCh.htlcs = << >> /\ DOMAIN outCh.htlcs = {} /\ outCh.acked = {} /\ NextOutIndex = 1
  BY EmptyLen DEF Init, DownOutLink, NextOutIndex
<1>3. /\ inLink.up /\ inLink.todo = << >> /\ Range(inLink.todo) = {} /\ ~inLink.acking
      /\ DOMAIN inLink.log = {} /\ inLink.closing = {} /\ DOMAIN inBox = {}
  BY EmptyLen DEF Init, DownInLink, Range
<1>4. /\ DOMAIN cm.adds = {} /\ DOMAIN cm.keys = {} /\ DOMAIN cm.opened = {}
      /\ DOMAIN cm.pending = {}
  BY EmptyLen DEF Init, EmptyCircuits
<1>5. /\ \A h \in HTLCs : inCh.fate[h] = "none" /\ RefOf(h).pkg \in DOMAIN Packages
      /\ \A p \in DOMAIN Packages : inCh.pkgs[p].state = "none" /\ inCh.pkgs[p].ack = {}
      /\ inCh.diff.circuits = {}
  <2>1. \A h \in HTLCs : RefOf(h).pkg \in DOMAIN Packages
    BY PackageFacts DEF AddRefs
  <2>. QED  BY <2>1 DEF Init, InitInCh
<1>6. Typed
  BY TypedInit
<1>7. RefsOK /\ OutLinkOK
  BY <1>1, <1>2 DEF RefsOK, OutLinkOK
<1>8. KeysOK
  BY <1>2, <1>4 DEF KeysOK, Numbered
<1>9. CircuitsOK /\ SentOK
  BY <1>2, <1>4 DEF CircuitsOK, SentOK
<1>10. PlaceOK
  <2>1. OnWay = {} /\ Failing = {} /\ Named(sw.route) = {}
    BY <1>1 DEF OnWay, Failing, Named
  <2>. QED  BY <1>1, <2>1, EmptyLen DEF PlaceOK
<1>11. IcptOK
  BY <1>1 DEF IcptOK, Named
<1>12. PkgsOK
  BY <1>3, <1>4, <1>5 DEF PkgsOK, PkgOf, Answered
<1>13. InLinkOK
  BY <1>3, <1>4, <1>5 DEF InLinkOK
<1>14. RepliesOK /\ ResponsesOK
  BY <1>1, <1>2, <1>3 DEF RepliesOK, ResponsesOK
<1>. QED  BY <1>6, <1>7, <1>8, <1>9, <1>10, <1>11, <1>12, <1>13, <1>14 DEF IInv

\* The invariant is kept by every step, as long as the keystones have no gap and
\* replays are in place.
LEMMA IInvNext ==
    ASSUME IInv, KeystonesContiguous, ReplaysInPlace, [Next]_vars
    PROVE  IInv'
<1>1. Typed'
  BY TypedNext DEF IInv
<1>2. CASE UNCHANGED vars
  <2>1. UNCHANGED <<inCh, outCh, cm, sw, inBox, outBox, inLink, outLink>>
    BY <1>2 DEF vars
  <2>2. RefsOK' /\ OutLinkOK' /\ CircuitsOK' /\ SentOK'
    BY <2>1 DEF IInv, RefsOK, OutLinkOK, CircuitsOK, SentOK
  <2>3. KeysOK'
    BY <2>1 DEF IInv, KeysOK, Numbered, NextOutIndex
  <2>4. OnWay' = OnWay /\ Committed' = Committed /\ Failing' = Failing
    BY <2>1 DEF OnWay, Committed, Failing, Named
  <2>5. PlaceOK'
    <3>1. Named(sw.route)' = Named(sw.route) /\ Named(outBox.pkts)' = Named(outBox.pkts)
      BY <2>1 DEF Named
    <3>. QED  BY <2>1, <2>4, <3>1 DEF IInv, PlaceOK
  <2>6. IcptOK' /\ PkgsOK'
    BY <2>1 DEF IInv, IcptOK, PkgsOK, PkgOf, Named, Answered
  <2>7. InLinkOK' /\ ResponsesOK'
    BY <2>1 DEF IInv, InLinkOK, ResponsesOK, Answered
  <2>8. RepliesOK'
    BY <2>1, <2>4 DEF IInv, RepliesOK, Backed, Dead
  <2>. QED  BY <1>1, <2>2, <2>3, <2>5, <2>6, <2>7, <2>8 DEF IInv
<1>3. CASE Forwarding
  <2>1. CASE \E p \in DOMAIN Packages : LockIn(p)
    BY <1>1, <2>1, StepLockIn
  <2>2. CASE ProcessRemoteAdds \/ ForwardPackets \/ RouteAdd \/ RejectAdd
    BY <1>1, <2>2, StepProcessRemoteAdds, StepForwardPackets, StepRouteAdd, StepRejectAdd
  <2>3. CASE DownstreamAdd \/ DownstreamFailAdd \/ OpenKeystones
    BY <1>1, <2>3, StepDownstreamAdd, StepFailHead, StepOpenKeystones
  <2>4. CASE SignOut \/ NoWindow \/ RevokeOut
    BY <1>1, <2>4, StepSignOut, StepNoWindow, StepRevokeOut
  <2>. QED  BY <1>3, <2>1, <2>2, <2>3, <2>4 DEF Forwarding
<1>4. CASE Answering
  <2>1. CASE \E i \in DOMAIN outCh.htlcs : RemoteFulfill(i) \/ LockInResponse(i)
    BY <1>1, <2>1, StepPeer
  <2>2. CASE \E pkt \in sw.plex : HandleResponse(pkt) \/ HandleFailedAdd(pkt)
    BY <1>1, <2>2, StepResponse, StepFailedAdd
  <2>3. CASE \E h \in HTLCs : DownstreamReply(h)
    BY <1>1, <2>3, StepDownstreamReply
  <2>4. CASE AckPendingSettleFails \/ SignIn \/ AckDownStreamPackets \/ RevokeIn
    BY <1>1, <2>4, StepAckPending, StepSignIn, StepAckDownStream, StepRevokeIn
  <2>. QED  BY <1>4, <2>1, <2>2, <2>3, <2>4 DEF Answering
<1>5. CASE InLinkUp \/ OutLinkUp
  BY <1>1, <1>5, StepInLinkUp, StepOutLinkUp
<1>6. CASE Faults
  <2>1. CASE OutLinkFlaps
    BY <1>1, <2>1, StepOutLinkDown DEF OutLinkFlaps
  <2>2. CASE InLinkDown \/ Crash \/ ExpireAdd \/ ForwardPacketsWriteError
    BY <1>1, <2>2, StepInLinkDown, StepCrash, StepFailHead, StepForwardPackets
  <2>. QED  BY <1>6, <2>1, <2>2 DEF Faults
<1>. QED  BY <1>2, <1>3, <1>4, <1>5, <1>6 DEF Next

\* What the invariant says of the circuits, the filters and the keystones.
LEMMA IInvImplies ==
    ASSUME IInv
    PROVE  TypeOK /\ ResponseRoutable /\ AckFilterExact /\ KeystonesAccepted
<1>. USE DEF IInv
<1>1. TypeOK
  <2>1. /\ inCh.fate \in [HTLCs -> {"none", "live", "settled", "failed"}]
        /\ \A p \in DOMAIN Packages : inCh.pkgs[p].state \in {"none", "LockedIn", "Processed"}
    BY DEF Typed, InChTypes, PkgTypes, Fates
  <2>2. \A i \in DOMAIN outCh.htlcs :
           /\ outCh.htlcs[i].h \in HTLCs
           /\ outCh.htlcs[i].fate \in {"live", "claimed", "settled", "failed"}
    <3>1. outCh.htlcs \in Seq(OutHtlcs)
      BY DEF Typed, OutChTypes
    <3>2. \A i \in DOMAIN outCh.htlcs : outCh.htlcs[i] \in OutHtlcs
      BY <3>1
    <3>. QED  BY <3>2 DEF OutHtlcs, OutStates
  <2>3. /\ cm.pending \in Maps(HTLCs, Circuits) /\ cm.adds \in Maps(HTLCs, AddRefs)
        /\ cm.opened \in Maps(Index, HTLCs) /\ cm.closed \subseteq HTLCs
        /\ inBox \in Maps(HTLCs, Replies) /\ inLink.log \in Maps(HTLCs, LogReplies)
    BY DEF Typed, CircuitMaps, InLinks
  <2>4. /\ DOMAIN cm.pending \subseteq HTLCs /\ DOMAIN cm.adds \subseteq HTLCs
        /\ DOMAIN inBox \subseteq HTLCs /\ DOMAIN inLink.log \subseteq HTLCs
        /\ cm.opened \in [DOMAIN cm.opened -> HTLCs]
    BY <2>3, MapsFacts
  <2>5. outBox.head \in 1..Len(outBox.pkts) + 1
    <3>1. /\ outBox.head \in Index /\ outBox.head <= Len(outBox.pkts) + 1
          /\ outBox.pkts \in Seq(Adds)
      BY DEF Typed, OutBoxes
    <3>2. Len(outBox.pkts) \in Nat
      BY <3>1
    <3>. QED  BY <3>1, <3>2 DEF Index
  <2>. QED  BY <2>1, <2>2, <2>3, <2>4, <2>5 DEF TypeOK, Range
<1>2. ResponseRoutable
  <2>1. ASSUME NEW i \in DOMAIN outCh.htlcs, inCh.fate[outCh.htlcs[i].h] = "live"
        PROVE  /\ outCh.htlcs[i].h \in DOMAIN cm.adds
               /\ i \in DOMAIN cm.keys /\ cm.keys[i] = outCh.htlcs[i].h
               /\ i \in DOMAIN cm.opened /\ cm.opened[i] = outCh.htlcs[i].h
               /\ LookupCircuit(cm, outCh.htlcs[i].h) /\ cm.pending[outCh.htlcs[i].h].out = i
    <3>1. /\ outCh.htlcs[i].h \in DOMAIN cm.pending
          /\ cm.pending[outCh.htlcs[i].h].out = i
      BY <2>1 DEF SentOK
    <3>2. i # 0
      <4>1. outCh.htlcs \in Seq(OutHtlcs)
        BY DEF Typed, OutChTypes
      <4>. QED  BY <4>1
    <3>. QED  BY <3>1, <3>2 DEF CircuitsOK, LookupCircuit
  <2>. QED  BY <2>1 DEF ResponseRoutable
<1>3. AckFilterExact
  <2>1. ASSUME NEW p \in DOMAIN Packages, NEW i \in DOMAIN Packages[p]
        PROVE  i \in inCh.pkgs[p].ack <=> Answered(Packages[p][i])
    <3>1. Packages[p][i] \in HTLCs /\ RefOf(Packages[p][i]) = [pkg |-> p, idx |-> i]
      BY PackageFacts
    <3>. QED  BY <3>1 DEF PkgsOK, PkgOf
  <2>. QED  BY <2>1 DEF AckFilterExact, ResponsesOK
<1>4. KeystonesAccepted
  <2>1. CASE outLink.up
    <3>1. ASSUME NEW i \in DOMAIN outLink.batch
          PROVE  i \notin DOMAIN cm.opened /\ outLink.batch[i] \in DOMAIN cm.pending
      <4>1. outLink.batch[i] \in OnWay
        BY <2>1, BatchFacts DEF OnWay
      <4>2. i \notin DOMAIN cm.opened
        <5>1. i \in Nat
          BY <2>1, BatchFacts
        <5>2. i \in DOMAIN cm.opened => i < i
          BY DEF KeysOK
        <5>. QED  BY <5>1, <5>2
      <4>. QED  BY <4>1, <4>2 DEF PlaceOK
    <3>. QED  BY <3>1 DEF KeystonesAccepted, DuplicateKeystone, UnknownCircuit, LookupCircuit
  <2>2. CASE ~outLink.up
    <3>1. DOMAIN outLink.batch = {}
      BY <2>2, EmptyLen DEF OutLinkOK, DownOutLink
    <3>. QED  BY <3>1 DEF KeystonesAccepted, DuplicateKeystone, UnknownCircuit
  <2>. QED  BY <2>1, <2>2
<1>. QED  BY <1>1, <1>2, <1>3, <1>4

-----------------------------------------------------------------------------
(* Only an Add that expires with its keystone leaves a gap.                *)

\* A keystone that no commitment carries yet belongs to an Add of the mailbox.
KeysHeld == \A i \in DOMAIN cm.opened : i >= NextOutIndex => cm.opened[i] \in Named(outBox.pkts)

\* The Add that waits longest has no keystone.
ExpiredUnopened == \A i \in DOMAIN cm.opened : cm.opened[i] # outBox.pkts[outBox.head].h

\* What the link has logged waits in the mailbox until it is signed.
LEMMA LogOnWay ==
    ASSUME IInv
    PROVE  \A k \in DOMAIN outLink.log :
              outLink.log[k] \in Named(outBox.pkts) /\ outLink.log[k] \in OnWay
<1>. USE DEF IInv
<1>1. /\ outLink.log \in Seq(HTLCs) /\ outBox.pkts \in Seq(Adds) /\ outBox.head \in Nat
      /\ Len(outLink.log) = outBox.head - 1 /\ outBox.head <= Len(outBox.pkts) + 1
  BY TypedFields DEF OutLinkOK, Index
<1>2. \A k \in DOMAIN outLink.log : k \in DOMAIN outBox.pkts
  BY <1>1
<1>. QED  BY <1>2 DEF OutLinkOK, Named, OnWay

\* While the link is up its log names the keystones, without a gap.
LEMMA UpIsContiguous ==
    ASSUME IInv, outLink.up
    PROVE  KeystonesContiguous /\ KeysHeld
<1>. USE DEF IInv
<1>1. NextOutIndex \in Nat /\ Len(outLink.log) \in Nat /\ DOMAIN outLink.log = 1..Len(outLink.log)
  <2>1. outLink.log \in Seq(HTLCs) /\ outCh.htlcs \in Seq(OutHtlcs)
    BY TypedFields
  <2>. QED  BY <2>1 DEF NextOutIndex
<1>2. \A k \in DOMAIN outLink.log : outLink.log[k] \in Named(outBox.pkts)
  BY LogOnWay
<1>3. \A i \in DOMAIN cm.opened : i \in Nat
  BY TypedCircuits DEF Index
<1>. HIDE DEF NextOutIndex
<1>4. ASSUME NEW i \in DOMAIN cm.opened, i >= NextOutIndex
      PROVE  /\ NextOutIndex..i \subseteq DOMAIN cm.opened
             /\ cm.opened[i] \in Named(outBox.pkts)
  <2>1. /\ i < NextOutIndex + Len(outLink.log)
        /\ cm.opened[i] = outLink.log[i - NextOutIndex + 1]
    BY <1>4 DEF KeysOK, Numbered
  <2>2. i - NextOutIndex + 1 \in DOMAIN outLink.log
    BY <1>1, <1>3, <1>4, <2>1
  <2>3. ASSUME NEW j \in NextOutIndex..i
        PROVE  j \in DOMAIN cm.opened
    <3>1. j \in NextOutIndex..NextOutIndex + Len(outLink.log) - 1
      BY <1>1, <1>3, <2>1
    <3>2. j \in DOMAIN cm.opened \/ j \in DOMAIN outLink.batch
      BY <3>1 DEF KeysOK
    <3>3. j \in DOMAIN outLink.batch => i < j
      BY DEF KeysOK
    <3>. QED  BY <1>1, <1>3, <3>2, <3>3
  <2>. QED  BY <1>2, <2>1, <2>2, <2>3
<1>. QED  BY <1>4 DEF KeystonesContiguous, KeysHeld

\* What a step that leaves the outgoing link down does to keystones and Adds.
LEMMA DownStep ==
    ASSUME IInv, Next, ~outLink'.up
    PROVE  \/ Crash \/ ExpireAdd
           \/ /\ outBox'.pkts = outBox.pkts /\ outCh'.htlcs = outCh.htlcs
              /\ cm'.opened = cm.opened \/ cm' = DeleteCircuits(cm, inCh.diff.circuits)
<1>. USE DEF IInv
<1>1. CASE Forwarding
  <2>1. CASE \E p \in DOMAIN Packages : LockIn(p)
    BY <2>1 DEF LockIn
  <2>2. CASE ProcessRemoteAdds \/ RejectAdd
    BY <2>2 DEF ProcessRemoteAdds, RejectAdd
  <2>3. CASE ForwardPackets
    BY <2>3 DEF ForwardPackets, CommitCircuits, Typed, CircuitMaps
  <2>4. CASE RouteAdd \/ DownstreamAdd \/ DownstreamFailAdd \/ NoWindow \/ RevokeOut
    BY <2>4 DEF RouteAdd, DownstreamAdd, DownstreamFailAdd, NoWindow, RevokeOut, Typed, OutLinks
  <2>5. CASE SignOut
    BY <2>5 DEF SignOut, Typed, OutLinks
  <2>6. CASE OpenKeystones
    BY <2>6 DEF OpenKeystones, OutLinkDown, ResetPackets, Typed, OutLinks, OutBoxes
  <2>. QED  BY <1>1, <2>1, <2>2, <2>3, <2>4, <2>5, <2>6 DEF Forwarding
<1>2. CASE Answering
  <2>1. CASE \E i \in DOMAIN outCh.htlcs : RemoteFulfill(i) \/ LockInResponse(i)
    BY <2>1 DEF RemoteFulfill, LockInResponse
  <2>2. CASE \E pkt \in sw.plex : HandleResponse(pkt) \/ HandleFailedAdd(pkt)
    BY <2>2 DEF HandleResponse, HandleFailedAdd, CloseCircuit, Typed, CircuitMaps
  <2>3. CASE (\E h \in HTLCs : DownstreamReply(h)) \/ RevokeIn
    BY <2>3 DEF DownstreamReply, RevokeIn
  <2>4. CASE AckPendingSettleFails \/ SignIn
    BY <2>4 DEF AckPendingSettleFails, SignIn, AckSettleFails, Typed, OutChTypes
  <2>5. CASE AckDownStreamPackets
    BY <2>5 DEF AckDownStreamPackets, InLinkOK
  <2>. QED  BY <1>2, <2>1, <2>2, <2>3, <2>4, <2>5 DEF Answering
<1>3. CASE InLinkUp \/ OutLinkUp
  BY <1>3 DEF InLinkUp, OutLinkUp, DownOutLink
<1>4. CASE InLinkDown \/ ForwardPacketsWriteError
  BY <1>4 DEF InLinkDown, ForwardPacketsWriteError
<1>5. CASE OutLinkFlaps
  BY <1>5 DEF OutLinkFlaps, OutLinkDown, ResetPackets, Typed, OutBoxes
<1>. QED  BY <1>1, <1>2, <1>3, <1>4, <1>5 DEF Next, Faults

\* A keystone whose Add still waits is not deleted, so no gap opens.
LEMMA ContiguousNext ==
    ASSUME IInv, IInv', KeystonesContiguous, KeysHeld, [Next]_vars, [ExpireAdd => ExpiredUnopened]_vars
    PROVE  KeystonesContiguous' /\ KeysHeld'
<1>1. CASE outLink'.up
  <2>1. (IInv /\ outLink.up => KeystonesContiguous /\ KeysHeld)'
    BY UpIsContiguous, PTL
  <2>. QED  BY <1>1, <2>1
<1>2. CASE Crash
  <2>1. NextOutIndex' = NextOutIndex
    BY <1>2 DEF Crash, NextOutIndex
  <2>2. \A i \in DOMAIN cm'.opened : ~(i >= NextOutIndex)
    BY <1>2, CrashTrims
  <2>. HIDE DEF NextOutIndex
  <2>. QED  BY <2>1, <2>2 DEF KeystonesContiguous, KeysHeld
<1>3. CASE /\ outBox'.pkts = outBox.pkts /\ outCh'.htlcs = outCh.htlcs
           /\ cm'.opened = cm.opened \/ cm' = DeleteCircuits(cm, inCh.diff.circuits)
  <2>1. NextOutIndex' = NextOutIndex /\ Named(outBox.pkts)' = Named(outBox.pkts)
    BY <1>3 DEF NextOutIndex, Named
  <2>2. /\ \A i \in DOMAIN cm'.opened : i \in DOMAIN cm.opened /\ cm'.opened[i] = cm.opened[i]
        /\ \A i \in DOMAIN cm.opened : i >= NextOutIndex => i \in DOMAIN cm'.opened
    <3>1. CASE cm'.opened = cm.opened
      BY <3>1
    <3>2. CASE cm' = DeleteCircuits(cm, inCh.diff.circuits)
      <4>. DEFINE found == inCh.diff.circuits \cap DOMAIN cm.pending
                  outs == {cm.pending[h].out : h \in found}
      <4>1. /\ DOMAIN cm'.opened = DOMAIN cm.opened \ outs
            /\ \A i \in DOMAIN cm'.opened : cm'.opened[i] = cm.opened[i]
        <5>. DEFINE D == inCh.diff.circuits
        <5>1. cm \in CircuitMaps /\ cm' = DeleteCircuits(cm, D)
          BY <3>2 DEF IInv, Typed
        <5>. HIDE DEF D
        <5>. DEFINE d == DeleteCircuits(cm, D)
                    fo == D \cap DOMAIN cm.pending
                    ou == {cm.pending[h].out : h \in fo}
        <5>2. /\ DOMAIN d.opened = DOMAIN cm.opened \ ou
              /\ \A i \in DOMAIN d.opened : d.opened[i] = cm.opened[i]
          BY <5>1, DeleteFacts
        <5>3. cm' = d /\ ou = outs
          BY <5>1 DEF D
        <5>. HIDE DEF d, fo, ou, outs
        <5>. QED  BY <5>2, <5>3
      <4>2. ASSUME NEW i \in DOMAIN cm.opened, i >= NextOutIndex, i \in outs
            PROVE  FALSE
        <5>1. PICK h \in found : i = cm.pending[h].out
          BY <4>2
        <5>2. h \in DOMAIN cm.pending /\ Answered(h)
          BY <5>1 DEF IInv, InLinkOK
        <5>3. i # 0
          BY TypedCircuits DEF IInv, Index
        <5>4. cm.opened[i] = h
          BY <5>1, <5>2, <5>3 DEF IInv, CircuitsOK
        <5>5. h \in OnWay
          BY <4>2, <5>4 DEF KeysHeld, OnWay
        <5>. QED  BY <5>2, <5>5 DEF IInv, PlaceOK, Answered
      <4>. QED  BY <4>1, <4>2
    <3>. QED  BY <1>3, <3>1, <3>2
  <2>3. NextOutIndex \in Nat /\ \A i \in DOMAIN cm.opened : i \in Nat
    BY TypedFields, TypedCircuits DEF IInv, Index, NextOutIndex
  <2>. HIDE DEF NextOutIndex
  <2>4. KeysHeld'
    BY <2>1, <2>2 DEF KeysHeld
  <2>5. ASSUME NEW i \in DOMAIN cm'.opened, i >= NextOutIndex, NEW j \in NextOutIndex..i
        PROVE  j \in DOMAIN cm'.opened
    <3>1. j \in DOMAIN cm.opened /\ j >= NextOutIndex
      BY <2>2, <2>3, <2>5 DEF KeystonesContiguous
    <3>. QED  BY <2>2, <3>1
  <2>. QED  BY <2>1, <2>4, <2>5 DEF KeystonesContiguous
<1>4. CASE UNCHANGED vars
  BY <1>3, <1>4 DEF vars
<1>5. CASE ExpireAdd /\ ExpiredUnopened
  <2>. DEFINE hs == {outBox.pkts[outBox.head].h}
  <2>1. /\ NextOutIndex' = NextOutIndex /\ cm' = cm
        /\ outBox' = AckPackets(outBox, hs)
    BY <1>5 DEF ExpireAdd, NextOutIndex
  <2>2. Named(outBox'.pkts) = Named(outBox.pkts) \ hs
    BY <2>1, AckKept
  <2>3. Named(outBox.pkts)' = Named(outBox.pkts) \ hs
    BY <2>2 DEF Named
  <2>4. \A i \in DOMAIN cm.opened : cm.opened[i] \notin hs
    BY <1>5 DEF ExpiredUnopened
  <2>. HIDE DEF NextOutIndex, hs
  <2>. QED  BY <2>1, <2>3, <2>4 DEF KeystonesContiguous, KeysHeld
<1>6. CASE Next
  BY <1>1, <1>2, <1>3, <1>4, <1>5, <1>6, DownStep
<1>. QED  BY <1>4, <1>6

-----------------------------------------------------------------------------
(* The refinement of HtlcForward.                                          *)

\* The fate downstream of HTLC h, when sequence s holds the outgoing HTLCs.
FateIn(s, h) ==
    LET at == {i \in DOMAIN s : s[i].h = h}
        fates == {s[i].fate : i \in at}
    IN  IF fates = {} THEN "none"
        ELSE IF Cardinality(at) > 1 THEN "twice"
        ELSE IF fates \subseteq {"claimed", "settled"} THEN "claimed"
        ELSE CHOOSE f \in fates : TRUE

\* An outgoing HTLC as HtlcForward sees it.
Seen(fate) == IF fate \in {"claimed", "settled"} THEN "claimed" ELSE fate

\* With at most one outgoing HTLC for each incoming one, its fate is what is seen.
LEMMA FateInFacts ==
    ASSUME NEW s \in Seq(OutHtlcs), \A i, j \in DOMAIN s : s[i].h = s[j].h => i = j, NEW h
    PROVE  /\ h \notin Named(s) => FateIn(s, h) = "none"
           /\ \A i \in DOMAIN s : s[i].h = h => FateIn(s, h) = Seen(s[i].fate)
           /\ FateIn(s, h) \in {"none", "live", "claimed", "failed"}
<1>. DEFINE at == {i \in DOMAIN s : s[i].h = h}
            fates == {s[i].fate : i \in at}
<1>1. h \notin Named(s) => FateIn(s, h) = "none"
  BY DEF Named, FateIn
<1>2. ASSUME NEW i \in DOMAIN s, s[i].h = h
      PROVE  /\ FateIn(s, h) = Seen(s[i].fate)
             /\ s[i].fate \in OutStates
  <2>1. at = {i} /\ fates = {s[i].fate}
    BY <1>2
  <2>2. Cardinality(at) = 1
    BY <2>1, FS_Singleton
  <2>3. s[i].fate \in OutStates
    <3>1. s[i] \in OutHtlcs
      OBVIOUS
    <3>. QED  BY <3>1 DEF OutHtlcs
  <2>4. ~(Cardinality(at) > 1)
    BY <2>2
  <2>5. FateIn(s, h) = IF fates = {} THEN "none"
                       ELSE IF Cardinality(at) > 1 THEN "twice"
                       ELSE IF fates \subseteq {"claimed", "settled"} THEN "claimed"
                       ELSE CHOOSE f \in fates : TRUE
    BY DEF FateIn
  <2>. HIDE DEF at, fates
  <2>6. (CHOOSE f \in fates : TRUE) = s[i].fate
    BY <2>1
  <2>. QED  BY <2>1, <2>3, <2>4, <2>5, <2>6 DEF Seen
<1>3. FateIn(s, h) \in {"none", "live", "claimed", "failed"}
  <2>1. CASE h \in Named(s)
    <3>1. PICK i \in DOMAIN s : s[i].h = h
      BY <2>1 DEF Named
    <3>. QED  BY <1>2, <3>1 DEF Seen, OutStates
  <2>. QED  BY <1>1, <2>1
<1>. QED  BY <1>1, <1>2, <1>3

\* What became of an HTLC, before and after a step.
LEMMA OutFateFacts ==
    ASSUME IInv, IInv', NEW h \in HTLCs
    PROVE  /\ OutFate(h) = FateIn(outCh.htlcs, h) /\ OutFate(h)' = FateIn(outCh.htlcs', h)
           /\ OutFate(h) \in {"none", "live", "claimed", "failed"}
           /\ OutFate(h)' \in {"none", "live", "claimed", "failed"}
           /\ h \notin Committed => OutFate(h) = "none"
           /\ \A i \in DOMAIN outCh.htlcs :
                 outCh.htlcs[i].h = h => OutFate(h) = Seen(outCh.htlcs[i].fate)
           /\ \A i \in DOMAIN outCh'.htlcs :
                 outCh'.htlcs[i].h = h => OutFate(h)' = Seen(outCh'.htlcs[i].fate)
           /\ h \notin Committed' => OutFate(h)' = "none"
<1>1. OutFate(h) = FateIn(outCh.htlcs, h)
  BY DEF OutFate, OutOf, FateIn
<1>2. OutFate(h)' = FateIn(outCh.htlcs', h)
  BY DEF OutFate, OutOf, FateIn
<1>3. /\ outCh.htlcs \in Seq(OutHtlcs)
      /\ \A i, j \in DOMAIN outCh.htlcs : outCh.htlcs[i].h = outCh.htlcs[j].h => i = j
  BY DEF IInv, Typed, OutChTypes, SentOK
<1>4. /\ outCh'.htlcs \in Seq(OutHtlcs)
      /\ \A i, j \in DOMAIN outCh'.htlcs : outCh'.htlcs[i].h = outCh'.htlcs[j].h => i = j
  BY DEF IInv, Typed, OutChTypes, SentOK
<1>5. /\ h \notin Named(outCh.htlcs) => FateIn(outCh.htlcs, h) = "none"
      /\ FateIn(outCh.htlcs, h) \in {"none", "live", "claimed", "failed"}
      /\ \A i \in DOMAIN outCh.htlcs :
            outCh.htlcs[i].h = h => FateIn(outCh.htlcs, h) = Seen(outCh.htlcs[i].fate)
  BY <1>3, FateInFacts
<1>6. /\ h \notin Named(outCh'.htlcs) => FateIn(outCh'.htlcs, h) = "none"
      /\ FateIn(outCh'.htlcs, h) \in {"none", "live", "claimed", "failed"}
      /\ \A i \in DOMAIN outCh'.htlcs :
            outCh'.htlcs[i].h = h => FateIn(outCh'.htlcs, h) = Seen(outCh'.htlcs[i].fate)
  BY <1>4, FateInFacts
<1>7. Committed = Named(outCh.htlcs) /\ Committed' = Named(outCh'.htlcs)
  BY DEF Committed, Named
<1>. QED  BY <1>1, <1>2, <1>5, <1>6, <1>7

\* How a step may move the fates of an HTLC on the two channels.
InStep(h) ==
    \/ inCh'.fate[h] = inCh.fate[h]
    \/ inCh.fate[h] = "none" /\ inCh'.fate[h] = "live"
    \/ inCh.fate[h] = "live" /\ OutFate(h) = "claimed" /\ inCh'.fate[h] = "settled"
    \/ inCh.fate[h] = "live" /\ OutFate(h) \in {"none", "failed"} /\ inCh'.fate[h] = "failed"

OutStep(h) ==
    \/ OutFate(h)' = OutFate(h)
    \/ /\ OutFate(h) = "none" /\ OutFate(h)' = "live"
       /\ inCh.fate[h] = "live" /\ inCh'.fate[h] = "live"
    \/ OutFate(h) = "live" /\ OutFate(h)' \in {"claimed", "failed"}

\* Steps that move no fate.
Still == inCh'.fate = inCh.fate /\ outCh'.htlcs = outCh.htlcs

\* Locking in Adds offers HTLCs that were not offered before.
LEMMA LockInMoves ==
    ASSUME IInv, IInv', NEW p \in DOMAIN Packages, LockIn(p), NEW h \in HTLCs
    PROVE  InStep(h) /\ OutStep(h)
<1>1. OutFate(h)' = OutFate(h)
  BY OutFateFacts DEF LockIn
<1>2. inCh'.fate[h] = IF h \in Range(Packages[p]) THEN "live" ELSE inCh.fate[h]
  BY DEF LockIn, IInv, Typed, InChTypes
<1>3. ASSUME h \in Range(Packages[p])
      PROVE  inCh.fate[h] = "none"
  <2>1. PICK i \in DOMAIN Packages[p] : h = Packages[p][i]
    BY <1>3 DEF Range
  <2>2. RefOf(h).pkg = p
    BY <2>1, PackageFacts
  <2>. QED  BY <2>2 DEF LockIn, IInv, PkgsOK, PkgOf
<1>. QED  BY <1>1, <1>2, <1>3 DEF InStep, OutStep

\* A signed commitment answers HTLCs by what became of them downstream.
LEMMA SignInMoves ==
    ASSUME IInv, IInv', SignIn, NEW h \in HTLCs
    PROVE  InStep(h) /\ OutStep(h)
<1>1. OutFate(h)' = OutFate(h)
  <2>1. outCh'.htlcs = outCh.htlcs
    BY DEF SignIn, AckSettleFails, IInv, Typed, OutChTypes
  <2>. QED  BY <2>1, OutFateFacts
<1>2. inCh'.fate[h] = IF h \in DOMAIN inLink.log THEN inLink.log[h].fate ELSE inCh.fate[h]
  BY DEF SignIn, AckAdds, IInv, Typed, InChTypes
<1>3. ASSUME h \in DOMAIN inLink.log
      PROVE  /\ inCh.fate[h] = "live"
             /\ \/ inLink.log[h].fate = "settled" /\ OutFate(h) = "claimed"
                \/ inLink.log[h].fate = "failed" /\ OutFate(h) \in {"none", "failed"}
  <2>1. Backed(h, inLink.log[h]) /\ inCh.fate[h] = "live"
    BY <1>3 DEF IInv, RepliesOK
  <2>2. inLink.log[h].fate \in {"settled", "failed"}
    <3>1. inLink.log \in Maps(HTLCs, LogReplies)
      BY DEF IInv, Typed, InLinks
    <3>2. inLink.log[h] \in LogReplies
      BY <1>3, <3>1, MapsFacts
    <3>. QED  BY <3>2 DEF LogReplies
  <2>3. CASE inLink.log[h].fate = "failed" /\ Dead(h)
    BY <2>1, <2>3, OutFateFacts DEF Dead
  <2>4. CASE \E i \in DOMAIN outCh.htlcs :
               /\ outCh.htlcs[i].h = h
               /\ IF inLink.log[h].fate = "failed" THEN outCh.htlcs[i].fate = "failed"
                  ELSE outCh.htlcs[i].fate \in {"claimed", "settled"}
    <3>1. PICK i \in DOMAIN outCh.htlcs :
               /\ outCh.htlcs[i].h = h
               /\ IF inLink.log[h].fate = "failed" THEN outCh.htlcs[i].fate = "failed"
                  ELSE outCh.htlcs[i].fate \in {"claimed", "settled"}
      BY <2>4
    <3>2. OutFate(h) = Seen(outCh.htlcs[i].fate)
      BY <3>1, OutFateFacts
    <3>. QED  BY <2>1, <2>2, <3>1, <3>2 DEF Seen
  <2>. QED  BY <2>1, <2>3, <2>4 DEF Backed
<1>. QED  BY <1>1, <1>2, <1>3 DEF InStep, OutStep

\* Signing the outgoing commitment forwards live HTLCs that were not forwarded.
LEMMA SignOutMoves ==
    ASSUME IInv, IInv', SignOut, NEW h \in HTLCs
    PROVE  InStep(h) /\ OutStep(h)
<1>. DEFINE new == [k \in DOMAIN outLink.log |-> [h |-> outLink.log[k], fate |-> "live"]]
<1>1. inCh' = inCh /\ outCh'.htlcs = outCh.htlcs \o new
  BY DEF SignOut, IInv, Typed, OutChTypes
<1>2. outLink.log \in Seq(HTLCs) /\ outCh.htlcs \in Seq(OutHtlcs)
  BY DEF IInv, Typed, OutLinks, OutChTypes
<1>3. new \in Seq(OutHtlcs) /\ DOMAIN new = DOMAIN outLink.log
  <2>1. /\ DOMAIN outLink.log = 1..Len(outLink.log) /\ Len(outLink.log) \in Nat
        /\ \A k \in DOMAIN outLink.log : outLink.log[k] \in HTLCs
    BY <1>2
  <2>2. \A k \in DOMAIN outLink.log : [h |-> outLink.log[k], fate |-> "live"] \in OutHtlcs
    BY <2>1 DEF OutHtlcs, OutStates
  <2>. QED  BY <2>1, <2>2
<1>4. \A k \in DOMAIN new : new[k].h = outLink.log[k] /\ new[k].fate = "live"
  OBVIOUS
<1>. HIDE DEF new
<1>5. /\ \A i \in DOMAIN outCh.htlcs :
            i \in DOMAIN outCh'.htlcs /\ outCh'.htlcs[i] = outCh.htlcs[i]
      /\ \A k \in DOMAIN new :
            /\ Len(outCh.htlcs) + k \in DOMAIN outCh'.htlcs
            /\ outCh'.htlcs[Len(outCh.htlcs) + k] = new[k]
      /\ \A i \in DOMAIN outCh'.htlcs :
            i \in DOMAIN outCh.htlcs \/ \E k \in DOMAIN new : i = Len(outCh.htlcs) + k
  <2>. DEFINE s == outCh.htlcs
              t == outCh'.htlcs
  <2>1. /\ Len(t) = Len(s) + Len(new) /\ t \in Seq(OutHtlcs)
        /\ \A k \in 1..Len(s) : t[k] = s[k]
        /\ \A k \in 1..Len(new) : t[Len(s) + k] = new[k]
    BY <1>1, <1>2, <1>3, ConcatFacts
  <2>2. /\ DOMAIN s = 1..Len(s) /\ DOMAIN new = 1..Len(new) /\ DOMAIN t = 1..Len(t)
        /\ Len(s) \in Nat /\ Len(new) \in Nat
    BY <1>2, <1>3, <2>1
  <2>. HIDE DEF s, t
  <2>3. \A i \in DOMAIN t : i \in DOMAIN s \/ \E k \in DOMAIN new : i = Len(s) + k
    <3>. SUFFICES ASSUME NEW i \in DOMAIN t, i \notin DOMAIN s
                  PROVE  \E k \in DOMAIN new : i = Len(s) + k
      OBVIOUS
    <3>1. i - Len(s) \in DOMAIN new /\ i = Len(s) + (i - Len(s))
      BY <2>1, <2>2
    <3>. QED  BY <3>1
  <2>4. \A k \in DOMAIN new : Len(s) + k \in DOMAIN t /\ t[Len(s) + k] = new[k]
    BY <2>1, <2>2
  <2>5. \A i \in DOMAIN s : i \in DOMAIN t /\ t[i] = s[i]
    BY <2>1, <2>2
  <2>. QED  BY <2>3, <2>4, <2>5 DEF s, t
<1>6. CASE h \in Committed
  <2>1. PICK i \in DOMAIN outCh.htlcs : outCh.htlcs[i].h = h
    BY <1>6 DEF Committed, Named
  <2>2. OutFate(h) = Seen(outCh.htlcs[i].fate) /\ OutFate(h)' = Seen(outCh'.htlcs[i].fate)
    BY <1>5, <2>1, OutFateFacts
  <2>. QED  BY <1>1, <1>5, <2>2 DEF InStep, OutStep
<1>7. CASE h \notin Committed /\ \E k \in DOMAIN outLink.log : outLink.log[k] = h
  <2>1. PICK k \in DOMAIN outLink.log : outLink.log[k] = h
    BY <1>7
  <2>2. OutFate(h) = "none"
    BY <1>7, OutFateFacts
  <2>3. OutFate(h)' = "live"
    <3>1. /\ Len(outCh.htlcs) + k \in DOMAIN outCh'.htlcs
          /\ outCh'.htlcs[Len(outCh.htlcs) + k].h = h
          /\ outCh'.htlcs[Len(outCh.htlcs) + k].fate = "live"
      BY <1>3, <1>4, <1>5, <2>1
    <3>. QED  BY <3>1, OutFateFacts DEF Seen
  <2>4. inCh.fate[h] = "live"
    BY <2>1, LogOnWay DEF IInv, PlaceOK
  <2>. QED  BY <1>1, <2>2, <2>3, <2>4 DEF InStep, OutStep
<1>8. CASE h \notin Committed /\ ~\E k \in DOMAIN outLink.log : outLink.log[k] = h
  <2>1. h \notin Committed'
    <3>. SUFFICES ASSUME NEW i \in DOMAIN outCh'.htlcs, outCh'.htlcs[i].h = h PROVE FALSE
      BY DEF Committed, Named
    <3>. QED  BY <1>3, <1>4, <1>5, <1>8 DEF Committed, Named
  <2>. QED  BY <1>1, <1>8, <2>1, OutFateFacts DEF InStep, OutStep
<1>. QED  BY <1>6, <1>7, <1>8

\* The peer claims or fails an outgoing HTLC once.
LEMMA PeerMoves ==
    ASSUME IInv, IInv', NEW n \in DOMAIN outCh.htlcs, RemoteFulfill(n) \/ LockInResponse(n),
           NEW h \in HTLCs
    PROVE  InStep(h) /\ OutStep(h)
<1>1. /\ inCh' = inCh /\ DOMAIN outCh'.htlcs = DOMAIN outCh.htlcs
      /\ \A i \in DOMAIN outCh.htlcs : i # n => outCh'.htlcs[i] = outCh.htlcs[i]
      /\ outCh'.htlcs[n].h = outCh.htlcs[n].h
      /\ \/ outCh.htlcs[n].fate = "live" /\ outCh'.htlcs[n].fate \in {"claimed", "failed"}
         \/ outCh.htlcs[n].fate = "claimed" /\ outCh'.htlcs[n].fate = "settled"
  <2>1. outCh.htlcs \in Seq(OutHtlcs) /\ outCh = [outCh EXCEPT !.htlcs = outCh.htlcs]
    BY DEF IInv, Typed, OutChTypes
  <2>2. outCh.htlcs[n] \in OutHtlcs
    BY <2>1
  <2>3. PICK f \in OutStates :
          /\ inCh' = inCh /\ outCh' = [outCh EXCEPT !.htlcs[n].fate = f]
          /\ \/ outCh.htlcs[n].fate = "live" /\ f \in {"claimed", "failed"}
             \/ outCh.htlcs[n].fate = "claimed" /\ f = "settled"
    BY DEF RemoteFulfill, LockInResponse, OutStates
  <2>. QED  BY <2>1, <2>2, <2>3 DEF IInv, Typed, OutChTypes, OutHtlcs
<1>2. CASE h \notin Committed
  <2>1. h \notin Committed'
    BY <1>1, <1>2 DEF Committed, Named
  <2>. QED  BY <1>1, <1>2, <2>1, OutFateFacts DEF InStep, OutStep
<1>3. CASE h \in Committed
  <2>1. PICK i \in DOMAIN outCh.htlcs : outCh.htlcs[i].h = h
    BY <1>3 DEF Committed, Named
  <2>2. OutFate(h) = Seen(outCh.htlcs[i].fate) /\ OutFate(h)' = Seen(outCh'.htlcs[i].fate)
    BY <1>1, <2>1, OutFateFacts
  <2>3. CASE i = n
    BY <1>1, <2>2, <2>3 DEF InStep, OutStep, Seen
  <2>4. CASE i # n
    BY <1>1, <2>2, <2>4 DEF InStep, OutStep
  <2>. QED  BY <2>3, <2>4
<1>. QED  BY <1>2, <1>3

\* Every other step leaves the fates alone.
LEMMA OthersStill ==
    ASSUME IInv, [Next]_vars
    PROVE  \/ Still \/ SignIn \/ SignOut
           \/ \E p \in DOMAIN Packages : LockIn(p)
           \/ \E n \in DOMAIN outCh.htlcs : RemoteFulfill(n) \/ LockInResponse(n)
<1>. USE DEF Still
<1>1. CASE UNCHANGED vars
  BY <1>1 DEF vars
<1>2. CASE ProcessRemoteAdds
  BY <1>2 DEF ProcessRemoteAdds, IInv, Typed, InChTypes
<1>3. CASE ForwardPackets \/ RouteAdd \/ RejectAdd \/ DownstreamAdd \/ DownstreamFailAdd
  BY <1>3 DEF ForwardPackets, RouteAdd, RejectAdd, DownstreamAdd, DownstreamFailAdd
<1>4. CASE OpenKeystones \/ NoWindow \/ RevokeOut
  BY <1>4 DEF OpenKeystones, OutLinkDown, NoWindow, RevokeOut, IInv, Typed, OutChTypes
<1>5. CASE \E pkt \in sw.plex : HandleResponse(pkt) \/ HandleFailedAdd(pkt)
  BY <1>5 DEF HandleResponse, HandleFailedAdd
<1>6. CASE \/ AckPendingSettleFails \/ AckDownStreamPackets \/ RevokeIn
           \/ \E h \in HTLCs : DownstreamReply(h)
  BY <1>6 DEF AckPendingSettleFails, AckDownStreamPackets, RevokeIn, DownstreamReply, IInv, Typed,
     OutChTypes, InChTypes
<1>7. CASE InLinkUp \/ OutLinkUp
  BY <1>7 DEF InLinkUp, OutLinkUp
<1>8. CASE Faults
  BY <1>8 DEF Faults, InLinkDown, OutLinkFlaps, OutLinkDown, Crash, ExpireAdd,
     ForwardPacketsWriteError
<1>. QED
  BY <1>1, <1>2, <1>3, <1>4, <1>5, <1>6, <1>7, <1>8 DEF Next, Forwarding, Answering

\* Every step of the switch is a step that HtlcForward allows.
LEMMA RefinesNext ==
    ASSUME IInv, IInv', [Next]_vars
    PROVE  Abstract!FNext
<1>1. ASSUME NEW h \in HTLCs
      PROVE  InStep(h) /\ OutStep(h)
  <2>1. CASE Still
    BY <2>1, OutFateFacts DEF Still, InStep, OutStep
  <2>. QED  BY <2>1, OthersStill, SignInMoves, SignOutMoves, LockInMoves, PeerMoves
<1>2. inCh.fate' \in [HTLCs -> Abstract!InFates]
  BY DEF IInv, Typed, InChTypes, Fates, Abstract!InFates
<1>3. [h \in HTLCs |-> OutFate(h)]' \in [HTLCs -> Abstract!OutFates]
  <2>1. \A h \in HTLCs : OutFate(h)' \in Abstract!OutFates
    BY OutFateFacts DEF Abstract!OutFates
  <2>. QED  BY <2>1
<1>4. ASSUME NEW h \in HTLCs
      PROVE  Abstract!InMove(h) /\ Abstract!OutMove(h)
  <2>1. /\ [x \in HTLCs |-> OutFate(x)][h] = OutFate(h)
        /\ ([x \in HTLCs |-> OutFate(x)]')[h] = OutFate(h)'
    OBVIOUS
  <2>2. Abstract!InMove(h)
    BY <1>1, <2>1 DEF InStep, Abstract!InMove
  <2>3. Abstract!OutMove(h)
    BY <1>1, <2>1 DEF OutStep, Abstract!OutMove
  <2>. QED  BY <2>2, <2>3
<1>. QED  BY <1>2, <1>3, <1>4 DEF Abstract!FNext

\* Nothing is offered or forwarded at first.
LEMMA RefinesInit == Init => Abstract!FInit
<1>. SUFFICES ASSUME Init PROVE Abstract!FInit
  OBVIOUS
<1>1. inCh.fate = [h \in HTLCs |-> "none"]
  BY DEF Init, InitInCh
<1>2. \A h \in HTLCs : OutFate(h) = "none"
  <2>1. DOMAIN outCh.htlcs = {}
    BY EmptyLen DEF Init
  <2>. QED  BY <2>1 DEF OutFate, OutOf
<1>. QED  BY <1>1, <1>2 DEF Abstract!FInit

-----------------------------------------------------------------------------
(* The theorems, for any packages, faults and number of restarts.          *)

\* Whatever restarts, expires or fails to be written, the mailboxes, the logs and the
\* circuits name HTLCs of the channels, and the mailbox's head stays inside its list
\* (AckPacket, ResetPackets).
THEOREM TypeCorrect ==
    Spec /\ []ReplaysInPlace /\ []KeystonesContiguous => []TypeOK
<1>1. Init => IInv
  BY IInvInit
<1>2. IInv /\ ReplaysInPlace /\ KeystonesContiguous /\ [Next]_vars => IInv'
  BY IInvNext
<1>3. IInv => TypeOK
  BY IInvImplies
<1>. QED  BY <1>1, <1>2, <1>3, PTL DEF Spec

\* The way home is never lost: an outgoing HTLC whose incoming HTLC is unanswered has its
\* circuit and its keystone on disk and in memory, at its own index, after any sequence
\* of link restarts and crashes (OpenCircuits, TrimOpenCircuits, restoreMemState).
THEOREM EveryResponseFindsItsWay ==
    Spec /\ []ReplaysInPlace /\ []KeystonesContiguous => []ResponseRoutable
<1>1. Init => IInv
  BY IInvInit
<1>2. IInv /\ ReplaysInPlace /\ KeystonesContiguous /\ [Next]_vars => IInv'
  BY IInvNext
<1>3. IInv => ResponseRoutable
  BY IInvImplies
<1>. QED  BY <1>1, <1>2, <1>3, PTL DEF Spec

\* The forwarding packages tell the truth: an Add is acknowledged exactly when a signed
\* commitment answers it, and a response only once its HTLC is answered (AckAddHtlcs,
\* AckSettleFails, the transaction of SignNextCommitment).
THEOREM FiltersAreExact ==
    Spec /\ []ReplaysInPlace /\ []KeystonesContiguous => []AckFilterExact
<1>1. Init => IInv
  BY IInvInit
<1>2. IInv /\ ReplaysInPlace /\ KeystonesContiguous /\ [Next]_vars => IInv'
  BY IInvNext
<1>3. IInv => AckFilterExact
  BY IInvImplies
<1>. QED  BY <1>1, <1>2, <1>3, PTL DEF Spec

\* Forwarding costs the node nothing: the links, the mailboxes, the switch and the circuit
\* map together implement HtlcForward, step by step.  An HTLC is forwarded at most once
\* and answered as its outgoing HTLC was.
THEOREM SwitchImplementsHtlcForward ==
    Spec /\ []ReplaysInPlace /\ []KeystonesContiguous => ImplementsHtlcForward
<1>1. Init => IInv
  BY IInvInit
<1>2. IInv /\ ReplaysInPlace /\ KeystonesContiguous /\ [Next]_vars => IInv'
  BY IInvNext
<1>3. Init => Abstract!FInit
  BY RefinesInit
<1>4. IInv /\ IInv' /\ [Next]_vars => Abstract!FNext
  BY RefinesNext
<1>. QED  BY <1>1, <1>2, <1>3, <1>4, PTL DEF Spec, ImplementsHtlcForward, Abstract!FSpec

\* What that means for the node's money: an HTLC it has failed back upstream is not live or
\* claimed downstream, and one it has settled upstream was claimed downstream.
THEOREM SwitchNeverLoses ==
    Spec /\ []ReplaysInPlace /\ []KeystonesContiguous => []Abstract!NoLoss
<1>1. Spec /\ []ReplaysInPlace /\ []KeystonesContiguous => Abstract!FSpec
  BY SwitchImplementsHtlcForward DEF ImplementsHtlcForward
<1>2. Abstract!FInit => Abstract!NoLoss
  BY DEF Abstract!FInit, Abstract!NoLoss
<1>3. ASSUME Abstract!NoLoss, Abstract!FNext PROVE Abstract!NoLoss'
  <2>1. ASSUME NEW h \in HTLCs
        PROVE  /\ inCh.fate'[h] = "failed" => OutFate(h)' \in {"none", "failed"}
               /\ inCh.fate'[h] = "settled" => OutFate(h)' = "claimed"
    BY <1>3, <2>1 DEF Abstract!FNext, Abstract!InMove, Abstract!OutMove, Abstract!NoLoss
  <2>. QED  BY <2>1 DEF Abstract!NoLoss
<1>4. ASSUME Abstract!NoLoss, UNCHANGED <<inCh.fate, [h \in HTLCs |-> OutFate(h)]>>
      PROVE  Abstract!NoLoss'
  <2>1. inCh.fate' = inCh.fate /\ \A h \in HTLCs : OutFate(h)' = OutFate(h)
    <3>1. [h \in HTLCs |-> OutFate(h)]' = [h \in HTLCs |-> OutFate(h)']
      OBVIOUS
    <3>. QED  BY <1>4, <3>1
  <2>. QED  BY <1>4, <2>1 DEF Abstract!NoLoss
<1>. QED  BY <1>1, <1>2, <1>3, <1>4, PTL DEF Abstract!FSpec

\* Where a gap comes from: TrimOpenCircuits stops at the first index that is not open and
\* counts on there being none (circuit_map.go).  As long as no Add expires in the mailbox
\* of a link that is down while it has its keystone, there is none: a keystone that no
\* commitment carries belongs to an Add that still waits, so its HTLC is unanswered and
\* its circuit is not deleted.
THEOREM NoKeystoneGap ==
    Spec /\ []ReplaysInPlace /\ [][ExpireAdd => ExpiredUnopened]_vars => []KeystonesContiguous
<1>1. Init => IInv /\ KeystonesContiguous /\ KeysHeld
  <2>1. Init => outLink.up
    BY DEF Init, DownOutLink
  <2>. QED  BY <2>1, IInvInit, UpIsContiguous
<1>2. IInv /\ KeystonesContiguous /\ KeysHeld /\ ReplaysInPlace
      /\ [Next]_vars /\ [ExpireAdd => ExpiredUnopened]_vars
         => (IInv /\ KeystonesContiguous /\ KeysHeld)'
  <2>. SUFFICES ASSUME IInv, KeystonesContiguous, KeysHeld, ReplaysInPlace,
                       [Next]_vars, [ExpireAdd => ExpiredUnopened]_vars
                PROVE  (IInv /\ KeystonesContiguous /\ KeysHeld)'
    OBVIOUS
  <2>1. IInv'
    BY IInvNext
  <2>. QED  BY <2>1, ContiguousNext
<1>. QED  BY <1>1, <1>2, PTL DEF Spec

\* OpenCircuits accepts every batch of keystones of the link: none names an open index or
\* an HTLC without a circuit, whatever was trimmed, failed or expired before, as long as
\* no Add expires with its keystone.
THEOREM KeystonesNeverRefused ==
    Spec /\ []ReplaysInPlace /\ [][ExpireAdd => ExpiredUnopened]_vars => []KeystonesAccepted
<1>1. Init => IInv
  BY IInvInit
<1>2. IInv /\ ReplaysInPlace /\ KeystonesContiguous /\ [Next]_vars => IInv'
  BY IInvNext
<1>3. IInv => KeystonesAccepted
  BY IInvImplies
<1>4. Spec /\ []ReplaysInPlace /\ [][ExpireAdd => ExpiredUnopened]_vars => []KeystonesContiguous
  BY NoKeystoneGap
<1>. QED  BY <1>1, <1>2, <1>3, <1>4, PTL DEF Spec
=============================================================================
