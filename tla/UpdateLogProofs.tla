--------------------------- MODULE UpdateLogProofs ---------------------------
(***************************************************************************)
(* What the operations of one node do to its update logs and commitments.  *)
(*                                                                         *)
(* A memory is sound with respect to a disk (Sound) when its logs are a    *)
(* book of which every commitment on record is a page: each commitment     *)
(* holds exactly the HTLCs of the updates below its indices, its balances  *)
(* are what those updates leave of the capacity, and every entry is marked *)
(* with the heights at which it was added and removed.  Every operation of *)
(* a running link keeps its memory sound: adding and resolving HTLCs, fee  *)
(* updates, signing, revoking and receiving a revocation, whatever the     *)
(* amounts and however many updates there were.                            *)
(***************************************************************************)
EXTENDS LightningChannel, SumTheorems, TLAPS

\* Appending to a chain of one commitment, as signing and receiving do.
LEMMA AppendToOne ==
    ASSUME NEW a, NEW b
    PROVE  Append(<<a>>, b) = <<a, b>>
<1> DEFINE s == Append(<<a>>, b)
<1>1. <<a>> \in Seq({a, b}) /\ <<a, b>> \in Seq({a, b})
  OBVIOUS
<1>2. s \in Seq({a, b}) /\ Len(s) = 2 /\ s[1] = a /\ s[2] = b
  BY <1>1
<1> HIDE DEF s
<1>3. s = <<a, b>>
  BY <1>1, <1>2
<1> QED
  BY <1>3 DEF s

-----------------------------------------------------------------------------
(* Sums of amounts. *)

Amounts(S) == \A x \in S : x.Amount \in Nat

\* What MapThenSumSet iterates for Amount.
AmountIter(S, g) ==
    g = [s \in SUBSET S |-> IF s = {} THEN 0 ELSE Taken(s).Amount + g[s \ {Taken(s)}]]

\* Amount as a value of that iteration.
LEMMA AmountDef ==
    ASSUME NEW S
    PROVE  Amount(S) = (CHOOSE g : AmountIter(S, g))[S]
BY DEF Amount, MapThenSumSet, MapThenFoldSet, Taken, AmountIter

\* The amounts as the weights of a sum.
LEMMA AmountIsSum ==
    ASSUME NEW S, IsFiniteSet(S), NEW w, \A x \in S : w[x] = x.Amount /\ x.Amount \in Nat
    PROVE  Amount(S) = SumOf(w, S)
<1>. DEFINE i == Iter(w, S)
            g == CHOOSE h : AmountIter(S, h)
<1>1. i = [s \in SUBSET S |-> Step(w, i, s)]
  BY IterDef
<1>2. \A s \in SUBSET S : s # {} => Taken(s) \in s /\ w[Taken(s)] = Taken(s).Amount
  BY DEF Taken
<1>. HIDE DEF i
<1>3. AmountIter(S, i)
  <2>1. ASSUME NEW s \in SUBSET S
        PROVE  i[s] = IF s = {} THEN 0 ELSE Taken(s).Amount + i[s \ {Taken(s)}]
    BY <1>1, <1>2 DEF Step
  <2>. QED  BY <1>1, <2>1 DEF AmountIter
<1>4. AmountIter(S, g)
  BY <1>3
<1>. HIDE DEF g
<1>5. \A s \in SUBSET S : g[s] = Step(w, g, s) /\ i[s] = Step(w, i, s)
  BY <1>1, <1>2, <1>4 DEF AmountIter, Step
<1>. DEFINE Bad == {s \in SUBSET S : g[s] # i[s]}
<1>6. Bad = {}
  <2>. SUFFICES ASSUME Bad # {} PROVE FALSE
    OBVIOUS
  <2>1. PICK s \in Bad : \A y \in Bad : y \subseteq s => y = s
    <3>1. Bad \subseteq SUBSET S
      OBVIOUS
    <3>. HIDE DEF Bad
    <3>. QED  BY <3>1, SmallestSubset
  <2>2. s # {} => s \ {Taken(s)} \notin Bad
    BY <1>2, <2>1
  <2>. QED  BY <1>5, <2>1, <2>2 DEF Step
<1>7. g[S] = i[S]
  BY <1>6
<1>. QED  BY <1>7, AmountDef, SumOfDef DEF g, i

\* A sum of amounts is a natural number, and a new HTLC adds its amount to it.
LEMMA AmountFacts ==
    ASSUME NEW S, IsFiniteSet(S), Amounts(S)
    PROVE  /\ Amount(S) \in Nat
           /\ Amount({}) = 0
           /\ \A h : h \notin S /\ h.Amount \in Nat => Amount(S \cup {h}) = Amount(S) + h.Amount
<1>1. Amount(S) \in Nat
  <2>. DEFINE w == [x \in S |-> x.Amount]
  <2>1. \A x \in S : w[x] = x.Amount /\ w[x] \in Nat /\ x.Amount \in Nat
    BY DEF Amounts
  <2>. HIDE DEF w
  <2>2. Amount(S) = SumOf(w, S)
    BY <2>1, AmountIsSum
  <2>. QED  BY <2>1, <2>2, SumType
<1>2. Amount({}) = 0
  <2>. DEFINE w == [x \in {} |-> 0]
  <2>1. Amount({}) = SumOf(w, {})
    BY FS_EmptySet, AmountIsSum
  <2>2. SumOf(w, {}) = 0
    BY FS_EmptySet, SumStep
  <2>. QED  BY <2>1, <2>2
<1>3. ASSUME NEW h, h \notin S, h.Amount \in Nat
      PROVE  Amount(S \cup {h}) = Amount(S) + h.Amount
  <2>. DEFINE T == S \cup {h}
              w == [x \in T |-> x.Amount]
  <2>1. \A x \in T : w[x] = x.Amount /\ w[x] \in Nat /\ x.Amount \in Nat
    BY <1>3 DEF Amounts
  <2>2. IsFiniteSet(T)
    BY FS_AddElement
  <2>3. S \subseteq T /\ h \in T /\ T = S \cup {h}
    OBVIOUS
  <2>. HIDE DEF w, T
  <2>4. Amount(T) = SumOf(w, T) /\ Amount(S) = SumOf(w, S)
    BY <2>1, <2>2, <2>3, AmountIsSum
  <2>5. SumOf(w, S \cup {h}) = SumOf(w, S) + w[h]
    BY <1>3, <2>1, <2>3, SumAdd
  <2>. QED  BY <2>1, <2>3, <2>4, <2>5
<1>. QED  BY <1>1, <1>2, <1>3

\* Two sets whose elements pair up, with equal amounts.
LEMMA AmountPaired ==
    ASSUME NEW S, IsFiniteSet(S), Amounts(S), NEW T, NEW f \in [S -> T],
           \A x, y \in S : f[x] = f[y] => x = y,
           \A y \in T : \E x \in S : f[x] = y,
           \A x \in S : f[x].Amount = x.Amount
    PROVE  IsFiniteSet(T) /\ Amounts(T) /\ Amount(T) = Amount(S)
<1>. DEFINE Of(s) == {f[x] : x \in s}
            Bad == {s \in SUBSET S : ~(IsFiniteSet(Of(s)) /\ Amount(Of(s)) = Amount(s))}
<1>1. Bad = {}
  <2>. SUFFICES ASSUME Bad # {} PROVE FALSE
    OBVIOUS
  <2>1. PICK s \in Bad : \A y \in Bad : y \subseteq s => y = s
    <3>1. Bad \subseteq SUBSET S
      OBVIOUS
    <3>. HIDE DEF Bad
    <3>. QED  BY <3>1, SmallestSubset
  <2>2. s # {}
    <3>1. Of({}) = {}
      OBVIOUS
    <3>. QED  BY <2>1, <3>1, FS_EmptySet
  <2>3. PICK h \in s : TRUE
    BY <2>2
  <2>. DEFINE t == s \ {h}
  <2>4. t \notin Bad /\ t \in SUBSET S
    BY <2>1, <2>3
  <2>5. IsFiniteSet(Of(t)) /\ Amount(Of(t)) = Amount(t)
    BY <2>4
  <2>6. IsFiniteSet(t) /\ Amounts(t) /\ h \notin t /\ s = t \cup {h} /\ h \in S /\ h.Amount \in Nat
    BY <2>1, <2>3, FS_Subset DEF Amounts
  <2>7. Of(s) = Of(t) \cup {f[h]} /\ f[h] \notin Of(t) /\ Amounts(Of(t)) /\ f[h].Amount = h.Amount
    BY <2>1, <2>4, <2>6 DEF Amounts
  <2>8. Amount(s) = Amount(t) + h.Amount
    BY <2>6, AmountFacts
  <2>. HIDE DEF t, Of
  <2>9. Amount(Of(s)) = Amount(Of(t)) + h.Amount
    <3>. DEFINE a == Of(t)
                b == f[h]
    <3>1. IsFiniteSet(a) /\ Amounts(a) /\ b \notin a /\ b.Amount = h.Amount /\ b.Amount \in Nat
      BY <2>5, <2>6, <2>7
    <3>. HIDE DEF a, b
    <3>2. Amount(a \cup {b}) = Amount(a) + b.Amount
      BY <3>1, AmountFacts
    <3>. QED  BY <2>7, <3>1, <3>2 DEF a, b
  <2>10. IsFiniteSet(Of(s))
    BY <2>5, <2>7, FS_AddElement
  <2>. QED  BY <2>1, <2>5, <2>8, <2>9, <2>10
<1>2. Of(S) = T
  OBVIOUS
<1>3. IsFiniteSet(Of(S)) /\ Amount(Of(S)) = Amount(S)
  <2>. HIDE DEF Of
  <2>. QED  BY <1>1
<1>4. Amounts(T)
  BY DEF Amounts
<1>. HIDE DEF Of
<1>. QED  BY <1>2, <1>3, <1>4

\* Two sets apart.
LEMMA AmountUnion ==
    ASSUME NEW S, IsFiniteSet(S), Amounts(S), NEW T, IsFiniteSet(T), Amounts(T), S \cap T = {}
    PROVE  Amount(S \cup T) = Amount(S) + Amount(T)
<1>. DEFINE Bad == {s \in SUBSET T : Amount(S \cup s) # Amount(S) + Amount(s)}
<1>1. Bad = {}
  <2>. SUFFICES ASSUME Bad # {} PROVE FALSE
    OBVIOUS
  <2>1. PICK s \in Bad : \A y \in Bad : y \subseteq s => y = s
    <3>1. Bad \subseteq SUBSET T
      OBVIOUS
    <3>. HIDE DEF Bad
    <3>. QED  BY <3>1, SmallestSubset
  <2>2. s # {}
    <3>1. S \cup {} = S /\ Amount({}) = 0 /\ Amount(S) \in Nat
      BY AmountFacts
    <3>2. s = {} => Amount(S \cup s) = Amount(S) + Amount(s)
      BY <3>1
    <3>. QED  BY <2>1, <3>2
  <2>3. PICK h \in s : TRUE
    BY <2>2
  <2>. DEFINE t == s \ {h}
  <2>4. t \notin Bad /\ t \in SUBSET T
    BY <2>1, <2>3
  <2>5. Amount(S \cup t) = Amount(S) + Amount(t)
    BY <2>4
  <2>6. IsFiniteSet(t) /\ Amounts(t) /\ h \notin t /\ s = t \cup {h} /\ h \in T /\ h.Amount \in Nat
    BY <2>1, <2>3, FS_Subset DEF Amounts
  <2>7. IsFiniteSet(S \cup t) /\ Amounts(S \cup t) /\ h \notin S \cup t /\ S \cup s = (S \cup t) \cup {h}
    BY <2>6, <2>4, FS_Union DEF Amounts
  <2>. HIDE DEF t
  <2>8. Amount(s) = Amount(t) + h.Amount /\ Amount(t) \in Nat
    BY <2>6, AmountFacts
  <2>9. Amount(S \cup s) = Amount(S \cup t) + h.Amount
    BY <2>6, <2>7, AmountFacts
  <2>10. Amount(S) \in Nat
    BY AmountFacts
  <2>. QED  BY <2>1, <2>5, <2>6, <2>8, <2>9, <2>10
<1>. QED  BY <1>1

-----------------------------------------------------------------------------
(* The update logs of one node as a book: which updates are in them, and    *)
(* which of them are on which commitment.                                   *)

Pairs == [Local : Nat, Remote : Nat]
Types == {"Add", "Settle", "Fail", "FeeUpdate"}
Recs == [EntryType : Types, LogIndex : Nat, HtlcIndex : Nat, Amount : Nat]
Entries == [EntryType : Types, LogIndex : Nat, HtlcIndex : Nat, Amount : Nat,
            add : Pairs, rmv : Pairs]
Outs == [HtlcIndex : Nat, LogIndex : Nat, Amount : Nat]
Commitments ==
    [height : Nat, indices : Pairs, htlcIndex : Pairs, balance : Pairs, fee : Nat,
     feePerKw : Nat, outputs : [Local : SUBSET Outs, Remote : SUBSET Outs]]
UpdateLogs == [logIndex : Nat, htlcCounter : Nat, list : Seq(Entries), modified : SUBSET Nat]
Mems == [logs : [Local : UpdateLogs, Remote : UpdateLogs],
         chains : [Local : Seq(Commitments), Remote : Seq(Commitments)]]
Diffs == [commit : Commitments, updates : Seq(Recs)]
Disks ==
    [local : Commitments, remote : Commitments, diff : Diffs \cup {NoDiff},
     unsignedAcked : Seq(Recs), remoteUnsigned : Seq(Recs), ackedKey : BOOLEAN,
     lastWasRevoke : BOOLEAN, fwdPkgs : Seq([adds : SUBSET Nat, rmvs : SUBSET Nat])]

IsAdd(e) == e.EntryType = "Add"
IsRmv(e) == e.EntryType \in {"Settle", "Fail"}

\* An entry of a log without its heights, and the entries of a log.
Core(e) == [EntryType |-> e.EntryType, LogIndex |-> e.LogIndex,
            HtlcIndex |-> e.HtlcIndex, Amount |-> e.Amount]
Cores(list) == {Core(list[i]) : i \in DOMAIN list}

Books == [Local : SUBSET Recs, Remote : SUBSET Recs]
BookOf(m) == [Local |-> Cores(m.logs.Local.list), Remote |-> Cores(m.logs.Remote.list)]
LogIndices(m) == [Local |-> m.logs.Local.logIndex, Remote |-> m.logs.Remote.logIndex]
HtlcCounters(m) == [Local |-> m.logs.Local.htlcCounter, Remote |-> m.logs.Remote.htlcCounter]

\* The newest commitment of the peer on disk, and all commitments on disk.
TipOf(d) == IF d.diff = NoDiff THEN d.remote ELSE d.diff.commit
Commits(d) == {d.local, d.remote, TipOf(d)}

\* Log indices are distinct, and HTLCs are numbered in the order of the log.
Ordered(K, ix, hc) ==
    /\ \A x \in K : x.LogIndex < ix /\ (IsAdd(x) => x.HtlcIndex < hc)
    /\ \A x, y \in K : x.LogIndex = y.LogIndex => x = y
    /\ \A x, y \in K : IsAdd(x) /\ IsAdd(y) =>
                         (x.LogIndex < y.LogIndex <=> x.HtlcIndex < y.HtlcIndex)

\* Every removal in R is of an HTLC in A, for its amount, and the only one.
Matched(A, R) ==
    /\ \A r \in R : IsRmv(r) =>
          \E a \in A : IsAdd(a) /\ a.HtlcIndex = r.HtlcIndex /\ a.Amount = r.Amount
    /\ \A r, s \in R : IsRmv(r) /\ IsRmv(s) /\ r.HtlcIndex = s.HtlcIndex => r = s

\* The HTLC h is removed by an update of R below index i; the HTLCs of A that
\* are on a commitment with these indices.
Gone(R, h, i) == \E r \in R : IsRmv(r) /\ r.HtlcIndex = h /\ r.LogIndex < i
LiveOn(A, R, ia, ir) ==
    {a \in A : IsAdd(a) /\ a.LogIndex < ia /\ ~Gone(R, a.HtlcIndex, ir)}
OutputOf(a) == [HtlcIndex |-> a.HtlcIndex, LogIndex |-> a.LogIndex, Amount |-> a.Amount]

\* The HTLCs in A and their removals in R are on commitment c as its indices
\* say: outs are its outputs, ia and ir its indices, ih its HTLC index.
Covers(A, R, ia, ir, ih, outs) ==
    /\ outs = {OutputOf(a) : a \in LiveOn(A, R, ia, ir)}
    /\ \A r \in R : \A a \in A :
          IsRmv(r) /\ r.LogIndex < ir /\ IsAdd(a) /\ a.HtlcIndex = r.HtlcIndex
            => a.LogIndex < ia
    /\ \A a \in A : IsAdd(a) => (a.LogIndex < ia <=> a.HtlcIndex < ih)

Booked(K, ix, hc, c) ==
    /\ \A p \in Party : c.indices[p] <= ix[p] /\ c.htlcIndex[p] <= hc[p]
    /\ c.height = 0 => c.indices.Local = 0 /\ c.indices.Remote = 0
    /\ \A p \in Party :
          Covers(K[p], K[CounterParty(p)], c.indices[p], c.indices[CounterParty(p)],
                 c.htlcIndex[p], c.outputs[p])

\* Our updates reach the peer's commitments first, and the peer's ours.
Staged(d) ==
    /\ d.local.indices.Local <= d.remote.indices.Local
    /\ d.remote.indices.Local <= TipOf(d).indices.Local
    /\ d.remote.indices.Remote <= TipOf(d).indices.Remote
    /\ TipOf(d).indices.Remote <= d.local.indices.Remote
    /\ d.local.htlcIndex.Local <= d.remote.htlcIndex.Local
    /\ d.remote.htlcIndex.Local <= TipOf(d).htlcIndex.Local
    /\ d.remote.htlcIndex.Remote <= TipOf(d).htlcIndex.Remote
    /\ TipOf(d).htlcIndex.Remote <= d.local.htlcIndex.Remote
    /\ d.diff # NoDiff => d.diff.commit.height = d.remote.height + 1

\* The updates of K with index in first..last-1, as they are written to disk.
Written(K, first, last) ==
    {ToLogUpdate(x) : x \in {y \in K : first <= y.LogIndex /\ y.LogIndex < last}}
Distinct(s) == \A i, j \in DOMAIN s : s[i].LogIndex = s[j].LogIndex => i = j

\* What is on disk of the logs.
Kept(K, d) ==
    /\ d.diff # NoDiff =>
          /\ Len(d.diff.updates) = d.diff.commit.indices.Local - d.remote.indices.Local
          /\ \A k \in DOMAIN d.diff.updates :
                d.diff.updates[k].LogIndex = d.remote.indices.Local + k - 1
          /\ Range(d.diff.updates) =
                Written(K.Local, d.remote.indices.Local, d.diff.commit.indices.Local)
    /\ Range(d.unsignedAcked) =
          Written(K.Remote, d.remote.indices.Remote, d.local.indices.Remote)
    /\ Range(d.remoteUnsigned) \subseteq
          Written(K.Local, d.local.indices.Local, d.remote.indices.Local)
    /\ \A u \in Range(d.remoteUnsigned) : ~IsAdd(u)
    /\ \A u \in Written(K.Local, d.local.indices.Local, d.remote.indices.Local) :
          IsRmv(u) => u \in Range(d.remoteUnsigned)
    /\ Distinct(d.unsignedAcked) /\ Distinct(d.remoteUnsigned)
    /\ ~d.ackedKey => /\ d.local.indices.Remote = 0 /\ d.remoteUnsigned = <<>>
                      /\ Forwarded(d) = {} /\ \A x \in K.Local : ~IsRmv(x)
    /\ \A x \in K.Local : IsRmv(x) => x.HtlcIndex < d.remote.htlcIndex.Remote

\* No update since the peer's oldest commitment is missing.
Complete(K, ix, hc, d) ==
    /\ \A i \in d.remote.indices.Local..(ix.Local - 1) : \E x \in K.Local : x.LogIndex = i
    /\ \A p \in Party : \A h \in d.remote.htlcIndex[p]..(hc[p] - 1) :
          \E x \in K[p] : IsAdd(x) /\ x.HtlcIndex = h

Book(K, ix, hc, d) ==
    /\ \A p \in Party : Ordered(K[p], ix[p], hc[p]) /\ Matched(K[p], K[CounterParty(p)])
    /\ \A c \in Commits(d) : Booked(K, ix, hc, c) /\ Total(c) = Capacity
    /\ Staged(d) /\ Kept(K, d) /\ Complete(K, ix, hc, d)

\* The heights of an entry tell which commitments it is on.
At(e) == IF IsRmv(e) THEN e.rmv ELSE e.add
Marked(e, p, d) ==
    /\ At(e).Local # 0 <=> e.LogIndex < d.local.indices[p]
    /\ At(e).Remote # 0 <=> e.LogIndex < TipOf(d).indices[p]
    /\ At(e).Local <= d.local.height
    /\ At(e).Remote <= TipOf(d).height
    /\ e.LogIndex < d.remote.indices[p] => At(e).Remote <= d.remote.height
    /\ d.remote.indices[p] <= e.LogIndex /\ e.LogIndex < TipOf(d).indices[p]
         => At(e).Remote = TipOf(d).height
    /\ e.EntryType = "FeeUpdate" => e.rmv = e.add
    /\ IsAdd(e) => e.rmv = Both(0)
    /\ IsRmv(e) => e.add = Both(0)

\* The updates of a list from index first on are in order.
InOrder(list, first) ==
    \A i, j \in DOMAIN list :
        i < j /\ list[i].LogIndex >= first => list[i].LogIndex < list[j].LogIndex

\* What went to the switch.
Sent(d) ==
    LET pkgs == d.fwdPkgs
    IN  /\ \A i, j \in DOMAIN pkgs : i # j => /\ pkgs[i].adds \cap pkgs[j].adds = {}
                                             /\ pkgs[i].rmvs \cap pkgs[j].rmvs = {}
        /\ Forwarded(d) = 0..(d.remote.htlcIndex.Remote - 1)
        /\ Returned(d) = 0..(d.remote.htlcIndex.Local - 1) \ Outputs(d.remote, "Local")

\* The memory m and the disk state d of a node whose link runs.
Sound(m, d) ==
    /\ m \in Mems /\ d \in Disks /\ m.chains = RestoredChains(d)
    /\ \A p \in Party :
          /\ Distinct(m.logs[p].list)
          /\ \A i \in DOMAIN m.logs[p].list : Marked(m.logs[p].list[i], p, d)
          /\ \A x \in BookOf(m)[p] : IsRmv(x) => x.HtlcIndex \in m.logs[CounterParty(p)].modified
    /\ InOrder(m.logs.Local.list, TipOf(d).indices.Local)
    /\ Book(BookOf(m), LogIndices(m), HtlcCounters(m), d)
    /\ Sent(d)

\* The two parties.
LEMMA Parties ==
    /\ CounterParty("Local") = "Remote" /\ CounterParty("Remote") = "Local"
    /\ "Local" \in Party /\ "Remote" \in Party
    /\ \A p \in Party : p = "Local" \/ p = "Remote"
BY DEF CounterParty, Party

\* A new update at the end of a log.
LEMMA OrderedAppend ==
    ASSUME NEW K \in SUBSET Recs, NEW ix \in Nat, NEW hc \in Nat, Ordered(K, ix, hc),
           NEW x \in Recs, x.LogIndex = ix, NEW hc2 \in Nat,
           IsAdd(x) => x.HtlcIndex = hc /\ hc2 = hc + 1, ~IsAdd(x) => hc2 = hc
    PROVE  Ordered(K \cup {x}, ix + 1, hc2)
<1>1. \A y \in K : y.LogIndex \in Nat /\ y.HtlcIndex \in Nat /\ y.LogIndex < ix /\ (IsAdd(y) => y.HtlcIndex < hc)
  BY DEF Ordered, Recs
<1>2. \A y \in K \cup {x} : y.LogIndex < ix + 1 /\ (IsAdd(y) => y.HtlcIndex < hc2)
  BY <1>1
<1>3. \A y, z \in K \cup {x} : y.LogIndex = z.LogIndex => y = z
  BY <1>1 DEF Ordered
<1>4. ASSUME NEW y \in K \cup {x}, NEW z \in K \cup {x}, IsAdd(y), IsAdd(z)
      PROVE  y.LogIndex < z.LogIndex <=> y.HtlcIndex < z.HtlcIndex
  BY <1>1, <1>4 DEF Ordered
<1>. QED  BY <1>2, <1>3, <1>4 DEF Ordered

\* A new add keeps the removals matched, and so does the removal of an HTLC
\* that is there and has not been removed.
LEMMA MatchedMore ==
    ASSUME NEW A, NEW R, Matched(A, R), NEW x
    PROVE  /\ Matched(A \cup {x}, R)
           /\ (IsRmv(x) => /\ \E a \in A : IsAdd(a) /\ a.HtlcIndex = x.HtlcIndex /\ a.Amount = x.Amount
                           /\ \A r \in R : IsRmv(r) => r.HtlcIndex # x.HtlcIndex)
                => Matched(A, R \cup {x})
BY DEF Matched

\* A removal is of an HTLC that was numbered before.
LEMMA RemovedBefore ==
    ASSUME NEW A \in SUBSET Recs, NEW R \in SUBSET Recs, NEW ix \in Nat, NEW hc \in Nat,
           Ordered(A, ix, hc), Matched(A, R), NEW r \in R, IsRmv(r)
    PROVE  r.HtlcIndex < hc
BY DEF Ordered, Matched, Recs

\* Updates above the indices of a commitment do not show on it.
LEMMA CoversAddMore ==
    ASSUME NEW A \in SUBSET Recs, NEW R \in SUBSET Recs, NEW ix \in Nat, NEW hc \in Nat,
           Ordered(A, ix, hc), Matched(A, R),
           NEW ia \in Nat, NEW ir \in Nat, NEW ih \in Nat, ia <= ix, ih <= hc, NEW outs,
           Covers(A, R, ia, ir, ih, outs),
           NEW x \in Recs, x.LogIndex >= ix, IsAdd(x) => x.HtlcIndex = hc
    PROVE  Covers(A \cup {x}, R, ia, ir, ih, outs)
<1>1. LiveOn(A \cup {x}, R, ia, ir) = LiveOn(A, R, ia, ir)
  BY DEF LiveOn, Recs
<1>2. \A r \in R : IsRmv(r) => r.HtlcIndex < hc /\ r.HtlcIndex \in Nat
  BY RemovedBefore DEF Recs
<1>3. ASSUME NEW r \in R, NEW a \in A \cup {x},
             IsRmv(r), r.LogIndex < ir, IsAdd(a), a.HtlcIndex = r.HtlcIndex
      PROVE  a.LogIndex < ia
  BY <1>2, <1>3 DEF Covers, Recs
<1>4. ASSUME NEW a \in A \cup {x}, IsAdd(a) PROVE a.LogIndex < ia <=> a.HtlcIndex < ih
  BY <1>4 DEF Covers, Recs
<1>. QED  BY <1>1, <1>3, <1>4 DEF Covers

\* A removal above the commitment's index takes no HTLC off it.
LEMMA CoversRmvMore ==
    ASSUME NEW A, NEW R \in SUBSET Recs, NEW ia, NEW ir \in Nat, NEW ih, NEW outs,
           Covers(A, R, ia, ir, ih, outs), NEW x \in Recs, x.LogIndex >= ir
    PROVE  Covers(A, R \cup {x}, ia, ir, ih, outs)
<1>1. ~(x.LogIndex < ir)
  BY DEF Recs
<1>2. LiveOn(A, R \cup {x}, ia, ir) = LiveOn(A, R, ia, ir)
  BY <1>1 DEF LiveOn, Gone
<1>. QED  BY <1>1, <1>2 DEF Covers

\* Covers depends on the HTLCs and their removals only.
LEMMA CoversSame ==
    ASSUME NEW A, NEW R, NEW B, NEW S, NEW ia, NEW ir, NEW ih, NEW outs,
           Covers(A, R, ia, ir, ih, outs),
           \A x : IsAdd(x) => (x \in A <=> x \in B), \A x : IsRmv(x) => (x \in R <=> x \in S)
    PROVE  Covers(B, S, ia, ir, ih, outs)
<1>1. \A h : Gone(S, h, ir) <=> Gone(R, h, ir)
  BY DEF Gone
<1>2. LiveOn(B, S, ia, ir) = LiveOn(A, R, ia, ir)
  BY <1>1 DEF LiveOn
<1>. QED  BY <1>2 DEF Covers

\* The commitments on disk, and the numbers on them.
LEMMA CommitFacts ==
    ASSUME NEW d \in Disks
    PROVE  /\ TipOf(d) \in Commitments
           /\ \A c \in Commits(d) : c \in Commitments
           /\ \A c \in Commitments : \A p \in Party :
                 /\ c.indices[p] \in Nat /\ c.htlcIndex[p] \in Nat /\ c.balance[p] \in Nat
                 /\ c.outputs[p] \in SUBSET Outs
           /\ \A c \in Commitments :
                 /\ c.height \in Nat /\ c.fee \in Nat /\ c.feePerKw \in Nat
                 /\ c.indices \in Pairs /\ c.htlcIndex \in Pairs /\ c.balance \in Pairs
           /\ \A c \in Pairs : c.Local \in Nat /\ c.Remote \in Nat
<1>1. d.local \in Commitments /\ d.remote \in Commitments /\ d.diff \in Diffs \cup {NoDiff}
  BY DEF Disks
<1>2. TipOf(d) \in Commitments
  BY <1>1 DEF TipOf, Diffs
<1>3. \A c \in Commits(d) : c \in Commitments
  BY <1>1, <1>2 DEF Commits
<1>4. ASSUME NEW c \in Commitments, NEW p \in Party
      PROVE  /\ c.indices[p] \in Nat /\ c.htlcIndex[p] \in Nat /\ c.balance[p] \in Nat
             /\ c.outputs[p] \in SUBSET Outs
  BY DEF Commitments, Pairs, Party
<1>5. \A c \in Commitments :
                 /\ c.height \in Nat /\ c.fee \in Nat /\ c.feePerKw \in Nat
                 /\ c.indices \in Pairs /\ c.htlcIndex \in Pairs /\ c.balance \in Pairs
  BY DEF Commitments
<1>. QED  BY <1>2, <1>3, <1>4, <1>5 DEF Pairs

\* The parts of a book, a party at a time.
LEMMA BookUse ==
    ASSUME NEW K, NEW ix, NEW hc, NEW d, Book(K, ix, hc, d)
    PROVE  /\ Ordered(K.Local, ix.Local, hc.Local) /\ Ordered(K.Remote, ix.Remote, hc.Remote)
           /\ Matched(K.Local, K.Remote) /\ Matched(K.Remote, K.Local)
           /\ \A c \in Commits(d) : Booked(K, ix, hc, c) /\ Total(c) = Capacity
           /\ Staged(d) /\ Kept(K, d) /\ Complete(K, ix, hc, d)
BY Parties DEF Book

\* ... and how it is shown again.
LEMMA BookMake ==
    ASSUME NEW K, NEW ix, NEW hc, NEW d,
           Ordered(K.Local, ix.Local, hc.Local), Ordered(K.Remote, ix.Remote, hc.Remote),
           Matched(K.Local, K.Remote), Matched(K.Remote, K.Local),
           \A c \in Commits(d) : Booked(K, ix, hc, c) /\ Total(c) = Capacity,
           Staged(d), Kept(K, d), Complete(K, ix, hc, d)
    PROVE  Book(K, ix, hc, d)
BY Parties DEF Book

\* What a page of the book says of its commitment ...
LEMMA BookedUse ==
    ASSUME NEW K, NEW ix, NEW hc, NEW c, Booked(K, ix, hc, c)
    PROVE  /\ c.indices.Local <= ix.Local /\ c.htlcIndex.Local <= hc.Local
           /\ c.indices.Remote <= ix.Remote /\ c.htlcIndex.Remote <= hc.Remote
           /\ c.height = 0 => c.indices.Local = 0 /\ c.indices.Remote = 0
           /\ Covers(K.Local, K.Remote, c.indices.Local, c.indices.Remote,
                     c.htlcIndex.Local, c.outputs.Local)
           /\ Covers(K.Remote, K.Local, c.indices.Remote, c.indices.Local,
                     c.htlcIndex.Remote, c.outputs.Remote)
BY Parties DEF Booked

\* ... and how a commitment is shown to be a page.
LEMMA BookedMake ==
    ASSUME NEW K, NEW ix, NEW hc, NEW c,
           c.indices.Local <= ix.Local, c.htlcIndex.Local <= hc.Local,
           c.indices.Remote <= ix.Remote, c.htlcIndex.Remote <= hc.Remote,
           c.height = 0 => c.indices.Local = 0 /\ c.indices.Remote = 0,
           Covers(K.Local, K.Remote, c.indices.Local, c.indices.Remote,
                  c.htlcIndex.Local, c.outputs.Local),
           Covers(K.Remote, K.Local, c.indices.Remote, c.indices.Local,
                  c.htlcIndex.Remote, c.outputs.Remote)
    PROVE  Booked(K, ix, hc, c)
BY Parties DEF Booked

\* What the book still holds above the remote tail ...
LEMMA CompleteUse ==
    ASSUME NEW K, NEW ix, NEW hc, NEW d, Complete(K, ix, hc, d)
    PROVE  /\ \A i \in d.remote.indices.Local..(ix.Local - 1) : \E x \in K.Local : x.LogIndex = i
           /\ \A h \in d.remote.htlcIndex.Local..(hc.Local - 1) :
                 \E x \in K.Local : IsAdd(x) /\ x.HtlcIndex = h
           /\ \A h \in d.remote.htlcIndex.Remote..(hc.Remote - 1) :
                 \E x \in K.Remote : IsAdd(x) /\ x.HtlcIndex = h
BY Parties DEF Complete

\* ... and how it is shown to hold it.
LEMMA CompleteMake ==
    ASSUME NEW K, NEW ix, NEW hc, NEW d,
           \A i \in d.remote.indices.Local..(ix.Local - 1) : \E x \in K.Local : x.LogIndex = i,
           \A h \in d.remote.htlcIndex.Local..(hc.Local - 1) :
                 \E x \in K.Local : IsAdd(x) /\ x.HtlcIndex = h,
           \A h \in d.remote.htlcIndex.Remote..(hc.Remote - 1) :
                 \E x \in K.Remote : IsAdd(x) /\ x.HtlcIndex = h
    PROVE  Complete(K, ix, hc, d)
BY Parties DEF Complete

\* The numbers of a book.
LEMMA BookFacts ==
    ASSUME NEW d \in Disks, NEW K \in Books, NEW ix \in Pairs, NEW hc \in Pairs, Book(K, ix, hc, d)
    PROVE  /\ K.Local \in SUBSET Recs /\ K.Remote \in SUBSET Recs
           /\ ix.Local \in Nat /\ ix.Remote \in Nat /\ hc.Local \in Nat /\ hc.Remote \in Nat
           /\ d.local \in Commits(d) /\ d.remote \in Commits(d) /\ TipOf(d) \in Commits(d)
           /\ \A c \in Commits(d) :
                 /\ c.indices.Local <= ix.Local /\ c.indices.Remote <= ix.Remote
                 /\ c.htlcIndex.Local <= hc.Local /\ c.htlcIndex.Remote <= hc.Remote
                 /\ c.indices.Local \in Nat /\ c.indices.Remote \in Nat
                 /\ c.htlcIndex.Local \in Nat /\ c.htlcIndex.Remote \in Nat
                 /\ Covers(K.Local, K.Remote, c.indices.Local, c.indices.Remote,
                           c.htlcIndex.Local, c.outputs.Local)
                 /\ Covers(K.Remote, K.Local, c.indices.Remote, c.indices.Local,
                           c.htlcIndex.Remote, c.outputs.Remote)
                 /\ c.height = 0 => c.indices.Local = 0 /\ c.indices.Remote = 0
<1>1. /\ K.Local \in SUBSET Recs /\ K.Remote \in SUBSET Recs
      /\ ix.Local \in Nat /\ ix.Remote \in Nat /\ hc.Local \in Nat /\ hc.Remote \in Nat
  BY DEF Books, Pairs
<1>2. /\ \A c \in Commits(d) : c \in Commitments
      /\ \A c \in Commitments : /\ c.indices.Local \in Nat /\ c.htlcIndex.Local \in Nat
                                /\ c.indices.Remote \in Nat /\ c.htlcIndex.Remote \in Nat
  BY CommitFacts, Parties
<1>3. d.local \in Commits(d) /\ d.remote \in Commits(d) /\ TipOf(d) \in Commits(d)
  BY DEF Commits
<1>4. \A c \in Commits(d) : Booked(K, ix, hc, c)
  BY BookUse
<1>. QED  BY <1>1, <1>2, <1>3, <1>4, BookedUse

\* Updates from an index on are not below another.
LEMMA WrittenMore ==
    ASSUME NEW K \in SUBSET Recs, NEW x \in Recs, NEW a \in Nat, NEW b \in Nat, b <= x.LogIndex
    PROVE  Written(K \cup {x}, a, b) = Written(K, a, b)
<1>1. {y \in K \cup {x} : a <= y.LogIndex /\ y.LogIndex < b} = {y \in K : a <= y.LogIndex /\ y.LogIndex < b}
  BY DEF Recs
<1>. QED  BY <1>1 DEF Written

\* A new update at the end of our log.
LEMMA BookAppendLocal ==
    ASSUME NEW d \in Disks, NEW K \in Books, NEW ix \in Pairs, NEW hc \in Pairs,
           Book(K, ix, hc, d), NEW x \in Recs, x.LogIndex = ix.Local,
           IsAdd(x) => x.HtlcIndex = hc.Local,
           IsRmv(x) => /\ \E a \in K.Remote : IsAdd(a) /\ a.HtlcIndex = x.HtlcIndex /\ a.Amount = x.Amount
                       /\ \A r \in K.Local : IsRmv(r) => r.HtlcIndex # x.HtlcIndex,
           IsRmv(x) => d.ackedKey /\ x.HtlcIndex < d.remote.htlcIndex.Remote,
           NEW L, L.Local = K.Local \cup {x}, L.Remote = K.Remote,
           NEW jx, jx.Local = ix.Local + 1, jx.Remote = ix.Remote,
           NEW jc, jc.Local = IF IsAdd(x) THEN hc.Local + 1 ELSE hc.Local, jc.Remote = hc.Remote
    PROVE  Book(L, jx, jc, d)
<1>1. /\ K.Local \in SUBSET Recs /\ K.Remote \in SUBSET Recs
      /\ ix.Local \in Nat /\ ix.Remote \in Nat /\ hc.Local \in Nat /\ hc.Remote \in Nat
  BY DEF Books, Pairs
<1>2. jc.Local \in Nat /\ hc.Local <= jc.Local
  BY <1>1
<1>3. d.local \in Commits(d) /\ d.remote \in Commits(d) /\ TipOf(d) \in Commits(d)
  BY DEF Commits
<1>4. /\ Ordered(K.Local, ix.Local, hc.Local) /\ Ordered(K.Remote, ix.Remote, hc.Remote)
      /\ Matched(K.Local, K.Remote) /\ Matched(K.Remote, K.Local)
      /\ \A c \in Commits(d) : Booked(K, ix, hc, c) /\ Total(c) = Capacity
      /\ Staged(d) /\ Kept(K, d) /\ Complete(K, ix, hc, d)
  BY BookUse
<1>5. ~(IsAdd(x) /\ IsRmv(x))
  BY DEF IsAdd, IsRmv
<1>6. \A c \in Commits(d) :
         /\ c.indices.Local <= ix.Local /\ c.indices.Remote <= ix.Remote
         /\ c.htlcIndex.Local <= hc.Local /\ c.htlcIndex.Remote <= hc.Remote
         /\ c.indices.Local \in Nat /\ c.indices.Remote \in Nat
         /\ c.htlcIndex.Local \in Nat /\ c.htlcIndex.Remote \in Nat
         /\ Covers(K.Local, K.Remote, c.indices.Local, c.indices.Remote,
                   c.htlcIndex.Local, c.outputs.Local)
         /\ Covers(K.Remote, K.Local, c.indices.Remote, c.indices.Local,
                   c.htlcIndex.Remote, c.outputs.Remote)
         /\ c.height = 0 => c.indices.Local = 0 /\ c.indices.Remote = 0
  BY BookFacts
<1>7. d.diff # NoDiff => TipOf(d) = d.diff.commit
  BY DEF TipOf
<1>8. Ordered(L.Local, jx.Local, jc.Local) /\ Ordered(L.Remote, jx.Remote, jc.Remote)
  <2>1. Ordered(K.Local \cup {x}, ix.Local + 1, jc.Local)
    BY <1>1, <1>2, <1>4, OrderedAppend
  <2>. QED  BY <1>4, <2>1
<1>9. Matched(L.Local, L.Remote) /\ Matched(L.Remote, L.Local)
  <2>1. Matched(K.Local \cup {x}, K.Remote)
    BY <1>4, MatchedMore
  <2>2. Matched(K.Remote, K.Local \cup {x})
    BY <1>4, MatchedMore
  <2>. QED  BY <2>1, <2>2
<1>10. ASSUME NEW c \in Commits(d)
       PROVE  Booked(L, jx, jc, c)
  <2>. DEFINE cp == c.indices.Local
              cq == c.indices.Remote
              ch == c.htlcIndex.Local
              co == c.outputs.Local
              cg == c.htlcIndex.Remote
              cu == c.outputs.Remote
              A == K.Local
              B == K.Remote
              mx == ix.Local
              mc == hc.Local
  <2>0. /\ A \in SUBSET Recs /\ B \in SUBSET Recs /\ mx \in Nat /\ mc \in Nat
        /\ Ordered(A, mx, mc) /\ Matched(A, B)
        /\ cp \in Nat /\ cq \in Nat /\ ch \in Nat /\ cp <= mx /\ ch <= mc
        /\ Covers(A, B, cp, cq, ch, co) /\ Covers(B, A, cq, cp, cg, cu)
        /\ x.LogIndex >= mx /\ x.LogIndex >= cp /\ (IsAdd(x) => x.HtlcIndex = mc)
    BY <1>1, <1>4, <1>6
  <2>. HIDE DEF cp, cq, ch, co, cg, cu, A, B, mx, mc
  <2>1. Covers(A \cup {x}, B, cp, cq, ch, co)
    BY ONLY <2>0, CoversAddMore, x \in Recs
  <2>2. Covers(B, A \cup {x}, cq, cp, cg, cu)
    BY ONLY <2>0, CoversRmvMore, x \in Recs
  <2>3. /\ Covers(L.Local, L.Remote, c.indices.Local, c.indices.Remote, c.htlcIndex.Local, c.outputs.Local)
        /\ Covers(L.Remote, L.Local, c.indices.Remote, c.indices.Local, c.htlcIndex.Remote, c.outputs.Remote)
    BY ONLY <2>1, <2>2, L.Local = K.Local \cup {x}, L.Remote = K.Remote DEF cp, cq, ch, co, cg, cu, A, B
  <2>4. /\ c.indices.Local <= jx.Local /\ c.indices.Remote <= jx.Remote
        /\ c.htlcIndex.Local <= jc.Local /\ c.htlcIndex.Remote <= jc.Remote
        /\ c.height = 0 => c.indices.Local = 0 /\ c.indices.Remote = 0
    BY <1>1, <1>2, <1>6
  <2>. QED  BY ONLY <2>3, <2>4, BookedMake
<1>11. Kept(L, d)
  <2>1. \A a, b \in Nat : b <= ix.Local => Written(L.Local, a, b) = Written(K.Local, a, b)
    <3>. SUFFICES ASSUME NEW a \in Nat, NEW b \in Nat, b <= ix.Local
             PROVE  Written(L.Local, a, b) = Written(K.Local, a, b)
      OBVIOUS
    <3>. DEFINE A == K.Local
    <3>1. A \in SUBSET Recs /\ b <= x.LogIndex
      BY <1>1
    <3>. HIDE DEF A
    <3>2. Written(A \cup {x}, a, b) = Written(A, a, b)
      BY <3>1, WrittenMore
    <3>. QED  BY <3>2 DEF A
  <2>2. /\ Written(L.Local, d.local.indices.Local, d.remote.indices.Local)
              = Written(K.Local, d.local.indices.Local, d.remote.indices.Local)
        /\ d.diff # NoDiff => Written(L.Local, d.remote.indices.Local, d.diff.commit.indices.Local)
              = Written(K.Local, d.remote.indices.Local, d.diff.commit.indices.Local)
    BY ONLY <1>3, <1>6, <1>7, <2>1
  <2>. QED  BY <1>4, <2>2 DEF Kept
<1>12. Complete(L, jx, jc, d)
  <2>1. d.remote.indices.Local \in Nat /\ d.remote.htlcIndex.Local \in Nat
    BY <1>3, <1>6
  <2>2. ASSUME NEW i \in d.remote.indices.Local..(jx.Local - 1) PROVE \E y \in L.Local : y.LogIndex = i
    <3>1. CASE i = ix.Local
      BY <3>1
    <3>2. CASE i # ix.Local
      BY <1>1, <1>4, <2>1, <3>2, CompleteUse
    <3>. QED  BY <3>1, <3>2
  <2>3. ASSUME NEW h \in d.remote.htlcIndex.Local..(jc.Local - 1)
        PROVE  \E y \in L.Local : IsAdd(y) /\ y.HtlcIndex = h
    <3>1. CASE IsAdd(x) /\ h = hc.Local
      BY <3>1
    <3>2. CASE ~(IsAdd(x) /\ h = hc.Local)
      BY <1>1, <1>4, <2>1, <3>2, CompleteUse
    <3>. QED  BY <3>1, <3>2
  <2>4. /\ \A i \in d.remote.indices.Local..(jx.Local - 1) : \E y \in L.Local : y.LogIndex = i
        /\ \A h \in d.remote.htlcIndex.Local..(jc.Local - 1) :
              \E y \in L.Local : IsAdd(y) /\ y.HtlcIndex = h
        /\ \A h \in d.remote.htlcIndex.Remote..(jc.Remote - 1) :
              \E y \in L.Remote : IsAdd(y) /\ y.HtlcIndex = h
    BY <1>4, <2>2, <2>3, CompleteUse
  <2>. QED  BY ONLY <2>4, CompleteMake
<1>. QED  BY ONLY <1>4, <1>8, <1>9, <1>10, <1>11, <1>12, BookMake

\* A new update at the end of the peer's log.
LEMMA BookAppendRemote ==
    ASSUME NEW d \in Disks, NEW K \in Books, NEW ix \in Pairs, NEW hc \in Pairs,
           Book(K, ix, hc, d), NEW x \in Recs, x.LogIndex = ix.Remote,
           IsAdd(x) => x.HtlcIndex = hc.Remote,
           IsRmv(x) => /\ \E a \in K.Local : IsAdd(a) /\ a.HtlcIndex = x.HtlcIndex /\ a.Amount = x.Amount
                       /\ \A r \in K.Remote : IsRmv(r) => r.HtlcIndex # x.HtlcIndex,
           NEW L, L.Remote = K.Remote \cup {x}, L.Local = K.Local,
           NEW jx, jx.Remote = ix.Remote + 1, jx.Local = ix.Local,
           NEW jc, jc.Remote = IF IsAdd(x) THEN hc.Remote + 1 ELSE hc.Remote, jc.Local = hc.Local
    PROVE  Book(L, jx, jc, d)
<1>1. /\ K.Local \in SUBSET Recs /\ K.Remote \in SUBSET Recs
      /\ ix.Local \in Nat /\ ix.Remote \in Nat /\ hc.Local \in Nat /\ hc.Remote \in Nat
  BY DEF Books, Pairs
<1>2. jc.Remote \in Nat /\ hc.Remote <= jc.Remote
  BY <1>1
<1>3. d.local \in Commits(d) /\ d.remote \in Commits(d) /\ TipOf(d) \in Commits(d)
  BY DEF Commits
<1>4. /\ Ordered(K.Local, ix.Local, hc.Local) /\ Ordered(K.Remote, ix.Remote, hc.Remote)
      /\ Matched(K.Local, K.Remote) /\ Matched(K.Remote, K.Local)
      /\ \A c \in Commits(d) : Booked(K, ix, hc, c) /\ Total(c) = Capacity
      /\ Staged(d) /\ Kept(K, d) /\ Complete(K, ix, hc, d)
  BY BookUse
<1>5. ~(IsAdd(x) /\ IsRmv(x))
  BY DEF IsAdd, IsRmv
<1>6. \A c \in Commits(d) :
         /\ c.indices.Local <= ix.Local /\ c.indices.Remote <= ix.Remote
         /\ c.htlcIndex.Local <= hc.Local /\ c.htlcIndex.Remote <= hc.Remote
         /\ c.indices.Local \in Nat /\ c.indices.Remote \in Nat
         /\ c.htlcIndex.Local \in Nat /\ c.htlcIndex.Remote \in Nat
         /\ Covers(K.Local, K.Remote, c.indices.Local, c.indices.Remote,
                   c.htlcIndex.Local, c.outputs.Local)
         /\ Covers(K.Remote, K.Local, c.indices.Remote, c.indices.Local,
                   c.htlcIndex.Remote, c.outputs.Remote)
         /\ c.height = 0 => c.indices.Local = 0 /\ c.indices.Remote = 0
  BY BookFacts
<1>7. d.diff # NoDiff => TipOf(d) = d.diff.commit
  BY DEF TipOf
<1>8. Ordered(L.Local, jx.Local, jc.Local) /\ Ordered(L.Remote, jx.Remote, jc.Remote)
  <2>1. Ordered(K.Remote \cup {x}, ix.Remote + 1, jc.Remote)
    BY <1>1, <1>2, <1>4, OrderedAppend
  <2>. QED  BY <1>4, <2>1
<1>9. Matched(L.Local, L.Remote) /\ Matched(L.Remote, L.Local)
  <2>1. Matched(K.Remote \cup {x}, K.Local)
    BY <1>4, MatchedMore
  <2>2. Matched(K.Local, K.Remote \cup {x})
    BY <1>4, MatchedMore
  <2>. QED  BY <2>1, <2>2
<1>10. ASSUME NEW c \in Commits(d)
       PROVE  Booked(L, jx, jc, c)
  <2>. DEFINE cp == c.indices.Remote
              cq == c.indices.Local
              ch == c.htlcIndex.Remote
              co == c.outputs.Remote
              cg == c.htlcIndex.Local
              cu == c.outputs.Local
              A == K.Remote
              B == K.Local
              mx == ix.Remote
              mc == hc.Remote
  <2>0. /\ A \in SUBSET Recs /\ B \in SUBSET Recs /\ mx \in Nat /\ mc \in Nat
        /\ Ordered(A, mx, mc) /\ Matched(A, B)
        /\ cp \in Nat /\ cq \in Nat /\ ch \in Nat /\ cp <= mx /\ ch <= mc
        /\ Covers(A, B, cp, cq, ch, co) /\ Covers(B, A, cq, cp, cg, cu)
        /\ x.LogIndex >= mx /\ x.LogIndex >= cp /\ (IsAdd(x) => x.HtlcIndex = mc)
    BY <1>1, <1>4, <1>6
  <2>. HIDE DEF cp, cq, ch, co, cg, cu, A, B, mx, mc
  <2>1. Covers(A \cup {x}, B, cp, cq, ch, co)
    BY ONLY <2>0, CoversAddMore, x \in Recs
  <2>2. Covers(B, A \cup {x}, cq, cp, cg, cu)
    BY ONLY <2>0, CoversRmvMore, x \in Recs
  <2>3. /\ Covers(L.Remote, L.Local, c.indices.Remote, c.indices.Local, c.htlcIndex.Remote, c.outputs.Remote)
        /\ Covers(L.Local, L.Remote, c.indices.Local, c.indices.Remote, c.htlcIndex.Local, c.outputs.Local)
    BY ONLY <2>1, <2>2, L.Remote = K.Remote \cup {x}, L.Local = K.Local DEF cp, cq, ch, co, cg, cu, A, B
  <2>4. /\ c.indices.Local <= jx.Local /\ c.indices.Remote <= jx.Remote
        /\ c.htlcIndex.Local <= jc.Local /\ c.htlcIndex.Remote <= jc.Remote
        /\ c.height = 0 => c.indices.Local = 0 /\ c.indices.Remote = 0
    BY <1>1, <1>2, <1>6
  <2>. QED  BY ONLY <2>3, <2>4, BookedMake
<1>11. Kept(L, d)
  <2>1. Written(L.Remote, d.remote.indices.Remote, d.local.indices.Remote)
              = Written(K.Remote, d.remote.indices.Remote, d.local.indices.Remote)
    <3>1. \A a, b \in Nat : b <= ix.Remote => Written(L.Remote, a, b) = Written(K.Remote, a, b)
      <4>. SUFFICES ASSUME NEW a \in Nat, NEW b \in Nat, b <= ix.Remote
             PROVE  Written(L.Remote, a, b) = Written(K.Remote, a, b)
        OBVIOUS
      <4>. DEFINE A == K.Remote
      <4>1. A \in SUBSET Recs /\ b <= x.LogIndex
        BY <1>1
      <4>. HIDE DEF A
      <4>2. Written(A \cup {x}, a, b) = Written(A, a, b)
        BY <4>1, WrittenMore
      <4>. QED  BY <4>2 DEF A
    <3>. QED  BY ONLY <1>3, <1>6, <3>1
  <2>. QED  BY <1>4, <2>1 DEF Kept
<1>12. Complete(L, jx, jc, d)
  <2>1. d.remote.indices.Remote \in Nat /\ d.remote.htlcIndex.Remote \in Nat
    BY <1>3, <1>6
  <2>3. ASSUME NEW h \in d.remote.htlcIndex.Remote..(jc.Remote - 1)
        PROVE  \E y \in L.Remote : IsAdd(y) /\ y.HtlcIndex = h
    <3>1. CASE IsAdd(x) /\ h = hc.Remote
      BY <3>1
    <3>2. CASE ~(IsAdd(x) /\ h = hc.Remote)
      BY <1>1, <1>4, <2>1, <3>2, CompleteUse
    <3>. QED  BY <3>1, <3>2
  <2>4. /\ \A i \in d.remote.indices.Local..(jx.Local - 1) : \E y \in L.Local : y.LogIndex = i
        /\ \A h \in d.remote.htlcIndex.Local..(jc.Local - 1) :
              \E y \in L.Local : IsAdd(y) /\ y.HtlcIndex = h
        /\ \A h \in d.remote.htlcIndex.Remote..(jc.Remote - 1) :
              \E y \in L.Remote : IsAdd(y) /\ y.HtlcIndex = h
    BY <1>4, <2>3, CompleteUse
  <2>. QED  BY ONLY <2>4, CompleteMake
<1>. QED  BY ONLY <1>4, <1>8, <1>9, <1>10, <1>11, <1>12, BookMake

\* A fee update of our log that is on no commitment is overwritten.
LEMMA BookFeeLocal ==
    ASSUME NEW d \in Disks, NEW K \in Books, NEW ix \in Pairs, NEW hc \in Pairs,
           Book(K, ix, hc, d), NEW x \in K.Local, NEW y \in Recs,
           x.EntryType = "FeeUpdate", y.EntryType = "FeeUpdate", x.LogIndex = y.LogIndex,
           \A c \in Commits(d) : x.LogIndex >= c.indices.Local,
           NEW L, L.Local = (K.Local \ {x}) \cup {y}, L.Remote = K.Remote
    PROVE  Book(L, ix, hc, d)
<1>1. /\ K.Local \in SUBSET Recs /\ K.Remote \in SUBSET Recs
      /\ ix.Local \in Nat /\ ix.Remote \in Nat /\ hc.Local \in Nat /\ hc.Remote \in Nat
  BY DEF Books, Pairs
<1>2. \A c \in Commits(d) : x.LogIndex >= c.indices.Local
  OBVIOUS
<1>3. d.local \in Commits(d) /\ d.remote \in Commits(d) /\ TipOf(d) \in Commits(d)
  BY DEF Commits
<1>4. /\ Ordered(K.Local, ix.Local, hc.Local) /\ Ordered(K.Remote, ix.Remote, hc.Remote)
      /\ Matched(K.Local, K.Remote) /\ Matched(K.Remote, K.Local)
      /\ \A c \in Commits(d) : Booked(K, ix, hc, c) /\ Total(c) = Capacity
      /\ Staged(d) /\ Kept(K, d) /\ Complete(K, ix, hc, d)
  BY BookUse
<1>5. /\ ~IsAdd(x) /\ ~IsRmv(x) /\ ~IsAdd(y) /\ ~IsRmv(y)
      /\ \A z : IsAdd(z) \/ IsRmv(z) => z # x /\ z # y
  BY DEF IsAdd, IsRmv
<1>6. \A c \in Commits(d) :
         /\ c.indices.Local <= ix.Local /\ c.indices.Remote <= ix.Remote
         /\ c.htlcIndex.Local <= hc.Local /\ c.htlcIndex.Remote <= hc.Remote
         /\ c.indices.Local \in Nat /\ c.indices.Remote \in Nat
         /\ c.htlcIndex.Local \in Nat /\ c.htlcIndex.Remote \in Nat
         /\ Covers(K.Local, K.Remote, c.indices.Local, c.indices.Remote,
                   c.htlcIndex.Local, c.outputs.Local)
         /\ Covers(K.Remote, K.Local, c.indices.Remote, c.indices.Local,
                   c.htlcIndex.Remote, c.outputs.Remote)
         /\ c.height = 0 => c.indices.Local = 0 /\ c.indices.Remote = 0
  BY BookFacts
<1>7. d.diff # NoDiff => TipOf(d) = d.diff.commit
  BY DEF TipOf
<1>8. Ordered(L.Local, ix.Local, hc.Local) /\ Ordered(L.Remote, ix.Remote, hc.Remote)
  <2>1. \A z \in L.Local : z = y \/ (z \in K.Local /\ z # x)
    OBVIOUS
  <2>2. Ordered(L.Local, ix.Local, hc.Local)
    <3>1. \A z \in L.Local : z.LogIndex < ix.Local /\ (IsAdd(z) => z.HtlcIndex < hc.Local)
      BY <1>4, <1>5, <2>1 DEF Ordered
    <3>2. \A z, w \in L.Local : z.LogIndex = w.LogIndex => z = w
      BY <1>4, <2>1 DEF Ordered
    <3>3. \A z, w \in L.Local : IsAdd(z) /\ IsAdd(w) =>
                         (z.LogIndex < w.LogIndex <=> z.HtlcIndex < w.HtlcIndex)
      BY <1>4, <1>5, <2>1 DEF Ordered
    <3>. QED  BY <3>1, <3>2, <3>3 DEF Ordered
  <2>. QED  BY <1>4, <2>2
<1>9. /\ \A z : IsAdd(z) => (z \in K.Local <=> z \in L.Local) /\ (z \in K.Remote <=> z \in L.Remote)
      /\ \A z : IsRmv(z) => (z \in K.Local <=> z \in L.Local) /\ (z \in K.Remote <=> z \in L.Remote)
  BY <1>5
<1>10. Matched(L.Local, L.Remote) /\ Matched(L.Remote, L.Local)
  BY ONLY <1>4, <1>9 DEF Matched
<1>11. \A a, b \in Nat : b <= x.LogIndex => Written(L.Local, a, b) = Written(K.Local, a, b)
  <2>. SUFFICES ASSUME NEW a \in Nat, NEW b \in Nat, b <= x.LogIndex
                PROVE  Written(L.Local, a, b) = Written(K.Local, a, b)
    OBVIOUS
  <2>1. \A z : z \in L.Local /\ z.LogIndex < b <=> z \in K.Local /\ z.LogIndex < b
    BY <1>1 DEF Recs
  <2>2. {z \in L.Local : a <= z.LogIndex /\ z.LogIndex < b} = {z \in K.Local : a <= z.LogIndex /\ z.LogIndex < b}
    BY <2>1
  <2>. QED  BY <2>2 DEF Written
<1>12. ASSUME NEW c \in Commits(d)
       PROVE  Booked(L, ix, hc, c)
  <2>1. /\ Covers(L.Local, L.Remote, c.indices.Local, c.indices.Remote, c.htlcIndex.Local, c.outputs.Local)
        /\ Covers(L.Remote, L.Local, c.indices.Remote, c.indices.Local, c.htlcIndex.Remote, c.outputs.Remote)
    BY ONLY <1>6, <1>9, CoversSame, c \in Commits(d)
  <2>. QED  BY ONLY <1>6, <2>1, BookedMake, c \in Commits(d)
<1>13. Kept(L, d)
  <2>1. /\ Written(L.Local, d.local.indices.Local, d.remote.indices.Local)
              = Written(K.Local, d.local.indices.Local, d.remote.indices.Local)
        /\ d.diff # NoDiff => Written(L.Local, d.remote.indices.Local, d.diff.commit.indices.Local)
              = Written(K.Local, d.remote.indices.Local, d.diff.commit.indices.Local)
    BY ONLY <1>3, <1>6, <1>7, <1>2, <1>11
  <2>2. \A z \in L.Local : IsRmv(z) => z \in K.Local
    BY <1>5
  <2>. QED  BY <1>4, <2>1, <2>2 DEF Kept
<1>14. Complete(L, ix, hc, d)
  <2>1. \A z \in K.Local : \E w \in L.Local : w.LogIndex = z.LogIndex
    OBVIOUS
  <2>2. /\ \A i \in d.remote.indices.Local..(ix.Local - 1) : \E z \in L.Local : z.LogIndex = i
        /\ \A h \in d.remote.htlcIndex.Local..(hc.Local - 1) :
              \E z \in L.Local : IsAdd(z) /\ z.HtlcIndex = h
        /\ \A h \in d.remote.htlcIndex.Remote..(hc.Remote - 1) :
              \E z \in L.Remote : IsAdd(z) /\ z.HtlcIndex = h
    BY <1>4, <1>9, <2>1, CompleteUse
  <2>. QED  BY ONLY <2>2, CompleteMake
<1>. QED  BY ONLY <1>4, <1>8, <1>10, <1>12, <1>13, <1>14, BookMake

\* A fee update of the peer's log that is on no commitment is overwritten.
LEMMA BookFeeRemote ==
    ASSUME NEW d \in Disks, NEW K \in Books, NEW ix \in Pairs, NEW hc \in Pairs,
           Book(K, ix, hc, d), NEW x \in K.Remote, NEW y \in Recs,
           x.EntryType = "FeeUpdate", y.EntryType = "FeeUpdate", x.LogIndex = y.LogIndex,
           \A c \in Commits(d) : x.LogIndex >= c.indices.Remote,
           NEW L, L.Remote = (K.Remote \ {x}) \cup {y}, L.Local = K.Local
    PROVE  Book(L, ix, hc, d)
<1>1. /\ K.Local \in SUBSET Recs /\ K.Remote \in SUBSET Recs
      /\ ix.Local \in Nat /\ ix.Remote \in Nat /\ hc.Local \in Nat /\ hc.Remote \in Nat
  BY DEF Books, Pairs
<1>2. \A c \in Commits(d) : x.LogIndex >= c.indices.Remote
  OBVIOUS
<1>3. d.local \in Commits(d) /\ d.remote \in Commits(d) /\ TipOf(d) \in Commits(d)
  BY DEF Commits
<1>4. /\ Ordered(K.Local, ix.Local, hc.Local) /\ Ordered(K.Remote, ix.Remote, hc.Remote)
      /\ Matched(K.Local, K.Remote) /\ Matched(K.Remote, K.Local)
      /\ \A c \in Commits(d) : Booked(K, ix, hc, c) /\ Total(c) = Capacity
      /\ Staged(d) /\ Kept(K, d) /\ Complete(K, ix, hc, d)
  BY BookUse
<1>5. /\ ~IsAdd(x) /\ ~IsRmv(x) /\ ~IsAdd(y) /\ ~IsRmv(y)
      /\ \A z : IsAdd(z) \/ IsRmv(z) => z # x /\ z # y
  BY DEF IsAdd, IsRmv
<1>6. \A c \in Commits(d) :
         /\ c.indices.Local <= ix.Local /\ c.indices.Remote <= ix.Remote
         /\ c.htlcIndex.Local <= hc.Local /\ c.htlcIndex.Remote <= hc.Remote
         /\ c.indices.Local \in Nat /\ c.indices.Remote \in Nat
         /\ c.htlcIndex.Local \in Nat /\ c.htlcIndex.Remote \in Nat
         /\ Covers(K.Local, K.Remote, c.indices.Local, c.indices.Remote,
                   c.htlcIndex.Local, c.outputs.Local)
         /\ Covers(K.Remote, K.Local, c.indices.Remote, c.indices.Local,
                   c.htlcIndex.Remote, c.outputs.Remote)
         /\ c.height = 0 => c.indices.Local = 0 /\ c.indices.Remote = 0
  BY BookFacts
<1>7. d.diff # NoDiff => TipOf(d) = d.diff.commit
  BY DEF TipOf
<1>8. Ordered(L.Local, ix.Local, hc.Local) /\ Ordered(L.Remote, ix.Remote, hc.Remote)
  <2>1. \A z \in L.Remote : z = y \/ (z \in K.Remote /\ z # x)
    OBVIOUS
  <2>2. Ordered(L.Remote, ix.Remote, hc.Remote)
    <3>1. \A z \in L.Remote : z.LogIndex < ix.Remote /\ (IsAdd(z) => z.HtlcIndex < hc.Remote)
      BY <1>4, <1>5, <2>1 DEF Ordered
    <3>2. \A z, w \in L.Remote : z.LogIndex = w.LogIndex => z = w
      BY <1>4, <2>1 DEF Ordered
    <3>3. \A z, w \in L.Remote : IsAdd(z) /\ IsAdd(w) =>
                         (z.LogIndex < w.LogIndex <=> z.HtlcIndex < w.HtlcIndex)
      BY <1>4, <1>5, <2>1 DEF Ordered
    <3>. QED  BY <3>1, <3>2, <3>3 DEF Ordered
  <2>. QED  BY <1>4, <2>2
<1>9. /\ \A z : IsAdd(z) => (z \in K.Local <=> z \in L.Local) /\ (z \in K.Remote <=> z \in L.Remote)
      /\ \A z : IsRmv(z) => (z \in K.Local <=> z \in L.Local) /\ (z \in K.Remote <=> z \in L.Remote)
  BY <1>5
<1>10. Matched(L.Local, L.Remote) /\ Matched(L.Remote, L.Local)
  BY ONLY <1>4, <1>9 DEF Matched
<1>11. \A a, b \in Nat : b <= x.LogIndex => Written(L.Remote, a, b) = Written(K.Remote, a, b)
  <2>. SUFFICES ASSUME NEW a \in Nat, NEW b \in Nat, b <= x.LogIndex
                PROVE  Written(L.Remote, a, b) = Written(K.Remote, a, b)
    OBVIOUS
  <2>1. \A z : z \in L.Remote /\ z.LogIndex < b <=> z \in K.Remote /\ z.LogIndex < b
    BY <1>1 DEF Recs
  <2>2. {z \in L.Remote : a <= z.LogIndex /\ z.LogIndex < b} = {z \in K.Remote : a <= z.LogIndex /\ z.LogIndex < b}
    BY <2>1
  <2>. QED  BY <2>2 DEF Written
<1>12. ASSUME NEW c \in Commits(d)
       PROVE  Booked(L, ix, hc, c)
  <2>1. /\ Covers(L.Remote, L.Local, c.indices.Remote, c.indices.Local, c.htlcIndex.Remote, c.outputs.Remote)
        /\ Covers(L.Local, L.Remote, c.indices.Local, c.indices.Remote, c.htlcIndex.Local, c.outputs.Local)
    BY ONLY <1>6, <1>9, CoversSame, c \in Commits(d)
  <2>. QED  BY ONLY <1>6, <2>1, BookedMake, c \in Commits(d)
<1>13. Kept(L, d)
  <2>1. Written(L.Remote, d.remote.indices.Remote, d.local.indices.Remote)
              = Written(K.Remote, d.remote.indices.Remote, d.local.indices.Remote)
    BY ONLY <1>2, <1>3, <1>6, <1>11
  <2>. QED  BY <1>4, <2>1 DEF Kept
<1>14. Complete(L, ix, hc, d)
  <2>1. \A z \in K.Remote : \E w \in L.Remote : w.LogIndex = z.LogIndex
    OBVIOUS
  <2>2. /\ \A i \in d.remote.indices.Local..(ix.Local - 1) : \E z \in L.Local : z.LogIndex = i
        /\ \A h \in d.remote.htlcIndex.Local..(hc.Local - 1) :
              \E z \in L.Local : IsAdd(z) /\ z.HtlcIndex = h
        /\ \A h \in d.remote.htlcIndex.Remote..(hc.Remote - 1) :
              \E z \in L.Remote : IsAdd(z) /\ z.HtlcIndex = h
    BY <1>4, <1>9, <2>1, CompleteUse
  <2>. QED  BY ONLY <2>2, CompleteMake
<1>. QED  BY ONLY <1>4, <1>8, <1>10, <1>12, <1>13, <1>14, BookMake

\* An HTLC index names one HTLC of a log.
LEMMA OneAdd ==
    ASSUME NEW A \in SUBSET Recs, NEW ix, NEW hc, Ordered(A, ix, hc),
           NEW a \in A, NEW b \in A, IsAdd(a), IsAdd(b), a.HtlcIndex = b.HtlcIndex
    PROVE  a = b
<1>1. a.LogIndex \in Nat /\ b.LogIndex \in Nat /\ a.HtlcIndex \in Nat
  BY DEF Recs
<1>2. a.LogIndex < b.LogIndex <=> a.HtlcIndex < b.HtlcIndex
  BY DEF Ordered
<1>3. b.LogIndex < a.LogIndex <=> b.HtlcIndex < a.HtlcIndex
  BY DEF Ordered
<1>4. a.LogIndex = b.LogIndex
  BY <1>1, <1>2, <1>3
<1>. QED  BY <1>4 DEF Ordered

\* A commitment made of the updates below its indices.
LEMMA CoversNew ==
    ASSUME NEW A \in SUBSET Recs, NEW R, NEW ix, NEW hc, Ordered(A, ix, hc),
           NEW ia, NEW ir, NEW ih, NEW outs,
           outs = {OutputOf(a) : a \in LiveOn(A, R, ia, ir)},
           \A r \in R : IsRmv(r) /\ r.LogIndex < ir =>
              \E a \in A : IsAdd(a) /\ a.HtlcIndex = r.HtlcIndex /\ a.LogIndex < ia,
           \A a \in A : IsAdd(a) => (a.LogIndex < ia <=> a.HtlcIndex < ih)
    PROVE  Covers(A, R, ia, ir, ih, outs)
BY OneAdd DEF Covers

\* What all indices of a log are below.
LEMMA AllBelow ==
    ASSUME NEW A, NEW ix, NEW hc, Ordered(A, ix, hc)
    PROVE  \A a \in A : IsAdd(a) => (a.LogIndex < ix <=> a.HtlcIndex < hc)
BY DEF Ordered

\* The peer's next commitment is signed: c, with all of our updates and those
\* of the peer that are on our own commitment.
LEMMA BookSign ==
    ASSUME NEW d \in Disks, NEW K \in Books, NEW ix \in Pairs, NEW hc \in Pairs,
           Book(K, ix, hc, d), d.diff = NoDiff, NEW c \in Commitments,
           c.indices.Local = ix.Local, c.indices.Remote = d.local.indices.Remote,
           c.htlcIndex.Local = hc.Local, c.htlcIndex.Remote = d.local.htlcIndex.Remote,
           c.height = d.remote.height + 1, Total(c) = Capacity,
           c.outputs.Local = {OutputOf(a) : a \in
               LiveOn(K.Local, K.Remote, c.indices.Local, c.indices.Remote)},
           c.outputs.Remote = {OutputOf(a) : a \in
               LiveOn(K.Remote, K.Local, c.indices.Remote, c.indices.Local)},
           \A r \in K.Remote : IsRmv(r) /\ r.LogIndex < c.indices.Remote =>
              \E a \in K.Local : IsAdd(a) /\ a.HtlcIndex = r.HtlcIndex /\ a.LogIndex < d.remote.indices.Local,
           \A r \in K.Local : IsRmv(r) /\ r.LogIndex < c.indices.Local =>
              \E a \in K.Remote : IsAdd(a) /\ a.HtlcIndex = r.HtlcIndex /\ a.LogIndex < d.remote.indices.Remote,
           NEW e \in Disks, e.local = d.local, e.remote = d.remote, e.diff # NoDiff, e.diff.commit = c,
           e.unsignedAcked = d.unsignedAcked, e.remoteUnsigned = d.remoteUnsigned,
           e.ackedKey = d.ackedKey, e.fwdPkgs = d.fwdPkgs,
           Len(e.diff.updates) = ix.Local - d.remote.indices.Local,
           \A k \in DOMAIN e.diff.updates : e.diff.updates[k].LogIndex = d.remote.indices.Local + k - 1,
           Range(e.diff.updates) = Written(K.Local, d.remote.indices.Local, ix.Local)
    PROVE  Book(K, ix, hc, e)
<1>1. /\ K.Local \in SUBSET Recs /\ K.Remote \in SUBSET Recs
      /\ ix.Local \in Nat /\ ix.Remote \in Nat /\ hc.Local \in Nat /\ hc.Remote \in Nat
  BY DEF Books, Pairs
<1>2. /\ c.indices.Local \in Nat /\ c.htlcIndex.Local \in Nat /\ d.remote.height \in Nat
      /\ c.indices.Remote \in Nat /\ c.htlcIndex.Remote \in Nat
  BY CommitFacts, Parties DEF Commits
<1>3. /\ d.local \in Commits(d) /\ d.remote \in Commits(d) /\ TipOf(d) = d.remote
      /\ TipOf(e) = c /\ Commits(e) = {d.local, d.remote, c}
  BY DEF Commits, TipOf
<1>4. /\ Ordered(K.Local, ix.Local, hc.Local) /\ Ordered(K.Remote, ix.Remote, hc.Remote)
      /\ Matched(K.Local, K.Remote) /\ Matched(K.Remote, K.Local)
      /\ \A b \in Commits(d) : Booked(K, ix, hc, b) /\ Total(b) = Capacity
      /\ Staged(d) /\ Kept(K, d) /\ Complete(K, ix, hc, d)
  BY BookUse
<1>5. \A b \in Commits(d) :
         /\ b.indices.Local <= ix.Local /\ b.indices.Remote <= ix.Remote
         /\ b.htlcIndex.Local <= hc.Local /\ b.htlcIndex.Remote <= hc.Remote
         /\ b.indices.Local \in Nat /\ b.indices.Remote \in Nat
         /\ b.htlcIndex.Local \in Nat /\ b.htlcIndex.Remote \in Nat
  BY BookFacts
<1>6. /\ d.remote.indices.Local <= c.indices.Local /\ d.remote.indices.Remote <= c.indices.Remote
      /\ d.local.indices.Local <= d.remote.indices.Local
      /\ d.remote.htlcIndex.Local <= c.htlcIndex.Local /\ d.remote.htlcIndex.Remote <= c.htlcIndex.Remote
      /\ d.local.htlcIndex.Local <= d.remote.htlcIndex.Local
  BY <1>3, <1>4, <1>5 DEF Staged
<1>7. Staged(e)
  BY <1>2, <1>3, <1>6 DEF Staged
<1>8. \A x \in K.Remote : IsAdd(x) => (x.LogIndex < c.indices.Remote <=> x.HtlcIndex < c.htlcIndex.Remote)
  <2>1. Covers(K.Remote, K.Local, d.local.indices.Remote, d.local.indices.Local,
               d.local.htlcIndex.Remote, d.local.outputs.Remote)
    BY <1>3, <1>4, BookedUse
  <2>. QED  BY <2>1 DEF Covers
<1>9. \A x \in K.Local : IsAdd(x) => (x.LogIndex < c.indices.Local <=> x.HtlcIndex < c.htlcIndex.Local)
  BY <1>4, AllBelow
<1>10. Booked(K, ix, hc, c)
  <2>1. /\ \A r \in K.Remote : IsRmv(r) /\ r.LogIndex < c.indices.Remote =>
              \E a \in K.Local : IsAdd(a) /\ a.HtlcIndex = r.HtlcIndex /\ a.LogIndex < c.indices.Local
        /\ \A r \in K.Local : IsRmv(r) /\ r.LogIndex < c.indices.Local =>
              \E a \in K.Remote : IsAdd(a) /\ a.HtlcIndex = r.HtlcIndex /\ a.LogIndex < c.indices.Remote
    <3>1. \A x \in K.Local : x.LogIndex < d.remote.indices.Local => x.LogIndex < c.indices.Local
      BY ONLY <1>1, <1>2, <1>3, <1>5, <1>6 DEF Recs
    <3>2. \A x \in K.Remote : x.LogIndex < d.remote.indices.Remote => x.LogIndex < c.indices.Remote
      BY ONLY <1>1, <1>2, <1>3, <1>5, <1>6 DEF Recs
    <3>. QED  BY <3>1, <3>2
  <2>2. Covers(K.Local, K.Remote, c.indices.Local, c.indices.Remote, c.htlcIndex.Local, c.outputs.Local)
    BY <1>1, <1>4, <1>9, <2>1, CoversNew
  <2>3. Covers(K.Remote, K.Local, c.indices.Remote, c.indices.Local, c.htlcIndex.Remote, c.outputs.Remote)
    BY <1>1, <1>4, <1>8, <2>1, CoversNew
  <2>4. /\ c.indices.Local <= ix.Local /\ c.htlcIndex.Local <= hc.Local
        /\ c.indices.Remote <= ix.Remote /\ c.htlcIndex.Remote <= hc.Remote
        /\ c.height = 0 => c.indices.Local = 0 /\ c.indices.Remote = 0
    BY <1>1, <1>2, <1>3, <1>5
  <2>. QED  BY ONLY <2>2, <2>3, <2>4, BookedMake
<1>11. Kept(K, e)
  <2>1. Forwarded(e) = Forwarded(d)
    BY DEF Forwarded
  <2>. QED  BY <1>4, <2>1 DEF Kept
<1>12. Complete(K, ix, hc, e)
  BY <1>4, CompleteUse, CompleteMake
<1>13. \A b \in Commits(e) : Booked(K, ix, hc, b) /\ Total(b) = Capacity
  BY <1>3, <1>4, <1>10
<1>. QED  BY ONLY <1>4, <1>7, <1>11, <1>12, <1>13, BookMake

\* Our next commitment is accepted: c, with all of the peer's updates and
\* those of ours that are on the peer's oldest commitment.
LEMMA BookRevoke ==
    ASSUME NEW d \in Disks, NEW K \in Books, NEW ix \in Pairs, NEW hc \in Pairs,
           Book(K, ix, hc, d), NEW c \in Commitments,
           c.indices.Local = d.remote.indices.Local, c.indices.Remote = ix.Remote,
           c.htlcIndex.Local = d.remote.htlcIndex.Local, c.htlcIndex.Remote = hc.Remote,
           c.height = d.local.height + 1, Total(c) = Capacity,
           c.outputs.Local = {OutputOf(a) : a \in
               LiveOn(K.Local, K.Remote, c.indices.Local, c.indices.Remote)},
           c.outputs.Remote = {OutputOf(a) : a \in
               LiveOn(K.Remote, K.Local, c.indices.Remote, c.indices.Local)},
           \A r \in K.Remote : IsRmv(r) /\ r.LogIndex < c.indices.Remote =>
              \E a \in K.Local : IsAdd(a) /\ a.HtlcIndex = r.HtlcIndex /\ a.LogIndex < d.local.indices.Local,
           \A r \in K.Local : IsRmv(r) /\ r.LogIndex < c.indices.Local =>
              \E a \in K.Remote : IsAdd(a) /\ a.HtlcIndex = r.HtlcIndex /\ a.LogIndex < d.local.indices.Remote,
           NEW e \in Disks, e.local = c, e.remote = d.remote, e.diff = d.diff,
           e.ackedKey = TRUE, e.fwdPkgs = d.fwdPkgs, e.remoteUnsigned = <<>>,
           Range(e.unsignedAcked) = Written(K.Remote, d.remote.indices.Remote, ix.Remote),
           Distinct(e.unsignedAcked)
    PROVE  Book(K, ix, hc, e)
<1>1. /\ K.Local \in SUBSET Recs /\ K.Remote \in SUBSET Recs
      /\ ix.Local \in Nat /\ ix.Remote \in Nat /\ hc.Local \in Nat /\ hc.Remote \in Nat
  BY DEF Books, Pairs
<1>2. /\ c.indices.Local \in Nat /\ c.htlcIndex.Local \in Nat /\ d.local.height \in Nat
      /\ c.indices.Remote \in Nat /\ c.htlcIndex.Remote \in Nat
  BY CommitFacts, Parties DEF Commits
<1>3. /\ d.local \in Commits(d) /\ d.remote \in Commits(d) /\ TipOf(d) \in Commits(d)
      /\ TipOf(e) = TipOf(d) /\ Commits(e) = {c, d.remote, TipOf(d)}
  BY DEF Commits, TipOf
<1>4. /\ Ordered(K.Local, ix.Local, hc.Local) /\ Ordered(K.Remote, ix.Remote, hc.Remote)
      /\ Matched(K.Local, K.Remote) /\ Matched(K.Remote, K.Local)
      /\ \A b \in Commits(d) : Booked(K, ix, hc, b) /\ Total(b) = Capacity
      /\ Staged(d) /\ Kept(K, d) /\ Complete(K, ix, hc, d)
  BY BookUse
<1>5. \A b \in Commits(d) :
         /\ b.indices.Local <= ix.Local /\ b.indices.Remote <= ix.Remote
         /\ b.htlcIndex.Local <= hc.Local /\ b.htlcIndex.Remote <= hc.Remote
         /\ b.indices.Local \in Nat /\ b.indices.Remote \in Nat
         /\ b.htlcIndex.Local \in Nat /\ b.htlcIndex.Remote \in Nat
  BY BookFacts
<1>6. d.local.indices.Local <= c.indices.Local /\ d.local.indices.Remote <= c.indices.Remote
  BY <1>3, <1>4, <1>5 DEF Staged
<1>7. Staged(e)
  BY <1>2, <1>3, <1>4, <1>5, SMTT(30) DEF Staged
<1>8. \A x \in K.Local : IsAdd(x) => (x.LogIndex < c.indices.Local <=> x.HtlcIndex < c.htlcIndex.Local)
  <2>1. Covers(K.Local, K.Remote, d.remote.indices.Local, d.remote.indices.Remote,
               d.remote.htlcIndex.Local, d.remote.outputs.Local)
    BY <1>3, <1>4, BookedUse
  <2>. QED  BY <2>1 DEF Covers
<1>9. \A x \in K.Remote : IsAdd(x) => (x.LogIndex < c.indices.Remote <=> x.HtlcIndex < c.htlcIndex.Remote)
  BY <1>4, AllBelow
<1>10. Booked(K, ix, hc, c)
  <2>1. /\ \A r \in K.Remote : IsRmv(r) /\ r.LogIndex < c.indices.Remote =>
              \E a \in K.Local : IsAdd(a) /\ a.HtlcIndex = r.HtlcIndex /\ a.LogIndex < c.indices.Local
        /\ \A r \in K.Local : IsRmv(r) /\ r.LogIndex < c.indices.Local =>
              \E a \in K.Remote : IsAdd(a) /\ a.HtlcIndex = r.HtlcIndex /\ a.LogIndex < c.indices.Remote
    <3>1. \A x \in K.Local : x.LogIndex < d.local.indices.Local => x.LogIndex < c.indices.Local
      BY ONLY <1>1, <1>2, <1>3, <1>5, <1>6 DEF Recs
    <3>2. \A x \in K.Remote : x.LogIndex < d.local.indices.Remote => x.LogIndex < c.indices.Remote
      BY ONLY <1>1, <1>2, <1>3, <1>5, <1>6 DEF Recs
    <3>. QED  BY <3>1, <3>2
  <2>2. Covers(K.Local, K.Remote, c.indices.Local, c.indices.Remote, c.htlcIndex.Local, c.outputs.Local)
    BY <1>1, <1>4, <1>8, <2>1, CoversNew
  <2>3. Covers(K.Remote, K.Local, c.indices.Remote, c.indices.Local, c.htlcIndex.Remote, c.outputs.Remote)
    BY <1>1, <1>4, <1>9, <2>1, CoversNew
  <2>4. /\ c.indices.Local <= ix.Local /\ c.htlcIndex.Local <= hc.Local
        /\ c.indices.Remote <= ix.Remote /\ c.htlcIndex.Remote <= hc.Remote
        /\ c.height = 0 => c.indices.Local = 0 /\ c.indices.Remote = 0
    BY <1>1, <1>2, <1>3, <1>5
  <2>. QED  BY ONLY <2>2, <2>3, <2>4, BookedMake
<1>11. Kept(K, e)
  <2>1. Written(K.Local, c.indices.Local, c.indices.Local) = {}
    BY <1>1, <1>2 DEF Written, Recs
  <2>2. Range(<<>>) = {} /\ Distinct(<<>>)
    BY DEF Range, Distinct
  <2>. QED  BY <1>4, <2>1, <2>2 DEF Kept
<1>12. Complete(K, ix, hc, e)
  BY <1>4, CompleteUse, CompleteMake
<1>13. \A b \in Commits(e) : Booked(K, ix, hc, b) /\ Total(b) = Capacity
  BY <1>3, <1>4, <1>10
<1>. QED  BY ONLY <1>4, <1>7, <1>11, <1>12, <1>13, BookMake

\* An update on disk keeps its place and its type.
LEMMA LogUpdateFacts ==
    ASSUME NEW x \in Recs
    PROVE  /\ ToLogUpdate(x) \in Recs /\ ToLogUpdate(x).LogIndex = x.LogIndex
           /\ ToLogUpdate(x).HtlcIndex = x.HtlcIndex /\ ToLogUpdate(x).EntryType = x.EntryType
           /\ IsAdd(ToLogUpdate(x)) <=> IsAdd(x)
           /\ IsRmv(ToLogUpdate(x)) <=> IsRmv(x)
BY DEF Recs, ToLogUpdate, IsAdd, IsRmv

\* The peer gives up its oldest commitment for the pending one.
LEMMA BookAdvance ==
    ASSUME NEW d \in Disks, NEW K \in Books, NEW ix \in Pairs, NEW hc \in Pairs,
           Book(K, ix, hc, d), d.diff # NoDiff,
           NEW e \in Disks, e.local = d.local, e.remote = d.diff.commit, e.diff = NoDiff,
           e.ackedKey = d.ackedKey, ~d.ackedKey => Forwarded(e) = {},
           Distinct(e.unsignedAcked), Distinct(e.remoteUnsigned),
           Range(e.unsignedAcked) =
              {u \in Range(d.unsignedAcked) : u.LogIndex >= d.diff.commit.indices.Remote},
           d.ackedKey => Range(e.remoteUnsigned) =
              {ToLogUpdate(x) : x \in {y \in K.Local : /\ ~IsAdd(y)
                                                       /\ y.LogIndex < d.diff.commit.indices.Local
                                                       /\ y.LogIndex >= d.local.indices.Local}},
           ~d.ackedKey => e.remoteUnsigned = d.remoteUnsigned
    PROVE  Book(K, ix, hc, e)
<1>1. /\ K.Local \in SUBSET Recs /\ K.Remote \in SUBSET Recs
      /\ ix.Local \in Nat /\ ix.Remote \in Nat /\ hc.Local \in Nat /\ hc.Remote \in Nat
  BY DEF Books, Pairs
<1>2. /\ d.local \in Commits(d) /\ d.remote \in Commits(d) /\ TipOf(d) \in Commits(d)
      /\ TipOf(d) = d.diff.commit /\ TipOf(e) = TipOf(d) /\ Commits(e) = {d.local, TipOf(d)}
  BY DEF Commits, TipOf
<1>3. /\ Ordered(K.Local, ix.Local, hc.Local) /\ Ordered(K.Remote, ix.Remote, hc.Remote)
      /\ Matched(K.Local, K.Remote) /\ Matched(K.Remote, K.Local)
      /\ \A b \in Commits(d) : Booked(K, ix, hc, b) /\ Total(b) = Capacity
      /\ Staged(d) /\ Kept(K, d) /\ Complete(K, ix, hc, d)
  BY BookUse
<1>4. \A b \in Commits(d) :
         /\ b.indices.Local <= ix.Local /\ b.indices.Remote <= ix.Remote
         /\ b.htlcIndex.Local <= hc.Local /\ b.htlcIndex.Remote <= hc.Remote
         /\ b.indices.Local \in Nat /\ b.indices.Remote \in Nat
         /\ b.htlcIndex.Local \in Nat /\ b.htlcIndex.Remote \in Nat
  BY BookFacts
<1>5. /\ d.local.indices.Local <= d.remote.indices.Local
      /\ d.remote.indices.Local <= TipOf(d).indices.Local
      /\ d.remote.indices.Remote <= TipOf(d).indices.Remote
      /\ TipOf(d).indices.Remote <= d.local.indices.Remote
      /\ d.local.htlcIndex.Local <= d.remote.htlcIndex.Local
      /\ d.remote.htlcIndex.Local <= TipOf(d).htlcIndex.Local
      /\ d.remote.htlcIndex.Remote <= TipOf(d).htlcIndex.Remote
      /\ TipOf(d).htlcIndex.Remote <= d.local.htlcIndex.Remote
  BY <1>3 DEF Staged
<1>6. Staged(e)
  BY <1>2, <1>4, <1>5 DEF Staged
<1>7. Range(e.unsignedAcked) = Written(K.Remote, TipOf(d).indices.Remote, d.local.indices.Remote)
  <2>1. Range(d.unsignedAcked) = Written(K.Remote, d.remote.indices.Remote, d.local.indices.Remote)
    BY <1>3 DEF Kept
  <2>2. \A x \in K.Remote : ToLogUpdate(x).LogIndex = x.LogIndex /\ x.LogIndex \in Nat
    BY <1>1, LogUpdateFacts DEF Recs
  <2>3. /\ d.remote.indices.Remote \in Nat /\ TipOf(d).indices.Remote \in Nat
        /\ d.remote.indices.Remote <= TipOf(d).indices.Remote
        /\ TipOf(d) = d.diff.commit
    BY <1>2, <1>4, <1>5
  <2>4. Range(e.unsignedAcked) =
              {u \in Range(d.unsignedAcked) : u.LogIndex >= d.diff.commit.indices.Remote}
    OBVIOUS
  <2>. QED  BY ONLY <2>1, <2>2, <2>3, <2>4 DEF Written
<1>8. /\ Range(e.remoteUnsigned) \subseteq
          Written(K.Local, d.local.indices.Local, TipOf(d).indices.Local)
      /\ \A u \in Range(e.remoteUnsigned) : ~IsAdd(u)
      /\ \A u \in Written(K.Local, d.local.indices.Local, TipOf(d).indices.Local) :
          IsRmv(u) => u \in Range(e.remoteUnsigned)
  <2>1. \A x \in K.Local : /\ IsAdd(ToLogUpdate(x)) <=> IsAdd(x)
                           /\ IsRmv(ToLogUpdate(x)) <=> IsRmv(x)
                           /\ x.LogIndex \in Nat
                           /\ ~(IsAdd(x) /\ IsRmv(x))
    BY <1>1, LogUpdateFacts DEF Recs, IsAdd, IsRmv
  <2>2. d.local.indices.Local \in Nat
    BY <1>2, <1>4
  <2>3. CASE d.ackedKey
    BY <1>2, <2>1, <2>2, <2>3 DEF Written
  <2>4. CASE ~d.ackedKey
    <3>1. e.remoteUnsigned = <<>> /\ \A x \in K.Local : ~IsRmv(x)
      BY <1>3, <2>4 DEF Kept
    <3>2. Range(e.remoteUnsigned) = {}
      BY <3>1 DEF Range
    <3>. QED  BY <2>1, <3>1, <3>2 DEF Written
  <2>. QED  BY <2>3, <2>4
<1>9. \A x \in K.Local : IsRmv(x) => x.HtlcIndex < TipOf(d).htlcIndex.Remote
  <2>1. \A x \in K.Local : (IsRmv(x) => x.HtlcIndex < d.remote.htlcIndex.Remote) /\ x.HtlcIndex \in Nat
    BY <1>1, <1>3 DEF Kept, Recs
  <2>2. /\ d.remote.htlcIndex.Remote \in Nat /\ TipOf(d).htlcIndex.Remote \in Nat
        /\ d.remote.htlcIndex.Remote <= TipOf(d).htlcIndex.Remote
    BY <1>2, <1>4, <1>5
  <2>. QED  BY ONLY <2>1, <2>2
<1>10. ~e.ackedKey => /\ e.local.indices.Remote = 0 /\ e.remoteUnsigned = <<>>
                      /\ Forwarded(e) = {} /\ \A x \in K.Local : ~IsRmv(x)
  BY <1>3 DEF Kept
<1>11. Kept(K, e)
  BY <1>2, <1>7, <1>8, <1>9, <1>10 DEF Kept
<1>12. Complete(K, ix, hc, e)
  <2>1. /\ d.remote.indices.Local \in Nat /\ e.remote.indices.Local \in Nat
        /\ d.remote.indices.Local <= e.remote.indices.Local
        /\ d.remote.htlcIndex.Local \in Nat /\ e.remote.htlcIndex.Local \in Nat
        /\ d.remote.htlcIndex.Local <= e.remote.htlcIndex.Local
        /\ d.remote.htlcIndex.Remote \in Nat /\ e.remote.htlcIndex.Remote \in Nat
        /\ d.remote.htlcIndex.Remote <= e.remote.htlcIndex.Remote
    BY <1>2, <1>4, <1>5
  <2>2. /\ \A i \in d.remote.indices.Local..(ix.Local - 1) : \E x \in K.Local : x.LogIndex = i
        /\ \A h \in d.remote.htlcIndex.Local..(hc.Local - 1) :
                 \E x \in K.Local : IsAdd(x) /\ x.HtlcIndex = h
        /\ \A h \in d.remote.htlcIndex.Remote..(hc.Remote - 1) :
                 \E x \in K.Remote : IsAdd(x) /\ x.HtlcIndex = h
    BY <1>3, CompleteUse
  <2>3. /\ \A i \in e.remote.indices.Local..(ix.Local - 1) : \E x \in K.Local : x.LogIndex = i
        /\ \A h \in e.remote.htlcIndex.Local..(hc.Local - 1) :
                 \E x \in K.Local : IsAdd(x) /\ x.HtlcIndex = h
        /\ \A h \in e.remote.htlcIndex.Remote..(hc.Remote - 1) :
                 \E x \in K.Remote : IsAdd(x) /\ x.HtlcIndex = h
    BY ONLY <1>1, <2>1, <2>2
  <2>. QED  BY ONLY <2>3, CompleteMake
<1>13. \A b \in Commits(e) : Booked(K, ix, hc, b) /\ Total(b) = Capacity
  BY <1>2, <1>3
<1>. QED  BY ONLY <1>3, <1>6, <1>11, <1>12, <1>13, BookMake

-----------------------------------------------------------------------------
(* A book with updates left out that no commitment needs. *)

\* An update of p that may go: one on all commitments, with the HTLC it
\* removed; R are the updates of the counterparty.
Spent(x, p, R, d) ==
    \/ ~IsAdd(x) /\ ~IsRmv(x) /\ x.LogIndex < d.remote.indices[p]
    \/ IsRmv(x) /\ \A c \in Commits(d) : x.LogIndex < c.indices[p]
    \/ IsAdd(x) /\ \E r \in R : /\ IsRmv(r) /\ r.HtlcIndex = x.HtlcIndex
                                /\ \A c \in Commits(d) : r.LogIndex < c.indices[CounterParty(p)]

\* B is left of the updates A of p, and S of those of the counterparty, R.
\* ja and jr are the next log indices, jh the next HTLC index of p.
Prunes(A, R, B, S, ja, jr, jh, p, d) ==
    /\ B \subseteq A
    /\ \A x \in B : x.LogIndex < ja
    /\ \A a \in A : IsAdd(a) => (a.LogIndex < ja <=> a.HtlcIndex < jh)
    /\ \A x \in A \ B : x.LogIndex < ja => Spent(x, p, R, d)
    /\ \A r \in S : \A a \in A : IsRmv(r) /\ IsAdd(a) /\ a.HtlcIndex = r.HtlcIndex => a \in B
    /\ \A a \in B : \A r \in R \ S :
          IsRmv(r) /\ IsAdd(a) /\ a.HtlcIndex = r.HtlcIndex => r.LogIndex >= jr

\* Dropping spent entries leaves the rest in order and matched.
LEMMA PrunedOrder ==
    ASSUME NEW A, NEW R, NEW B, NEW S, NEW ix, NEW hc, NEW ja, NEW jr, NEW jh, NEW p, NEW d,
           S \subseteq R, Ordered(A, ix, hc), Matched(A, R), Prunes(A, R, B, S, ja, jr, jh, p, d)
    PROVE  Ordered(B, ja, jh) /\ Matched(B, S)
<1>1. Ordered(B, ja, jh)
  BY DEF Ordered, Prunes
<1>2. Matched(B, S)
  BY DEF Matched, Prunes
<1>. QED  BY <1>1, <1>2

\* Dropping spent entries leaves the commitments on record covered.
LEMMA PrunedCovers ==
    ASSUME NEW A \in SUBSET Recs, NEW R \in SUBSET Recs, NEW B, NEW S,
           NEW ja \in Nat, NEW jr \in Nat, NEW jh, NEW p, NEW d,
           S \subseteq R, Prunes(A, R, B, S, ja, jr, jh, p, d), NEW c \in Commits(d),
           NEW ia \in Nat, NEW ir \in Nat, ia = c.indices[p], ir = c.indices[CounterParty(p)],
           NEW ih, NEW outs, ia <= ja, ir <= jr, Covers(A, R, ia, ir, ih, outs)
    PROVE  Covers(B, S, ia, ir, ih, outs)
<1>1. B \subseteq A
  BY DEF Prunes
<1>2. ASSUME NEW a \in LiveOn(B, S, ia, ir) PROVE a \in LiveOn(A, R, ia, ir)
  <2>1. a \in B /\ IsAdd(a) /\ a.LogIndex < ia /\ ~Gone(S, a.HtlcIndex, ir)
    BY <1>2 DEF LiveOn
  <2>2. ASSUME NEW r \in R, IsRmv(r), r.HtlcIndex = a.HtlcIndex, r.LogIndex < ir PROVE FALSE
    <3>1. r \notin S
      BY <2>1, <2>2 DEF Gone
    <3>2. r.LogIndex >= jr
      BY <2>1, <2>2, <3>1 DEF Prunes
    <3>. QED  BY <2>2, <3>2 DEF Recs
  <2>. QED  BY <1>1, <2>1, <2>2 DEF LiveOn, Gone
<1>3. ASSUME NEW a \in LiveOn(A, R, ia, ir) PROVE a \in LiveOn(B, S, ia, ir)
  <2>1. a \in A /\ IsAdd(a) /\ a.LogIndex < ia /\ ~Gone(R, a.HtlcIndex, ir)
    BY <1>3 DEF LiveOn
  <2>2. a.LogIndex < ja
    BY <2>1 DEF Recs
  <2>3. a \in B
    <3>. SUFFICES ASSUME a \notin B PROVE FALSE
      OBVIOUS
    <3>1. Spent(a, p, R, d)
      BY <2>1, <2>2 DEF Prunes
    <3>2. PICK r \in R : IsRmv(r) /\ r.HtlcIndex = a.HtlcIndex /\ r.LogIndex < ir
      BY <2>1, <3>1 DEF Spent, IsAdd, IsRmv
    <3>. QED  BY <2>1, <3>2 DEF Gone
  <2>. QED  BY <2>1, <2>3 DEF LiveOn, Gone
<1>4. LiveOn(B, S, ia, ir) = LiveOn(A, R, ia, ir)
  BY <1>2, <1>3
<1>. QED  BY <1>1, <1>4 DEF Covers

\* Only updates on the peer's oldest commitment are spent.
LEMMA SpentOnRemote ==
    ASSUME NEW A, NEW R, NEW d, NEW p, NEW x \in A, Spent(x, p, R, d), NEW ih, NEW outs,
           Covers(A, R, d.remote.indices[p], d.remote.indices[CounterParty(p)], ih, outs)
    PROVE  x.LogIndex < d.remote.indices[p]
<1>1. d.remote \in Commits(d)
  BY DEF Commits
<1>2. CASE IsAdd(x) /\ \E r \in R : /\ IsRmv(r) /\ r.HtlcIndex = x.HtlcIndex
                                    /\ \A c \in Commits(d) : r.LogIndex < c.indices[CounterParty(p)]
  <2>1. PICK r \in R : IsRmv(r) /\ r.HtlcIndex = x.HtlcIndex
                        /\ r.LogIndex < d.remote.indices[CounterParty(p)]
    BY <1>1, <1>2
  <2>. QED  BY <1>2, <2>1 DEF Covers
<1>. QED  BY <1>1, <1>2 DEF Spent

\* What is written from the peer's oldest commitment on is not left out.
LEMMA PrunedWritten ==
    ASSUME NEW A \in SUBSET Recs, NEW R, NEW B, NEW S, NEW ja \in Nat, NEW jr, NEW jh, NEW p, NEW d,
           Prunes(A, R, B, S, ja, jr, jh, p, d),
           \A x \in A : Spent(x, p, R, d) => x.LogIndex < d.remote.indices[p],
           d.remote.indices[p] \in Nat, NEW b \in Nat, b <= ja
    PROVE  Written(B, d.remote.indices[p], b) = Written(A, d.remote.indices[p], b)
<1>1. \A x \in A : x.LogIndex \in Nat
  BY DEF Recs
<1>2. B \subseteq A /\ \A x \in A \ B : x.LogIndex < ja => x.LogIndex < d.remote.indices[p]
  BY DEF Prunes
<1>3. {y \in B : d.remote.indices[p] <= y.LogIndex /\ y.LogIndex < b}
        = {y \in A : d.remote.indices[p] <= y.LogIndex /\ y.LogIndex < b}
  BY <1>1, <1>2
<1>. QED  BY <1>3 DEF Written

\* A book from which only spent entries were dropped is still a book of the
\* same disk (CompactLogs, and the entries a restart does not load).
LEMMA BookPruned ==
    ASSUME NEW d \in Disks, NEW K \in Books, NEW ix \in Pairs, NEW hc \in Pairs,
           Book(K, ix, hc, d), NEW L \in Books, NEW jx \in Pairs, NEW jc \in Pairs,
           Prunes(K.Local, K.Remote, L.Local, L.Remote, jx.Local, jx.Remote, jc.Local, "Local", d),
           Prunes(K.Remote, K.Local, L.Remote, L.Local, jx.Remote, jx.Local, jc.Remote, "Remote", d),
           \A c \in Commits(d) : /\ c.indices.Local <= jx.Local /\ c.htlcIndex.Local <= jc.Local
                                 /\ c.indices.Remote <= jx.Remote /\ c.htlcIndex.Remote <= jc.Remote,
           jx.Local <= ix.Local, jc.Local <= hc.Local, jc.Remote <= hc.Remote,
           \A x \in K.Local \ L.Local : ~IsAdd(x) /\ ~IsRmv(x) => ToLogUpdate(x) \notin Range(d.remoteUnsigned)
    PROVE  Book(L, jx, jc, d)
<1>1. /\ K.Local \in SUBSET Recs /\ K.Remote \in SUBSET Recs
      /\ L.Local \in SUBSET Recs /\ L.Remote \in SUBSET Recs
      /\ ix.Local \in Nat /\ ix.Remote \in Nat /\ hc.Local \in Nat /\ hc.Remote \in Nat
      /\ jx.Local \in Nat /\ jx.Remote \in Nat /\ jc.Local \in Nat /\ jc.Remote \in Nat
  BY DEF Books, Pairs
<1>2. d.local \in Commits(d) /\ d.remote \in Commits(d) /\ TipOf(d) \in Commits(d)
  BY DEF Commits
<1>3. /\ Ordered(K.Local, ix.Local, hc.Local) /\ Ordered(K.Remote, ix.Remote, hc.Remote)
      /\ Matched(K.Local, K.Remote) /\ Matched(K.Remote, K.Local)
      /\ \A c \in Commits(d) : Booked(K, ix, hc, c) /\ Total(c) = Capacity
      /\ Staged(d) /\ Kept(K, d) /\ Complete(K, ix, hc, d)
  BY BookUse
<1>4. \A c \in Commits(d) :
         /\ c.indices.Local <= jx.Local /\ c.indices.Remote <= jx.Remote
         /\ c.htlcIndex.Local <= jc.Local /\ c.htlcIndex.Remote <= jc.Remote
         /\ c.indices.Local \in Nat /\ c.indices.Remote \in Nat
         /\ c.htlcIndex.Local \in Nat /\ c.htlcIndex.Remote \in Nat
         /\ Covers(K.Local, K.Remote, c.indices.Local, c.indices.Remote,
                   c.htlcIndex.Local, c.outputs.Local)
         /\ Covers(K.Remote, K.Local, c.indices.Remote, c.indices.Local,
                   c.htlcIndex.Remote, c.outputs.Remote)
         /\ c.height = 0 => c.indices.Local = 0 /\ c.indices.Remote = 0
  BY BookFacts
<1>5. /\ d.diff # NoDiff => TipOf(d) = d.diff.commit
      /\ \A c : /\ c.indices["Local"] = c.indices.Local /\ c.indices["Remote"] = c.indices.Remote
                /\ c.indices[CounterParty("Local")] = c.indices.Remote
                /\ c.indices[CounterParty("Remote")] = c.indices.Local
  BY Parties DEF TipOf
<1>6. L.Local \subseteq K.Local /\ L.Remote \subseteq K.Remote
  BY DEF Prunes
<1>7. /\ Ordered(L.Local, jx.Local, jc.Local) /\ Matched(L.Local, L.Remote)
      /\ Ordered(L.Remote, jx.Remote, jc.Remote) /\ Matched(L.Remote, L.Local)
  BY <1>3, <1>6, PrunedOrder
<1>8. ASSUME NEW c \in Commits(d) PROVE Booked(L, jx, jc, c)
  <2>. DEFINE A == K.Local
              R == K.Remote
              B == L.Local
              S == L.Remote
              ja == jx.Local
              jr == jx.Remote
              jh == jc.Local
              jk == jc.Remote
              ia == c.indices.Local
              ir == c.indices.Remote
  <2>1. /\ A \in SUBSET Recs /\ R \in SUBSET Recs /\ B \subseteq A /\ S \subseteq R
        /\ ja \in Nat /\ jr \in Nat /\ Prunes(A, R, B, S, ja, jr, jh, "Local", d)
        /\ Prunes(R, A, S, B, jr, ja, jk, "Remote", d)
        /\ ia \in Nat /\ ir \in Nat /\ ia = c.indices["Local"] /\ ir = c.indices[CounterParty("Local")]
        /\ ir = c.indices["Remote"] /\ ia = c.indices[CounterParty("Remote")]
        /\ ia <= ja /\ ir <= jr /\ Covers(A, R, ia, ir, c.htlcIndex.Local, c.outputs.Local)
        /\ Covers(R, A, ir, ia, c.htlcIndex.Remote, c.outputs.Remote)
    BY <1>1, <1>4, <1>5, <1>6
  <2>. HIDE DEF A, R, B, S, ja, jr, jh, jk, ia, ir
  <2>2. Covers(B, S, ia, ir, c.htlcIndex.Local, c.outputs.Local)
    <3>. DEFINE p == "Local"
                ih == c.htlcIndex.Local
                outs == c.outputs.Local
    <3>1. /\ A \in SUBSET Recs /\ R \in SUBSET Recs /\ S \subseteq R
          /\ ja \in Nat /\ jr \in Nat /\ Prunes(A, R, B, S, ja, jr, jh, p, d)
          /\ ia \in Nat /\ ir \in Nat /\ ia = c.indices[p] /\ ir = c.indices[CounterParty(p)]
          /\ ia <= ja /\ ir <= jr /\ Covers(A, R, ia, ir, ih, outs)
      BY ONLY <2>1
    <3>. HIDE DEF p, ih, outs
    <3>2. Covers(B, S, ia, ir, ih, outs)
      BY ONLY <3>1, PrunedCovers, c \in Commits(d), SMTT(30)
    <3>. QED  BY ONLY <3>2 DEF ih, outs
  <2>3. Covers(S, B, ir, ia, c.htlcIndex.Remote, c.outputs.Remote)
    <3>. DEFINE p == "Remote"
                ih == c.htlcIndex.Remote
                outs == c.outputs.Remote
    <3>1. /\ R \in SUBSET Recs /\ A \in SUBSET Recs /\ B \subseteq A
          /\ jr \in Nat /\ ja \in Nat /\ Prunes(R, A, S, B, jr, ja, jk, p, d)
          /\ ir \in Nat /\ ia \in Nat /\ ir = c.indices[p] /\ ia = c.indices[CounterParty(p)]
          /\ ir <= jr /\ ia <= ja /\ Covers(R, A, ir, ia, ih, outs)
      BY ONLY <2>1
    <3>. HIDE DEF p, ih, outs
    <3>2. Covers(S, B, ir, ia, ih, outs)
      BY ONLY <3>1, PrunedCovers, c \in Commits(d), SMTT(30)
    <3>. QED  BY ONLY <3>2 DEF ih, outs
  <2>4. /\ Covers(L.Local, L.Remote, c.indices.Local, c.indices.Remote, c.htlcIndex.Local, c.outputs.Local)
        /\ Covers(L.Remote, L.Local, c.indices.Remote, c.indices.Local, c.htlcIndex.Remote, c.outputs.Remote)
    BY ONLY <2>2, <2>3 DEF B, S, ia, ir
  <2>. QED  BY ONLY <1>4, <2>4, BookedMake, c \in Commits(d)
<1>9. /\ \A x \in K.Local : Spent(x, "Local", K.Remote, d) => x.LogIndex < d.remote.indices.Local
      /\ \A x \in K.Remote : Spent(x, "Remote", K.Local, d) => x.LogIndex < d.remote.indices.Remote
  BY ONLY <1>2, <1>4, <1>5, SpentOnRemote
<1>10. /\ \A b \in Nat : b <= jx.Local =>
             Written(L.Local, d.remote.indices.Local, b) = Written(K.Local, d.remote.indices.Local, b)
       /\ \A b \in Nat : b <= jx.Remote =>
             Written(L.Remote, d.remote.indices.Remote, b) = Written(K.Remote, d.remote.indices.Remote, b)
  BY <1>1, <1>2, <1>4, <1>5, <1>9, PrunedWritten
<1>11. /\ d.diff # NoDiff => Written(L.Local, d.remote.indices.Local, d.diff.commit.indices.Local)
             = Written(K.Local, d.remote.indices.Local, d.diff.commit.indices.Local)
       /\ Written(L.Remote, d.remote.indices.Remote, d.local.indices.Remote)
             = Written(K.Remote, d.remote.indices.Remote, d.local.indices.Remote)
  BY ONLY <1>2, <1>4, <1>5, <1>10
<1>12. Range(d.remoteUnsigned) \subseteq Written(L.Local, d.local.indices.Local, d.remote.indices.Local)
  <2>1. /\ Range(d.remoteUnsigned) \subseteq Written(K.Local, d.local.indices.Local, d.remote.indices.Local)
        /\ \A u \in Range(d.remoteUnsigned) : ~IsAdd(u)
    BY <1>3 DEF Kept
  <2>2. \A x \in K.Local : /\ IsAdd(ToLogUpdate(x)) <=> IsAdd(x)
                           /\ x.LogIndex \in Nat
    BY <1>1, LogUpdateFacts DEF Recs
  <2>3. ASSUME NEW x \in K.Local, ToLogUpdate(x) \in Range(d.remoteUnsigned), x \notin L.Local,
               d.local.indices.Local <= x.LogIndex, x.LogIndex < d.remote.indices.Local
        PROVE  FALSE
    <3>1. ~IsAdd(x) /\ x.LogIndex < jx.Local /\ x.LogIndex \in Nat
          /\ d.local.indices.Local \in Nat /\ d.local.indices["Local"] = d.local.indices.Local
      BY <1>1, <1>2, <1>4, <2>1, <2>2, <2>3
    <3>2. Spent(x, "Local", K.Remote, d)
      BY <2>3, <3>1 DEF Prunes
    <3>3. IsRmv(x)
      BY <2>3, <3>1
    <3>4. x.LogIndex < d.local.indices["Local"]
      BY <1>2, <3>1, <3>2, <3>3 DEF Spent
    <3>. QED  BY <2>3, <3>1, <3>4
  <2>. QED  BY ONLY <2>1, <2>3 DEF Written
<1>13. Kept(L, d)
  <2>1. \A a, b : Written(L.Local, a, b) \subseteq Written(K.Local, a, b)
    BY <1>6 DEF Written
  <2>. QED  BY <1>3, <1>6, <1>11, <1>12, <2>1 DEF Kept
<1>14. Complete(L, jx, jc, d)
  <2>1. /\ \A i \in d.remote.indices.Local..(ix.Local - 1) : \E x \in K.Local : x.LogIndex = i
        /\ \A h \in d.remote.htlcIndex.Local..(hc.Local - 1) :
                 \E x \in K.Local : IsAdd(x) /\ x.HtlcIndex = h
        /\ \A h \in d.remote.htlcIndex.Remote..(hc.Remote - 1) :
                 \E x \in K.Remote : IsAdd(x) /\ x.HtlcIndex = h
    BY <1>3, CompleteUse
  <2>2. /\ d.remote.indices.Local \in Nat /\ d.remote.htlcIndex.Local \in Nat
        /\ d.remote.indices.Remote \in Nat /\ d.remote.htlcIndex.Remote \in Nat
    BY <1>2, <1>4
  <2>3. /\ \A x \in K.Local : x.LogIndex < jx.Local /\ x \notin L.Local => x.LogIndex < d.remote.indices.Local
        /\ \A x \in K.Remote : x.LogIndex < jx.Remote /\ x \notin L.Remote => x.LogIndex < d.remote.indices.Remote
    BY <1>9 DEF Prunes
  <2>4. /\ \A x \in K.Local : IsAdd(x) => (x.LogIndex < d.remote.indices.Local <=> x.HtlcIndex < d.remote.htlcIndex.Local)
        /\ \A x \in K.Remote : IsAdd(x) => (x.LogIndex < d.remote.indices.Remote <=> x.HtlcIndex < d.remote.htlcIndex.Remote)
    BY <1>2, <1>4 DEF Covers
  <2>5. /\ \A x \in K.Local : IsAdd(x) => (x.LogIndex < jx.Local <=> x.HtlcIndex < jc.Local)
        /\ \A x \in K.Remote : IsAdd(x) => (x.LogIndex < jx.Remote <=> x.HtlcIndex < jc.Remote)
    BY DEF Prunes
  <2>6. ASSUME NEW i \in d.remote.indices.Local..(jx.Local - 1) PROVE \E x \in L.Local : x.LogIndex = i
    <3>1. i \in d.remote.indices.Local..(ix.Local - 1) /\ i < jx.Local /\ ~(i < d.remote.indices.Local)
      BY <1>1, <2>2
    <3>2. PICK x \in K.Local : x.LogIndex = i
      BY ONLY <2>1, <3>1
    <3>. QED  BY ONLY <2>3, <3>1, <3>2
  <2>7. ASSUME NEW h \in d.remote.htlcIndex.Local..(jc.Local - 1)
        PROVE  \E x \in L.Local : IsAdd(x) /\ x.HtlcIndex = h
    <3>1. h \in d.remote.htlcIndex.Local..(hc.Local - 1) /\ h < jc.Local /\ ~(h < d.remote.htlcIndex.Local)
      BY <1>1, <2>2
    <3>2. PICK x \in K.Local : IsAdd(x) /\ x.HtlcIndex = h
      BY ONLY <2>1, <3>1
    <3>. QED  BY ONLY <2>3, <2>4, <2>5, <3>1, <3>2
  <2>8. ASSUME NEW h \in d.remote.htlcIndex.Remote..(jc.Remote - 1)
        PROVE  \E x \in L.Remote : IsAdd(x) /\ x.HtlcIndex = h
    <3>1. h \in d.remote.htlcIndex.Remote..(hc.Remote - 1) /\ h < jc.Remote /\ ~(h < d.remote.htlcIndex.Remote)
      BY <1>1, <2>2
    <3>2. PICK x \in K.Remote : IsAdd(x) /\ x.HtlcIndex = h
      BY ONLY <2>1, <3>1
    <3>. QED  BY ONLY <2>3, <2>4, <2>5, <3>1, <3>2
  <2>. QED  BY ONLY <2>6, <2>7, <2>8, CompleteMake
<1>. QED  BY ONLY <1>3, <1>7, <1>8, <1>13, <1>14, BookMake

-----------------------------------------------------------------------------
(* No commitment creates or loses money. *)

\* The updates of S from index t on, and the removals in A from t to below up.
Since(S, t) == {x \in S : ~(x.LogIndex < t)}
RemovedOn(A, up, t) == {r \in A : IsRmv(r) /\ r.LogIndex < up /\ ~(r.LogIndex < t)}

\* What it takes to compare the HTLCs of two commitments, with indices ta, tr
\* and ca, cr.
Follows(A, R, ta, tr, ca, cr) ==
    /\ A \in SUBSET Recs /\ R \in SUBSET Recs /\ IsFiniteSet(A) /\ IsFiniteSet(R)
    /\ \E ix, hc : Ordered(A, ix, hc)
    /\ Matched(A, R)
    /\ ta \in Nat /\ tr \in Nat /\ ca \in Nat /\ cr \in Nat /\ ta <= ca /\ tr <= cr
    /\ \A r \in R : IsRmv(r) /\ r.LogIndex < cr =>
          \E a \in A : IsAdd(a) /\ a.HtlcIndex = r.HtlcIndex /\ a.LogIndex < ta

\* HTLCs and their removals weigh the same: what is on the new commitment and
\* what was removed since the old one is what was on it and what was added.
LEMMA AddedAndRemoved ==
    ASSUME NEW A, NEW R, NEW ta, NEW tr, NEW ca, NEW cr, Follows(A, R, ta, tr, ca, cr)
    PROVE  /\ Amount(LiveOn(A, R, ca, cr)) + Amount(RemovedOn(R, cr, tr))
                = Amount(LiveOn(A, R, ta, tr)) + Amount(Since(LiveOn(A, R, ca, cr), ta))
           /\ Amount(LiveOn(A, R, ca, cr)) \in Nat /\ Amount(LiveOn(A, R, ta, tr)) \in Nat
           /\ Amount(RemovedOn(R, cr, tr)) \in Nat /\ Amount(Since(LiveOn(A, R, ca, cr), ta)) \in Nat
<1>0. /\ A \in SUBSET Recs /\ R \in SUBSET Recs /\ IsFiniteSet(A) /\ IsFiniteSet(R)
      /\ Matched(A, R)
      /\ ta \in Nat /\ tr \in Nat /\ ca \in Nat /\ cr \in Nat /\ ta <= ca /\ tr <= cr
      /\ \A r \in R : IsRmv(r) /\ r.LogIndex < cr =>
          \E a \in A : IsAdd(a) /\ a.HtlcIndex = r.HtlcIndex /\ a.LogIndex < ta
  BY DEF Follows
<1>00. PICK ix, hc : Ordered(A, ix, hc)
  BY DEF Follows
<1>. USE <1>0, <1>00
<1>. DEFINE N == LiveOn(A, R, ca, cr)
            O == LiveOn(A, R, ta, tr)
<1>. DEFINE G == {r \in R : IsRmv(r) /\ r.LogIndex < cr /\ ~(r.LogIndex < tr)}
            X == {a \in N : ~(a.LogIndex < ta)}
            Y == {a \in O : Gone(R, a.HtlcIndex, cr)}
            Z == O \ Y
            Parent(r) == CHOOSE a \in A : IsAdd(a) /\ a.HtlcIndex = r.HtlcIndex
            f == [r \in G |-> Parent(r)]
<1>1. \A x \in A \cup R : x.LogIndex \in Nat /\ x.Amount \in Nat
  BY DEF Recs
<1>2. /\ IsFiniteSet(G) /\ Amounts(G) /\ IsFiniteSet(N) /\ Amounts(N) /\ IsFiniteSet(O) /\ Amounts(O)
      /\ IsFiniteSet(X) /\ Amounts(X) /\ IsFiniteSet(Y) /\ Amounts(Y) /\ IsFiniteSet(Z) /\ Amounts(Z)
  <2>1. /\ G \in SUBSET R /\ N \in SUBSET A /\ O \in SUBSET A /\ X \in SUBSET A /\ Y \in SUBSET A
        /\ Z \in SUBSET A
    BY DEF LiveOn
  <2>. HIDE DEF G, X, Y, Z
  <2>. QED  BY <1>1, <2>1, FS_Subset DEF Amounts
<1>3. ASSUME NEW r \in G
      PROVE  /\ f[r] = Parent(r) /\ f[r] \in Y /\ f[r].HtlcIndex = r.HtlcIndex
             /\ f[r].Amount = r.Amount
  <2>1. r \in R /\ IsRmv(r) /\ r.LogIndex < cr /\ ~(r.LogIndex < tr)
    OBVIOUS
  <2>2. PICK a \in A : IsAdd(a) /\ a.HtlcIndex = r.HtlcIndex /\ a.LogIndex < ta
    BY <2>1
  <2>3. PICK b \in A : IsAdd(b) /\ b.HtlcIndex = r.HtlcIndex /\ b.Amount = r.Amount
    BY <2>1 DEF Matched
  <2>4. Parent(r) \in A /\ IsAdd(Parent(r)) /\ Parent(r).HtlcIndex = r.HtlcIndex
    BY <2>2
  <2>5. a = Parent(r) /\ b = Parent(r)
    BY <2>2, <2>3, <2>4, OneAdd
  <2>6. ~Gone(R, a.HtlcIndex, tr)
    BY <2>1, <2>2 DEF Gone, Matched
  <2>7. Gone(R, a.HtlcIndex, cr)
    BY <2>1, <2>2 DEF Gone
  <2>8. a \in Y
    BY <2>2, <2>6, <2>7 DEF LiveOn
  <2>. QED  BY <2>2, <2>3, <2>5, <2>8
<1>4. ASSUME NEW a \in Y PROVE \E r \in G : f[r] = a
  <2>1. a \in A /\ IsAdd(a) /\ ~Gone(R, a.HtlcIndex, tr) /\ Gone(R, a.HtlcIndex, cr)
    BY DEF LiveOn
  <2>2. PICK r \in R : IsRmv(r) /\ r.HtlcIndex = a.HtlcIndex /\ r.LogIndex < cr
    BY <2>1 DEF Gone
  <2>3. r \in G
    BY <2>1, <2>2 DEF Gone
  <2>4. f[r] \in A /\ IsAdd(f[r]) /\ f[r].HtlcIndex = a.HtlcIndex
    BY <1>3, <2>2, <2>3 DEF LiveOn
  <2>. HIDE DEF f
  <2>. QED  BY <2>1, <2>3, <2>4, OneAdd
<1>5. \A r, s \in G : f[r] = f[s] => r = s
  <2>1. \A r, s \in G : r.HtlcIndex = s.HtlcIndex => r = s
    BY DEF Matched
  <2>. QED  BY <1>3, <2>1
<1>6. Amount(Y) = Amount(G)
  <2>1. f \in [G -> Y]
    BY <1>3
  <2>2. \A x \in G : f[x].Amount = x.Amount
    BY <1>3
  <2>. HIDE DEF f, Y, G
  <2>. QED  BY <1>2, <1>4, <1>5, <2>1, <2>2, AmountPaired
<1>7. /\ N = Z \cup X /\ Z \cap X = {} /\ O = Z \cup Y /\ Z \cap Y = {}
  <2>1. \A a \in A : a.LogIndex < ta => a.LogIndex < ca
    BY <1>1
  <2>2. \A h : Gone(R, h, tr) => Gone(R, h, cr)
    BY <1>1 DEF Gone
  <2>3. \A a : a \in N <=> a \in A /\ IsAdd(a) /\ a.LogIndex < ca /\ ~Gone(R, a.HtlcIndex, cr)
    BY DEF LiveOn
  <2>4. \A a : a \in O <=> a \in A /\ IsAdd(a) /\ a.LogIndex < ta /\ ~Gone(R, a.HtlcIndex, tr)
    BY DEF LiveOn
  <2>5. \A a : a \in X <=> a \in N /\ ~(a.LogIndex < ta)
    OBVIOUS
  <2>. QED  BY <2>1, <2>2, <2>3, <2>4, <2>5
<1>. HIDE DEF G, X, Y, Z
<1>8. Amount(N) = Amount(Z) + Amount(X) /\ Amount(O) = Amount(Z) + Amount(Y)
  BY <1>2, <1>7, AmountUnion
<1>9. /\ Amount(N) \in Nat /\ Amount(O) \in Nat /\ Amount(X) \in Nat /\ Amount(Y) \in Nat
      /\ Amount(Z) \in Nat /\ Amount(G) \in Nat
  BY <1>2, AmountFacts
<1>10. G = RemovedOn(R, cr, tr) /\ X = Since(N, ta)
  BY DEF G, X, RemovedOn, Since
<1>. QED  BY <1>6, <1>8, <1>9, <1>10

\* Outputs weigh what their HTLCs do.
LEMMA AmountOfOutputs ==
    ASSUME NEW S \in SUBSET Recs, IsFiniteSet(S), \A x, y \in S : x.LogIndex = y.LogIndex => x = y
    PROVE  /\ Amount({OutputOf(a) : a \in S}) = Amount(S) /\ Amount(S) \in Nat
           /\ IsFiniteSet({OutputOf(a) : a \in S})
           /\ {OutputOf(a) : a \in S} \in SUBSET Outs
<1>. DEFINE f == [a \in S |-> OutputOf(a)]
            T == {OutputOf(a) : a \in S}
<1>1. Amounts(S)
  BY DEF Amounts, Recs
<1>2. /\ f \in [S -> T] /\ \A x, y \in S : f[x] = f[y] => x = y
      /\ \A y \in T : \E x \in S : f[x] = y
      /\ \A x \in S : f[x].Amount = x.Amount
  BY DEF OutputOf
<1>3. T \in SUBSET Outs
  BY DEF OutputOf, Outs, Recs
<1>. HIDE DEF f, T
<1>4. IsFiniteSet(T) /\ Amount(T) = Amount(S) /\ Amount(S) \in Nat
  BY <1>1, <1>2, AmountPaired, AmountFacts
<1>. QED  BY <1>3, <1>4 DEF T

\* So do entries of a log and their cores.
LEMMA AmountOfCores ==
    ASSUME NEW S \in SUBSET Entries, IsFiniteSet(S), \A x, y \in S : x.LogIndex = y.LogIndex => x = y
    PROVE  /\ Amount({Core(e) : e \in S}) = Amount(S) /\ Amount(S) \in Nat
           /\ {Core(e) : e \in S} \in SUBSET Recs
<1>. DEFINE f == [e \in S |-> Core(e)]
            T == {Core(e) : e \in S}
<1>1. Amounts(S)
  BY DEF Amounts, Entries
<1>2. /\ f \in [S -> T] /\ \A x, y \in S : f[x] = f[y] => x = y
      /\ \A y \in T : \E x \in S : f[x] = y
      /\ \A x \in S : f[x].Amount = x.Amount
  BY DEF Core
<1>3. T \in SUBSET Recs
  BY DEF Core, Recs, Entries
<1>. HIDE DEF f, T
<1>4. IsFiniteSet(T) /\ Amount(T) = Amount(S) /\ Amount(S) \in Nat
  BY <1>1, <1>2, AmountPaired, AmountFacts
<1>. QED  BY <1>3, <1>4 DEF T

-----------------------------------------------------------------------------
(* The lists of the update logs. *)

\* What is picked from a sequence, in order.
LEMMA Picked ==
    ASSUME NEW S, NEW s \in Seq(S), NEW I \in SUBSET (DOMAIN s), NEW t, t = SubsequenceAt(s, I)
    PROVE  /\ t \in Seq(S) /\ Range(t) = {s[i] : i \in I}
           /\ \A j, k \in DOMAIN t : j < k => \E i, l \in I : i < l /\ t[j] = s[i] /\ t[k] = s[l]
           /\ \A k \in DOMAIN t : \E i \in I : t[k] = s[i]
<1>1. /\ t \in Seq(S) /\ Len(t) = Cardinality(I) /\ DOMAIN t = 1..Cardinality(I) /\ Cardinality(I) \in Nat
      /\ \A k \in DOMAIN t : PlaceAt(I, k) \in I /\ t[k] = s[PlaceAt(I, k)]
      /\ \A i \in I : Rank(I, i) \in DOMAIN t /\ t[Rank(I, i)] = s[i]
  BY SubsequenceFacts
<1>2. Range(t) = {s[i] : i \in I}
  BY <1>1 DEF Range
<1>3. ASSUME NEW j \in DOMAIN t, NEW k \in DOMAIN t, j < k
      PROVE  PlaceAt(I, j) < PlaceAt(I, k)
  <2>1. Len(s) \in Nat /\ I \in SUBSET (1..Len(s))
    OBVIOUS
  <2>. DEFINE pj == PlaceAt(I, j)
              pk == PlaceAt(I, k)
  <2>2. pj \in I /\ Rank(I, pj) = j /\ pk \in I /\ Rank(I, pk) = k
    BY <1>1, <2>1, PlaceFacts
  <2>3. pk < pj => Rank(I, pk) < Rank(I, pj)
    BY <2>1, <2>2, RankType
  <2>4. j \in Nat /\ k \in Nat /\ pj \in Nat /\ pk \in Nat
    BY <1>1, <2>1, <2>2
  <2>. HIDE DEF pj, pk
  <2>5. pj < pk
    BY <1>3, <2>2, <2>3, <2>4
  <2>. QED  BY <2>5 DEF pj, pk
<1>4. \A j, k \in DOMAIN t : j < k => \E i, l \in I : i < l /\ t[j] = s[i] /\ t[k] = s[l]
  BY <1>1, <1>3
<1>5. \A k \in DOMAIN t : \E i \in I : t[k] = s[i]
  BY <1>1
<1>. QED  BY <1>1, <1>2, <1>4, <1>5

\* The elements of a sequence are finitely many.
LEMMA FiniteRange ==
    ASSUME NEW S, NEW s \in Seq(S)
    PROVE  IsFiniteSet(Range(s)) /\ Range(s) \in SUBSET S
<1>1. IsFiniteSet(DOMAIN s)
  <2>1. DOMAIN s = 1..Len(s) /\ Len(s) \in Nat
    OBVIOUS
  <2>. QED  BY <2>1, FS_Interval
<1>2. s \in Surjection(DOMAIN s, Range(s))
  BY DEF Surjection, Range
<1>. QED  BY <1>1, <1>2, FS_Surjection DEF ExistsSurjection, Range

\* The entries of a list are finitely many.
LEMMA ListFacts ==
    ASSUME NEW list \in Seq(Entries)
    PROVE  /\ IsFiniteSet(Range(list)) /\ Range(list) \in SUBSET Entries
           /\ Cores(list) = {Core(e) : e \in Range(list)}
           /\ Cores(list) \in SUBSET Recs /\ IsFiniteSet(Cores(list))
           /\ Distinct(list) => \A x, y \in Range(list) : x.LogIndex = y.LogIndex => x = y
<1>3. IsFiniteSet(Range(list)) /\ Range(list) \in SUBSET Entries
  BY FiniteRange
<1>4. Cores(list) = {Core(e) : e \in Range(list)}
  BY DEF Cores, Range
<1>5. Cores(list) \in SUBSET Recs
  BY <1>3, <1>4 DEF Core, Entries, Recs
<1>6. IsFiniteSet(Cores(list))
  <2>. DEFINE g == [i \in DOMAIN list |-> Core(list[i])]
  <2>1. g \in Seq(Recs) /\ Range(g) = Cores(list)
    BY <1>5 DEF Cores, Range
  <2>. QED  BY <2>1, FiniteRange
<1>7. Distinct(list) => \A x, y \in Range(list) : x.LogIndex = y.LogIndex => x = y
  BY DEF Distinct, Range
<1>. QED  BY <1>3, <1>4, <1>5, <1>6, <1>7

\* An entry and its core.
LEMMA CoreFacts ==
    ASSUME NEW e \in Entries
    PROVE  /\ Core(e) \in Recs /\ Core(e).EntryType = e.EntryType /\ Core(e).LogIndex = e.LogIndex
           /\ Core(e).HtlcIndex = e.HtlcIndex /\ Core(e).Amount = e.Amount
           /\ IsAdd(Core(e)) <=> IsAdd(e)
           /\ IsRmv(Core(e)) <=> IsRmv(e)
           /\ OutputOf(Core(e)) = OutputOf(e) /\ ToLogUpdate(Core(e)) = ToLogUpdate(e)
BY DEF Core, Entries, Recs, IsAdd, IsRmv, OutputOf, ToLogUpdate

\* The entries below an index, the removals and the HTLCs left among them, and
\* those that are new to the chain w.
Below(list, up) == {e \in Range(list) : e.LogIndex < up}
RmvsIn(E) == {e \in E : e.EntryType \in {"Settle", "Fail"}}
LiveIn(E, F) == {e \in E : e.EntryType = "Add" /\ \A r \in RmvsIn(F) : r.HtlcIndex # e.HtlcIndex}
NewAdds(S, w) == {e \in S : e.add[w] = 0}
NewRmvs(S, type, w) == {e \in S : e.EntryType = type /\ e.rmv[w] = 0}

\* The lists of a party and of its peer, their indices, and the index up to
\* which the entries of the party are on the chain w.
Viewed(list, other, up, uo, t, w) ==
    /\ list \in Seq(Entries) /\ Distinct(list) /\ other \in Seq(Entries)
    /\ up \in Nat /\ uo \in Nat /\ t \in Nat /\ w \in Party
    /\ \A e \in Range(list) : At(e)[w] = 0 <=> ~(e.LogIndex < t)
OutputsOf(S) == {OutputOf(a) : a \in S}

\* What the updates of one party weigh in a view.
LEMMA ViewSide ==
    ASSUME NEW list, NEW other, NEW up, NEW uo, NEW t, NEW w, Viewed(list, other, up, uo, t, w),
           NEW live, live = LiveIn(Below(list, up), Below(other, uo))
    PROVE  /\ IsFiniteSet(live) /\ live \in SUBSET Entries
           /\ OutputsOf(live) = OutputsOf(LiveOn(Cores(list), Cores(other), up, uo))
           /\ Amount(NewAdds(live, w)) = Amount(Since(LiveOn(Cores(list), Cores(other), up, uo), t))
           /\ Amount(NewAdds(live, w)) \in Nat
           /\ Amount(NewRmvs(RmvsIn(Below(list, up)), "Settle", w))
                + Amount(NewRmvs(RmvsIn(Below(list, up)), "Fail", w))
                = Amount(RemovedOn(Cores(list), up, t))
           /\ Amount(NewRmvs(RmvsIn(Below(list, up)), "Settle", w)) \in Nat
           /\ Amount(NewRmvs(RmvsIn(Below(list, up)), "Fail", w)) \in Nat
<1>. DEFINE E == Below(list, up)
            F == Below(other, uo)
            on == LiveOn(Cores(list), Cores(other), up, uo)
            rs == RmvsIn(E)
<1>00. /\ list \in Seq(Entries) /\ Distinct(list) /\ other \in Seq(Entries)
       /\ up \in Nat /\ uo \in Nat /\ t \in Nat /\ w \in Party
       /\ \A e \in Range(list) : At(e)[w] = 0 <=> ~(e.LogIndex < t)
       /\ E = Below(list, up) /\ F = Below(other, uo) /\ live = LiveIn(E, F)
       /\ on = LiveOn(Cores(list), Cores(other), up, uo) /\ rs = RmvsIn(E)
  BY DEF Viewed
<1>. HIDE DEF E, F, on, rs
<1>. USE <1>00
<1>0. /\ E = {e \in Range(list) : e.LogIndex < up} /\ F = {e \in Range(other) : e.LogIndex < uo}
      /\ live = {e \in E : e.EntryType = "Add" /\
              \A r \in {x \in F : x.EntryType \in {"Settle", "Fail"}} : r.HtlcIndex # e.HtlcIndex}
      /\ rs = {e \in E : e.EntryType \in {"Settle", "Fail"}}
  BY DEF Below, LiveIn, RmvsIn
<1>1. /\ IsFiniteSet(Range(list)) /\ Range(list) \in SUBSET Entries
      /\ Cores(list) = {Core(e) : e \in Range(list)} /\ Cores(other) = {Core(e) : e \in Range(other)}
      /\ Range(other) \in SUBSET Entries
      /\ \A x, y \in Range(list) : x.LogIndex = y.LogIndex => x = y
  BY ListFacts
<1>2. \A e \in Range(list) \cup Range(other) :
            /\ Core(e).EntryType = e.EntryType
            /\ Core(e).LogIndex = e.LogIndex /\ Core(e).HtlcIndex = e.HtlcIndex
            /\ IsAdd(Core(e)) <=> IsAdd(e)
            /\ IsRmv(Core(e)) <=> IsRmv(e)
            /\ OutputOf(Core(e)) = OutputOf(e)
  BY <1>1, CoreFacts
<1>. DEFINE X == {e \in live : e.add[w] = 0}
            S == {e \in rs : e.EntryType = "Settle" /\ e.rmv[w] = 0}
            T == {e \in rs : e.EntryType = "Fail" /\ e.rmv[w] = 0}
            Y == {a \in on : ~(a.LogIndex < t)}
            G == {r \in Cores(list) : IsRmv(r) /\ r.LogIndex < up /\ ~(r.LogIndex < t)}
<1>3. /\ live \in SUBSET Range(list) /\ X \in SUBSET Range(list) /\ S \in SUBSET Range(list)
      /\ T \in SUBSET Range(list) /\ S \cup T \in SUBSET Range(list) /\ S \cap T = {}
  BY <1>0
<1>4. \A U \in SUBSET Range(list) : /\ IsFiniteSet(U) /\ U \in SUBSET Entries /\ Amounts(U)
         /\ Amount({Core(e) : e \in U}) = Amount(U) /\ Amount(U) \in Nat
  <2>. SUFFICES ASSUME NEW U \in SUBSET Range(list)
                PROVE  /\ IsFiniteSet(U) /\ U \in SUBSET Entries /\ Amounts(U)
                       /\ Amount({Core(e) : e \in U}) = Amount(U) /\ Amount(U) \in Nat
    OBVIOUS
  <2>1. IsFiniteSet(U) /\ U \in SUBSET Entries /\ \A x, y \in U : x.LogIndex = y.LogIndex => x = y
    BY <1>1, FS_Subset
  <2>2. Amounts(U)
    BY <2>1 DEF Amounts, Entries
  <2>. QED  BY <2>1, <2>2, AmountOfCores
<1>5. ASSUME NEW e \in Range(list)
      PROVE  e \in live <=> Core(e) \in on
  <2>1. e \in live <=> /\ e.LogIndex < up /\ IsAdd(e)
                       /\ \A r \in Range(other) : r.LogIndex < uo /\ IsRmv(r) => r.HtlcIndex # e.HtlcIndex
    BY <1>0 DEF IsAdd, IsRmv
  <2>2. Gone(Cores(other), e.HtlcIndex, uo) <=>
           \E r \in Range(other) : IsRmv(r) /\ r.HtlcIndex = e.HtlcIndex /\ r.LogIndex < uo
    BY <1>1, <1>2 DEF Gone
  <2>3. Core(e) \in on <=> IsAdd(e) /\ e.LogIndex < up /\ ~Gone(Cores(other), e.HtlcIndex, uo)
    BY <1>1, <1>2 DEF LiveOn
  <2>. QED  BY <2>1, <2>2, <2>3
<1>6. on \subseteq Cores(list)
  BY DEF LiveOn
<1>7. {Core(e) : e \in live} = on
  BY ONLY <1>1, <1>3, <1>5, <1>6
<1>8. {OutputOf(e) : e \in live} = {OutputOf(a) : a \in on}
  <2>1. {OutputOf(a) : a \in {Core(e) : e \in live}} = {OutputOf(e) : e \in live}
    BY ONLY <1>2, <1>3
  <2>. QED  BY <1>7, <2>1
<1>9. {Core(e) : e \in X} = Y
  <2>1. \A e \in live : e.add[w] = 0 <=> ~(e.LogIndex < t)
    <3>1. \A e \in live : IsAdd(e) /\ ~IsRmv(e) /\ e \in Range(list)
      BY <1>0 DEF IsAdd, IsRmv
    <3>. QED  BY <3>1 DEF At
  <2>2. \A e \in live : Core(e).LogIndex = e.LogIndex
    BY <1>2, <1>3
  <2>. QED  BY ONLY <1>7, <2>1, <2>2
<1>10. {Core(e) : e \in S \cup T} = G
  <2>1. \A e \in Range(list) : e \in S \cup T <=> IsRmv(e) /\ e.LogIndex < up /\ ~(e.LogIndex < t)
    <3>1. \A e \in Range(list) : IsRmv(e) => (e.rmv[w] = 0 <=> ~(e.LogIndex < t))
      BY DEF At
    <3>2. \A e \in Range(list) : IsRmv(e) <=> e.EntryType = "Settle" \/ e.EntryType = "Fail"
      BY DEF IsRmv
    <3>. QED  BY <1>0, <3>1, <3>2
  <2>2. \A e \in Range(list) : e \in S \cup T <=> Core(e) \in G
    BY <1>1, <1>2, <2>1
  <2>. HIDE DEF S, T
  <2>. QED  BY <1>1, <1>3, <2>2
<1>11. Amount(S \cup T) = Amount(S) + Amount(T)
  <2>1. /\ IsFiniteSet(S) /\ Amounts(S) /\ IsFiniteSet(T) /\ Amounts(T) /\ S \cap T = {}
    BY <1>3, <1>4
  <2>. HIDE DEF S, T
  <2>. QED  BY <2>1, AmountUnion
<1>12. Amount(live) = Amount(on) /\ Amount(on) \in Nat /\ IsFiniteSet(live) /\ live \in SUBSET Entries
  BY <1>3, <1>4, <1>7
<1>13. Amount(X) = Amount(Y) /\ Amount(X) \in Nat
  <2>. HIDE DEF X, Y
  <2>. QED  BY <1>3, <1>4, <1>9
<1>14. Amount(S \cup T) = Amount(G) /\ Amount(S) \in Nat /\ Amount(T) \in Nat
  <2>. HIDE DEF S, T, G
  <2>. QED  BY <1>3, <1>4, <1>10
<1>15. /\ X = NewAdds(live, w) /\ Y = Since(on, t) /\ G = RemovedOn(Cores(list), up, t)
       /\ S = NewRmvs(rs, "Settle", w) /\ T = NewRmvs(rs, "Fail", w)
  BY DEF NewAdds, Since, RemovedOn, NewRmvs
<1>. HIDE DEF X, Y, G, S, T
<1>. QED  BY ONLY <1>00, <1>8, <1>11, <1>12, <1>13, <1>14, <1>15 DEF E, rs, on, OutputsOf

-----------------------------------------------------------------------------
(* The next commitment of a chain. *)

\* The last of some places.
LEMMA MaxFacts ==
    ASSUME NEW n \in Nat, NEW T \in SUBSET (1..n), T # {}
    PROVE  Max(T) \in T /\ \A k \in T : k <= Max(T)
<1>. DEFINE U == {n - k : k \in T}
<1>1. U \subseteq Nat /\ U # {}
  <2>1. \A k \in T : n - k \in Nat
    OBVIOUS
  <2>. QED  BY <2>1
<1>. HIDE DEF U
<1>2. PICK u \in U : \A k \in U : u <= k
  BY <1>1, LeastNatural
<1>3. PICK x \in T : u = n - x
  BY DEF U
<1>4. \A y \in T : n - y \in U /\ y \in 1..n
  BY DEF U
<1>5. \A y \in T : x >= y
  BY <1>2, <1>3, <1>4
<1>6. Max(T) = CHOOSE z \in T : \A y \in T : z >= y
  BY DEF Max
<1>7. Max(T) \in T /\ \A y \in T : Max(T) >= y
  BY <1>5, <1>6
<1>. QED  BY <1>7

\* The fee is a natural number.
LEMMA FeeType ==
    ASSUME NEW r \in Nat, NEW k \in Nat
    PROVE  CommitFee(r, k) \in Nat
<1>. DEFINE a == HTLCWeight * k
            b == CommitWeight + a
<1>1. a \in Nat
  BY AmountAssumption
<1>. HIDE DEF a
<1>2. b \in Nat
  BY <1>1, AmountAssumption
<1>3. CommitFee(r, k) = r * b
  BY DEF CommitFee, a
<1>. HIDE DEF b
<1>4. r * b \in Nat
  BY <1>2
<1>. QED  BY <1>3, <1>4

\* The parts of a memory.
LEMMA MemFacts ==
    ASSUME NEW m \in Mems
    PROVE  /\ \A p \in Party : m.logs[p] \in UpdateLogs /\ m.logs[p].list \in Seq(Entries)
           /\ m.logs.Local \in UpdateLogs /\ m.logs.Remote \in UpdateLogs
           /\ m.logs.Local.list \in Seq(Entries) /\ m.logs.Remote.list \in Seq(Entries)
           /\ m.logs.Local.logIndex \in Nat /\ m.logs.Remote.logIndex \in Nat
           /\ m.logs.Local.htlcCounter \in Nat /\ m.logs.Remote.htlcCounter \in Nat
           /\ m.logs.Local.modified \in SUBSET Nat /\ m.logs.Remote.modified \in SUBSET Nat
           /\ BookOf(m) \in Books /\ LogIndices(m) \in Pairs /\ HtlcCounters(m) \in Pairs
<1>1. m.logs.Local \in UpdateLogs /\ m.logs.Remote \in UpdateLogs
  BY DEF Mems
<1>2. \A p \in Party : m.logs[p] \in UpdateLogs
  BY <1>1, Parties
<1>3. \A g \in UpdateLogs : /\ g.list \in Seq(Entries) /\ g.logIndex \in Nat /\ g.htlcCounter \in Nat
                            /\ g.modified \in SUBSET Nat
  BY DEF UpdateLogs
<1>4. BookOf(m) \in Books
  BY <1>1, <1>3, ListFacts DEF BookOf, Books
<1>5. LogIndices(m) \in Pairs /\ HtlcCounters(m) \in Pairs
  BY <1>1, <1>3 DEF LogIndices, HtlcCounters, Pairs
<1>. QED  BY <1>1, <1>2, <1>3, <1>4, <1>5

\* The updates of p in a view.
LEMMA ViewFacts ==
    ASSUME NEW m \in Mems, NEW upTo, NEW p \in Party
    PROVE  /\ FetchHTLCView(m, upTo)[p] \in Seq(Entries)
           /\ Range(FetchHTLCView(m, upTo)[p]) = {e \in Range(m.logs[p].list) : e.LogIndex < upTo[p]}
<1>. DEFINE s == m.logs[p].list
            I == {k \in DOMAIN s : s[k].LogIndex < upTo[p]}
            t == SubsequenceAt(s, I)
<1>1. FetchHTLCView(m, upTo)[p] = t
  BY DEF FetchHTLCView
<1>2. s \in Seq(Entries)
  BY MemFacts
<1>3. {s[i] : i \in I} = {e \in Range(s) : e.LogIndex < upTo[p]}
  BY DEF Range
<1>4. I \in SUBSET (DOMAIN s)
  OBVIOUS
<1>5. t \in Seq(Entries) /\ Range(t) = {s[i] : i \in I}
  <2>. HIDE DEF s, I
  <2>. QED  BY <1>2, <1>4, Picked
<1>. QED  BY <1>1, <1>3, <1>5

\* The tip of a chain, as it is on disk.
TipOn(d, w) == IF w = "Local" THEN d.local ELSE TipOf(d)

\* The newest commitment of a restored chain.
LEMMA TipFacts ==
    ASSUME NEW d, NEW w \in Party
    PROVE  ChainTip(RestoredChains(d)[w]) = TipOn(d, w)
<1>1. \A a, b : Last(<<a>>) = a /\ Last(<<a, b>>) = b
  BY DEF Last
<1>. QED  BY <1>1, Parties DEF ChainTip, RestoredChains, TipOn, TipOf

\* The rate of a view.
LEMMA RateType ==
    ASSUME NEW s \in Seq(Entries), NEW t \in Commitments
    PROVE  ViewFeePerKw(s, t) \in Nat
<1>. DEFINE fees == {k \in DOMAIN s : s[k].EntryType = "FeeUpdate"}
<1>1. fees \in SUBSET (1..Len(s)) /\ Len(s) \in Nat
  OBVIOUS
<1>2. t.feePerKw \in Nat
  BY DEF Commitments
<1>. HIDE DEF fees
<1>3. fees # {} => Max(fees) \in 1..Len(s)
  BY <1>1, MaxFacts
<1>4. fees # {} => s[Max(fees)].Amount \in Nat
  <2>1. \A k \in 1..Len(s) : s[k] \in Entries
    OBVIOUS
  <2>2. \A e \in Entries : e.Amount \in Nat
    BY DEF Entries
  <2>. QED  BY ONLY <1>3, <2>1, <2>2
<1>. QED  BY <1>2, <1>4 DEF ViewFeePerKw, fees

\* What a sound memory has ...
LEMMA SoundUse ==
    ASSUME NEW m, NEW d, Sound(m, d)
    PROVE  /\ m \in Mems /\ d \in Disks /\ m.chains = RestoredChains(d)
           /\ Distinct(m.logs.Local.list) /\ Distinct(m.logs.Remote.list)
           /\ \A e \in Range(m.logs.Local.list) : Marked(e, "Local", d)
           /\ \A e \in Range(m.logs.Remote.list) : Marked(e, "Remote", d)
           /\ \A x \in BookOf(m).Local : IsRmv(x) => x.HtlcIndex \in m.logs.Remote.modified
           /\ \A x \in BookOf(m).Remote : IsRmv(x) => x.HtlcIndex \in m.logs.Local.modified
           /\ InOrder(m.logs.Local.list, TipOf(d).indices.Local)
           /\ Book(BookOf(m), LogIndices(m), HtlcCounters(m), d) /\ Sent(d)
<1>1. \A p \in Party : \A i \in DOMAIN m.logs[p].list : Marked(m.logs[p].list[i], p, d)
  BY DEF Sound
<1>2. /\ \A e \in Range(m.logs.Local.list) : Marked(e, "Local", d)
      /\ \A e \in Range(m.logs.Remote.list) : Marked(e, "Remote", d)
  BY <1>1, Parties DEF Range
<1>3. \A p \in Party : /\ Distinct(m.logs[p].list)
                       /\ \A x \in BookOf(m)[p] : IsRmv(x) => x.HtlcIndex \in m.logs[CounterParty(p)].modified
  BY DEF Sound
<1>4. /\ Distinct(m.logs.Local.list) /\ Distinct(m.logs.Remote.list)
      /\ \A x \in BookOf(m).Local : IsRmv(x) => x.HtlcIndex \in m.logs.Remote.modified
      /\ \A x \in BookOf(m).Remote : IsRmv(x) => x.HtlcIndex \in m.logs.Local.modified
  BY <1>3, Parties
<1>. QED  BY <1>2, <1>4 DEF Sound

\* ... and how a memory is shown to be sound.
LEMMA SoundMake ==
    ASSUME NEW m, NEW d, m \in Mems, d \in Disks, m.chains = RestoredChains(d),
           Distinct(m.logs.Local.list), Distinct(m.logs.Remote.list),
           \A e \in Range(m.logs.Local.list) : Marked(e, "Local", d),
           \A e \in Range(m.logs.Remote.list) : Marked(e, "Remote", d),
           \A x \in BookOf(m).Local : IsRmv(x) => x.HtlcIndex \in m.logs.Remote.modified,
           \A x \in BookOf(m).Remote : IsRmv(x) => x.HtlcIndex \in m.logs.Local.modified,
           InOrder(m.logs.Local.list, TipOf(d).indices.Local),
           Book(BookOf(m), LogIndices(m), HtlcCounters(m), d), Sent(d)
    PROVE  Sound(m, d)
<1>1. \A p \in Party : \A i \in DOMAIN m.logs[p].list : Marked(m.logs[p].list[i], p, d)
  BY Parties DEF Range
<1>2. \A p \in Party : /\ Distinct(m.logs[p].list)
                       /\ \A x \in BookOf(m)[p] : IsRmv(x) => x.HtlcIndex \in m.logs[CounterParty(p)].modified
  BY Parties
<1>. QED  BY <1>1, <1>2 DEF Sound

\* The heights of an entry that matter to a chain.
LEMMA MarkedOn ==
    ASSUME NEW e \in Entries, NEW p \in Party, NEW d, Marked(e, p, d), NEW w \in Party
    PROVE  At(e)[w] = 0 <=> ~(e.LogIndex < TipOn(d, w).indices[p])
<1>1. CASE w = "Local"
  BY <1>1 DEF Marked, TipOn
<1>2. CASE w = "Remote"
  BY <1>2 DEF Marked, TipOn
<1>. QED  BY <1>1, <1>2, Parties

\* The commitment a sane view leads to: its outputs are the HTLCs below its
\* indices, every removal on it is of an HTLC the chain had, and it holds as
\* much as the one before.
LEMMA NextCommitment ==
    ASSUME NEW m, NEW d, Sound(m, d), NEW n \in Node, NEW w \in Party, NEW upTo \in Pairs, NEW hx \in Pairs,
           TipOn(d, w).indices.Local <= upTo.Local, TipOn(d, w).indices.Remote <= upTo.Remote,
           CommitmentSane(m, n, w, FetchHTLCView(m, upTo), "NoBuffer"),
           NEW c, c = CommitmentView(m, n, w, upTo, hx),
           NEW A, A = BookOf(m).Local, NEW R, R = BookOf(m).Remote
    PROVE  /\ c \in Commitments /\ c.height = TipOn(d, w).height + 1 /\ c.indices = upTo /\ c.htlcIndex = hx
           /\ c.outputs.Local = {OutputOf(a) : a \in LiveOn(A, R, upTo.Local, upTo.Remote)}
           /\ c.outputs.Remote = {OutputOf(a) : a \in LiveOn(R, A, upTo.Remote, upTo.Local)}
           /\ Total(c) = Capacity
           /\ \A r \in R : IsRmv(r) /\ r.LogIndex < upTo.Remote =>
                 \E a \in A : IsAdd(a) /\ a.HtlcIndex = r.HtlcIndex /\ a.LogIndex < TipOn(d, w).indices.Local
           /\ \A r \in A : IsRmv(r) /\ r.LogIndex < upTo.Local =>
                 \E a \in R : IsAdd(a) /\ a.HtlcIndex = r.HtlcIndex /\ a.LogIndex < TipOn(d, w).indices.Remote
<1>. DEFINE t == TipOn(d, w)
            V == FetchHTLCView(m, upTo)
            LL == m.logs.Local.list
            RR == m.logs.Remote.list
            EL == Below(LL, upTo.Local)
            ER == Below(RR, upTo.Remote)
            v == ComputeView(m, n, w, V)
            tl == t.indices.Local
            tr == t.indices.Remote
<1>1. /\ m \in Mems /\ d \in Disks /\ m.chains = RestoredChains(d)
      /\ Distinct(LL) /\ Distinct(RR)
      /\ \A e \in Range(LL) : Marked(e, "Local", d)
      /\ \A e \in Range(RR) : Marked(e, "Remote", d)
      /\ Book(BookOf(m), LogIndices(m), HtlcCounters(m), d)
  BY SoundUse
<1>2. /\ LL \in Seq(Entries) /\ RR \in Seq(Entries) /\ A = Cores(LL) /\ R = Cores(RR)
      /\ upTo.Local \in Nat /\ upTo.Remote \in Nat
      /\ Range(LL) \in SUBSET Entries /\ Range(RR) \in SUBSET Entries
      /\ A = {Core(e) : e \in Range(LL)} /\ R = {Core(e) : e \in Range(RR)}
      /\ IsFiniteSet(A) /\ IsFiniteSet(R) /\ A \in SUBSET Recs /\ R \in SUBSET Recs
  BY <1>1, MemFacts, ListFacts DEF BookOf, Pairs
<1>3. /\ V.Local \in Seq(Entries) /\ V.Remote \in Seq(Entries) /\ Range(V.Local) = EL /\ Range(V.Remote) = ER
  <2>1. /\ V["Local"] \in Seq(Entries) /\ Range(V["Local"]) = {e \in Range(m.logs["Local"].list) : e.LogIndex < upTo["Local"]}
        /\ V["Remote"] \in Seq(Entries) /\ Range(V["Remote"]) = {e \in Range(m.logs["Remote"].list) : e.LogIndex < upTo["Remote"]}
    BY <1>1, ViewFacts, Parties
  <2>. QED  BY <2>1 DEF Below
<1>4. ChainTip(m.chains[w]) = t
  BY <1>1, TipFacts
<1>5. /\ t \in Commits(d) /\ t \in Commitments /\ t.height \in Nat /\ t.fee \in Nat
      /\ t.balance.Local \in Nat /\ t.balance.Remote \in Nat /\ tl \in Nat /\ tr \in Nat
      /\ tl <= upTo.Local /\ tr <= upTo.Remote
  <2>1. t \in Commits(d)
    BY Parties DEF Commits, TipOn
  <2>. HIDE DEF t
  <2>2. t \in Commitments
    BY <1>1, <2>1, CommitFacts
  <2>3. t.balance.Local \in Nat /\ t.balance.Remote \in Nat /\ tl \in Nat /\ tr \in Nat /\ t.height \in Nat /\ t.fee \in Nat
    BY <2>2 DEF Commitments, Pairs
  <2>. QED  BY <2>1, <2>2, <2>3 DEF t
<1>6. /\ \A e \in Range(LL) : At(e)[w] = 0 <=> ~(e.LogIndex < tl)
      /\ \A e \in Range(RR) : At(e)[w] = 0 <=> ~(e.LogIndex < tr)
  BY <1>1, <1>2, MarkedOn, Parties
<1>. HIDE DEF V
<1>7. /\ Resolutions(V, "Local") = RmvsIn(EL) /\ Resolutions(V, "Remote") = RmvsIn(ER)
      /\ LiveAdds(V, "Local") = LiveIn(EL, ER) /\ LiveAdds(V, "Remote") = LiveIn(ER, EL)
  <2>. HIDE DEF EL, ER
  <2>. QED  BY <1>3, Parties DEF Resolutions, LiveAdds, RmvsIn, LiveIn
<1>8. /\ v.ok /\ v.feePerKw = ViewFeePerKw(V[Initiator(n)], t)
      /\ v.adds.Local = LiveAdds(V, "Local") /\ v.adds.Remote = LiveAdds(V, "Remote")
      /\ v.ok <=> ParentsFound(m, V, w) /\ \A p \in Party : v.balance[p] >= 0
      /\ v.balance \in [Party -> {v.balance["Local"], v.balance["Remote"]}]
      /\ \A p \in Party : v.balance[p] = t.balance[p] + (IF p = Initiator(n) THEN t.fee ELSE 0) + BalanceDelta(V, w, p)
      /\ Charge(v, "NoBuffer") < v.balance[Initiator(n)]
  <2>. HIDE DEF t
  <2>1. ViewAffordable(v, n, "NoBuffer", t.balance)
    BY <1>4 DEF CommitmentSane, V, v
  <2>2. v.ok /\ Charge(v, "NoBuffer") < v.balance[Initiator(n)]
    BY <2>1 DEF ViewAffordable, ViewSane
  <2>. QED  BY <1>4, <2>2, Parties DEF v, ComputeView, Party
<1>9. /\ \A r \in R : IsRmv(r) /\ r.LogIndex < upTo.Remote =>
            \E a \in A : IsAdd(a) /\ a.HtlcIndex = r.HtlcIndex /\ a.LogIndex < tl
      /\ \A r \in A : IsRmv(r) /\ r.LogIndex < upTo.Local =>
            \E a \in R : IsAdd(a) /\ a.HtlcIndex = r.HtlcIndex /\ a.LogIndex < tr
  <2>1. /\ \A r \in Resolutions(V, "Local") : \E a \in LookupHtlc(m.logs.Remote, r.HtlcIndex) : a.add[w] # 0
        /\ \A r \in Resolutions(V, "Remote") : \E a \in LookupHtlc(m.logs.Local, r.HtlcIndex) : a.add[w] # 0
    BY <1>8, Parties DEF ParentsFound
  <2>2. /\ \A h : \A a \in LookupHtlc(m.logs.Remote, h) : a \in Range(RR) /\ IsAdd(a) /\ a.HtlcIndex = h
        /\ \A h : \A a \in LookupHtlc(m.logs.Local, h) : a \in Range(LL) /\ IsAdd(a) /\ a.HtlcIndex = h
    BY DEF LookupHtlc, IsAdd
  <2>3. \A e \in Range(LL) \cup Range(RR) :
            /\ Core(e).LogIndex = e.LogIndex /\ Core(e).HtlcIndex = e.HtlcIndex
            /\ IsAdd(Core(e)) <=> IsAdd(e)
            /\ IsRmv(Core(e)) <=> IsRmv(e)
            /\ IsAdd(e) => At(e) = e.add
    BY <1>2, CoreFacts DEF At, IsAdd, IsRmv
  <2>4. /\ \A e \in Range(LL) : IsRmv(e) /\ e.LogIndex < upTo.Local => e \in Resolutions(V, "Local")
        /\ \A e \in Range(RR) : IsRmv(e) /\ e.LogIndex < upTo.Remote => e \in Resolutions(V, "Remote")
    BY <1>7 DEF IsRmv, RmvsIn, Below
  <2>. HIDE DEF LL, RR, tl, tr
  <2>5. ASSUME NEW r \in R, IsRmv(r), r.LogIndex < upTo.Remote
        PROVE  \E a \in A : IsAdd(a) /\ a.HtlcIndex = r.HtlcIndex /\ a.LogIndex < tl
    <3>1. PICK e \in Range(RR) : r = Core(e)
      BY <1>2
    <3>2. PICK a \in LookupHtlc(m.logs.Local, e.HtlcIndex) : a.add[w] # 0
      BY <2>1, <2>3, <2>4, <2>5, <3>1
    <3>3. a \in Range(LL) /\ IsAdd(a) /\ a.HtlcIndex = r.HtlcIndex /\ a.LogIndex < tl
      BY <1>6, <2>2, <2>3, <3>1, <3>2
    <3>4. Core(a) \in A /\ IsAdd(Core(a)) /\ Core(a).HtlcIndex = r.HtlcIndex /\ Core(a).LogIndex < tl
      BY <1>2, <2>3, <3>3
    <3>. QED  BY <3>4
  <2>6. ASSUME NEW r \in A, IsRmv(r), r.LogIndex < upTo.Local
        PROVE  \E a \in R : IsAdd(a) /\ a.HtlcIndex = r.HtlcIndex /\ a.LogIndex < tr
    <3>1. PICK e \in Range(LL) : r = Core(e)
      BY <1>2
    <3>2. PICK a \in LookupHtlc(m.logs.Remote, e.HtlcIndex) : a.add[w] # 0
      BY <2>1, <2>3, <2>4, <2>6, <3>1
    <3>3. a \in Range(RR) /\ IsAdd(a) /\ a.HtlcIndex = r.HtlcIndex /\ a.LogIndex < tr
      BY <1>6, <2>2, <2>3, <3>1, <3>2
    <3>4. Core(a) \in R /\ IsAdd(Core(a)) /\ Core(a).HtlcIndex = r.HtlcIndex /\ Core(a).LogIndex < tr
      BY <1>2, <2>3, <3>3
    <3>. QED  BY <3>4
  <2>. QED  BY <2>5, <2>6
<1>10. /\ Ordered(A, LogIndices(m).Local, HtlcCounters(m).Local)
       /\ Ordered(R, LogIndices(m).Remote, HtlcCounters(m).Remote)
       /\ Matched(A, R) /\ Matched(R, A) /\ Total(t) = Capacity
       /\ t.outputs.Local = {OutputOf(a) : a \in LiveOn(A, R, tl, tr)}
       /\ t.outputs.Remote = {OutputOf(a) : a \in LiveOn(R, A, tr, tl)}
  <2>1. /\ Ordered(A, LogIndices(m).Local, HtlcCounters(m).Local)
        /\ Ordered(R, LogIndices(m).Remote, HtlcCounters(m).Remote)
        /\ Matched(A, R) /\ Matched(R, A)
        /\ Total(t) = Capacity /\ Booked(BookOf(m), LogIndices(m), HtlcCounters(m), t)
    BY <1>1, <1>5, BookUse
  <2>2. Covers(A, R, tl, tr, t.htlcIndex.Local, t.outputs.Local) /\ Covers(R, A, tr, tl, t.htlcIndex.Remote, t.outputs.Remote)
    BY <2>1, BookedUse
  <2>. QED  BY <2>1, <2>2 DEF Covers
<1>. DEFINE nl == LiveOn(A, R, upTo.Local, upTo.Remote)
            nr == LiveOn(R, A, upTo.Remote, upTo.Local)
            ol == LiveOn(A, R, tl, tr)
            or == LiveOn(R, A, tr, tl)
            ul == upTo.Local
            ur == upTo.Remote
            gl == Amount(RemovedOn(A, ul, tl))
            gr == Amount(RemovedOn(R, ur, tr))
            xl == Amount(Since(nl, tl))
            xr == Amount(Since(nr, tr))
<1>11. /\ Amount(nl) + gr = Amount(ol) + xl
       /\ Amount(nl) \in Nat /\ Amount(ol) \in Nat /\ gr \in Nat /\ xl \in Nat
       /\ Amount(nr) + gl = Amount(or) + xr
       /\ Amount(nr) \in Nat /\ Amount(or) \in Nat /\ gl \in Nat /\ xr \in Nat
  <2>1. Follows(A, R, tl, tr, upTo.Local, upTo.Remote)
    <3>. HIDE DEF tl, tr
    <3>. QED  BY ONLY <1>2, <1>5, <1>9, <1>10 DEF Follows
  <2>2. Follows(R, A, tr, tl, upTo.Remote, upTo.Local)
    <3>. HIDE DEF tl, tr
    <3>. QED  BY ONLY <1>2, <1>5, <1>9, <1>10 DEF Follows
  <2>. HIDE DEF tl, tr
  <2>. QED  BY ONLY <2>1, <2>2, AddedAndRemoved
<1>. DEFINE ll == LiveAdds(V, "Local")
            lr == LiveAdds(V, "Remote")
            sl == Amount(NewRmvs(Resolutions(V, "Local"), "Settle", w))
            fl == Amount(NewRmvs(Resolutions(V, "Local"), "Fail", w))
            sr == Amount(NewRmvs(Resolutions(V, "Remote"), "Settle", w))
            fr == Amount(NewRmvs(Resolutions(V, "Remote"), "Fail", w))
<1>12. /\ IsFiniteSet(ll) /\ ll \in SUBSET Entries
       /\ OutputsOf(ll) = OutputsOf(nl)
       /\ Amount(NewAdds(ll, w)) = xl
       /\ sl \in Nat /\ fl \in Nat /\ sl + fl = gl
  <2>1. Viewed(LL, RR, ul, ur, tl, w) /\ ll = LiveIn(Below(LL, ul), Below(RR, ur))
    <3>. HIDE DEF tl, LL, RR, ll
    <3>. QED  BY <1>1, <1>2, <1>5, <1>6, <1>7 DEF Viewed, ll
  <2>2. A = Cores(LL) /\ R = Cores(RR) /\ Resolutions(V, "Local") = RmvsIn(Below(LL, ul))
    BY <1>2, <1>7
  <2>. HIDE DEF ll, LL, RR, ul, ur, tl
  <2>3. /\ IsFiniteSet(ll) /\ ll \in SUBSET Entries
        /\ OutputsOf(ll) = OutputsOf(LiveOn(Cores(LL), Cores(RR), ul, ur))
        /\ Amount(NewAdds(ll, w)) = Amount(Since(LiveOn(Cores(LL), Cores(RR), ul, ur), tl))
        /\ Amount(NewRmvs(RmvsIn(Below(LL, ul)), "Settle", w))
                + Amount(NewRmvs(RmvsIn(Below(LL, ul)), "Fail", w))
                = Amount(RemovedOn(Cores(LL), ul, tl))
        /\ Amount(NewRmvs(RmvsIn(Below(LL, ul)), "Settle", w)) \in Nat
        /\ Amount(NewRmvs(RmvsIn(Below(LL, ul)), "Fail", w)) \in Nat
    BY ONLY <2>1, ViewSide
  <2>. QED  BY ONLY <2>2, <2>3 DEF ul, ur
<1>13. /\ IsFiniteSet(lr) /\ lr \in SUBSET Entries
       /\ OutputsOf(lr) = OutputsOf(nr)
       /\ Amount(NewAdds(lr, w)) = xr
       /\ sr \in Nat /\ fr \in Nat /\ sr + fr = gr
  <2>1. Viewed(RR, LL, ur, ul, tr, w) /\ lr = LiveIn(Below(RR, ur), Below(LL, ul))
    <3>. HIDE DEF tr, LL, RR, lr
    <3>. QED  BY <1>1, <1>2, <1>5, <1>6, <1>7 DEF Viewed, lr
  <2>2. A = Cores(LL) /\ R = Cores(RR) /\ Resolutions(V, "Remote") = RmvsIn(Below(RR, ur))
    BY <1>2, <1>7
  <2>. HIDE DEF lr, LL, RR, ul, ur, tr
  <2>3. /\ IsFiniteSet(lr) /\ lr \in SUBSET Entries
        /\ OutputsOf(lr) = OutputsOf(LiveOn(Cores(RR), Cores(LL), ur, ul))
        /\ Amount(NewAdds(lr, w)) = Amount(Since(LiveOn(Cores(RR), Cores(LL), ur, ul), tr))
        /\ Amount(NewRmvs(RmvsIn(Below(RR, ur)), "Settle", w))
                + Amount(NewRmvs(RmvsIn(Below(RR, ur)), "Fail", w))
                = Amount(RemovedOn(Cores(RR), ur, tr))
        /\ Amount(NewRmvs(RmvsIn(Below(RR, ur)), "Settle", w)) \in Nat
        /\ Amount(NewRmvs(RmvsIn(Below(RR, ur)), "Fail", w)) \in Nat
    BY ONLY <2>1, ViewSide
  <2>. QED  BY ONLY <2>2, <2>3 DEF ul, ur
<1>14. /\ BalanceDelta(V, w, "Local") = sl + fr - xl
       /\ BalanceDelta(V, w, "Remote") = sr + fl - xr
  <2>1. \A p \in Party :
           BalanceDelta(V, w, p) = Amount(NewRmvs(Resolutions(V, p), "Settle", w))
              + Amount(NewRmvs(Resolutions(V, CounterParty(p)), "Fail", w))
              - Amount(NewAdds(LiveAdds(V, p), w))
    BY DEF BalanceDelta, NewRmvs, NewAdds
  <2>. QED  BY <1>12, <1>13, <2>1, Parties
<1>. DEFINE k == NumHTLCs(v)
            fee == CommitFee(v.feePerKw, k)
            bl == v.balance["Local"]
            br == v.balance["Remote"]
<1>15. fee \in Nat /\ v.feePerKw \in Nat
  <2>1. k \in Nat
    <3>1. Cardinality(ll) \in Nat /\ Cardinality(lr) \in Nat
      BY <1>12, <1>13, FS_CardinalityType
    <3>2. k = Cardinality(ll) + Cardinality(lr)
      BY <1>8 DEF NumHTLCs
    <3>. HIDE DEF k, ll, lr
    <3>. QED  BY <3>1, <3>2
  <2>2. V[Initiator(n)] \in Seq(Entries)
    BY <1>3 DEF Initiator
  <2>3. v.feePerKw \in Nat
    BY <1>5, <1>8, <2>2, RateType
  <2>. HIDE DEF k, v
  <2>. QED  BY <2>1, <2>3, FeeType
<1>16. /\ c.height = t.height + 1 /\ c.indices = upTo /\ c.htlcIndex = hx /\ c.fee = fee
       /\ c.feePerKw = v.feePerKw
       /\ c.balance = [v.balance EXCEPT ![Initiator(n)] = IF fee > @ THEN 0 ELSE @ - fee]
       /\ c.outputs = [p \in Party |-> OutputsOf(v.adds[p])]
       /\ c = [height |-> c.height, indices |-> c.indices, htlcIndex |-> c.htlcIndex, balance |-> c.balance,
               fee |-> c.fee, feePerKw |-> c.feePerKw, outputs |-> c.outputs]
  <2>1. c = CommitmentOf(v, n, t.height + 1, upTo, hx)
    BY <1>4 DEF CommitmentView, v, V
  <2>. HIDE DEF v, t, V
  <2>. QED  BY <2>1 DEF CommitmentOf, OutputsOf, OutputOf
<1>17. /\ c.outputs.Local = OutputsOf(nl) /\ c.outputs.Remote = OutputsOf(nr)
       /\ c.outputs = [Local |-> OutputsOf(nl), Remote |-> OutputsOf(nr)]
  <2>. HIDE DEF v, nl, nr
  <2>. QED  BY <1>8, <1>12, <1>13, <1>16, Parties DEF Party
<1>18. ASSUME NEW S, S \in {nl, nr, ol, or}
       PROVE  Amount(OutputsOf(S)) = Amount(S) /\ OutputsOf(S) \in SUBSET Outs
  <2>1. S \subseteq A \/ S \subseteq R
    BY <1>18 DEF LiveOn
  <2>2. S \in SUBSET Recs /\ IsFiniteSet(S)
    BY <1>2, <2>1, FS_Subset
  <2>3. \A x, y \in S : x.LogIndex = y.LogIndex => x = y
    BY <1>10, <2>1 DEF Ordered
  <2>. QED  BY <2>2, <2>3, AmountOfOutputs DEF OutputsOf
<1>. DEFINE rl == IF "Local" = Initiator(n) THEN t.fee ELSE 0
            rr == IF "Remote" = Initiator(n) THEN t.fee ELSE 0
            cl == c.balance.Local
            cr == c.balance.Remote
<1>19. /\ bl = t.balance.Local + rl + (sl + fr - xl) /\ br = t.balance.Remote + rr + (sr + fl - xr)
       /\ rl \in Nat /\ rr \in Nat /\ rl + rr = t.fee /\ bl >= 0 /\ br >= 0
  <2>1. Initiator(n) = "Local" \/ Initiator(n) = "Remote"
    BY DEF Initiator
  <2>2. rl \in Nat /\ rr \in Nat /\ rl + rr = t.fee
    BY <1>5, <2>1
  <2>3. bl >= 0 /\ br >= 0
    BY <1>8, Parties
  <2>. HIDE DEF v, sl, fr, xl, sr, fl, xr, t
  <2>. QED  BY <1>8, <1>14, <2>2, <2>3, Parties
<1>20. bl \in Nat /\ br \in Nat
  <2>. HIDE DEF bl, br, rl, rr, sl, fr, xl, sr, fl, xr, t
  <2>. QED  BY <1>5, <1>11, <1>12, <1>13, <1>19
<1>21. /\ cl \in Nat /\ cr \in Nat /\ cl + cr + fee = bl + br
       /\ c.balance = [Local |-> cl, Remote |-> cr]
  <2>1. Charge(v, "NoBuffer") = fee
    BY DEF Charge
  <2>2. fee < v.balance[Initiator(n)] /\ v.balance \in [Party -> {bl, br}] /\ bl = v.balance["Local"] /\ br = v.balance["Remote"]
    BY <1>8, <2>1
  <2>. HIDE DEF v, fee, bl, br, k
  <2>3. CASE Initiator(n) = "Local"
    <3>1. cl = bl - fee /\ cr = br /\ c.balance = [Local |-> cl, Remote |-> cr]
      BY <1>15, <1>16, <1>20, <2>2, <2>3 DEF Party
    <3>. QED  BY <1>15, <1>20, <2>2, <2>3, <3>1
  <2>4. CASE Initiator(n) = "Remote"
    <3>1. cl = bl /\ cr = br - fee /\ c.balance = [Local |-> cl, Remote |-> cr]
      BY <1>15, <1>16, <1>20, <2>2, <2>4 DEF Party
    <3>. QED  BY <1>15, <1>20, <2>2, <2>4, <3>1
  <2>. QED  BY <2>3, <2>4 DEF Initiator
<1>22. c \in Commitments
  <2>1. c.outputs \in [Local : SUBSET Outs, Remote : SUBSET Outs]
    BY <1>17, <1>18
  <2>2. c.balance \in Pairs
    BY <1>21 DEF Pairs
  <2>3. c.height \in Nat /\ c.fee \in Nat /\ c.feePerKw \in Nat /\ c.indices \in Pairs /\ c.htlcIndex \in Pairs
    <3>. HIDE DEF t, fee, v
    <3>. QED  BY <1>5, <1>15, <1>16
  <2>. HIDE DEF t, fee, v, cl, cr
  <2>. QED  BY <1>16, <2>1, <2>2, <2>3 DEF Commitments
<1>23. Total(c) = Capacity
  <2>1. Total(t) = t.balance.Local + t.balance.Remote + t.fee + Amount(ol) + Amount(or)
    <3>1. Amount(t.outputs.Local) = Amount(ol) /\ Amount(t.outputs.Remote) = Amount(or)
      <4>. HIDE DEF ol, or, t
      <4>. QED  BY <1>10, <1>18 DEF OutputsOf, ol, or
    <3>. HIDE DEF ol, or, t
    <3>. QED  BY <3>1 DEF Total
  <2>2. Total(c) = cl + cr + fee + Amount(nl) + Amount(nr)
    <3>1. Amount(c.outputs.Local) = Amount(nl) /\ Amount(c.outputs.Remote) = Amount(nr)
      <4>. HIDE DEF nl, nr
      <4>. QED  BY <1>17, <1>18
    <3>. HIDE DEF nl, nr, fee, v
    <3>. QED  BY <3>1, <1>16 DEF Total
  <2>. DEFINE anl == Amount(nl)
              anr == Amount(nr)
              aol == Amount(ol)
              aor == Amount(or)
              tbl == t.balance.Local
              tbr == t.balance.Remote
              tf == t.fee
  <2>3. /\ anl + gr = aol + xl /\ anr + gl = aor + xr
        /\ anl \in Nat /\ aol \in Nat /\ gr \in Nat /\ xl \in Nat
        /\ anr \in Nat /\ aor \in Nat /\ gl \in Nat /\ xr \in Nat
        /\ sl \in Nat /\ fl \in Nat /\ sl + fl = gl
        /\ sr \in Nat /\ fr \in Nat /\ sr + fr = gr
        /\ tbl \in Nat /\ tbr \in Nat /\ tf \in Nat /\ fee \in Nat
        /\ bl = tbl + rl + (sl + fr - xl) /\ br = tbr + rr + (sr + fl - xr)
        /\ rl \in Nat /\ rr \in Nat /\ rl + rr = tf
        /\ cl \in Nat /\ cr \in Nat /\ cl + cr + fee = bl + br
    BY ONLY <1>5, <1>11, <1>12, <1>13, <1>15, <1>19, <1>21
  <2>4. Total(c) = cl + cr + fee + anl + anr /\ Total(t) = tbl + tbr + tf + aol + aor
    BY <2>1, <2>2
  <2>5. Total(t) = Capacity
    BY <1>10
  <2>. HIDE DEF anl, anr, aol, aor, tbl, tbr, tf, gl, gr, xl, xr, sl, sr, fl, fr, fee, bl, br, rl, rr, cl, cr, t
  <2>. QED  BY ONLY <2>3, <2>4, <2>5
<1>. HIDE DEF nl, nr, t
<1>. QED  BY <1>9, <1>16, <1>17, <1>22, <1>23 DEF OutputsOf, nl, nr, t

-----------------------------------------------------------------------------
(* New updates. *)

\* The list of a log with one more entry.
LEMMA AppendedList ==
    ASSUME NEW s \in Seq(Entries), NEW e \in Entries, NEW t, t = Append(s, e)
    PROVE  /\ t \in Seq(Entries) /\ Len(t) = Len(s) + 1 /\ DOMAIN t = 1..Len(s) + 1
           /\ \A i \in DOMAIN s : t[i] = s[i]
           /\ t[Len(s) + 1] = e /\ DOMAIN s = 1..Len(s) /\ Len(s) \in Nat
           /\ Range(t) = Range(s) \cup {e} /\ Cores(t) = Cores(s) \cup {Core(e)}
<1>1. /\ t \in Seq(Entries) /\ Len(t) = Len(s) + 1 /\ DOMAIN t = 1..Len(s) + 1
      /\ \A i \in DOMAIN s : t[i] = s[i]
      /\ t[Len(s) + 1] = e /\ DOMAIN s = 1..Len(s) /\ Len(s) \in Nat
  OBVIOUS
<1>2. \A i \in DOMAIN t : i \in DOMAIN s \/ i = Len(s) + 1
  BY <1>1
<1>3. DOMAIN s \subseteq DOMAIN t /\ Len(s) + 1 \in DOMAIN t
  BY <1>1
<1>4. Range(t) = Range(s) \cup {e}
  BY ONLY <1>1, <1>2, <1>3 DEF Range
<1>5. Cores(t) = Cores(s) \cup {Core(e)}
  BY ONLY <1>1, <1>2, <1>3 DEF Cores
<1>. QED  BY <1>1, <1>4, <1>5

\* An entry after all others keeps the list distinct and in order.
LEMMA AppendedOrder ==
    ASSUME NEW s \in Seq(Entries), NEW e \in Entries, \A x \in Range(s) : x.LogIndex < e.LogIndex,
           NEW t, t = Append(s, e), NEW first
    PROVE  /\ Distinct(s) => Distinct(t)
           /\ InOrder(s, first) => InOrder(t, first)
<1>1. /\ DOMAIN t = 1..Len(s) + 1 /\ \A i \in DOMAIN s : t[i] = s[i]
      /\ t[Len(s) + 1] = e /\ DOMAIN s = 1..Len(s) /\ Len(s) \in Nat
  BY AppendedList
<1>2. \A i \in DOMAIN s : s[i].LogIndex < e.LogIndex /\ s[i].LogIndex \in Nat /\ e.LogIndex \in Nat
  <2>1. \A i \in DOMAIN s : s[i] \in Range(s) /\ s[i] \in Entries
    BY DEF Range
  <2>2. \A x \in Entries : x.LogIndex \in Nat
    BY DEF Entries
  <2>. QED  BY <2>1, <2>2
<1>3. \A i \in DOMAIN t : i \in DOMAIN s \/ i = Len(s) + 1
  BY <1>1
<1>4. Distinct(s) => Distinct(t)
  BY ONLY <1>1, <1>2, <1>3 DEF Distinct
<1>5. ASSUME InOrder(s, first), NEW i \in DOMAIN t, NEW j \in DOMAIN t, i < j, t[i].LogIndex >= first
      PROVE  t[i].LogIndex < t[j].LogIndex
  <2>1. i \in DOMAIN s
    BY <1>1, <1>3, <1>5
  <2>. QED  BY ONLY <1>1, <1>2, <1>3, <1>5, <2>1 DEF InOrder
<1>. QED  BY <1>4, <1>5 DEF InOrder

\* An entry with a new index keeps the indices distinct.
LEMMA AppendedDistinct ==
    ASSUME NEW s \in Seq(Entries), NEW e \in Entries, \A x \in Range(s) : x.LogIndex < e.LogIndex,
           NEW t, t = Append(s, e), Distinct(s)
    PROVE  Distinct(t)
BY AppendedOrder

\* m2 is m with the new entry e in the log of p.
Appends(m, e, m2, p) ==
    /\ e \in Entries /\ m2 \in Mems /\ m2.chains = m.chains
    /\ e.add = Both(0) /\ e.rmv = Both(0) /\ e.LogIndex = m.logs[p].logIndex
    /\ IsAdd(e) => e.HtlcIndex = m.logs[p].htlcCounter
    /\ m2.logs[p].list = Append(m.logs[p].list, e)
    /\ m2.logs[p].logIndex = m.logs[p].logIndex + 1
    /\ m2.logs[p].htlcCounter = IF IsAdd(e) THEN m.logs[p].htlcCounter + 1 ELSE m.logs[p].htlcCounter
    /\ m2.logs[CounterParty(p)].list = m.logs[CounterParty(p)].list
    /\ m2.logs[CounterParty(p)].logIndex = m.logs[CounterParty(p)].logIndex
    /\ m2.logs[CounterParty(p)].htlcCounter = m.logs[CounterParty(p)].htlcCounter
    /\ \A q \in Party : m.logs[q].modified \subseteq m2.logs[q].modified
    /\ IsRmv(e) => e.HtlcIndex \in m2.logs[CounterParty(p)].modified

\* The HTLC a new removal e is of.
Resolves(m, e, p) ==
    IsRmv(e) => /\ \E a \in BookOf(m)[CounterParty(p)] :
                      IsAdd(a) /\ a.HtlcIndex = e.HtlcIndex /\ a.Amount = e.Amount
                /\ \A r \in BookOf(m)[p] : IsRmv(r) => r.HtlcIndex # e.HtlcIndex

\* A new entry is on no commitment.
LEMMA NewIsMarked ==
    ASSUME NEW d \in Disks, NEW e \in Entries, e.add = Both(0), e.rmv = Both(0), NEW p \in Party,
           \A c \in Commits(d) : c.indices[p] <= e.LogIndex
    PROVE  Marked(e, p, d)
<1>1. At(e) = Both(0) /\ At(e).Local = 0 /\ At(e).Remote = 0
  BY DEF At, Both
<1>2. /\ d.local \in Commits(d) /\ d.remote \in Commits(d) /\ TipOf(d) \in Commits(d)
  BY DEF Commits
<1>3. /\ d.local.indices[p] \in Nat /\ d.remote.indices[p] \in Nat /\ TipOf(d).indices[p] \in Nat
      /\ d.local.height \in Nat /\ d.remote.height \in Nat /\ TipOf(d).height \in Nat
  BY <1>2, CommitFacts
<1>4. e.LogIndex \in Nat
  BY DEF Entries
<1>5. /\ d.local.indices[p] <= e.LogIndex /\ d.remote.indices[p] <= e.LogIndex /\ TipOf(d).indices[p] <= e.LogIndex
  BY <1>2
<1>. QED  BY <1>1, <1>3, <1>4, <1>5 DEF Marked

\* An update of ours.
LEMMA SoundAppendLocal ==
    ASSUME NEW m, NEW d, Sound(m, d), NEW e, NEW m2, Appends(m, e, m2, "Local"), Resolves(m, e, "Local"),
           IsRmv(e) => d.ackedKey /\ e.HtlcIndex < d.remote.htlcIndex.Remote
    PROVE  Sound(m2, d)
<1>. DEFINE LL == m.logs.Local.list
            L2 == m2.logs.Local.list
            K == BookOf(m)
            ix == LogIndices(m)
            hc == HtlcCounters(m)
            x == Core(e)
<1>1. /\ m \in Mems /\ d \in Disks /\ m.chains = RestoredChains(d)
      /\ Distinct(m.logs.Local.list) /\ Distinct(m.logs.Remote.list)
      /\ \A y \in Range(m.logs.Local.list) : Marked(y, "Local", d)
      /\ \A y \in Range(m.logs.Remote.list) : Marked(y, "Remote", d)
      /\ \A y \in BookOf(m).Local : IsRmv(y) => y.HtlcIndex \in m.logs.Remote.modified
      /\ \A y \in BookOf(m).Remote : IsRmv(y) => y.HtlcIndex \in m.logs.Local.modified
      /\ InOrder(m.logs.Local.list, TipOf(d).indices.Local)
      /\ Book(BookOf(m), LogIndices(m), HtlcCounters(m), d) /\ Sent(d)
  BY SoundUse
<1>2. /\ e \in Entries /\ m2 \in Mems /\ m2.chains = m.chains
      /\ e.add = Both(0) /\ e.rmv = Both(0) /\ e.LogIndex = ix.Local
      /\ IsAdd(e) => e.HtlcIndex = hc.Local
      /\ L2 = Append(LL, e) /\ m2.logs.Remote.list = m.logs.Remote.list
      /\ LogIndices(m2).Local = ix.Local + 1 /\ LogIndices(m2).Remote = ix.Remote
      /\ HtlcCounters(m2).Local = IF IsAdd(e) THEN hc.Local + 1 ELSE hc.Local
      /\ HtlcCounters(m2).Remote = hc.Remote
      /\ m.logs.Local.modified \subseteq m2.logs.Local.modified
      /\ m.logs.Remote.modified \subseteq m2.logs.Remote.modified
      /\ IsRmv(e) => e.HtlcIndex \in m2.logs.Remote.modified
  BY Parties DEF Appends, LogIndices, HtlcCounters
<1>3. LL \in Seq(Entries) /\ K \in Books /\ ix \in Pairs /\ hc \in Pairs
  BY <1>1, MemFacts
<1>4. /\ x \in Recs /\ x.LogIndex = ix.Local /\ x.HtlcIndex = e.HtlcIndex /\ x.Amount = e.Amount
      /\ IsAdd(x) <=> IsAdd(e)
      /\ IsRmv(x) <=> IsRmv(e)
  BY <1>2, CoreFacts
<1>5. BookOf(m2).Local = K.Local \cup {x} /\ BookOf(m2).Remote = K.Remote /\ Range(L2) = Range(LL) \cup {e}
  <2>. HIDE DEF LL, L2
  <2>0. e \in Entries /\ LL \in Seq(Entries) /\ L2 = Append(LL, e)
    BY <1>2, <1>3
  <2>1. Cores(L2) = Cores(LL) \cup {x} /\ Range(L2) = Range(LL) \cup {e}
    BY ONLY <2>0, AppendedList, ZenonT(60)
  <2>. QED  BY <1>2, <2>1 DEF BookOf, LL, L2
<1>6. IsRmv(x) => /\ \E a \in K.Remote : IsAdd(a) /\ a.HtlcIndex = x.HtlcIndex /\ a.Amount = x.Amount
                  /\ \A r \in K.Local : IsRmv(r) => r.HtlcIndex # x.HtlcIndex
  BY <1>4, Parties DEF Resolves
<1>7. Book(BookOf(m2), LogIndices(m2), HtlcCounters(m2), d)
  <2>. DEFINE L == BookOf(m2)
              jx == LogIndices(m2)
              jc == HtlcCounters(m2)
  <2>1. /\ L.Local = K.Local \cup {x} /\ L.Remote = K.Remote /\ jx.Local = ix.Local + 1 /\ jx.Remote = ix.Remote
        /\ jc.Local = (IF IsAdd(x) THEN hc.Local + 1 ELSE hc.Local) /\ jc.Remote = hc.Remote
        /\ IsAdd(x) => x.HtlcIndex = hc.Local
        /\ IsRmv(x) => d.ackedKey /\ x.HtlcIndex < d.remote.htlcIndex.Remote
        /\ Book(K, ix, hc, d) /\ d \in Disks
    BY <1>1, <1>2, <1>4, <1>5
  <2>. HIDE DEF L, jx, jc, K, ix, hc, x
  <2>2. Book(L, jx, jc, d)
    BY ONLY <1>3, <1>4, <1>6, <2>1, BookAppendLocal
  <2>. QED  BY <2>2 DEF L, jx, jc
<1>8. \A y \in Range(LL) : y.LogIndex < e.LogIndex
  <2>1. Ordered(K.Local, ix.Local, hc.Local)
    BY <1>1, BookUse
  <2>2. \A y \in Range(LL) : y \in Entries /\ Core(y) \in K.Local
    <3>. HIDE DEF LL
    <3>1. Cores(LL) = {Core(y) : y \in Range(LL)} /\ Range(LL) \in SUBSET Entries
      BY <1>3, ListFacts
    <3>2. K.Local = Cores(LL)
      BY DEF BookOf, LL
    <3>. QED  BY <3>1, <3>2
  <2>3. \A y \in Entries : Core(y).LogIndex = y.LogIndex
    BY CoreFacts
  <2>. HIDE DEF LL, K, ix, hc
  <2>. QED  BY <1>2, <2>1, <2>2, <2>3 DEF Ordered
<1>9. Distinct(L2) /\ InOrder(L2, TipOf(d).indices.Local)
  <2>. DEFINE first == TipOf(d).indices.Local
  <2>. HIDE DEF LL, L2
  <2>1. Distinct(LL) /\ InOrder(LL, first) /\ e \in Entries /\ LL \in Seq(Entries) /\ L2 = Append(LL, e)
    BY <1>1, <1>2, <1>3 DEF LL
  <2>. HIDE DEF first
  <2>2. Distinct(L2) /\ InOrder(L2, first)
    BY ONLY <1>8, <2>1, AppendedOrder
  <2>. QED  BY <2>2 DEF first
<1>10. Marked(e, "Local", d)
  <2>1. \A c \in Commits(d) : c.indices.Local <= e.LogIndex
    <3>. HIDE DEF K, ix, hc
    <3>1. Book(K, ix, hc, d)
      BY <1>1 DEF K, ix, hc
    <3>. QED  BY <1>1, <1>2, <1>3, <3>1, BookFacts
  <2>. QED  BY <1>1, <1>2, <2>1, NewIsMarked, Parties
<1>11. \A y \in Range(L2) : Marked(y, "Local", d)
  BY <1>1, <1>5, <1>10
<1>12. /\ \A y \in BookOf(m2).Local : IsRmv(y) => y.HtlcIndex \in m2.logs.Remote.modified
       /\ \A y \in BookOf(m2).Remote : IsRmv(y) => y.HtlcIndex \in m2.logs.Local.modified
  BY <1>1, <1>2, <1>4, <1>5
<1>. QED  BY <1>1, <1>2, <1>7, <1>9, <1>11, <1>12, SoundMake

\* An update of the peer.
LEMMA SoundAppendRemote ==
    ASSUME NEW m, NEW d, Sound(m, d), NEW e, NEW m2, Appends(m, e, m2, "Remote"), Resolves(m, e, "Remote")
    PROVE  Sound(m2, d)
<1>. DEFINE RR == m.logs.Remote.list
            R2 == m2.logs.Remote.list
            K == BookOf(m)
            ix == LogIndices(m)
            hc == HtlcCounters(m)
            x == Core(e)
<1>1. /\ m \in Mems /\ d \in Disks /\ m.chains = RestoredChains(d)
      /\ Distinct(m.logs.Local.list) /\ Distinct(m.logs.Remote.list)
      /\ \A y \in Range(m.logs.Local.list) : Marked(y, "Local", d)
      /\ \A y \in Range(m.logs.Remote.list) : Marked(y, "Remote", d)
      /\ \A y \in BookOf(m).Local : IsRmv(y) => y.HtlcIndex \in m.logs.Remote.modified
      /\ \A y \in BookOf(m).Remote : IsRmv(y) => y.HtlcIndex \in m.logs.Local.modified
      /\ InOrder(m.logs.Local.list, TipOf(d).indices.Local)
      /\ Book(BookOf(m), LogIndices(m), HtlcCounters(m), d) /\ Sent(d)
  BY SoundUse
<1>2. /\ e \in Entries /\ m2 \in Mems /\ m2.chains = m.chains
      /\ e.add = Both(0) /\ e.rmv = Both(0) /\ e.LogIndex = ix.Remote
      /\ IsAdd(e) => e.HtlcIndex = hc.Remote
      /\ R2 = Append(RR, e) /\ m2.logs.Local.list = m.logs.Local.list
      /\ LogIndices(m2).Remote = ix.Remote + 1 /\ LogIndices(m2).Local = ix.Local
      /\ HtlcCounters(m2).Remote = IF IsAdd(e) THEN hc.Remote + 1 ELSE hc.Remote
      /\ HtlcCounters(m2).Local = hc.Local
      /\ m.logs.Remote.modified \subseteq m2.logs.Remote.modified
      /\ m.logs.Local.modified \subseteq m2.logs.Local.modified
      /\ IsRmv(e) => e.HtlcIndex \in m2.logs.Local.modified
  BY Parties DEF Appends, LogIndices, HtlcCounters
<1>3. RR \in Seq(Entries) /\ K \in Books /\ ix \in Pairs /\ hc \in Pairs
  BY <1>1, MemFacts
<1>4. /\ x \in Recs /\ x.LogIndex = ix.Remote /\ x.HtlcIndex = e.HtlcIndex /\ x.Amount = e.Amount
      /\ IsAdd(x) <=> IsAdd(e)
      /\ IsRmv(x) <=> IsRmv(e)
  BY <1>2, CoreFacts
<1>5. BookOf(m2).Remote = K.Remote \cup {x} /\ BookOf(m2).Local = K.Local /\ Range(R2) = Range(RR) \cup {e}
  <2>. HIDE DEF RR, R2
  <2>0. e \in Entries /\ RR \in Seq(Entries) /\ R2 = Append(RR, e)
    BY <1>2, <1>3
  <2>1. Cores(R2) = Cores(RR) \cup {x} /\ Range(R2) = Range(RR) \cup {e}
    BY ONLY <2>0, AppendedList, ZenonT(60)
  <2>. QED  BY <1>2, <2>1 DEF BookOf, RR, R2
<1>6. IsRmv(x) => /\ \E a \in K.Local : IsAdd(a) /\ a.HtlcIndex = x.HtlcIndex /\ a.Amount = x.Amount
                  /\ \A r \in K.Remote : IsRmv(r) => r.HtlcIndex # x.HtlcIndex
  BY <1>4, Parties DEF Resolves
<1>7. Book(BookOf(m2), LogIndices(m2), HtlcCounters(m2), d)
  <2>. DEFINE L == BookOf(m2)
              jx == LogIndices(m2)
              jc == HtlcCounters(m2)
  <2>1. /\ L.Remote = K.Remote \cup {x} /\ L.Local = K.Local /\ jx.Remote = ix.Remote + 1 /\ jx.Local = ix.Local
        /\ jc.Remote = (IF IsAdd(x) THEN hc.Remote + 1 ELSE hc.Remote) /\ jc.Local = hc.Local
        /\ IsAdd(x) => x.HtlcIndex = hc.Remote
        /\ Book(K, ix, hc, d) /\ d \in Disks
    BY <1>1, <1>2, <1>4, <1>5
  <2>. HIDE DEF L, jx, jc, K, ix, hc, x
  <2>2. Book(L, jx, jc, d)
    BY ONLY <1>3, <1>4, <1>6, <2>1, BookAppendRemote
  <2>. QED  BY <2>2 DEF L, jx, jc
<1>8. \A y \in Range(RR) : y.LogIndex < e.LogIndex
  <2>1. Ordered(K.Remote, ix.Remote, hc.Remote)
    BY <1>1, BookUse
  <2>2. \A y \in Range(RR) : y \in Entries /\ Core(y) \in K.Remote
    <3>. HIDE DEF RR
    <3>1. Cores(RR) = {Core(y) : y \in Range(RR)} /\ Range(RR) \in SUBSET Entries
      BY <1>3, ListFacts
    <3>2. K.Remote = Cores(RR)
      BY DEF BookOf, RR
    <3>. QED  BY <3>1, <3>2
  <2>3. \A y \in Entries : Core(y).LogIndex = y.LogIndex
    BY CoreFacts
  <2>. HIDE DEF RR, K, ix, hc
  <2>. QED  BY <1>2, <2>1, <2>2, <2>3 DEF Ordered
<1>9. Distinct(R2)
  <2>. HIDE DEF RR, R2
  <2>1. Distinct(RR) /\ e \in Entries /\ RR \in Seq(Entries) /\ R2 = Append(RR, e)
    BY <1>1, <1>2, <1>3 DEF RR
  <2>2. Distinct(R2)
    BY ONLY <1>8, <2>1, AppendedDistinct
  <2>. QED  BY <2>2
<1>10. Marked(e, "Remote", d)
  <2>1. \A c \in Commits(d) : c.indices.Remote <= e.LogIndex
    <3>. HIDE DEF K, ix, hc
    <3>1. Book(K, ix, hc, d)
      BY <1>1 DEF K, ix, hc
    <3>. QED  BY <1>1, <1>2, <1>3, <3>1, BookFacts
  <2>. QED  BY <1>1, <1>2, <2>1, NewIsMarked, Parties
<1>11. \A y \in Range(R2) : Marked(y, "Remote", d)
  BY <1>1, <1>5, <1>10
<1>12. /\ \A y \in BookOf(m2).Remote : IsRmv(y) => y.HtlcIndex \in m2.logs.Local.modified
       /\ \A y \in BookOf(m2).Local : IsRmv(y) => y.HtlcIndex \in m2.logs.Remote.modified
  BY <1>1, <1>2, <1>4, <1>5
<1>. QED  BY <1>1, <1>2, <1>7, <1>9, <1>11, <1>12, SoundMake

\* t is the list s with another amount in entry i, which becomes y.
Replaced(s, i, a, t, y) ==
    /\ s \in Seq(Entries) /\ Distinct(s) /\ i \in DOMAIN s /\ a \in Nat
    /\ t = [s EXCEPT ![i].Amount = a] /\ y = [s[i] EXCEPT !.Amount = a]

\* The list of a log with the amount of one entry changed.
LEMMA ReplacedList ==
    ASSUME NEW s, NEW i, NEW a, NEW t, NEW y, Replaced(s, i, a, t, y)
    PROVE  /\ t \in Seq(Entries) /\ Distinct(t) /\ y \in Entries
           /\ Cores(t) = (Cores(s) \ {Core(s[i])}) \cup {Core(y)}
           /\ Range(t) \subseteq Range(s) \cup {y}
           /\ y.LogIndex = s[i].LogIndex /\ y.EntryType = s[i].EntryType /\ y.add = s[i].add
           /\ y.rmv = s[i].rmv /\ y.HtlcIndex = s[i].HtlcIndex
           /\ \A first : InOrder(s, first) => InOrder(t, first)
<1>. USE DEF Replaced
<1>1. DOMAIN t = DOMAIN s /\ t[i] = y /\ \A j \in DOMAIN s : j # i => t[j] = s[j]
  OBVIOUS
<1>2. s[i] \in Entries
  OBVIOUS
<1>3. /\ y \in Entries /\ y.LogIndex = s[i].LogIndex /\ y.EntryType = s[i].EntryType /\ y.add = s[i].add
      /\ y.rmv = s[i].rmv /\ y.HtlcIndex = s[i].HtlcIndex
  BY <1>2 DEF Entries
<1>4. \A j \in DOMAIN s : t[j] \in Entries
  BY <1>1, <1>3
<1>5. t \in Seq(Entries)
  <2>1. DOMAIN s = 1..Len(s) /\ Len(s) \in Nat
    OBVIOUS
  <2>2. t = [j \in DOMAIN s |-> IF j = i THEN y ELSE s[j]]
    OBVIOUS
  <2>. QED  BY ONLY <1>1, <1>4, <2>1, <2>2
<1>6. \A j \in DOMAIN s : t[j].LogIndex = s[j].LogIndex
  BY <1>1, <1>3
<1>7. Distinct(t) /\ \A first : InOrder(s, first) => InOrder(t, first)
  BY <1>1, <1>6 DEF Distinct, InOrder
<1>8. \A j \in DOMAIN s : Core(s[j]) = Core(s[i]) => j = i
  BY DEF Core, Distinct
<1>9. Cores(t) = (Cores(s) \ {Core(s[i])}) \cup {Core(y)}
  BY <1>1, <1>8 DEF Cores
<1>10. Range(t) \subseteq Range(s) \cup {y}
  BY ONLY <1>1 DEF Range
<1>. QED  BY <1>3, <1>5, <1>7, <1>9, <1>10

\* m2 is m with another amount in the fee update at place i of p's log.
Amends(m, i, a, m2, p) ==
    /\ m2 \in Mems /\ m2.chains = m.chains /\ i \in DOMAIN m.logs[p].list /\ a \in Nat
    /\ m.logs[p].list[i].EntryType = "FeeUpdate" /\ m.logs[p].list[i].add = Both(0)
    /\ m2.logs[p].list = [m.logs[p].list EXCEPT ![i].Amount = a]
    /\ m2.logs[CounterParty(p)].list = m.logs[CounterParty(p)].list
    /\ \A q \in Party : /\ m2.logs[q].logIndex = m.logs[q].logIndex
                        /\ m2.logs[q].htlcCounter = m.logs[q].htlcCounter
                        /\ m2.logs[q].modified = m.logs[q].modified

\* A fee update that no commitment has.
LEMMA FeeIsNew ==
    ASSUME NEW d \in Disks, Staged(d), NEW e \in Entries, e.EntryType = "FeeUpdate", e.add = Both(0),
           NEW p \in Party, Marked(e, p, d)
    PROVE  \A c \in Commits(d) : e.LogIndex >= c.indices[p]
<1>1. At(e).Local = 0 /\ At(e).Remote = 0
  BY DEF At, Both, IsRmv
<1>2. ~(e.LogIndex < d.local.indices[p]) /\ ~(e.LogIndex < TipOf(d).indices[p])
  BY <1>1 DEF Marked
<1>3. /\ d.local \in Commits(d) /\ d.remote \in Commits(d) /\ TipOf(d) \in Commits(d)
      /\ \A c \in Commits(d) : c = d.local \/ c = d.remote \/ c = TipOf(d)
  BY DEF Commits
<1>4. d.local.indices[p] \in Nat /\ d.remote.indices[p] \in Nat /\ TipOf(d).indices[p] \in Nat
  BY <1>3, CommitFacts
<1>5. d.remote.indices[p] <= TipOf(d).indices[p]
  BY Parties DEF Staged
<1>6. e.LogIndex \in Nat
  BY DEF Entries
<1>. QED  BY <1>2, <1>3, <1>4, <1>5, <1>6

\* Overwriting the amount of our fee update that is on no commitment yet
\* keeps the memory sound.
LEMMA SoundAmendLocal ==
    ASSUME NEW m, NEW d, Sound(m, d), NEW i, NEW a, NEW m2, Amends(m, i, a, m2, "Local")
    PROVE  Sound(m2, d)
<1>. DEFINE LL == m.logs.Local.list
            L2 == m2.logs.Local.list
            K == BookOf(m)
            ix == LogIndices(m)
            hc == HtlcCounters(m)
            e == LL[i]
            f == [LL[i] EXCEPT !.Amount = a]
            x == Core(e)
            y == Core(f)
<1>1. /\ m \in Mems /\ d \in Disks /\ m.chains = RestoredChains(d)
      /\ Distinct(m.logs.Local.list) /\ Distinct(m.logs.Remote.list)
      /\ \A z \in Range(m.logs.Local.list) : Marked(z, "Local", d)
      /\ \A z \in Range(m.logs.Remote.list) : Marked(z, "Remote", d)
      /\ \A z \in BookOf(m).Local : IsRmv(z) => z.HtlcIndex \in m.logs.Remote.modified
      /\ \A z \in BookOf(m).Remote : IsRmv(z) => z.HtlcIndex \in m.logs.Local.modified
      /\ InOrder(m.logs.Local.list, TipOf(d).indices.Local)
      /\ Book(BookOf(m), LogIndices(m), HtlcCounters(m), d) /\ Sent(d)
  BY SoundUse
<1>2. /\ m2 \in Mems /\ m2.chains = m.chains /\ i \in DOMAIN LL /\ a \in Nat
      /\ e.EntryType = "FeeUpdate" /\ e.add = Both(0)
      /\ L2 = [LL EXCEPT ![i].Amount = a] /\ m2.logs.Remote.list = m.logs.Remote.list
      /\ LogIndices(m2) = ix /\ HtlcCounters(m2) = hc
      /\ m2.logs.Local.modified = m.logs.Local.modified
      /\ m2.logs.Remote.modified = m.logs.Remote.modified
  BY Parties DEF Amends, LogIndices, HtlcCounters
<1>3. LL \in Seq(Entries) /\ K \in Books /\ ix \in Pairs /\ hc \in Pairs
  BY <1>1, MemFacts
<1>4. /\ L2 \in Seq(Entries) /\ Distinct(L2) /\ f \in Entries
      /\ Cores(L2) = (Cores(LL) \ {x}) \cup {y}
      /\ Range(L2) \subseteq Range(LL) \cup {f}
      /\ f.LogIndex = e.LogIndex /\ f.EntryType = e.EntryType /\ f.add = e.add
      /\ f.rmv = e.rmv /\ f.HtlcIndex = e.HtlcIndex
      /\ InOrder(L2, TipOf(d).indices.Local)
  <2>1. /\ Replaced(LL, i, a, L2, f)
        /\ InOrder(LL, TipOf(d).indices.Local)
    BY <1>1, <1>2, <1>3 DEF Replaced
  <2>. HIDE DEF LL, L2, f
  <2>. QED  BY ONLY <2>1, ReplacedList
<1>5. e \in Range(LL) /\ e \in Entries /\ Marked(e, "Local", d)
  BY <1>1, <1>2, <1>3 DEF Range
<1>6. Marked(f, "Local", d)
  <2>1. At(f) = At(e)
    BY <1>4 DEF At, IsRmv
  <2>2. IsAdd(f) <=> IsAdd(e)
    BY <1>4 DEF IsAdd
  <2>3. IsRmv(f) <=> IsRmv(e)
    BY <1>4 DEF IsRmv
  <2>. HIDE DEF e, f
  <2>. QED  BY ONLY <1>4, <1>5, <2>1, <2>2, <2>3 DEF Marked
<1>7. BookOf(m2).Local = (K.Local \ {x}) \cup {y} /\ BookOf(m2).Remote = K.Remote
  BY <1>2, <1>4 DEF BookOf
<1>8. x \in K.Local /\ x.EntryType = "FeeUpdate" /\ x.LogIndex = e.LogIndex
      /\ y \in Recs /\ y.EntryType = "FeeUpdate" /\ y.LogIndex = e.LogIndex
  <2>1. x \in K.Local
    BY <1>2 DEF BookOf, Cores
  <2>. QED  BY <1>2, <1>4, <1>5, <2>1, CoreFacts
<1>9. \A c \in Commits(d) : e.LogIndex >= c.indices.Local
  <2>1. Staged(d)
    BY <1>1, BookUse
  <2>2. \A c \in Commits(d) : e.LogIndex >= c.indices["Local"]
    <3>. HIDE DEF e
    <3>. QED  BY <1>1, <1>2, <1>5, <2>1, FeeIsNew, Parties
  <2>. QED  BY <2>2
<1>10. Book(BookOf(m2), LogIndices(m2), HtlcCounters(m2), d)
  <2>. DEFINE L == BookOf(m2)
  <2>1. /\ L.Local = (K.Local \ {x}) \cup {y} /\ L.Remote = K.Remote /\ Book(K, ix, hc, d) /\ d \in Disks
        /\ x \in K.Local /\ y \in Recs /\ x.EntryType = "FeeUpdate" /\ y.EntryType = "FeeUpdate"
        /\ x.LogIndex = y.LogIndex /\ \A c \in Commits(d) : x.LogIndex >= c.indices.Local
    BY <1>1, <1>7, <1>8, <1>9
  <2>. HIDE DEF L, K, ix, hc, x, y
  <2>2. Book(L, ix, hc, d)
    BY ONLY <1>3, <2>1, BookFeeLocal
  <2>. QED  BY <1>2, <2>2 DEF L
<1>11. \A z \in Range(L2) : Marked(z, "Local", d)
  BY <1>1, <1>4, <1>6
<1>12. ~IsRmv(y)
  BY <1>8 DEF IsRmv
<1>13. /\ \A z \in BookOf(m2).Local : IsRmv(z) => z.HtlcIndex \in m2.logs.Remote.modified
       /\ \A z \in BookOf(m2).Remote : IsRmv(z) => z.HtlcIndex \in m2.logs.Local.modified
  <2>. HIDE DEF K, x, y
  <2>. QED  BY <1>1, <1>2, <1>7, <1>12 DEF K
<1>. QED  BY <1>1, <1>2, <1>4, <1>10, <1>11, <1>13, SoundMake

\* The same for the fee update of the peer.
LEMMA SoundAmendRemote ==
    ASSUME NEW m, NEW d, Sound(m, d), NEW i, NEW a, NEW m2, Amends(m, i, a, m2, "Remote")
    PROVE  Sound(m2, d)
<1>. DEFINE RR == m.logs.Remote.list
            R2 == m2.logs.Remote.list
            K == BookOf(m)
            ix == LogIndices(m)
            hc == HtlcCounters(m)
            e == RR[i]
            f == [RR[i] EXCEPT !.Amount = a]
            x == Core(e)
            y == Core(f)
<1>1. /\ m \in Mems /\ d \in Disks /\ m.chains = RestoredChains(d)
      /\ Distinct(m.logs.Local.list) /\ Distinct(m.logs.Remote.list)
      /\ \A z \in Range(m.logs.Local.list) : Marked(z, "Local", d)
      /\ \A z \in Range(m.logs.Remote.list) : Marked(z, "Remote", d)
      /\ \A z \in BookOf(m).Local : IsRmv(z) => z.HtlcIndex \in m.logs.Remote.modified
      /\ \A z \in BookOf(m).Remote : IsRmv(z) => z.HtlcIndex \in m.logs.Local.modified
      /\ InOrder(m.logs.Local.list, TipOf(d).indices.Local)
      /\ Book(BookOf(m), LogIndices(m), HtlcCounters(m), d) /\ Sent(d)
  BY SoundUse
<1>2. /\ m2 \in Mems /\ m2.chains = m.chains /\ i \in DOMAIN RR /\ a \in Nat
      /\ e.EntryType = "FeeUpdate" /\ e.add = Both(0)
      /\ R2 = [RR EXCEPT ![i].Amount = a] /\ m2.logs.Local.list = m.logs.Local.list
      /\ LogIndices(m2) = ix /\ HtlcCounters(m2) = hc
      /\ m2.logs.Remote.modified = m.logs.Remote.modified
      /\ m2.logs.Local.modified = m.logs.Local.modified
  BY Parties DEF Amends, LogIndices, HtlcCounters
<1>3. RR \in Seq(Entries) /\ K \in Books /\ ix \in Pairs /\ hc \in Pairs
  BY <1>1, MemFacts
<1>4. /\ R2 \in Seq(Entries) /\ Distinct(R2) /\ f \in Entries
      /\ Cores(R2) = (Cores(RR) \ {x}) \cup {y}
      /\ Range(R2) \subseteq Range(RR) \cup {f}
      /\ f.LogIndex = e.LogIndex /\ f.EntryType = e.EntryType /\ f.add = e.add
      /\ f.rmv = e.rmv /\ f.HtlcIndex = e.HtlcIndex
  <2>1. /\ Replaced(RR, i, a, R2, f)
    BY <1>1, <1>2, <1>3 DEF Replaced
  <2>. HIDE DEF RR, R2, f
  <2>. QED  BY ONLY <2>1, ReplacedList
<1>5. e \in Range(RR) /\ e \in Entries /\ Marked(e, "Remote", d)
  BY <1>1, <1>2, <1>3 DEF Range
<1>6. Marked(f, "Remote", d)
  <2>1. At(f) = At(e)
    BY <1>4 DEF At, IsRmv
  <2>2. IsAdd(f) <=> IsAdd(e)
    BY <1>4 DEF IsAdd
  <2>3. IsRmv(f) <=> IsRmv(e)
    BY <1>4 DEF IsRmv
  <2>. HIDE DEF e, f
  <2>. QED  BY ONLY <1>4, <1>5, <2>1, <2>2, <2>3 DEF Marked
<1>7. BookOf(m2).Remote = (K.Remote \ {x}) \cup {y} /\ BookOf(m2).Local = K.Local
  BY <1>2, <1>4 DEF BookOf
<1>8. x \in K.Remote /\ x.EntryType = "FeeUpdate" /\ x.LogIndex = e.LogIndex
      /\ y \in Recs /\ y.EntryType = "FeeUpdate" /\ y.LogIndex = e.LogIndex
  <2>1. x \in K.Remote
    BY <1>2 DEF BookOf, Cores
  <2>. QED  BY <1>2, <1>4, <1>5, <2>1, CoreFacts
<1>9. \A c \in Commits(d) : e.LogIndex >= c.indices.Remote
  <2>1. Staged(d)
    BY <1>1, BookUse
  <2>2. \A c \in Commits(d) : e.LogIndex >= c.indices["Remote"]
    <3>. HIDE DEF e
    <3>. QED  BY <1>1, <1>2, <1>5, <2>1, FeeIsNew, Parties
  <2>. QED  BY <2>2
<1>10. Book(BookOf(m2), LogIndices(m2), HtlcCounters(m2), d)
  <2>. DEFINE L == BookOf(m2)
  <2>1. /\ L.Remote = (K.Remote \ {x}) \cup {y} /\ L.Local = K.Local /\ Book(K, ix, hc, d) /\ d \in Disks
        /\ x \in K.Remote /\ y \in Recs /\ x.EntryType = "FeeUpdate" /\ y.EntryType = "FeeUpdate"
        /\ x.LogIndex = y.LogIndex /\ \A c \in Commits(d) : x.LogIndex >= c.indices.Remote
    BY <1>1, <1>7, <1>8, <1>9
  <2>. HIDE DEF L, K, ix, hc, x, y
  <2>2. Book(L, ix, hc, d)
    BY ONLY <1>3, <2>1, BookFeeRemote
  <2>. QED  BY <1>2, <2>2 DEF L
<1>11. \A z \in Range(R2) : Marked(z, "Remote", d)
  BY <1>1, <1>4, <1>6
<1>12. ~IsRmv(y)
  BY <1>8 DEF IsRmv
<1>13. /\ \A z \in BookOf(m2).Remote : IsRmv(z) => z.HtlcIndex \in m2.logs.Local.modified
       /\ \A z \in BookOf(m2).Local : IsRmv(z) => z.HtlcIndex \in m2.logs.Remote.modified
  <2>. HIDE DEF K, x, y
  <2>. QED  BY <1>1, <1>2, <1>7, <1>12 DEF K
<1>. QED  BY <1>1, <1>2, <1>4, <1>10, <1>11, <1>13, SoundMake

\* m2 is m with g and h for logs.
Relogs(m, g, h, m2) ==
    /\ m \in Mems /\ g \in UpdateLogs /\ h \in UpdateLogs
    /\ \/ m2 = [m EXCEPT !.logs.Local = g] /\ h = m.logs.Remote
       \/ m2 = [m EXCEPT !.logs.Remote = h] /\ g = m.logs.Local
       \/ m2 = [m EXCEPT !.logs.Local = g, !.logs.Remote = h]
       \/ m2 = [m EXCEPT !.logs.Remote = h, !.logs.Local = g]

\* Both logs of a memory replaced.
LEMMA BothLogs ==
    ASSUME NEW m, NEW x, NEW y, NEW z, m = [logs |-> [Local |-> x, Remote |-> y], chains |-> z],
           NEW g, NEW h, NEW m2,
           \/ m2 = [m EXCEPT !.logs.Local = g, !.logs.Remote = h]
           \/ m2 = [m EXCEPT !.logs.Remote = h, !.logs.Local = g]
    PROVE  m2 = [logs |-> [Local |-> g, Remote |-> h], chains |-> z]
OBVIOUS

\* A memory with other logs.
LEMMA OtherLogs ==
    ASSUME NEW m, NEW g, NEW h, NEW m2, Relogs(m, g, h, m2)
    PROVE  m2 \in Mems /\ m2.logs.Local = g /\ m2.logs.Remote = h /\ m2.chains = m.chains
<1>1. /\ m.logs \in [Local : UpdateLogs, Remote : UpdateLogs]
      /\ m.chains \in [Local : Seq(Commitments), Remote : Seq(Commitments)]
      /\ m = [logs |-> m.logs, chains |-> m.chains] /\ g \in UpdateLogs /\ h \in UpdateLogs
      /\ m.logs = [Local |-> m.logs.Local, Remote |-> m.logs.Remote]
  BY DEF Mems, Relogs
<1>2. m2 = [logs |-> [Local |-> g, Remote |-> h], chains |-> m.chains]
  <2>. DEFINE x == m.logs.Local
              y == m.logs.Remote
              z == m.chains
  <2>1. m = [logs |-> [Local |-> x, Remote |-> y], chains |-> z]
    BY <1>1
  <2>. HIDE DEF x, y, z
  <2>2. \/ m2 = [m EXCEPT !.logs.Local = g] /\ h = y
        \/ m2 = [m EXCEPT !.logs.Remote = h] /\ g = x
        \/ m2 = [m EXCEPT !.logs.Local = g, !.logs.Remote = h]
        \/ m2 = [m EXCEPT !.logs.Remote = h, !.logs.Local = g]
    BY DEF Relogs, x, y
  <2>3. m2 = [logs |-> [Local |-> g, Remote |-> h], chains |-> z]
    <3>1. CASE m2 = [m EXCEPT !.logs.Local = g] /\ h = y
      BY ONLY <2>1, <3>1
    <3>2. CASE m2 = [m EXCEPT !.logs.Remote = h] /\ g = x
      BY ONLY <2>1, <3>2
    <3>3. CASE \/ m2 = [m EXCEPT !.logs.Local = g, !.logs.Remote = h]
               \/ m2 = [m EXCEPT !.logs.Remote = h, !.logs.Local = g]
      BY ONLY <2>1, <3>3, BothLogs, ZenonT(60)
    <3>. QED  BY ONLY <2>2, <3>1, <3>2, <3>3
  <2>. QED  BY <2>3 DEF z
<1>. QED  BY <1>1, <1>2 DEF Mems

\* A new entry.
LEMMA NewEntry ==
    ASSUME NEW type \in Types, NEW i \in Nat, NEW h \in Nat, NEW a \in Nat, NEW e, e = Descriptor(type, i, h, a)
    PROVE  /\ e \in Entries /\ e.EntryType = type /\ e.LogIndex = i /\ e.HtlcIndex = h /\ e.Amount = a
           /\ e.add = Both(0) /\ e.rmv = Both(0)
           /\ IsAdd(e) <=> type = "Add"
           /\ IsRmv(e) <=> type \in {"Settle", "Fail"}
BY DEF Descriptor, Entries, Both, Pairs, IsAdd, IsRmv

\* The log with a new entry.
LEMMA LogAppends ==
    ASSUME NEW g \in UpdateLogs, NEW e \in Entries
    PROVE  /\ AppendHtlc(g, e) \in UpdateLogs /\ AppendHtlc(g, e).list = Append(g.list, e)
           /\ AppendHtlc(g, e).logIndex = g.logIndex + 1 /\ AppendHtlc(g, e).htlcCounter = g.htlcCounter + 1
           /\ AppendHtlc(g, e).modified = g.modified
           /\ AppendUpdate(g, e) \in UpdateLogs /\ AppendUpdate(g, e).list = Append(g.list, e)
           /\ AppendUpdate(g, e).logIndex = g.logIndex + 1 /\ AppendUpdate(g, e).htlcCounter = g.htlcCounter
           /\ AppendUpdate(g, e).modified = g.modified
           /\ \A h \in Nat : /\ MarkHtlcModified(g, h) \in UpdateLogs /\ MarkHtlcModified(g, h).list = g.list
                             /\ MarkHtlcModified(g, h).logIndex = g.logIndex
                             /\ MarkHtlcModified(g, h).htlcCounter = g.htlcCounter
                             /\ MarkHtlcModified(g, h).modified = g.modified \cup {h}
<1>1. Append(g.list, e) \in Seq(Entries) /\ g.logIndex + 1 \in Nat /\ g.htlcCounter + 1 \in Nat
  BY DEF UpdateLogs
<1>. QED  BY <1>1 DEF UpdateLogs, AppendHtlc, AppendUpdate, MarkHtlcModified

\* A new HTLC of p, in either log.
LEMMA SoundAdd ==
    ASSUME NEW m, NEW d, Sound(m, d), NEW a \in Nat, NEW m2,
           m2 = [m EXCEPT !.logs.Local = AppendHtlc(@,
                   Descriptor("Add", m.logs.Local.logIndex, m.logs.Local.htlcCounter, a))]
    PROVE  Sound(m2, d)
<1>. DEFINE g == m.logs.Local
            e == Descriptor("Add", g.logIndex, g.htlcCounter, a)
            g2 == AppendHtlc(g, e)
<1>1. m \in Mems /\ g \in UpdateLogs /\ m.logs.Remote \in UpdateLogs /\ g.logIndex \in Nat /\ g.htlcCounter \in Nat
  BY SoundUse, MemFacts
<1>. HIDE DEF g
<1>2. /\ e \in Entries /\ e.LogIndex = g.logIndex /\ e.HtlcIndex = g.htlcCounter
      /\ e.add = Both(0) /\ e.rmv = Both(0) /\ IsAdd(e) /\ ~IsRmv(e)
  BY <1>1, NewEntry DEF Types
<1>. HIDE DEF e
<1>3. /\ g2 \in UpdateLogs /\ g2.list = Append(g.list, e) /\ g2.logIndex = g.logIndex + 1
      /\ g2.htlcCounter = g.htlcCounter + 1 /\ g2.modified = g.modified
  BY <1>1, <1>2, LogAppends
<1>4. m2 = [m EXCEPT !.logs.Local = g2]
  BY DEF g, e, g2
<1>. HIDE DEF g2
<1>5. m2 \in Mems /\ m2.logs.Local = g2 /\ m2.logs.Remote = m.logs.Remote /\ m2.chains = m.chains
  <2>1. Relogs(m, g2, m.logs.Remote, m2)
    BY <1>1, <1>3, <1>4 DEF Relogs
  <2>. QED  BY ONLY <2>1, OtherLogs
<1>6. Appends(m, e, m2, "Local")
  BY <1>2, <1>3, <1>5, Parties DEF Appends, g
<1>7. Resolves(m, e, "Local")
  BY <1>2 DEF Resolves
<1>. QED  BY <1>2, <1>6, <1>7, SoundAppendLocal

\* ReceiveHTLC keeps the memory sound.
LEMMA SoundAcceptAdd ==
    ASSUME NEW m, NEW d, Sound(m, d), NEW a \in Nat, NEW m2,
           m2 = [m EXCEPT !.logs.Remote = AppendHtlc(@,
                   Descriptor("Add", m.logs.Remote.logIndex, m.logs.Remote.htlcCounter, a))]
    PROVE  Sound(m2, d)
<1>. DEFINE g == m.logs.Remote
            e == Descriptor("Add", g.logIndex, g.htlcCounter, a)
            g2 == AppendHtlc(g, e)
<1>1. m \in Mems /\ g \in UpdateLogs /\ m.logs.Local \in UpdateLogs /\ g.logIndex \in Nat /\ g.htlcCounter \in Nat
  BY SoundUse, MemFacts
<1>. HIDE DEF g
<1>2. /\ e \in Entries /\ e.LogIndex = g.logIndex /\ e.HtlcIndex = g.htlcCounter
      /\ e.add = Both(0) /\ e.rmv = Both(0) /\ IsAdd(e) /\ ~IsRmv(e)
  BY <1>1, NewEntry DEF Types
<1>. HIDE DEF e
<1>3. /\ g2 \in UpdateLogs /\ g2.list = Append(g.list, e) /\ g2.logIndex = g.logIndex + 1
      /\ g2.htlcCounter = g.htlcCounter + 1 /\ g2.modified = g.modified
  BY <1>1, <1>2, LogAppends
<1>4. m2 = [m EXCEPT !.logs.Remote = g2]
  BY DEF g, e, g2
<1>. HIDE DEF g2
<1>5. m2 \in Mems /\ m2.logs.Remote = g2 /\ m2.logs.Local = m.logs.Local /\ m2.chains = m.chains
  <2>1. Relogs(m, m.logs.Local, g2, m2)
    BY <1>1, <1>3, <1>4 DEF Relogs
  <2>. QED  BY ONLY <2>1, OtherLogs
<1>6. Appends(m, e, m2, "Remote")
  BY <1>2, <1>3, <1>5, Parties DEF Appends, g
<1>7. Resolves(m, e, "Remote")
  BY <1>2 DEF Resolves
<1>. QED  BY <1>6, <1>7, SoundAppendRemote

\* An HTLC of the log of p that is not marked as removed has no removal.
LEMMA Unresolved ==
    ASSUME NEW m, NEW d, Sound(m, d), NEW p \in Party, NEW h, NEW a,
           a \in LookupHtlc(m.logs[CounterParty(p)], h), h \notin m.logs[CounterParty(p)].modified
    PROVE  /\ h \in Nat /\ a \in Entries /\ a.Amount \in Nat
           /\ \A e : e.HtlcIndex = h /\ e.Amount = a.Amount => Resolves(m, e, p)
<1>. DEFINE q == CounterParty(p)
<1>1. /\ m \in Mems /\ q \in Party
      /\ \A y \in BookOf(m).Local : IsRmv(y) => y.HtlcIndex \in m.logs.Remote.modified
      /\ \A y \in BookOf(m).Remote : IsRmv(y) => y.HtlcIndex \in m.logs.Local.modified
  BY SoundUse, Parties
<1>2. a \in Range(m.logs[q].list) /\ a.EntryType = "Add" /\ a.HtlcIndex = h
  BY DEF LookupHtlc
<1>3. m.logs[q].list \in Seq(Entries) /\ BookOf(m)[q] = Cores(m.logs[q].list)
  BY <1>1, MemFacts, Parties DEF BookOf
<1>4. a \in Entries /\ Core(a) \in BookOf(m)[q]
  <2>. DEFINE s == m.logs[q].list
  <2>. HIDE DEF s
  <2>1. s \in Seq(Entries) /\ a \in Range(s) /\ BookOf(m)[q] = Cores(s)
    BY <1>2, <1>3 DEF s
  <2>2. Range(s) \in SUBSET Entries /\ Cores(s) = {Core(e) : e \in Range(s)}
    BY <2>1, ListFacts
  <2>. QED  BY <2>1, <2>2
<1>5. h \in Nat /\ a.Amount \in Nat
  BY <1>2, <1>4 DEF Entries
<1>6. IsAdd(Core(a)) /\ Core(a).HtlcIndex = h /\ Core(a).Amount = a.Amount
  BY <1>2, <1>4, CoreFacts DEF IsAdd
<1>7. \A r \in BookOf(m)[p] : IsRmv(r) => r.HtlcIndex \in m.logs[q].modified
  BY <1>1, Parties
<1>. HIDE DEF q
<1>8. ASSUME NEW e, e.HtlcIndex = h, e.Amount = a.Amount PROVE Resolves(m, e, p)
  <2>1. h \notin m.logs[q].modified
    BY DEF q
  <2>. QED  BY <1>4, <1>6, <1>7, <1>8, <2>1 DEF Resolves, q
<1>. QED  BY <1>4, <1>5, <1>8

\* A removal of one of the peer's HTLCs, that went to the switch.
LEMMA SoundRemove ==
    ASSUME NEW m, NEW d, Sound(m, d), NEW h, NEW type \in {"Settle", "Fail"}, Removable(m, h),
           h \in Forwarded(d)
    PROVE  Sound(RemoveHTLC(m, h, type), d)
<1>. DEFINE a == CHOOSE x \in LookupHtlc(m.logs.Remote, h) : TRUE
            g == m.logs.Local
            k == m.logs.Remote
            e == Descriptor(type, g.logIndex, h, a.Amount)
            g2 == AppendUpdate(g, e)
            k2 == MarkHtlcModified(k, h)
            m2 == RemoveHTLC(m, h, type)
<1>1. m \in Mems /\ d \in Disks /\ g \in UpdateLogs /\ k \in UpdateLogs /\ g.logIndex \in Nat
  BY SoundUse, MemFacts
<1>2. a \in LookupHtlc(m.logs[CounterParty("Local")], h) /\ h \notin m.logs[CounterParty("Local")].modified
  BY Parties DEF Removable
<1>3. h \in Nat /\ a.Amount \in Nat /\ \A x : x.HtlcIndex = h /\ x.Amount = a.Amount => Resolves(m, x, "Local")
  <2>. HIDE DEF a
  <2>. QED  BY <1>2, Unresolved, Parties
<1>4. m2 = [m EXCEPT !.logs.Local = g2, !.logs.Remote = k2]
  BY DEF RemoveHTLC
<1>. HIDE DEF g, k, a, m2
<1>5. /\ e \in Entries /\ e.LogIndex = g.logIndex /\ e.HtlcIndex = h /\ e.Amount = a.Amount
      /\ e.add = Both(0) /\ e.rmv = Both(0) /\ ~IsAdd(e) /\ IsRmv(e)
  <2>1. type \in Types /\ type # "Add" /\ g.logIndex \in Nat /\ h \in Nat /\ a.Amount \in Nat
    BY <1>1, <1>3 DEF Types
  <2>. QED  BY <2>1, NewEntry
<1>. HIDE DEF e
<1>6. /\ g2 \in UpdateLogs /\ g2.list = Append(g.list, e) /\ g2.logIndex = g.logIndex + 1
      /\ g2.htlcCounter = g.htlcCounter /\ g2.modified = g.modified
      /\ k2 \in UpdateLogs /\ k2.list = k.list /\ k2.logIndex = k.logIndex /\ k2.htlcCounter = k.htlcCounter
      /\ k2.modified = k.modified \cup {h}
  BY <1>1, <1>3, <1>5, LogAppends
<1>. HIDE DEF g2, k2
<1>7. m2 \in Mems /\ m2.logs.Local = g2 /\ m2.logs.Remote = k2 /\ m2.chains = m.chains
  <2>1. Relogs(m, g2, k2, m2)
    BY <1>1, <1>4, <1>6 DEF Relogs
  <2>. QED  BY ONLY <2>1, OtherLogs
<1>8. Appends(m, e, m2, "Local")
  <2>1. \A q \in Party : m.logs[q].modified \subseteq m2.logs[q].modified
    BY <1>6, <1>7, Parties DEF g, k
  <2>. QED  BY <1>5, <1>6, <1>7, <2>1, Parties DEF Appends, g, k
<1>9. Resolves(m, e, "Local")
  BY <1>3, <1>5
<1>10. d.ackedKey /\ h < d.remote.htlcIndex.Remote
  <2>1. Kept(BookOf(m), d) /\ Sent(d)
    BY SoundUse, BookUse
  <2>2. d.ackedKey
    BY <2>1 DEF Kept
  <2>3. h \in 0..(d.remote.htlcIndex.Remote - 1)
    BY <2>1 DEF Sent
  <2>4. d.remote.htlcIndex.Remote \in Nat
    BY <1>1, CommitFacts, Parties DEF Commits
  <2>. QED  BY <2>2, <2>3, <2>4
<1>11. Sound(m2, d)
  BY <1>5, <1>8, <1>9, <1>10, SoundAppendLocal
<1>. QED  BY <1>11 DEF m2

\* A removal of one of our HTLCs by the peer.
LEMMA SoundAcceptResolution ==
    ASSUME NEW m, NEW d, Sound(m, d), NEW u, u.EntryType \in {"Settle", "Fail"}, AcceptResolution(m, u).ok
    PROVE  Sound(AcceptResolution(m, u).m, d)
<1>. DEFINE h == u.HtlcIndex
            a == CHOOSE x \in LookupHtlc(m.logs.Local, h) : TRUE
            g == m.logs.Remote
            k == m.logs.Local
            e == Descriptor(u.EntryType, g.logIndex, h, a.Amount)
            g2 == AppendUpdate(g, e)
            k2 == MarkHtlcModified(k, h)
            m2 == AcceptResolution(m, u).m
<1>1. m \in Mems /\ d \in Disks /\ g \in UpdateLogs /\ k \in UpdateLogs /\ g.logIndex \in Nat
  BY SoundUse, MemFacts
<1>2. a \in LookupHtlc(m.logs[CounterParty("Remote")], h) /\ h \notin m.logs[CounterParty("Remote")].modified
  BY Parties DEF AcceptResolution
<1>3. h \in Nat /\ a.Amount \in Nat /\ \A x : x.HtlcIndex = h /\ x.Amount = a.Amount => Resolves(m, x, "Remote")
  <2>. HIDE DEF a, h
  <2>. QED  BY <1>2, Unresolved, Parties
<1>4. m2 = [m EXCEPT !.logs.Remote = g2, !.logs.Local = k2]
  BY DEF AcceptResolution
<1>. HIDE DEF g, k, a, m2, h
<1>5. /\ e \in Entries /\ e.LogIndex = g.logIndex /\ e.HtlcIndex = h /\ e.Amount = a.Amount
      /\ e.add = Both(0) /\ e.rmv = Both(0) /\ ~IsAdd(e) /\ IsRmv(e)
  BY <1>1, <1>3, NewEntry DEF Types
<1>. HIDE DEF e
<1>6. /\ g2 \in UpdateLogs /\ g2.list = Append(g.list, e) /\ g2.logIndex = g.logIndex + 1
      /\ g2.htlcCounter = g.htlcCounter /\ g2.modified = g.modified
      /\ k2 \in UpdateLogs /\ k2.list = k.list /\ k2.logIndex = k.logIndex /\ k2.htlcCounter = k.htlcCounter
      /\ k2.modified = k.modified \cup {h}
  BY <1>1, <1>3, <1>5, LogAppends, ZenonT(60)
<1>. HIDE DEF g2, k2
<1>7. m2 \in Mems /\ m2.logs.Local = k2 /\ m2.logs.Remote = g2 /\ m2.chains = m.chains
  <2>1. Relogs(m, k2, g2, m2)
    BY <1>1, <1>4, <1>6 DEF Relogs
  <2>. QED  BY ONLY <2>1, OtherLogs
<1>8. Appends(m, e, m2, "Remote")
  <2>1. \A q \in Party : m.logs[q].modified \subseteq m2.logs[q].modified
    BY <1>6, <1>7, Parties DEF g, k
  <2>. QED  BY <1>5, <1>6, <1>7, <2>1, Parties DEF Appends, g, k
<1>9. Resolves(m, e, "Remote")
  BY <1>3, <1>5
<1>10. Sound(m2, d)
  BY <1>8, <1>9, SoundAppendRemote
<1>. QED  BY <1>10 DEF m2

\* g2 is the log g with the amount of e in a fee update that no chain has.
Amended(g, e, g2) ==
    /\ g2 \in UpdateLogs /\ g2.logIndex = g.logIndex /\ g2.htlcCounter = g.htlcCounter
    /\ g2.modified = g.modified
    /\ \E i \in DOMAIN g.list :
          /\ g.list[i].EntryType = "FeeUpdate" /\ g.list[i].add = Both(0)
          /\ g2.list = [g.list EXCEPT ![i].Amount = e.Amount]

\* appendFeeUpdate amends a fee update that no chain has, or appends one.
LEMMA FeeAppended ==
    ASSUME NEW g \in UpdateLogs, Distinct(g.list), NEW e \in Entries, NEW g2, g2 = AppendFeeUpdate(g, e)
    PROVE  g2 = AppendUpdate(g, e) \/ Amended(g, e, g2)
<1>. DEFINE s == g.list
            fees == {k \in DOMAIN s : s[k].EntryType = "FeeUpdate"}
            i == Max(fees)
            t == [s EXCEPT ![i].Amount = e.Amount]
            y == [s[i] EXCEPT !.Amount = e.Amount]
<1>1. s \in Seq(Entries) /\ fees \in SUBSET (1..Len(s)) /\ Len(s) \in Nat /\ e.Amount \in Nat
  BY DEF UpdateLogs, Entries
<1>2. CASE fees # {} /\ s[i].add = Both(0)
  <2>1. i \in fees
    <3>. HIDE DEF fees
    <3>. QED  BY <1>1, <1>2, MaxFacts
  <2>2. i \in DOMAIN s /\ s[i].EntryType = "FeeUpdate"
    BY <2>1
  <2>3. g2 = [g EXCEPT !.list = t]
    BY <1>2 DEF AppendFeeUpdate
  <2>. HIDE DEF i
  <2>4. Replaced(s, i, e.Amount, t, y)
    BY <1>1, <2>2 DEF Replaced
  <2>. HIDE DEF t, y, s
  <2>5. t \in Seq(Entries)
    BY ONLY <2>4, ReplacedList
  <2>6. /\ g2 \in UpdateLogs /\ g2.logIndex = g.logIndex /\ g2.htlcCounter = g.htlcCounter
        /\ g2.modified = g.modified /\ g2.list = t
    BY <2>3, <2>5 DEF UpdateLogs
  <2>. QED  BY <1>2, <2>2, <2>6 DEF s, t, Amended
<1>3. CASE ~(fees # {} /\ s[i].add = Both(0))
  BY <1>3 DEF AppendFeeUpdate
<1>. QED  BY <1>2, <1>3

\* A fee update of ours.
LEMMA SoundFee ==
    ASSUME NEW m, NEW d, Sound(m, d), NEW a \in Nat, NEW m2,
           m2 = [m EXCEPT !.logs.Local = AppendFeeUpdate(@, Descriptor("FeeUpdate", @.logIndex, 0, a))]
    PROVE  Sound(m2, d)
<1>. DEFINE g == m.logs.Local
            e == Descriptor("FeeUpdate", g.logIndex, 0, a)
            g2 == AppendFeeUpdate(g, e)
<1>1. /\ m \in Mems /\ g \in UpdateLogs /\ m.logs.Remote \in UpdateLogs /\ g.logIndex \in Nat
      /\ Distinct(g.list)
  BY SoundUse, MemFacts
<1>2. m2 = [m EXCEPT !.logs.Local = g2]
  OBVIOUS
<1>. HIDE DEF g
<1>3. /\ e \in Entries /\ e.LogIndex = g.logIndex /\ e.Amount = a
      /\ e.add = Both(0) /\ e.rmv = Both(0) /\ ~IsAdd(e) /\ ~IsRmv(e)
  <2>1. "FeeUpdate" \in Types /\ 0 \in Nat /\ g.logIndex \in Nat
    BY <1>1 DEF Types
  <2>. QED  BY <2>1, NewEntry
<1>. HIDE DEF e, g2
<1>4. CASE g2 = AppendUpdate(g, e)
  <2>1. /\ g2 \in UpdateLogs /\ g2.list = Append(g.list, e) /\ g2.logIndex = g.logIndex + 1
        /\ g2.htlcCounter = g.htlcCounter /\ g2.modified = g.modified
    BY <1>1, <1>3, <1>4, LogAppends
  <2>2. Relogs(m, g2, m.logs.Remote, m2)
    BY <1>1, <1>2, <2>1 DEF Relogs
  <2>3. m2 \in Mems /\ m2.logs.Local = g2 /\ m2.logs.Remote = m.logs.Remote /\ m2.chains = m.chains
    BY ONLY <2>2, OtherLogs
  <2>4. Appends(m, e, m2, "Local")
    BY <1>3, <2>1, <2>3, Parties DEF Appends, g
  <2>5. Resolves(m, e, "Local")
    BY <1>3 DEF Resolves
  <2>. QED  BY <1>3, <2>4, <2>5, SoundAppendLocal
<1>5. CASE g2 # AppendUpdate(g, e)
  <2>1. /\ g2 \in UpdateLogs /\ g2.logIndex = g.logIndex /\ g2.htlcCounter = g.htlcCounter
        /\ g2.modified = g.modified
        /\ \E i \in DOMAIN g.list :
                    /\ g.list[i].EntryType = "FeeUpdate" /\ g.list[i].add = Both(0)
                    /\ g2.list = [g.list EXCEPT ![i].Amount = e.Amount]
    <3>1. Amended(g, e, g2)
      BY <1>1, <1>3, <1>5, FeeAppended DEF g2
    <3>. QED  BY <3>1 DEF Amended
  <2>2. PICK i \in DOMAIN g.list :
                    /\ g.list[i].EntryType = "FeeUpdate" /\ g.list[i].add = Both(0)
                    /\ g2.list = [g.list EXCEPT ![i].Amount = e.Amount]
    BY <2>1
  <2>3. Relogs(m, g2, m.logs.Remote, m2)
    BY <1>1, <1>2, <2>1 DEF Relogs
  <2>4. m2 \in Mems /\ m2.logs.Local = g2 /\ m2.logs.Remote = m.logs.Remote /\ m2.chains = m.chains
    BY ONLY <2>3, OtherLogs
  <2>5. \A q \in Party : /\ m2.logs[q].logIndex = m.logs[q].logIndex
                        /\ m2.logs[q].htlcCounter = m.logs[q].htlcCounter
                        /\ m2.logs[q].modified = m.logs[q].modified
    BY <2>1, <2>4, Parties DEF g
  <2>6. Amends(m, i, a, m2, "Local")
    BY <1>3, <2>2, <2>4, <2>5, Parties DEF Amends, g
  <2>. QED  BY <2>6, SoundAmendLocal
<1>. QED  BY <1>4, <1>5

\* A fee update of the peer.
LEMMA SoundAcceptFee ==
    ASSUME NEW m, NEW d, Sound(m, d), NEW a \in Nat, NEW m2,
           m2 = [m EXCEPT !.logs.Remote = AppendFeeUpdate(@, Descriptor("FeeUpdate", @.logIndex, 0, a))]
    PROVE  Sound(m2, d)
<1>. DEFINE g == m.logs.Remote
            e == Descriptor("FeeUpdate", g.logIndex, 0, a)
            g2 == AppendFeeUpdate(g, e)
<1>1. /\ m \in Mems /\ g \in UpdateLogs /\ m.logs.Local \in UpdateLogs /\ g.logIndex \in Nat
      /\ Distinct(g.list)
  BY SoundUse, MemFacts
<1>2. m2 = [m EXCEPT !.logs.Remote = g2]
  OBVIOUS
<1>. HIDE DEF g
<1>3. /\ e \in Entries /\ e.LogIndex = g.logIndex /\ e.Amount = a
      /\ e.add = Both(0) /\ e.rmv = Both(0) /\ ~IsAdd(e) /\ ~IsRmv(e)
  <2>1. "FeeUpdate" \in Types /\ 0 \in Nat /\ g.logIndex \in Nat
    BY <1>1 DEF Types
  <2>. QED  BY <2>1, NewEntry
<1>. HIDE DEF e, g2
<1>4. CASE g2 = AppendUpdate(g, e)
  <2>1. /\ g2 \in UpdateLogs /\ g2.list = Append(g.list, e) /\ g2.logIndex = g.logIndex + 1
        /\ g2.htlcCounter = g.htlcCounter /\ g2.modified = g.modified
    BY <1>1, <1>3, <1>4, LogAppends
  <2>2. Relogs(m, m.logs.Local, g2, m2)
    BY <1>1, <1>2, <2>1 DEF Relogs
  <2>3. m2 \in Mems /\ m2.logs.Remote = g2 /\ m2.logs.Local = m.logs.Local /\ m2.chains = m.chains
    BY ONLY <2>2, OtherLogs
  <2>4. Appends(m, e, m2, "Remote")
    BY <1>3, <2>1, <2>3, Parties DEF Appends, g
  <2>5. Resolves(m, e, "Remote")
    BY <1>3 DEF Resolves
  <2>. QED  BY <1>3, <2>4, <2>5, SoundAppendRemote
<1>5. CASE g2 # AppendUpdate(g, e)
  <2>1. /\ g2 \in UpdateLogs /\ g2.logIndex = g.logIndex /\ g2.htlcCounter = g.htlcCounter
        /\ g2.modified = g.modified
        /\ \E i \in DOMAIN g.list :
                    /\ g.list[i].EntryType = "FeeUpdate" /\ g.list[i].add = Both(0)
                    /\ g2.list = [g.list EXCEPT ![i].Amount = e.Amount]
    <3>1. Amended(g, e, g2)
      BY <1>1, <1>3, <1>5, FeeAppended DEF g2
    <3>. QED  BY <3>1 DEF Amended
  <2>2. PICK i \in DOMAIN g.list :
                    /\ g.list[i].EntryType = "FeeUpdate" /\ g.list[i].add = Both(0)
                    /\ g2.list = [g.list EXCEPT ![i].Amount = e.Amount]
    BY <2>1
  <2>3. Relogs(m, m.logs.Local, g2, m2)
    BY <1>1, <1>2, <2>1 DEF Relogs
  <2>4. m2 \in Mems /\ m2.logs.Remote = g2 /\ m2.logs.Local = m.logs.Local /\ m2.chains = m.chains
    BY ONLY <2>3, OtherLogs
  <2>5. \A q \in Party : /\ m2.logs[q].logIndex = m.logs[q].logIndex
                        /\ m2.logs[q].htlcCounter = m.logs[q].htlcCounter
                        /\ m2.logs[q].modified = m.logs[q].modified
    BY <2>1, <2>4, Parties DEF g
  <2>6. Amends(m, i, a, m2, "Remote")
    BY <1>3, <2>2, <2>4, <2>5, Parties DEF Amends, g
  <2>. QED  BY <2>6, SoundAmendRemote
<1>. QED  BY <1>4, <1>5

-----------------------------------------------------------------------------
(* A new commitment. *)

\* An entry that gets on the chain w with the commitment of height h, and a
\* list whose entries below an index do.
Mark(e, w, h) ==
    CASE e.EntryType = "Add" /\ e.add[w] = 0 -> [e EXCEPT !.add[w] = h]
      [] e.EntryType \in {"Settle", "Fail"} /\ e.rmv[w] = 0 -> [e EXCEPT !.rmv[w] = h]
      [] e.EntryType = "FeeUpdate" /\ e.add[w] = 0 -> [e EXCEPT !.add[w] = h, !.rmv[w] = h]
      [] OTHER -> e
MarkUpTo(s, w, up, h) ==
    [k \in DOMAIN s |-> IF s[k].LogIndex < up THEN Mark(s[k], w, h) ELSE s[k]]

\* What a mark changes.
LEMMA MarkFacts ==
    ASSUME NEW e \in Entries, NEW w \in Party, NEW h \in Nat, NEW y, y = Mark(e, w, h)
    PROVE  /\ y \in Entries /\ Core(y) = Core(e) /\ y.LogIndex = e.LogIndex /\ y.EntryType = e.EntryType
           /\ At(y)[w] = IF At(e)[w] = 0 THEN h ELSE At(e)[w]
           /\ At(y)[CounterParty(w)] = At(e)[CounterParty(w)]
           /\ e.EntryType = "FeeUpdate" /\ e.rmv = e.add => y.rmv = y.add
           /\ IsAdd(e) => y.rmv = e.rmv
           /\ IsRmv(e) => y.add = e.add
<1>1. /\ e.EntryType \in Types /\ e.add \in Pairs /\ e.rmv \in Pairs /\ e.LogIndex \in Nat
      /\ e.HtlcIndex \in Nat /\ e.Amount \in Nat
      /\ e = [EntryType |-> e.EntryType, LogIndex |-> e.LogIndex, HtlcIndex |-> e.HtlcIndex,
              Amount |-> e.Amount, add |-> e.add, rmv |-> e.rmv]
  BY DEF Entries
<1>2. \A x \in Pairs : /\ [x EXCEPT ![w] = h] \in Pairs /\ [x EXCEPT ![w] = h][w] = h
                       /\ [x EXCEPT ![w] = h][CounterParty(w)] = x[CounterParty(w)]
  BY Parties DEF Pairs
<1>3. CASE IsAdd(e)
  <2>1. At(e) = e.add /\ e.EntryType = "Add" /\ ~IsRmv(e)
    BY <1>3 DEF At, IsAdd, IsRmv
  <2>2. y = IF e.add[w] = 0 THEN [e EXCEPT !.add = [e.add EXCEPT ![w] = h]] ELSE e
    BY <2>1 DEF Mark
  <2>3. /\ y \in Entries /\ Core(y) = Core(e) /\ y.LogIndex = e.LogIndex /\ y.EntryType = e.EntryType
        /\ y.rmv = e.rmv /\ y.add = IF e.add[w] = 0 THEN [e.add EXCEPT ![w] = h] ELSE e.add
    BY <1>1, <1>2, <2>2 DEF Entries, Core
  <2>4. At(y) = y.add
    BY <2>1, <2>3 DEF At, IsRmv
  <2>. QED  BY <1>1, <1>2, <2>1, <2>3, <2>4
<1>4. CASE IsRmv(e)
  <2>1. At(e) = e.rmv /\ e.EntryType \in {"Settle", "Fail"} /\ ~IsAdd(e)
    BY <1>4 DEF At, IsAdd, IsRmv
  <2>2. y = IF e.rmv[w] = 0 THEN [e EXCEPT !.rmv = [e.rmv EXCEPT ![w] = h]] ELSE e
    BY <2>1 DEF Mark
  <2>3. /\ y \in Entries /\ Core(y) = Core(e) /\ y.LogIndex = e.LogIndex /\ y.EntryType = e.EntryType
        /\ y.add = e.add /\ y.rmv = IF e.rmv[w] = 0 THEN [e.rmv EXCEPT ![w] = h] ELSE e.rmv
    BY <1>1, <1>2, <2>2 DEF Entries, Core
  <2>4. At(y) = y.rmv
    BY <2>1, <2>3 DEF At, IsRmv
  <2>. QED  BY <1>1, <1>2, <2>1, <2>3, <2>4
<1>5. CASE e.EntryType = "FeeUpdate"
  <2>1. At(e) = e.add /\ ~IsAdd(e) /\ ~IsRmv(e)
    BY <1>5 DEF At, IsAdd, IsRmv
  <2>2. y = IF e.add[w] = 0 THEN [e EXCEPT !.add = [e.add EXCEPT ![w] = h], !.rmv = [e.rmv EXCEPT ![w] = h]] ELSE e
    BY <1>5 DEF Mark
  <2>3. /\ y \in Entries /\ Core(y) = Core(e) /\ y.LogIndex = e.LogIndex /\ y.EntryType = e.EntryType
        /\ y.add = IF e.add[w] = 0 THEN [e.add EXCEPT ![w] = h] ELSE e.add
        /\ y.rmv = IF e.add[w] = 0 THEN [e.rmv EXCEPT ![w] = h] ELSE e.rmv
    BY <1>1, <1>2, <2>2 DEF Entries, Core
  <2>4. At(y) = y.add
    BY <1>5, <2>3 DEF At, IsRmv
  <2>. QED  BY <1>1, <1>2, <2>1, <2>3, <2>4
<1>. QED  BY <1>1, <1>3, <1>4, <1>5 DEF Types, IsAdd, IsRmv

\* A list with marks.
LEMMA MarkUpToFacts ==
    ASSUME NEW s \in Seq(Entries), NEW w \in Party, NEW up, NEW h \in Nat, NEW t, t = MarkUpTo(s, w, up, h)
    PROVE  /\ t \in Seq(Entries) /\ DOMAIN t = DOMAIN s /\ Cores(t) = Cores(s)
           /\ \A k \in DOMAIN s : /\ t[k] = IF s[k].LogIndex < up THEN Mark(s[k], w, h) ELSE s[k]
                                  /\ t[k].LogIndex = s[k].LogIndex /\ Core(t[k]) = Core(s[k])
           /\ Distinct(s) => Distinct(t)
           /\ \A first : InOrder(s, first) => InOrder(t, first)
           /\ \A y \in Range(t) : \E e \in Range(s) : y = IF e.LogIndex < up THEN Mark(e, w, h) ELSE e
<1>1. DOMAIN t = DOMAIN s /\ \A k \in DOMAIN s : t[k] = IF s[k].LogIndex < up THEN Mark(s[k], w, h) ELSE s[k]
  BY DEF MarkUpTo
<1>2. \A k \in DOMAIN s : s[k] \in Entries
  OBVIOUS
<1>3. \A k \in DOMAIN s : t[k] \in Entries /\ t[k].LogIndex = s[k].LogIndex /\ Core(t[k]) = Core(s[k])
  <2>. SUFFICES ASSUME NEW k \in DOMAIN s
                PROVE  t[k] \in Entries /\ t[k].LogIndex = s[k].LogIndex /\ Core(t[k]) = Core(s[k])
    OBVIOUS
  <2>. DEFINE e == s[k]
              y == Mark(e, w, h)
  <2>1. e \in Entries
    BY <1>2
  <2>. HIDE DEF e, y
  <2>2. y \in Entries /\ y.LogIndex = e.LogIndex /\ Core(y) = Core(e)
    BY <2>1, MarkFacts DEF y
  <2>3. t[k] = IF e.LogIndex < up THEN y ELSE e
    BY <1>1 DEF e, y
  <2>. QED  BY <2>1, <2>2, <2>3 DEF e
<1>4. t \in Seq(Entries)
  <2>1. DOMAIN s = 1..Len(s) /\ Len(s) \in Nat
    OBVIOUS
  <2>2. t = [k \in DOMAIN s |-> t[k]]
    BY DEF MarkUpTo
  <2>. QED  BY ONLY <1>3, <2>1, <2>2
<1>5. Cores(t) = Cores(s)
  BY ONLY <1>1, <1>3 DEF Cores
<1>6. /\ Distinct(s) => Distinct(t)
      /\ \A first : InOrder(s, first) => InOrder(t, first)
  BY ONLY <1>1, <1>3 DEF Distinct, InOrder
<1>7. \A y \in Range(t) : \E e \in Range(s) : y = IF e.LogIndex < up THEN Mark(e, w, h) ELSE e
  BY ONLY <1>1 DEF Range
<1>. QED  BY <1>1, <1>3, <1>4, <1>5, <1>6, <1>7

\* setCommitHeight touches the lists of the logs only.
LEMMA HeightsFacts ==
    ASSUME NEW m \in Mems, NEW w \in Party, NEW upTo, NEW h \in Nat, NEW m2, m2 = SetCommitHeights(m, w, upTo, h)
    PROVE  /\ m2 \in Mems /\ m2.chains = m.chains
           /\ m2.logs.Local.list = MarkUpTo(m.logs.Local.list, w, upTo.Local, h)
           /\ m2.logs.Remote.list = MarkUpTo(m.logs.Remote.list, w, upTo.Remote, h)
           /\ LogIndices(m2) = LogIndices(m) /\ HtlcCounters(m2) = HtlcCounters(m) /\ BookOf(m2) = BookOf(m)
           /\ m2.logs.Local.modified = m.logs.Local.modified
           /\ m2.logs.Remote.modified = m.logs.Remote.modified
<1>1. /\ m.logs \in [Local : UpdateLogs, Remote : UpdateLogs]
      /\ m.chains \in [Local : Seq(Commitments), Remote : Seq(Commitments)]
      /\ m = [logs |-> m.logs, chains |-> m.chains]
      /\ m.logs.Local \in UpdateLogs /\ m.logs.Remote \in UpdateLogs
  BY DEF Mems
<1>2. m2 = [m EXCEPT !.logs = [p \in Party |->
               [m.logs[p] EXCEPT !.list = MarkUpTo(m.logs[p].list, w, upTo[p], h)]]]
  BY DEF SetCommitHeights, MarkUpTo, Mark
<1>. DEFINE G(p) == [m.logs[p] EXCEPT !.list = MarkUpTo(m.logs[p].list, w, upTo[p], h)]
<1>3. ASSUME NEW p \in Party
      PROVE  /\ G(p) \in UpdateLogs /\ G(p).list = MarkUpTo(m.logs[p].list, w, upTo[p], h)
             /\ G(p).logIndex = m.logs[p].logIndex /\ G(p).htlcCounter = m.logs[p].htlcCounter
             /\ G(p).modified = m.logs[p].modified
             /\ Cores(G(p).list) = Cores(m.logs[p].list)
  <2>. DEFINE g == m.logs[p]
              u == upTo[p]
              t == MarkUpTo(g.list, w, u, h)
  <2>1. g \in UpdateLogs /\ g.list \in Seq(Entries)
    BY MemFacts
  <2>. HIDE DEF g, u
  <2>2. t \in Seq(Entries) /\ Cores(t) = Cores(g.list)
    <3>. DEFINE s == g.list
    <3>1. s \in Seq(Entries) /\ t = MarkUpTo(s, w, u, h)
      BY <2>1
    <3>. HIDE DEF s, t
    <3>2. t \in Seq(Entries) /\ Cores(t) = Cores(s)
      BY <3>1, MarkUpToFacts
    <3>. QED  BY <3>2 DEF s
  <2>. HIDE DEF t
  <2>3. [g EXCEPT !.list = t] \in UpdateLogs
    BY <2>1, <2>2 DEF UpdateLogs
  <2>4. /\ [g EXCEPT !.list = t].list = t /\ [g EXCEPT !.list = t].logIndex = g.logIndex
        /\ [g EXCEPT !.list = t].htlcCounter = g.htlcCounter /\ [g EXCEPT !.list = t].modified = g.modified
    BY <2>1 DEF UpdateLogs
  <2>. QED  BY <2>2, <2>3, <2>4 DEF g, t, u
<1>. HIDE DEF G
<1>4. m2 = [m EXCEPT !.logs = [p \in Party |-> G(p)]]
  BY <1>2 DEF G
<1>5. m2.chains = m.chains /\ m2.logs.Local = G("Local") /\ m2.logs.Remote = G("Remote")
      /\ m2.logs = [Local |-> G("Local"), Remote |-> G("Remote")] /\ m2 = [logs |-> m2.logs, chains |-> m.chains]
  BY <1>1, <1>4 DEF Party
<1>6. m2 \in Mems
  BY <1>1, <1>3, <1>5, Parties DEF Mems
<1>. QED  BY <1>3, <1>5, <1>6, Parties DEF LogIndices, HtlcCounters, BookOf

-----------------------------------------------------------------------------
(* Updates as they are written to disk. *)

\* logUpdates of the entries at the places I.
WrittenAt(s, I) ==
    LET picked == SubsequenceAt(s, I) IN [k \in DOMAIN picked |-> ToLogUpdate(picked[k])]

\* The updates written for the places I of a log are those entries, in the
\* order of the log.
LEMMA WrittenFacts ==
    ASSUME NEW s \in Seq(Entries), NEW I \in SUBSET (DOMAIN s), NEW t, t = WrittenAt(s, I)
    PROVE  /\ t \in Seq(Recs) /\ Range(t) = {ToLogUpdate(Core(s[i])) : i \in I}
           /\ \A j, k \in DOMAIN t : j < k =>
                 \E i, l \in I : i < l /\ t[j].LogIndex = s[i].LogIndex /\ t[k].LogIndex = s[l].LogIndex
           /\ Distinct(s) => Distinct(t)
<1>. DEFINE q == SubsequenceAt(s, I)
<1>1. /\ q \in Seq(Entries) /\ Range(q) = {s[i] : i \in I}
      /\ \A j, k \in DOMAIN q : j < k => \E i, l \in I : i < l /\ q[j] = s[i] /\ q[k] = s[l]
  <2>. HIDE DEF q
  <2>. QED  BY Picked DEF q
<1>2. DOMAIN t = DOMAIN q /\ t = [k \in DOMAIN q |-> ToLogUpdate(q[k])]
  BY DEF WrittenAt
<1>. HIDE DEF q
<1>3. /\ DOMAIN q = 1..Len(q) /\ Len(q) \in Nat
      /\ \A k \in DOMAIN q : q[k] \in Entries /\ q[k] \in Range(q)
  BY <1>1 DEF Range
<1>4. \A e \in Entries : ToLogUpdate(e) = ToLogUpdate(Core(e)) /\ ToLogUpdate(e) \in Recs /\ ToLogUpdate(e).LogIndex = e.LogIndex
  BY CoreFacts, LogUpdateFacts
<1>5. \A k \in DOMAIN q : t[k] \in Recs /\ t[k].LogIndex = q[k].LogIndex /\ t[k] = ToLogUpdate(Core(q[k]))
  BY ONLY <1>2, <1>3, <1>4
<1>6. t \in Seq(Recs)
  BY ONLY <1>2, <1>3, <1>5
<1>7. Range(t) = {ToLogUpdate(Core(s[i])) : i \in I}
  <2>1. Range(t) = {ToLogUpdate(Core(e)) : e \in Range(q)}
    BY ONLY <1>2, <1>5 DEF Range
  <2>. QED  BY ONLY <1>1, <2>1
<1>8. \A j, k \in DOMAIN t : j < k =>
        \E i, l \in I : i < l /\ t[j].LogIndex = s[i].LogIndex /\ t[k].LogIndex = s[l].LogIndex
  BY ONLY <1>1, <1>2, <1>5
<1>9. ASSUME Distinct(s) PROVE Distinct(t)
  <2>1. I \subseteq DOMAIN s /\ \A i \in DOMAIN s : i \in Nat
    OBVIOUS
  <2>2. \A j, k \in DOMAIN t : j < k => t[j].LogIndex # t[k].LogIndex
    BY ONLY <1>8, <1>9, <2>1 DEF Distinct
  <2>3. \A j, k \in DOMAIN t : j # k => j < k \/ k < j
    BY ONLY <1>2, <1>3
  <2>. QED  BY ONLY <2>2, <2>3 DEF Distinct
<1>. QED  BY <1>6, <1>7, <1>8, <1>9

\* A list in order that has every index from first to below last.
LEMMA Enumerates ==
    ASSUME NEW t \in Seq(Recs), NEW first \in Nat, NEW last \in Nat, first <= last,
           \A j, k \in DOMAIN t : j < k => t[j].LogIndex < t[k].LogIndex,
           \A k \in DOMAIN t : first <= t[k].LogIndex /\ t[k].LogIndex < last,
           \A i \in first..(last - 1) : \E k \in DOMAIN t : t[k].LogIndex = i
    PROVE  Len(t) = last - first /\ \A k \in DOMAIN t : t[k].LogIndex = first + k - 1
<1>. DEFINE N == Len(t)
            v == [k \in 1..N |-> t[k].LogIndex]
            Bad == {k \in 1..N : v[k] # first + k - 1}
<1>1. DOMAIN t = 1..N /\ N \in Nat
  OBVIOUS
<1>2. \A k \in 1..N : v[k] \in Nat /\ v[k] = t[k].LogIndex
  <2>1. \A k \in 1..N : t[k] \in Recs
    BY <1>1
  <2>2. \A x \in Recs : x.LogIndex \in Nat
    BY DEF Recs
  <2>. QED  BY ONLY <2>1, <2>2
<1>. HIDE DEF v, N
<1>3. /\ \A j, k \in 1..N : j < k => v[j] < v[k]
      /\ \A k \in 1..N : first <= v[k] /\ v[k] < last
      /\ \A i \in first..(last - 1) : \E k \in 1..N : v[k] = i
  <2>1. \A k \in DOMAIN t : v[k] = t[k].LogIndex
    BY ONLY <1>1, <1>2
  <2>2. /\ \A j, k \in DOMAIN t : j < k => v[j] < v[k]
        /\ \A k \in DOMAIN t : first <= v[k] /\ v[k] < last
        /\ \A i \in first..(last - 1) : \E k \in DOMAIN t : v[k] = i
    BY <2>1
  <2>. QED  BY ONLY <1>1, <2>2
<1>4. Bad = {}
  <2>. SUFFICES ASSUME Bad # {} PROVE FALSE
    OBVIOUS
  <2>1. PICK k \in Bad : \A j \in Bad : k <= j
    <3>1. Bad \subseteq Nat
      OBVIOUS
    <3>. HIDE DEF Bad
    <3>. QED  BY <3>1, LeastNatural
  <2>2. k \in 1..N /\ v[k] # first + k - 1 /\ v[k] \in Nat
    BY <1>2, <2>1
  <2>3. \A j \in 1..N : j < k => v[j] = first + j - 1
    <3>1. \A j \in 1..N : j < k => j \notin Bad
      BY <1>1, <2>1, <2>2
    <3>. QED  BY <3>1
  <2>4. v[k] >= first + k - 1
    <3>1. CASE k = 1
      BY <1>3, <2>2, <3>1
    <3>2. CASE k # 1
      <4>1. k - 1 \in 1..N /\ k - 1 < k
        BY <1>1, <2>2, <3>2
      <4>2. v[k - 1] = first + (k - 1) - 1 /\ v[k - 1] < v[k]
        BY <1>3, <2>2, <2>3, <4>1
      <4>. QED  BY <1>1, <2>2, <4>2
    <3>. QED  BY <3>1, <3>2
  <2>5. first + k - 1 \in first..(last - 1)
    BY <1>1, <1>3, <2>2, <2>4
  <2>6. PICK j \in 1..N : v[j] = first + k - 1
    BY <1>3, <2>5
  <2>7. CASE j < k
    BY <1>1, <2>2, <2>3, <2>6, <2>7
  <2>8. CASE j = k
    BY <2>2, <2>6, <2>8
  <2>9. CASE k < j
    BY <1>1, <1>2, <1>3, <2>2, <2>4, <2>6, <2>9, SMTT(30)
  <2>10. k \in Int /\ j \in Int
    BY <1>1, <2>2, <2>6
  <2>11. j < k \/ j = k \/ k < j
    BY ONLY <2>10
  <2>. QED  BY ONLY <2>7, <2>8, <2>9, <2>11
<1>5. \A k \in 1..N : v[k] = first + k - 1
  BY <1>4
<1>6. N <= last - first
  <2>1. CASE N = 0
    BY <2>1
  <2>2. CASE N # 0
    BY <1>1, <1>3, <1>5, <2>2
  <2>. QED  BY <2>1, <2>2
<1>7. ~(N < last - first)
  <2>. SUFFICES ASSUME N < last - first PROVE FALSE
    OBVIOUS
  <2>1. first + N \in first..(last - 1)
    BY <1>1
  <2>2. PICK k \in 1..N : v[k] = first + N
    BY <1>3, <2>1
  <2>. QED  BY <1>1, <1>5, <2>2
<1>8. N = last - first
  BY <1>1, <1>6, <1>7
<1>. QED  BY <1>1, <1>2, <1>5, <1>8 DEF N

-----------------------------------------------------------------------------
(* Signing. *)

\* Heights at which an entry is on the commitments, once it is on a new one.
LEMMA MarkedSign ==
    ASSUME NEW e \in Entries, NEW p \in Party, NEW d \in Disks, Marked(e, p, d), d.diff = NoDiff,
           NEW f \in Disks, f.local = d.local, f.remote = d.remote, f.diff # NoDiff,
           f.diff.commit.height = d.remote.height + 1,
           d.remote.indices[p] <= f.diff.commit.indices[p],
           NEW y, y = IF e.LogIndex < f.diff.commit.indices[p] THEN Mark(e, "Remote", f.diff.commit.height) ELSE e
    PROVE  Marked(y, p, f) /\ y \in Entries
<1>. DEFINE c == f.diff.commit
            h == c.height
            z == Mark(e, "Remote", h)
<1>1. TipOf(f) = c /\ TipOf(d) = d.remote
  BY DEF TipOf
<1>2. /\ c \in Commitments /\ d.remote \in Commitments /\ d.local \in Commitments
      /\ h \in Nat /\ d.remote.height \in Nat /\ d.local.height \in Nat /\ h # 0
      /\ c.indices[p] \in Nat /\ d.remote.indices[p] \in Nat /\ d.local.indices[p] \in Nat
  <2>1. c \in Commitments /\ d.remote \in Commitments /\ d.local \in Commitments
    BY <1>1, CommitFacts DEF Disks
  <2>. HIDE DEF c
  <2>2. h \in Nat /\ d.remote.height \in Nat /\ d.local.height \in Nat
        /\ c.indices[p] \in Nat /\ d.remote.indices[p] \in Nat /\ d.local.indices[p] \in Nat
    BY <2>1, CommitFacts
  <2>. QED  BY <2>1, <2>2 DEF c
<1>3. /\ e.LogIndex \in Nat /\ At(e) \in Pairs /\ At(e).Local \in Nat /\ At(e).Remote \in Nat
  BY DEF Entries, At, Pairs
<1>. HIDE DEF h, c
<1>4. /\ z \in Entries /\ Core(z) = Core(e) /\ z.LogIndex = e.LogIndex /\ z.EntryType = e.EntryType
      /\ At(z)["Remote"] = (IF At(e)["Remote"] = 0 THEN h ELSE At(e)["Remote"])
      /\ At(z)["Local"] = At(e)["Local"]
      /\ e.EntryType = "FeeUpdate" /\ e.rmv = e.add => z.rmv = z.add
      /\ IsAdd(e) => z.rmv = e.rmv
      /\ IsRmv(e) => z.add = e.add
  <2>. DEFINE w == "Remote"
  <2>1. w \in Party /\ e \in Entries /\ h \in Nat /\ z = Mark(e, w, h)
    BY <1>2, Parties
  <2>. HIDE DEF w, z
  <2>2. /\ z \in Entries /\ Core(z) = Core(e) /\ z.LogIndex = e.LogIndex /\ z.EntryType = e.EntryType
        /\ At(z)[w] = (IF At(e)[w] = 0 THEN h ELSE At(e)[w])
        /\ At(z)[CounterParty(w)] = At(e)[CounterParty(w)]
        /\ e.EntryType = "FeeUpdate" /\ e.rmv = e.add => z.rmv = z.add
        /\ IsAdd(e) => z.rmv = e.rmv
        /\ IsRmv(e) => z.add = e.add
    BY ONLY <2>1, MarkFacts, SMTT(60)
  <2>. QED  BY ONLY <2>2, Parties DEF w
<1>. HIDE DEF z
<1>5. /\ y \in Entries /\ y.LogIndex = e.LogIndex /\ y.EntryType = e.EntryType
      /\ At(y).Local = At(e).Local
      /\ At(y).Remote = IF e.LogIndex < c.indices[p] /\ At(e).Remote = 0 THEN h ELSE At(e).Remote
      /\ e.EntryType = "FeeUpdate" /\ e.rmv = e.add => y.rmv = y.add
      /\ IsAdd(e) => y.rmv = e.rmv
      /\ IsRmv(e) => y.add = e.add
  <2>1. y = IF e.LogIndex < c.indices[p] THEN z ELSE e
    BY DEF z, c, h
  <2>. QED  BY <1>4, <2>1
<1>6. /\ At(e).Local # 0 <=> e.LogIndex < d.local.indices[p]
      /\ At(e).Remote # 0 <=> e.LogIndex < d.remote.indices[p]
      /\ At(e).Local <= d.local.height
      /\ At(e).Remote <= d.remote.height
      /\ e.EntryType = "FeeUpdate" => e.rmv = e.add
      /\ IsAdd(e) => e.rmv = Both(0)
      /\ IsRmv(e) => e.add = Both(0)
  BY <1>1 DEF Marked
<1>7. h = d.remote.height + 1 /\ d.remote.indices[p] <= c.indices[p]
  BY DEF c, h
<1>8. (IsAdd(y) <=> IsAdd(e)) /\ (IsRmv(y) <=> IsRmv(e))
  BY <1>5 DEF IsAdd, IsRmv
<1>9. /\ At(y).Local # 0 <=> y.LogIndex < f.local.indices[p]
      /\ At(y).Remote # 0 <=> y.LogIndex < c.indices[p]
      /\ At(y).Local <= f.local.height
      /\ At(y).Remote <= h
      /\ y.LogIndex < f.remote.indices[p] => At(y).Remote <= f.remote.height
      /\ f.remote.indices[p] <= y.LogIndex /\ y.LogIndex < c.indices[p]
         => At(y).Remote = h
  BY <1>2, <1>3, <1>5, <1>6, <1>7
<1>10. /\ y.EntryType = "FeeUpdate" => y.rmv = y.add
       /\ IsAdd(y) => y.rmv = Both(0)
       /\ IsRmv(y) => y.add = Both(0)
  BY <1>5, <1>6, <1>8
<1>. QED  BY <1>1, <1>5, <1>9, <1>10 DEF Marked, h

\* Moving to the next local commitment leaves an entry marked.
LEMMA MarkedRevoke ==
    ASSUME NEW e \in Entries, NEW p \in Party, NEW d \in Disks, Marked(e, p, d),
           NEW f \in Disks, f.remote = d.remote, f.diff = d.diff,
           f.local.height = d.local.height + 1,
           d.local.indices[p] <= f.local.indices[p],
           NEW y, y = IF e.LogIndex < f.local.indices[p] THEN Mark(e, "Local", f.local.height) ELSE e
    PROVE  Marked(y, p, f) /\ y \in Entries
<1>. DEFINE c == f.local
            h == c.height
            z == Mark(e, "Local", h)
<1>1. TipOf(f) = TipOf(d)
  BY DEF TipOf
<1>2. /\ h \in Nat /\ d.remote.height \in Nat /\ d.local.height \in Nat /\ h # 0
      /\ c.indices[p] \in Nat /\ d.remote.indices[p] \in Nat /\ d.local.indices[p] \in Nat
      /\ TipOf(d).indices[p] \in Nat /\ TipOf(d).height \in Nat
  <2>1. c \in Commitments /\ d.remote \in Commitments /\ d.local \in Commitments /\ TipOf(d) \in Commitments
    BY CommitFacts DEF Disks
  <2>. HIDE DEF c
  <2>2. h \in Nat /\ d.remote.height \in Nat /\ d.local.height \in Nat
        /\ c.indices[p] \in Nat /\ d.remote.indices[p] \in Nat /\ d.local.indices[p] \in Nat
        /\ TipOf(d).indices[p] \in Nat /\ TipOf(d).height \in Nat
    BY <2>1, CommitFacts
  <2>. QED  BY <2>1, <2>2 DEF c
<1>3. /\ e.LogIndex \in Nat /\ At(e) \in Pairs /\ At(e).Local \in Nat /\ At(e).Remote \in Nat
  BY DEF Entries, At, Pairs
<1>. HIDE DEF h, c
<1>4. /\ z \in Entries /\ Core(z) = Core(e) /\ z.LogIndex = e.LogIndex /\ z.EntryType = e.EntryType
      /\ At(z)["Local"] = (IF At(e)["Local"] = 0 THEN h ELSE At(e)["Local"])
      /\ At(z)["Remote"] = At(e)["Remote"]
      /\ e.EntryType = "FeeUpdate" /\ e.rmv = e.add => z.rmv = z.add
      /\ IsAdd(e) => z.rmv = e.rmv
      /\ IsRmv(e) => z.add = e.add
  <2>. DEFINE w == "Local"
  <2>1. w \in Party /\ e \in Entries /\ h \in Nat /\ z = Mark(e, w, h)
    BY <1>2, Parties
  <2>. HIDE DEF w, z
  <2>2. /\ z \in Entries /\ Core(z) = Core(e) /\ z.LogIndex = e.LogIndex /\ z.EntryType = e.EntryType
        /\ At(z)[w] = (IF At(e)[w] = 0 THEN h ELSE At(e)[w])
        /\ At(z)[CounterParty(w)] = At(e)[CounterParty(w)]
        /\ e.EntryType = "FeeUpdate" /\ e.rmv = e.add => z.rmv = z.add
        /\ IsAdd(e) => z.rmv = e.rmv
        /\ IsRmv(e) => z.add = e.add
    BY ONLY <2>1, MarkFacts, SMTT(60)
  <2>. QED  BY ONLY <2>2, Parties DEF w
<1>. HIDE DEF z
<1>5. /\ y \in Entries /\ y.LogIndex = e.LogIndex /\ y.EntryType = e.EntryType
      /\ At(y).Remote = At(e).Remote
      /\ At(y).Local = IF e.LogIndex < c.indices[p] /\ At(e).Local = 0 THEN h ELSE At(e).Local
      /\ e.EntryType = "FeeUpdate" /\ e.rmv = e.add => y.rmv = y.add
      /\ IsAdd(e) => y.rmv = e.rmv
      /\ IsRmv(e) => y.add = e.add
  <2>1. y = IF e.LogIndex < c.indices[p] THEN z ELSE e
    BY DEF z, c, h
  <2>. QED  BY <1>4, <2>1
<1>6. /\ At(e).Local # 0 <=> e.LogIndex < d.local.indices[p]
      /\ At(e).Remote # 0 <=> e.LogIndex < TipOf(d).indices[p]
      /\ At(e).Local <= d.local.height
      /\ At(e).Remote <= TipOf(d).height
      /\ e.LogIndex < d.remote.indices[p] => At(e).Remote <= d.remote.height
      /\ d.remote.indices[p] <= e.LogIndex /\ e.LogIndex < TipOf(d).indices[p]
         => At(e).Remote = TipOf(d).height
      /\ e.EntryType = "FeeUpdate" => e.rmv = e.add
      /\ IsAdd(e) => e.rmv = Both(0)
      /\ IsRmv(e) => e.add = Both(0)
  BY DEF Marked
<1>7. h = d.local.height + 1 /\ d.local.indices[p] <= c.indices[p]
  BY DEF c, h
<1>8. (IsAdd(y) <=> IsAdd(e)) /\ (IsRmv(y) <=> IsRmv(e))
  BY <1>5 DEF IsAdd, IsRmv
<1>9. /\ At(y).Local # 0 <=> y.LogIndex < c.indices[p]
      /\ At(y).Local <= h
  BY <1>2, <1>3, <1>5, <1>6, <1>7
<1>10. /\ y.EntryType = "FeeUpdate" => y.rmv = y.add
       /\ IsAdd(y) => y.rmv = Both(0)
       /\ IsRmv(y) => y.add = Both(0)
  BY <1>5, <1>6, <1>8
<1>. QED  BY <1>1, <1>5, <1>6, <1>9, <1>10 DEF Marked, h, c

\* The entry that gets on the peer's chain at height h is one not on it yet.
LEMMA FreshMark ==
    ASSUME NEW e \in Entries, NEW d \in Disks, d.diff = NoDiff, Marked(e, "Local", d),
           NEW h \in Nat, h = d.remote.height + 1, NEW y, y = Mark(e, "Remote", h)
    PROVE  (y.add.Remote = h \/ y.rmv.Remote = h) <=> d.remote.indices.Local <= e.LogIndex
<1>1. /\ TipOf(d) = d.remote /\ d.remote.height \in Nat /\ d.remote.indices.Local \in Nat /\ e.LogIndex \in Nat
      /\ At(e).Remote \in Nat /\ h # 0
  <2>1. d.remote \in Commitments
    BY DEF Disks
  <2>2. d.remote.height \in Nat /\ d.remote.indices.Local \in Nat
    BY <2>1, CommitFacts, Parties
  <2>. QED  BY <2>2 DEF TipOf, Entries, At, Pairs
<1>2. /\ At(e).Remote # 0 <=> e.LogIndex < d.remote.indices.Local
      /\ At(e).Remote <= d.remote.height
      /\ e.EntryType = "FeeUpdate" => e.rmv = e.add
      /\ IsAdd(e) => e.rmv = Both(0)
      /\ IsRmv(e) => e.add = Both(0)
  BY <1>1 DEF Marked
<1>3. /\ y \in Entries /\ y.EntryType = e.EntryType
      /\ At(y)["Remote"] = (IF At(e)["Remote"] = 0 THEN h ELSE At(e)["Remote"])
      /\ e.EntryType = "FeeUpdate" /\ e.rmv = e.add => y.rmv = y.add
      /\ IsAdd(e) => y.rmv = e.rmv
      /\ IsRmv(e) => y.add = e.add
  <2>. DEFINE w == "Remote"
  <2>1. w \in Party /\ e \in Entries /\ h \in Nat /\ y = Mark(e, w, h)
    BY Parties
  <2>. HIDE DEF w
  <2>2. /\ y \in Entries /\ y.EntryType = e.EntryType
        /\ At(y)[w] = (IF At(e)[w] = 0 THEN h ELSE At(e)[w])
        /\ e.EntryType = "FeeUpdate" /\ e.rmv = e.add => y.rmv = y.add
        /\ IsAdd(e) => y.rmv = e.rmv
        /\ IsRmv(e) => y.add = e.add
    BY ONLY <2>1, MarkFacts
  <2>. QED  BY ONLY <2>2 DEF w
<1>4. At(y).Remote = h <=> d.remote.indices.Local <= e.LogIndex
  BY <1>1, <1>2, <1>3
<1>5. (y.add.Remote = h \/ y.rmv.Remote = h) <=> At(y).Remote = h
  <2>1. CASE IsAdd(e)
    <3>1. At(y) = y.add /\ y.rmv = Both(0)
      BY <1>2, <1>3, <2>1 DEF At, IsAdd, IsRmv
    <3>. QED  BY <1>1, <3>1 DEF Both
  <2>2. CASE IsRmv(e)
    <3>1. At(y) = y.rmv /\ y.add = Both(0)
      BY <1>2, <1>3, <2>2 DEF At, IsRmv
    <3>. QED  BY <1>1, <3>1 DEF Both
  <2>3. CASE e.EntryType = "FeeUpdate"
    <3>1. At(y) = y.add /\ y.rmv = y.add
      BY <1>2, <1>3, <2>3 DEF At, IsRmv
    <3>. QED  BY <3>1
  <2>4. e.EntryType \in Types
    BY DEF Entries
  <2>. QED  BY <2>1, <2>2, <2>3, <2>4 DEF Types, IsAdd, IsRmv
<1>. QED  BY <1>4, <1>5

\* The entries of a memory, with what is known of each.
LEMMA EntriesOf ==
    ASSUME NEW m, NEW d, Sound(m, d)
    PROVE  /\ \A k \in DOMAIN m.logs.Local.list :
                 /\ m.logs.Local.list[k] \in Entries /\ Core(m.logs.Local.list[k]) \in BookOf(m).Local
                 /\ Marked(m.logs.Local.list[k], "Local", d)
                 /\ m.logs.Local.list[k].LogIndex < m.logs.Local.logIndex
           /\ \A k \in DOMAIN m.logs.Remote.list :
                 /\ m.logs.Remote.list[k] \in Entries /\ Core(m.logs.Remote.list[k]) \in BookOf(m).Remote
                 /\ Marked(m.logs.Remote.list[k], "Remote", d)
                 /\ m.logs.Remote.list[k].LogIndex < m.logs.Remote.logIndex
           /\ \A x \in BookOf(m).Local : \E k \in DOMAIN m.logs.Local.list : x = Core(m.logs.Local.list[k])
           /\ \A x \in BookOf(m).Remote : \E k \in DOMAIN m.logs.Remote.list : x = Core(m.logs.Remote.list[k])
<1>1. m \in Mems /\ m.logs.Local.list \in Seq(Entries) /\ m.logs.Remote.list \in Seq(Entries)
  BY SoundUse, MemFacts
<1>2. /\ BookOf(m).Local = Cores(m.logs.Local.list) /\ BookOf(m).Remote = Cores(m.logs.Remote.list)
      /\ LogIndices(m).Local = m.logs.Local.logIndex /\ LogIndices(m).Remote = m.logs.Remote.logIndex
  BY DEF BookOf, LogIndices
<1>3. /\ Ordered(BookOf(m).Local, m.logs.Local.logIndex, HtlcCounters(m).Local)
      /\ Ordered(BookOf(m).Remote, m.logs.Remote.logIndex, HtlcCounters(m).Remote)
  BY <1>2, SoundUse, BookUse
<1>4. /\ \A e \in Range(m.logs.Local.list) : Marked(e, "Local", d)
      /\ \A e \in Range(m.logs.Remote.list) : Marked(e, "Remote", d)
  BY SoundUse
<1>5. /\ \A k \in DOMAIN m.logs.Local.list :
           /\ m.logs.Local.list[k] \in Entries /\ Core(m.logs.Local.list[k]) \in BookOf(m).Local
           /\ m.logs.Local.list[k] \in Range(m.logs.Local.list)
      /\ \A k \in DOMAIN m.logs.Remote.list :
           /\ m.logs.Remote.list[k] \in Entries /\ Core(m.logs.Remote.list[k]) \in BookOf(m).Remote
           /\ m.logs.Remote.list[k] \in Range(m.logs.Remote.list)
  BY <1>1, <1>2 DEF Cores, Range
<1>6. \A e \in Entries : Core(e).LogIndex = e.LogIndex
  BY DEF Core
<1>7. /\ \A x \in BookOf(m).Local : x.LogIndex < m.logs.Local.logIndex
      /\ \A x \in BookOf(m).Remote : x.LogIndex < m.logs.Remote.logIndex
  BY <1>3 DEF Ordered
<1>. QED  BY ONLY <1>2, <1>4, <1>5, <1>6, <1>7 DEF Cores

\* The places of a list with an update that got on the peer's chain at height h.
NewAt(t, h) == {k \in DOMAIN t : t[k].add.Remote = h \/ t[k].rmv.Remote = h}

\* createCommitDiff: our updates that are new with the commitment, in order
\* and none left out.
LEMMA DiffUpdates ==
    ASSUME NEW m, NEW d, Sound(m, d), d.diff = NoDiff, NEW h \in Nat, h = d.remote.height + 1,
           NEW t, t = MarkUpTo(m.logs.Local.list, "Remote", m.logs.Local.logIndex, h),
           NEW I, I = NewAt(t, h),
           NEW u, u = WrittenAt(t, I)
    PROVE  /\ u \in Seq(Recs) /\ Len(u) = m.logs.Local.logIndex - d.remote.indices.Local
           /\ \A k \in DOMAIN u : u[k].LogIndex = d.remote.indices.Local + k - 1
           /\ Range(u) = Written(BookOf(m).Local, d.remote.indices.Local, m.logs.Local.logIndex)
<1>. DEFINE s == m.logs.Local.list
            first == d.remote.indices.Local
            last == m.logs.Local.logIndex
            K == BookOf(m).Local
<1>1. /\ s \in Seq(Entries) /\ d \in Disks /\ last \in Nat /\ first \in Nat /\ first <= last
      /\ K \in SUBSET Recs
  <2>1. m \in Mems /\ d \in Disks /\ Book(BookOf(m), LogIndices(m), HtlcCounters(m), d)
    BY SoundUse
  <2>2. BookOf(m) \in Books /\ LogIndices(m) \in Pairs /\ HtlcCounters(m) \in Pairs /\ s \in Seq(Entries) /\ last \in Nat
    BY <2>1, MemFacts
  <2>3. LogIndices(m).Local = last
    BY DEF LogIndices
  <2>4. first \in Nat /\ first <= LogIndices(m).Local /\ K \in SUBSET Recs
    BY <2>1, <2>2, BookFacts
  <2>. QED  BY <2>1, <2>2, <2>3, <2>4
<1>2. \A k \in DOMAIN s : s[k] \in Entries /\ Core(s[k]) \in K /\ Marked(s[k], "Local", d) /\ s[k].LogIndex < last
  BY EntriesOf
<1>3. \A x \in K : \E k \in DOMAIN s : x = Core(s[k])
  BY EntriesOf
<1>4. InOrder(s, first)
  BY SoundUse DEF TipOf
<1>5. \A i \in first..(last - 1) : \E x \in K : x.LogIndex = i
  <2>1. Complete(BookOf(m), LogIndices(m), HtlcCounters(m), d) /\ LogIndices(m).Local = last
    BY SoundUse, BookUse DEF LogIndices
  <2>2. \A i \in d.remote.indices.Local..(LogIndices(m).Local - 1) : \E x \in BookOf(m).Local : x.LogIndex = i
    BY ONLY <2>1, CompleteUse
  <2>. QED  BY ONLY <2>1, <2>2
<1>. HIDE DEF s, first, last, K
<1>6. /\ t \in Seq(Entries) /\ DOMAIN t = DOMAIN s
      /\ \A k \in DOMAIN s : /\ t[k] = IF s[k].LogIndex < last THEN Mark(s[k], "Remote", h) ELSE s[k]
                             /\ t[k].LogIndex = s[k].LogIndex /\ Core(t[k]) = Core(s[k])
  <2>. DEFINE w == "Remote"
  <2>1. w \in Party /\ s \in Seq(Entries) /\ h \in Nat /\ t = MarkUpTo(s, w, last, h)
    BY <1>1, Parties DEF s, last
  <2>. HIDE DEF w
  <2>2. /\ t \in Seq(Entries) /\ DOMAIN t = DOMAIN s
        /\ \A k \in DOMAIN s : /\ t[k] = IF s[k].LogIndex < last THEN Mark(s[k], w, h) ELSE s[k]
                               /\ t[k].LogIndex = s[k].LogIndex /\ Core(t[k]) = Core(s[k])
    BY ONLY <2>1, MarkUpToFacts
  <2>. QED  BY ONLY <2>2 DEF w
<1>7. \A k \in DOMAIN s : k \in I <=> first <= s[k].LogIndex
  <2>. SUFFICES ASSUME NEW k \in DOMAIN s PROVE k \in I <=> first <= s[k].LogIndex
    OBVIOUS
  <2>. DEFINE e == s[k]
              y == t[k]
  <2>1. /\ e \in Entries /\ Marked(e, "Local", d) /\ y = Mark(e, "Remote", h)
        /\ d \in Disks /\ d.diff = NoDiff /\ h \in Nat /\ h = d.remote.height + 1
    BY <1>1, <1>2, <1>6
  <2>2. k \in I <=> (y.add.Remote = h \/ y.rmv.Remote = h)
    BY <1>6 DEF NewAt
  <2>. HIDE DEF e, y
  <2>3. (y.add.Remote = h \/ y.rmv.Remote = h) <=> d.remote.indices.Local <= e.LogIndex
    BY ONLY <2>1, FreshMark
  <2>. QED  BY <2>2, <2>3 DEF e, first
<1>8. I \in SUBSET (DOMAIN t) /\ I \subseteq DOMAIN s /\ u = WrittenAt(t, I)
  BY <1>6 DEF NewAt
<1>9. /\ u \in Seq(Recs) /\ Range(u) = {ToLogUpdate(Core(t[i])) : i \in I}
      /\ \A j, k \in DOMAIN u : j < k =>
            \E i, l \in I : i < l /\ u[j].LogIndex = t[i].LogIndex /\ u[k].LogIndex = t[l].LogIndex
  BY ONLY <1>6, <1>8, WrittenFacts
<1>10. \A i, l \in I : i < l => t[i].LogIndex < t[l].LogIndex
  BY ONLY <1>4, <1>6, <1>7, <1>8 DEF InOrder
<1>11. \A i \in I : t[i] \in Entries /\ Core(t[i]) \in K /\ first <= t[i].LogIndex /\ t[i].LogIndex < last
  BY ONLY <1>2, <1>6, <1>7, <1>8
<1>12. \A x \in Recs : ToLogUpdate(x).LogIndex = x.LogIndex
  BY LogUpdateFacts
<1>13. \A e \in Entries : Core(e) \in Recs /\ Core(e).LogIndex = e.LogIndex
  BY CoreFacts
<1>14. Range(u) = Written(K, first, last)
  <2>1. ASSUME NEW i \in I PROVE ToLogUpdate(Core(t[i])) \in Written(K, first, last)
    BY <1>11, <1>13 DEF Written
  <2>2. ASSUME NEW x \in K, first <= x.LogIndex, x.LogIndex < last PROVE \E i \in I : ToLogUpdate(x) = ToLogUpdate(Core(t[i]))
    <3>1. PICK k \in DOMAIN s : x = Core(s[k])
      BY <1>3
    <3>2. k \in I /\ Core(t[k]) = x
      BY <1>2, <1>6, <1>7, <1>13, <2>2, <3>1
    <3>. QED  BY <3>2
  <2>. QED  BY ONLY <1>9, <2>1, <2>2 DEF Written
<1>15. \A k \in DOMAIN u : first <= u[k].LogIndex /\ u[k].LogIndex < last
  <2>1. \A k \in DOMAIN u : u[k] \in Range(u)
    BY DEF Range
  <2>2. \A v \in Range(u) : first <= v.LogIndex /\ v.LogIndex < last
    BY ONLY <1>9, <1>11, <1>12, <1>13
  <2>. QED  BY ONLY <2>1, <2>2
<1>16. \A j, k \in DOMAIN u : j < k => u[j].LogIndex < u[k].LogIndex
  BY ONLY <1>9, <1>10
<1>17. \A i \in first..(last - 1) : \E k \in DOMAIN u : u[k].LogIndex = i
  <2>. SUFFICES ASSUME NEW i \in first..(last - 1) PROVE \E k \in DOMAIN u : u[k].LogIndex = i
    OBVIOUS
  <2>1. PICK x \in K : x.LogIndex = i
    BY <1>5
  <2>2. ToLogUpdate(x) \in Range(u)
    BY ONLY <1>1, <1>14, <2>1 DEF Written
  <2>3. \E k \in DOMAIN u : u[k] = ToLogUpdate(x)
    BY <2>2 DEF Range
  <2>. QED  BY ONLY <1>1, <1>12, <2>1, <2>3
<1>18. Len(u) = last - first /\ \A k \in DOMAIN u : u[k].LogIndex = first + k - 1
  BY ONLY <1>1, <1>9, <1>15, <1>16, <1>17, Enumerates
<1>. QED  BY <1>9, <1>14, <1>18 DEF K, first, last

\* The chains of a memory, by what is on disk.
LEMMA ChainEnds ==
    ASSUME NEW m, NEW d, Sound(m, d)
    PROVE  /\ ChainTail(m.chains.Local) = d.local /\ ChainTip(m.chains.Local) = d.local
           /\ ChainTail(m.chains.Remote) = d.remote /\ ChainTip(m.chains.Remote) = TipOf(d)
<1>1. m.chains = RestoredChains(d)
  BY SoundUse
<1>2. m.chains.Local = <<d.local>>
  BY <1>1 DEF RestoredChains
<1>3. \/ m.chains.Remote = <<d.remote>> /\ TipOf(d) = d.remote
      \/ m.chains.Remote = <<d.remote, d.diff.commit>> /\ TipOf(d) = d.diff.commit
  BY <1>1 DEF RestoredChains, TipOf
<1>4. ASSUME NEW a, NEW b
      PROVE  /\ ChainTail(<<a>>) = a /\ ChainTip(<<a>>) = a
             /\ ChainTail(<<a, b>>) = a /\ ChainTip(<<a, b>>) = b
  <2>1. <<a>> \in Seq({a, b}) /\ <<a, b>> \in Seq({a, b}) /\ Len(<<a>>) = 1 /\ Len(<<a, b>>) = 2
    OBVIOUS
  <2>. QED  BY <2>1 DEF ChainTail, ChainTip, Last
<1>5. ChainTail(<<d.local>>) = d.local /\ ChainTip(<<d.local>>) = d.local
  BY ONLY <1>4
<1>6. ChainTail(<<d.remote>>) = d.remote /\ ChainTip(<<d.remote>>) = d.remote
  BY ONLY <1>4
<1>7. ChainTail(<<d.remote, d.diff.commit>>) = d.remote /\ ChainTip(<<d.remote, d.diff.commit>>) = d.diff.commit
  BY ONLY <1>4
<1>8. CASE m.chains.Remote = <<d.remote>> /\ TipOf(d) = d.remote
  BY ONLY <1>2, <1>5, <1>6, <1>8
<1>9. CASE m.chains.Remote = <<d.remote, d.diff.commit>> /\ TipOf(d) = d.diff.commit
  BY ONLY <1>2, <1>5, <1>7, <1>9
<1>. QED  BY ONLY <1>3, <1>8, <1>9

\* The disk with a diff.
LEMMA DiffWritten ==
    ASSUME NEW d \in Disks, NEW diff \in Diffs, NEW f, f = AppendRemoteCommitChain(d, diff)
    PROVE  /\ f \in Disks /\ f.local = d.local /\ f.remote = d.remote /\ f.diff = diff /\ f.diff # NoDiff
           /\ f.unsignedAcked = d.unsignedAcked /\ f.remoteUnsigned = d.remoteUnsigned
           /\ f.ackedKey = d.ackedKey /\ f.fwdPkgs = d.fwdPkgs
<1>1. diff # NoDiff
  BY DEF Diffs, NoDiff
<1>2. f = [d EXCEPT !.diff = diff, !.lastWasRevoke = FALSE]
  BY DEF AppendRemoteCommitChain
<1>3. f \in Disks
  BY <1>2 DEF Disks
<1>. QED  BY <1>1, <1>2, <1>3 DEF Disks

\* A memory with the chains c and e.
Rechains(m, e, c, m2) ==
    /\ m \in Mems /\ c \in Seq(Commitments) /\ e \in Seq(Commitments)
    /\ \/ m2 = [m EXCEPT !.chains.Remote = c] /\ e = m.chains.Local
       \/ m2 = [m EXCEPT !.chains.Local = e] /\ c = m.chains.Remote

\* A memory with other chains has the same logs.
LEMMA OtherChains ==
    ASSUME NEW m, NEW e, NEW c, NEW m2, Rechains(m, e, c, m2)
    PROVE  /\ m2 \in Mems /\ m2.logs = m.logs /\ m2.chains.Local = e /\ m2.chains.Remote = c
           /\ m2.chains = [Local |-> m2.chains.Local, Remote |-> m2.chains.Remote]
<1>. USE DEF Rechains
<1>1. m.chains = [Local |-> m.chains.Local, Remote |-> m.chains.Remote] /\ m = [logs |-> m.logs, chains |-> m.chains]
  BY DEF Mems
<1>2. m2 = [logs |-> m.logs, chains |-> [Local |-> e, Remote |-> c]]
  BY <1>1
<1>. QED  BY <1>2 DEF Mems

\* SignNextCommitment
LEMMA SoundSign ==
    ASSUME NEW m, NEW d, Sound(m, d), NEW n \in Node, d.diff = NoDiff,
           CommitmentSane(m, n, "Remote", FetchHTLCView(m, SignIndices(m)), "NoBuffer")
    PROVE  Sound(SignNextCommitment(m, d, n).m, SignNextCommitment(m, d, n).d)
<1>. DEFINE upTo == SignIndices(m)
            hx == SignHtlcIndices(m)
            h == d.remote.height + 1
            c == CommitmentView(m, n, "Remote", upTo, hx)
            s == SetCommitHeights(m, "Remote", upTo, h)
            diff == CreateCommitDiff(s, c)
            m2 == [s EXCEPT !.chains.Remote = Append(@, c)]
            f == AppendRemoteCommitChain(d, diff)
            K == BookOf(m)
            A == K.Local
            R == K.Remote
            ix == LogIndices(m)
            hc == HtlcCounters(m)
<1>1. /\ m \in Mems /\ d \in Disks /\ m.chains = RestoredChains(d)
      /\ Book(K, ix, hc, d) /\ Sent(d)
      /\ K \in Books /\ ix \in Pairs /\ hc \in Pairs
  BY SoundUse, MemFacts
<1>2. TipOf(d) = d.remote /\ ChainTip(m.chains.Remote) = d.remote /\ ChainTail(m.chains.Local) = d.local
  BY ChainEnds DEF TipOf
<1>3. SignNextCommitment(m, d, n).m = m2 /\ SignNextCommitment(m, d, n).d = f
  BY <1>2 DEF SignNextCommitment, SignCommitment
<1>4. /\ upTo.Local = ix.Local /\ upTo.Remote = d.local.indices.Remote
      /\ hx.Local = hc.Local /\ hx.Remote = d.local.htlcIndex.Remote
      /\ ix.Local = m.logs.Local.logIndex
      /\ upTo = [Local |-> upTo.Local, Remote |-> upTo.Remote] /\ hx = [Local |-> hx.Local, Remote |-> hx.Remote]
  BY <1>2 DEF SignIndices, SignHtlcIndices, LogIndices, HtlcCounters
<1>5. /\ d.local \in Commitments /\ d.remote \in Commitments /\ d.remote.height \in Nat /\ h \in Nat
      /\ d.local.indices.Remote \in Nat /\ d.local.htlcIndex.Remote \in Nat
      /\ d.remote.indices.Remote \in Nat /\ d.remote.indices.Local \in Nat
      /\ ix.Local \in Nat /\ ix.Remote \in Nat /\ hc.Local \in Nat /\ hc.Remote \in Nat
  <2>1. d.local \in Commitments /\ d.remote \in Commitments
    BY <1>1 DEF Disks
  <2>. QED  BY <1>1, <2>1, CommitFacts, Parties
<1>6. upTo \in Pairs /\ hx \in Pairs
  <2>. HIDE DEF upTo, hx, ix, hc
  <2>. QED  BY <1>4, <1>5 DEF Pairs
<1>7. d.remote.indices.Local <= upTo.Local /\ d.remote.indices.Remote <= upTo.Remote
  <2>1. d.remote.indices.Local <= ix.Local
    BY <1>1, BookFacts
  <2>2. Staged(d)
    BY <1>1, BookUse
  <2>3. d.remote.indices.Remote <= d.local.indices.Remote
    BY <1>2, <1>5, <2>2 DEF Staged
  <2>. QED  BY <1>4, <2>1, <2>3
<1>8. /\ c \in Commitments /\ c.height = h /\ c.indices = upTo /\ c.htlcIndex = hx
      /\ c.outputs.Local = {OutputOf(a) : a \in LiveOn(A, R, upTo.Local, upTo.Remote)}
      /\ c.outputs.Remote = {OutputOf(a) : a \in LiveOn(R, A, upTo.Remote, upTo.Local)}
      /\ Total(c) = Capacity
      /\ \A r \in R : IsRmv(r) /\ r.LogIndex < upTo.Remote =>
           \E a \in A : IsAdd(a) /\ a.HtlcIndex = r.HtlcIndex /\ a.LogIndex < d.remote.indices.Local
      /\ \A r \in A : IsRmv(r) /\ r.LogIndex < upTo.Local =>
           \E a \in R : IsAdd(a) /\ a.HtlcIndex = r.HtlcIndex /\ a.LogIndex < d.remote.indices.Remote
  <2>. DEFINE w == "Remote"
  <2>1. TipOn(d, w) = d.remote
    BY <1>2 DEF TipOn
  <2>2. /\ Sound(m, d) /\ n \in Node /\ w \in Party /\ upTo \in Pairs /\ hx \in Pairs
        /\ TipOn(d, w).indices.Local <= upTo.Local /\ TipOn(d, w).indices.Remote <= upTo.Remote
        /\ CommitmentSane(m, n, w, FetchHTLCView(m, upTo), "NoBuffer")
        /\ c = CommitmentView(m, n, w, upTo, hx) /\ A = BookOf(m).Local /\ R = BookOf(m).Remote
    BY <1>6, <1>7, <2>1, Parties
  <2>. HIDE DEF w, c, A, R, upTo, hx
  <2>3. /\ c \in Commitments /\ c.height = TipOn(d, w).height + 1 /\ c.indices = upTo /\ c.htlcIndex = hx
        /\ c.outputs.Local = {OutputOf(a) : a \in LiveOn(A, R, upTo.Local, upTo.Remote)}
        /\ c.outputs.Remote = {OutputOf(a) : a \in LiveOn(R, A, upTo.Remote, upTo.Local)}
        /\ Total(c) = Capacity
        /\ \A r \in R : IsRmv(r) /\ r.LogIndex < upTo.Remote =>
              \E a \in A : IsAdd(a) /\ a.HtlcIndex = r.HtlcIndex /\ a.LogIndex < TipOn(d, w).indices.Local
        /\ \A r \in A : IsRmv(r) /\ r.LogIndex < upTo.Local =>
              \E a \in R : IsAdd(a) /\ a.HtlcIndex = r.HtlcIndex /\ a.LogIndex < TipOn(d, w).indices.Remote
    BY ONLY <2>2, NextCommitment
  <2>. QED  BY ONLY <2>1, <2>3
<1>9. /\ s \in Mems /\ s.chains = m.chains
      /\ s.logs.Local.list = MarkUpTo(m.logs.Local.list, "Remote", upTo.Local, h)
      /\ s.logs.Remote.list = MarkUpTo(m.logs.Remote.list, "Remote", upTo.Remote, h)
      /\ LogIndices(s) = ix /\ HtlcCounters(s) = hc /\ BookOf(s) = K
      /\ s.logs.Local.modified = m.logs.Local.modified
      /\ s.logs.Remote.modified = m.logs.Remote.modified
  <2>. DEFINE w == "Remote"
  <2>1. m \in Mems /\ w \in Party /\ h \in Nat /\ s = SetCommitHeights(m, w, upTo, h)
    BY <1>1, <1>5, Parties
  <2>. HIDE DEF w, s, upTo, h
  <2>2. /\ s \in Mems /\ s.chains = m.chains
        /\ s.logs.Local.list = MarkUpTo(m.logs.Local.list, w, upTo.Local, h)
        /\ s.logs.Remote.list = MarkUpTo(m.logs.Remote.list, w, upTo.Remote, h)
        /\ LogIndices(s) = LogIndices(m) /\ HtlcCounters(s) = HtlcCounters(m) /\ BookOf(s) = BookOf(m)
        /\ s.logs.Local.modified = m.logs.Local.modified
        /\ s.logs.Remote.modified = m.logs.Remote.modified
    BY ONLY <2>1, HeightsFacts
  <2>. QED  BY ONLY <2>2 DEF w
<1>10. diff.commit = c /\ diff = [commit |-> c, updates |-> diff.updates]
       /\ diff.updates = WrittenAt(s.logs.Local.list, NewAt(s.logs.Local.list, h))
  <2>. HIDE DEF c, s, h
  <2>. QED  BY <1>8 DEF CreateCommitDiff, LogUpdates, WrittenAt, NewAt
<1>. HIDE DEF diff, c, s, h, upTo, hx, f, m2
<1>. DEFINE u == diff.updates
<1>11. /\ u \in Seq(Recs) /\ Len(u) = ix.Local - d.remote.indices.Local
       /\ \A k \in DOMAIN u : u[k].LogIndex = d.remote.indices.Local + k - 1
       /\ Range(u) = Written(A, d.remote.indices.Local, ix.Local)
  <2>. DEFINE t == s.logs.Local.list
              I == NewAt(t, h)
  <2>1. /\ Sound(m, d) /\ d.diff = NoDiff /\ h \in Nat /\ h = d.remote.height + 1
        /\ t = MarkUpTo(m.logs.Local.list, "Remote", m.logs.Local.logIndex, h)
        /\ u = WrittenAt(t, I)
    BY <1>4, <1>5, <1>9, <1>10 DEF h
  <2>2. I = NewAt(t, h)
    OBVIOUS
  <2>. HIDE DEF t, I, u
  <2>3. /\ u \in Seq(Recs) /\ Len(u) = m.logs.Local.logIndex - d.remote.indices.Local
        /\ \A k \in DOMAIN u : u[k].LogIndex = d.remote.indices.Local + k - 1
        /\ Range(u) = Written(BookOf(m).Local, d.remote.indices.Local, m.logs.Local.logIndex)
    BY ONLY <2>1, <2>2, DiffUpdates
  <2>. QED  BY ONLY <1>4, <2>3
<1>12. diff \in Diffs
  BY <1>8, <1>10, <1>11 DEF Diffs
<1>13. /\ f \in Disks /\ f.local = d.local /\ f.remote = d.remote /\ f.diff = diff /\ f.diff # NoDiff
       /\ f.unsignedAcked = d.unsignedAcked /\ f.remoteUnsigned = d.remoteUnsigned
       /\ f.ackedKey = d.ackedKey /\ f.fwdPkgs = d.fwdPkgs
  <2>1. d \in Disks /\ diff \in Diffs /\ f = AppendRemoteCommitChain(d, diff)
    BY <1>1, <1>12 DEF f
  <2>. QED  BY ONLY <2>1, DiffWritten
<1>14. m2 \in Mems /\ m2.logs = s.logs /\ m2.chains = RestoredChains(f)
  <2>. DEFINE x == m.chains.Remote
              y == Append(x, c)
              z == m.chains.Local
  <2>1. x = <<d.remote>> /\ z = <<d.local>>
    BY <1>1 DEF RestoredChains
  <2>2. y = <<d.remote, c>>
    BY <2>1, AppendToOne
  <2>3. Rechains(s, z, y, m2)
    <3>1. /\ s \in Mems /\ y \in Seq(Commitments) /\ z \in Seq(Commitments)
          /\ m2 = [s EXCEPT !.chains.Remote = y] /\ z = s.chains.Local
      BY <1>5, <1>8, <1>9, <2>1, <2>2 DEF m2
    <3>. QED  BY ONLY <3>1 DEF Rechains
  <2>. HIDE DEF y, z
  <2>4. /\ m2 \in Mems /\ m2.logs = s.logs /\ m2.chains.Local = z /\ m2.chains.Remote = y
        /\ m2.chains = [Local |-> m2.chains.Local, Remote |-> m2.chains.Remote]
    BY ONLY <2>3, OtherChains
  <2>. QED  BY <1>10, <1>13, <2>1, <2>2, <2>4 DEF RestoredChains, z
<1>15. BookOf(m2) = K /\ LogIndices(m2) = ix /\ HtlcCounters(m2) = hc
  BY <1>9, <1>14 DEF BookOf, LogIndices, HtlcCounters
<1>16. Book(K, ix, hc, f)
  <2>1. /\ d \in Disks /\ K \in Books /\ ix \in Pairs /\ hc \in Pairs
        /\ Book(K, ix, hc, d) /\ d.diff = NoDiff /\ c \in Commitments
        /\ c.indices.Local = ix.Local /\ c.indices.Remote = d.local.indices.Remote
        /\ c.htlcIndex.Local = hc.Local /\ c.htlcIndex.Remote = d.local.htlcIndex.Remote
        /\ c.height = d.remote.height + 1 /\ Total(c) = Capacity
    BY <1>1, <1>4, <1>8 DEF h
  <2>2. /\ c.outputs.Local = {OutputOf(a) : a \in LiveOn(K.Local, K.Remote, c.indices.Local, c.indices.Remote)}
        /\ c.outputs.Remote = {OutputOf(a) : a \in LiveOn(K.Remote, K.Local, c.indices.Remote, c.indices.Local)}
    BY <1>8
  <2>3. /\ \A r \in K.Remote : IsRmv(r) /\ r.LogIndex < c.indices.Remote =>
              \E a \in K.Local : IsAdd(a) /\ a.HtlcIndex = r.HtlcIndex /\ a.LogIndex < d.remote.indices.Local
        /\ \A r \in K.Local : IsRmv(r) /\ r.LogIndex < c.indices.Local =>
              \E a \in K.Remote : IsAdd(a) /\ a.HtlcIndex = r.HtlcIndex /\ a.LogIndex < d.remote.indices.Remote
    BY <1>8
  <2>4. /\ f.diff.commit = c
        /\ Len(f.diff.updates) = ix.Local - d.remote.indices.Local
        /\ \A k \in DOMAIN f.diff.updates : f.diff.updates[k].LogIndex = d.remote.indices.Local + k - 1
        /\ Range(f.diff.updates) = Written(K.Local, d.remote.indices.Local, ix.Local)
    BY <1>10, <1>11, <1>13
  <2>. HIDE DEF K, ix, hc
  <2>. QED  BY ONLY <1>13, <2>1, <2>2, <2>3, <2>4, BookSign
<1>17. ASSUME NEW p \in Party
       PROVE  \A e \in Range(m2.logs[p].list) : Marked(e, p, f)
  <2>. DEFINE g == m.logs[p].list
  <2>1. m2.logs[p].list = MarkUpTo(g, "Remote", upTo[p], h)
    BY <1>9, <1>14, <1>17, Parties
  <2>2. g \in Seq(Entries) /\ \A e \in Range(g) : e \in Entries /\ Marked(e, p, d)
    <3>1. g \in Seq(Entries) /\ \A e \in Range(g) : Marked(e, p, d)
      BY <1>1, <1>17, SoundUse, MemFacts, Parties
    <3>. QED  BY <3>1 DEF Range
  <2>. HIDE DEF g
  <2>3. \A y \in Range(m2.logs[p].list) : \E e \in Range(g) : y = IF e.LogIndex < upTo[p] THEN Mark(e, "Remote", h) ELSE e
    <3>. DEFINE w == "Remote"
                t == m2.logs[p].list
                up == upTo[p]
    <3>1. g \in Seq(Entries) /\ w \in Party /\ h \in Nat /\ t = MarkUpTo(g, w, up, h)
      BY <1>5, <2>1, <2>2, Parties
    <3>. HIDE DEF w, t, up
    <3>2. \A y \in Range(t) : \E e \in Range(g) : y = IF e.LogIndex < up THEN Mark(e, w, h) ELSE e
      BY ONLY <3>1, MarkUpToFacts
    <3>. QED  BY ONLY <3>2 DEF w, t, up
  <2>4. /\ f.diff.commit.height = d.remote.height + 1 /\ d.remote.indices[p] <= f.diff.commit.indices[p]
        /\ f.diff.commit.height = h /\ f.diff.commit.indices[p] = upTo[p]
    BY <1>7, <1>8, <1>10, <1>13, <1>17, Parties DEF h
  <2>. SUFFICES ASSUME NEW y \in Range(m2.logs[p].list) PROVE Marked(y, p, f)
    OBVIOUS
  <2>5. PICK e \in Range(g) : y = IF e.LogIndex < upTo[p] THEN Mark(e, "Remote", h) ELSE e
    BY <2>3
  <2>6. /\ e \in Entries /\ p \in Party /\ d \in Disks /\ Marked(e, p, d) /\ d.diff = NoDiff
        /\ f \in Disks /\ f.local = d.local /\ f.remote = d.remote /\ f.diff # NoDiff
        /\ f.diff.commit.height = d.remote.height + 1 /\ d.remote.indices[p] <= f.diff.commit.indices[p]
        /\ y = IF e.LogIndex < f.diff.commit.indices[p] THEN Mark(e, "Remote", f.diff.commit.height) ELSE e
    BY <1>1, <1>13, <1>17, <2>2, <2>4, <2>5
  <2>. QED  BY ONLY <2>6, MarkedSign
<1>18. ASSUME NEW p \in Party PROVE Distinct(m2.logs[p].list) /\ m2.logs[p].list \in Seq(Entries)
  <2>. DEFINE g == m.logs[p].list
              w == "Remote"
              t == m2.logs[p].list
              up == upTo[p]
  <2>1. g \in Seq(Entries) /\ w \in Party /\ h \in Nat /\ t = MarkUpTo(g, w, up, h) /\ Distinct(g)
    BY <1>1, <1>5, <1>9, <1>14, <1>18, SoundUse, MemFacts, Parties
  <2>. HIDE DEF w, t, up, g
  <2>2. t \in Seq(Entries) /\ Distinct(t)
    BY ONLY <2>1, MarkUpToFacts
  <2>. QED  BY ONLY <2>2 DEF t
<1>19. InOrder(m2.logs.Local.list, TipOf(f).indices.Local)
  <2>. DEFINE t == m2.logs.Local.list
  <2>1. TipOf(f).indices.Local = ix.Local
    BY <1>4, <1>8, <1>10, <1>13 DEF TipOf
  <2>2. \A x \in BookOf(m2).Local : x.LogIndex < ix.Local /\ x.LogIndex \in Nat
    <3>1. Ordered(A, ix.Local, hc.Local) /\ A \in SUBSET Recs
      BY <1>1, BookUse, BookFacts
    <3>. QED  BY <1>15, <3>1 DEF Ordered, Recs
  <2>3. \A i \in DOMAIN t : Core(t[i]) \in BookOf(m2).Local /\ Core(t[i]).LogIndex = t[i].LogIndex
    BY DEF BookOf, Cores, Core
  <2>. HIDE DEF t
  <2>4. \A i \in DOMAIN t : ~(t[i].LogIndex >= ix.Local)
    BY <1>5, <2>2, <2>3
  <2>. QED  BY <2>1, <2>4 DEF InOrder, t
<1>20. Sent(f)
  BY <1>1, <1>13 DEF Sent, Forwarded, Returned
<1>21. /\ \A x \in BookOf(m2).Local : IsRmv(x) => x.HtlcIndex \in m2.logs.Remote.modified
       /\ \A x \in BookOf(m2).Remote : IsRmv(x) => x.HtlcIndex \in m2.logs.Local.modified
  BY <1>9, <1>14, <1>15, SoundUse
<1>22. /\ Distinct(m2.logs.Local.list) /\ Distinct(m2.logs.Remote.list)
       /\ \A e \in Range(m2.logs.Local.list) : Marked(e, "Local", f)
       /\ \A e \in Range(m2.logs.Remote.list) : Marked(e, "Remote", f)
       /\ Book(BookOf(m2), LogIndices(m2), HtlcCounters(m2), f)
  BY <1>15, <1>16, <1>17, <1>18, Parties
<1>23. Sound(m2, f)
  BY ONLY <1>13, <1>14, <1>19, <1>20, <1>21, <1>22, SoundMake
<1>. QED  BY <1>3, <1>23

-----------------------------------------------------------------------------
(* Receiving a commitment and revoking the one before. *)

\* The places of a list with an update from index first to below last.
PlacesIn(t, first, last) == {k \in DOMAIN t : t[k].LogIndex >= first /\ t[k].LogIndex < last}

\* The updates of a list in a range of indices, as they are written.
LEMMA WrittenRange ==
    ASSUME NEW t \in Seq(Entries), NEW first \in Nat, NEW last \in Nat, NEW u, u = WrittenAt(t, PlacesIn(t, first, last))
    PROVE  u \in Seq(Recs) /\ Range(u) = Written(Cores(t), first, last) /\ (Distinct(t) => Distinct(u))
<1>. DEFINE I == PlacesIn(t, first, last)
<1>1. I \in SUBSET (DOMAIN t) /\ u = WrittenAt(t, I)
  BY DEF PlacesIn
<1>2. \A k \in DOMAIN t : t[k] \in Entries /\ t[k].LogIndex \in Nat /\ Core(t[k]).LogIndex = t[k].LogIndex
  <2>1. \A k \in DOMAIN t : t[k] \in Entries
    OBVIOUS
  <2>2. \A e \in Entries : e.LogIndex \in Nat /\ Core(e).LogIndex = e.LogIndex
    BY DEF Entries, Core
  <2>. QED  BY ONLY <2>1, <2>2
<1>3. \A k \in DOMAIN t : k \in I <=> first <= t[k].LogIndex /\ t[k].LogIndex < last
  BY <1>2 DEF PlacesIn
<1>. HIDE DEF I
<1>4. u \in Seq(Recs) /\ Range(u) = {ToLogUpdate(Core(t[i])) : i \in I} /\ (Distinct(t) => Distinct(u))
  BY ONLY <1>1, t \in Seq(Entries), WrittenFacts
<1>5. {Core(t[i]) : i \in I} = {x \in Cores(t) : first <= x.LogIndex /\ x.LogIndex < last}
  BY <1>1, <1>2, <1>3 DEF Cores
<1>6. {ToLogUpdate(Core(t[i])) : i \in I} = {ToLogUpdate(x) : x \in {Core(t[i]) : i \in I}}
  OBVIOUS
<1>7. Range(u) = Written(Cores(t), first, last)
  BY ONLY <1>4, <1>5, <1>6 DEF Written
<1>. QED  BY <1>4, <1>7

\* The updates on disk from an index on.
LEMMA FromFacts ==
    ASSUME NEW s \in Seq(Recs), NEW first, NEW t, t = UpdatesFrom(first, s)
    PROVE  /\ t \in Seq(Recs) /\ Range(t) = {u \in Range(s) : u.LogIndex >= first}
           /\ Distinct(s) => Distinct(t)
           /\ (\A u \in Range(s) : ~(u.LogIndex >= first)) => t = <<>>
<1>. DEFINE I == {k \in DOMAIN s : s[k].LogIndex >= first}
<1>1. I \in SUBSET (DOMAIN s) /\ t = SubsequenceAt(s, I)
  BY DEF UpdatesFrom
<1>2. {s[i] : i \in I} = {u \in Range(s) : u.LogIndex >= first}
  BY DEF Range
<1>. HIDE DEF I
<1>3. /\ t \in Seq(Recs) /\ Range(t) = {s[i] : i \in I}
      /\ \A j, k \in DOMAIN t : j < k => \E i, l \in I : i < l /\ t[j] = s[i] /\ t[k] = s[l]
  BY ONLY <1>1, s \in Seq(Recs), Picked
<1>4. ASSUME Distinct(s) PROVE Distinct(t)
  <2>1. I \subseteq DOMAIN s /\ \A i \in DOMAIN s : i \in Nat
    BY <1>1
  <2>2. \A j, k \in DOMAIN t : j < k => t[j].LogIndex # t[k].LogIndex
    BY ONLY <1>3, <1>4, <2>1 DEF Distinct
  <2>3. \A j, k \in DOMAIN t : j # k => j < k \/ k < j
    BY ONLY <1>3
  <2>. QED  BY ONLY <2>2, <2>3 DEF Distinct
<1>5. ASSUME \A u \in Range(s) : ~(u.LogIndex >= first) PROVE t = <<>>
  <2>1. Range(t) = {}
    BY <1>2, <1>3, <1>5
  <2>2. DOMAIN t = {}
    BY <2>1 DEF Range
  <2>. QED  BY <1>3, <2>2
<1>. QED  BY ONLY <1>2, <1>3, <1>4, <1>5

\* The disk with a new commitment of ours.
Adopts(d, c, v, f) ==
    d \in Disks /\ c \in Commitments /\ v \in Seq(Recs) /\ f = UpdateCommitment(d, c, v)

\* The disk after UpdateCommitment.
LEMMA CommitmentWritten ==
    ASSUME NEW d, NEW c, NEW v, NEW f, Adopts(d, c, v, f)
    PROVE  /\ f \in Disks /\ f.local = c /\ f.remote = d.remote /\ f.diff = d.diff
           /\ f.unsignedAcked = v /\ f.remoteUnsigned = UpdatesFrom(c.indices.Local, d.remoteUnsigned)
           /\ f.ackedKey /\ f.fwdPkgs = d.fwdPkgs
<1>. DEFINE w == UpdatesFrom(c.indices.Local, d.remoteUnsigned)
<1>. USE DEF Adopts
<1>1. f = [d EXCEPT !.local = c, !.ackedKey = TRUE, !.unsignedAcked = v, !.lastWasRevoke = TRUE, !.remoteUnsigned = w]
  BY DEF UpdateCommitment
<1>2. w \in Seq(Recs)
  <2>1. d.remoteUnsigned \in Seq(Recs)
    BY DEF Disks
  <2>. QED  BY <2>1, FromFacts
<1>. HIDE DEF w
<1>3. f \in Disks
  BY <1>1, <1>2 DEF Disks
<1>4. /\ f.local = c /\ f.remote = d.remote /\ f.diff = d.diff
      /\ f.unsignedAcked = v /\ f.remoteUnsigned = w
      /\ f.ackedKey /\ f.fwdPkgs = d.fwdPkgs
  BY <1>1 DEF Disks
<1>. QED  BY <1>3, <1>4 DEF w

\* ReceiveNewCommitment and RevokeCurrentCommitment
LEMMA SoundRevoke ==
    ASSUME NEW m, NEW d, Sound(m, d), NEW n \in Node,
           CommitmentSane(m, n, "Local", FetchHTLCView(m, RecvIndices(m)), "NoBuffer"),
           NEW r, r = RevokeCurrentCommitment(ReceiveNewCommitment(m, n), d)
    PROVE  Sound(r.m, r.d)
<1>. DEFINE upTo == RecvIndices(m)
            hx == RecvHtlcIndices(m)
            h == d.local.height + 1
            c == CommitmentView(m, n, "Local", upTo, hx)
            s == SetCommitHeights(m, "Local", upTo, h)
            m1 == [s EXCEPT !.chains.Local = Append(@, c)]
            m2 == [m1 EXCEPT !.chains.Local = Tail(@)]
            v == UnsignedAckedUpdates(m2)
            f == UpdateCommitment(d, c, v)
            K == BookOf(m)
            A == K.Local
            R == K.Remote
            ix == LogIndices(m)
            hc == HtlcCounters(m)
<1>1. /\ m \in Mems /\ d \in Disks /\ m.chains = RestoredChains(d)
      /\ Book(K, ix, hc, d) /\ Sent(d)
      /\ K \in Books /\ ix \in Pairs /\ hc \in Pairs
  BY SoundUse, MemFacts
<1>2. ChainTail(m.chains.Remote) = d.remote /\ ChainTip(m.chains.Local) = d.local
  BY ChainEnds
<1>3. r.m = m2 /\ r.d = UpdateCommitment(d, m1.chains.Local[2], v)
  <2>1. ReceiveNewCommitment(m, n) = m1
    BY <1>2 DEF ReceiveNewCommitment
  <2>. HIDE DEF m1
  <2>. QED  BY <2>1 DEF RevokeCurrentCommitment, MoveTo
<1>4. /\ upTo.Local = d.remote.indices.Local /\ upTo.Remote = ix.Remote
      /\ hx.Local = d.remote.htlcIndex.Local /\ hx.Remote = hc.Remote
      /\ ix.Remote = m.logs.Remote.logIndex
      /\ upTo = [Local |-> upTo.Local, Remote |-> upTo.Remote] /\ hx = [Local |-> hx.Local, Remote |-> hx.Remote]
  BY <1>2 DEF RecvIndices, RecvHtlcIndices, LogIndices, HtlcCounters
<1>5. /\ d.local \in Commitments /\ d.remote \in Commitments /\ d.local.height \in Nat /\ h \in Nat
      /\ d.remote.indices.Remote \in Nat /\ d.remote.htlcIndex.Local \in Nat
      /\ d.local.indices.Remote \in Nat /\ d.remote.indices.Local \in Nat
      /\ d.local.indices.Local \in Nat
      /\ ix.Local \in Nat /\ ix.Remote \in Nat /\ hc.Local \in Nat /\ hc.Remote \in Nat
  <2>1. d.local \in Commitments /\ d.remote \in Commitments
    BY <1>1 DEF Disks
  <2>. QED  BY <1>1, <2>1, CommitFacts, Parties
<1>6. upTo \in Pairs /\ hx \in Pairs
  <2>. HIDE DEF upTo, hx, ix, hc
  <2>. QED  BY <1>4, <1>5 DEF Pairs
<1>7. d.local.indices.Local <= upTo.Local /\ d.local.indices.Remote <= upTo.Remote
  <2>1. d.local.indices.Remote <= ix.Remote
    BY <1>1, BookFacts
  <2>2. Staged(d)
    BY <1>1, BookUse
  <2>3. d.local.indices.Local <= d.remote.indices.Local
    BY <2>2 DEF Staged
  <2>. QED  BY <1>4, <2>1, <2>3
<1>8. /\ c \in Commitments /\ c.height = h /\ c.indices = upTo /\ c.htlcIndex = hx
      /\ c.outputs.Local = {OutputOf(a) : a \in LiveOn(A, R, upTo.Local, upTo.Remote)}
      /\ c.outputs.Remote = {OutputOf(a) : a \in LiveOn(R, A, upTo.Remote, upTo.Local)}
      /\ Total(c) = Capacity
      /\ \A q \in R : IsRmv(q) /\ q.LogIndex < upTo.Remote =>
           \E a \in A : IsAdd(a) /\ a.HtlcIndex = q.HtlcIndex /\ a.LogIndex < d.local.indices.Local
      /\ \A q \in A : IsRmv(q) /\ q.LogIndex < upTo.Local =>
           \E a \in R : IsAdd(a) /\ a.HtlcIndex = q.HtlcIndex /\ a.LogIndex < d.local.indices.Remote
  <2>. DEFINE w == "Local"
  <2>1. TipOn(d, w) = d.local
    BY DEF TipOn
  <2>2. /\ Sound(m, d) /\ n \in Node /\ w \in Party /\ upTo \in Pairs /\ hx \in Pairs
        /\ TipOn(d, w).indices.Local <= upTo.Local /\ TipOn(d, w).indices.Remote <= upTo.Remote
        /\ CommitmentSane(m, n, w, FetchHTLCView(m, upTo), "NoBuffer")
        /\ c = CommitmentView(m, n, w, upTo, hx) /\ A = BookOf(m).Local /\ R = BookOf(m).Remote
    BY <1>6, <1>7, <2>1, Parties
  <2>. HIDE DEF w, c, A, R, upTo, hx
  <2>3. /\ c \in Commitments /\ c.height = TipOn(d, w).height + 1 /\ c.indices = upTo /\ c.htlcIndex = hx
        /\ c.outputs.Local = {OutputOf(a) : a \in LiveOn(A, R, upTo.Local, upTo.Remote)}
        /\ c.outputs.Remote = {OutputOf(a) : a \in LiveOn(R, A, upTo.Remote, upTo.Local)}
        /\ Total(c) = Capacity
        /\ \A q \in R : IsRmv(q) /\ q.LogIndex < upTo.Remote =>
              \E a \in A : IsAdd(a) /\ a.HtlcIndex = q.HtlcIndex /\ a.LogIndex < TipOn(d, w).indices.Local
        /\ \A q \in A : IsRmv(q) /\ q.LogIndex < upTo.Local =>
              \E a \in R : IsAdd(a) /\ a.HtlcIndex = q.HtlcIndex /\ a.LogIndex < TipOn(d, w).indices.Remote
    BY ONLY <2>2, NextCommitment
  <2>. QED  BY ONLY <2>1, <2>3
<1>9. /\ s \in Mems /\ s.chains = m.chains
      /\ s.logs.Local.list = MarkUpTo(m.logs.Local.list, "Local", upTo.Local, h)
      /\ s.logs.Remote.list = MarkUpTo(m.logs.Remote.list, "Local", upTo.Remote, h)
      /\ LogIndices(s) = ix /\ HtlcCounters(s) = hc /\ BookOf(s) = K
      /\ s.logs.Local.modified = m.logs.Local.modified
      /\ s.logs.Remote.modified = m.logs.Remote.modified
  <2>. DEFINE w == "Local"
  <2>1. m \in Mems /\ w \in Party /\ h \in Nat /\ s = SetCommitHeights(m, w, upTo, h)
    BY <1>1, <1>5, Parties
  <2>. HIDE DEF w, s, upTo, h
  <2>2. /\ s \in Mems /\ s.chains = m.chains
        /\ s.logs.Local.list = MarkUpTo(m.logs.Local.list, w, upTo.Local, h)
        /\ s.logs.Remote.list = MarkUpTo(m.logs.Remote.list, w, upTo.Remote, h)
        /\ LogIndices(s) = LogIndices(m) /\ HtlcCounters(s) = HtlcCounters(m) /\ BookOf(s) = BookOf(m)
        /\ s.logs.Local.modified = m.logs.Local.modified
        /\ s.logs.Remote.modified = m.logs.Remote.modified
    BY ONLY <2>1, HeightsFacts
  <2>. QED  BY ONLY <2>2 DEF w
<1>. HIDE DEF c, s, h, upTo, hx, m1
<1>10. m2 \in Mems /\ m2.logs = s.logs /\ m2.chains = [Local |-> <<c>>, Remote |-> m.chains.Remote] /\ r.d = f
  <2>. DEFINE x == m.chains.Remote
              y == <<d.local, c>>
              z == <<c>>
  <2>0. m.chains.Local = <<d.local>> /\ x \in Seq(Commitments)
    <3>1. m.chains.Local = <<d.local>>
      BY <1>1 DEF RestoredChains
    <3>2. x \in Seq(Commitments)
      BY <1>1 DEF Mems
    <3>. QED  BY <3>1, <3>2
  <2>1. /\ m.chains.Local = <<d.local>> /\ x \in Seq(Commitments)
        /\ y \in Seq(Commitments) /\ z \in Seq(Commitments)
    BY <1>5, <1>8, <2>0
  <2>2. Append(<<d.local>>, c) = y
    BY AppendToOne
  <2>3. Tail(y) = z /\ y[2] = c
    OBVIOUS
  <2>4. Rechains(s, y, x, m1)
    <3>1. m1 = [s EXCEPT !.chains.Local = y] /\ x = s.chains.Remote /\ s \in Mems
      BY <1>9, <2>1, <2>2 DEF m1
    <3>. QED  BY <2>1, <3>1 DEF Rechains
  <2>. HIDE DEF x, y, z
  <2>5. /\ m1 \in Mems /\ m1.logs = s.logs /\ m1.chains.Local = y /\ m1.chains.Remote = x
        /\ m1.chains = [Local |-> m1.chains.Local, Remote |-> m1.chains.Remote]
    BY ONLY <2>4, OtherChains
  <2>6. Rechains(m1, z, x, m2)
    BY <2>1, <2>3, <2>5 DEF Rechains
  <2>. HIDE DEF m2
  <2>7. /\ m2 \in Mems /\ m2.logs = m1.logs /\ m2.chains.Local = z /\ m2.chains.Remote = x
        /\ m2.chains = [Local |-> m2.chains.Local, Remote |-> m2.chains.Remote]
    BY ONLY <2>6, OtherChains
  <2>. QED  BY <1>3, <2>3, <2>5, <2>7 DEF x, z
<1>. HIDE DEF m2, f
<1>11. /\ v \in Seq(Recs) /\ Distinct(v)
       /\ Range(v) = Written(R, d.remote.indices.Remote, ix.Remote)
  <2>. DEFINE t == s.logs.Remote.list
              first == d.remote.indices.Remote
              last == ix.Remote
  <2>1. t \in Seq(Entries) /\ Cores(t) = R /\ Distinct(t)
    <3>. DEFINE g == m.logs.Remote.list
                w == "Local"
                up == upTo.Remote
    <3>1. g \in Seq(Entries) /\ w \in Party /\ h \in Nat /\ t = MarkUpTo(g, w, up, h) /\ Distinct(g)
      BY <1>1, <1>5, <1>9, SoundUse, MemFacts, Parties
    <3>2. R = Cores(g)
      BY DEF BookOf
    <3>. HIDE DEF w, t, up, g
    <3>3. t \in Seq(Entries) /\ Distinct(t) /\ Cores(t) = Cores(g)
      BY ONLY <3>1, MarkUpToFacts
    <3>. QED  BY ONLY <3>2, <3>3
  <2>2. v = WrittenAt(t, PlacesIn(t, first, last))
    <3>1. ChainTail(m2.chains.Remote) = d.remote /\ ChainTail(m2.chains.Local) = c
      BY <1>2, <1>10 DEF ChainTail
    <3>2. c.indices.Remote = last
      BY <1>4, <1>8
    <3>. QED  BY <1>10, <3>1, <3>2 DEF UnsignedAckedUpdates, LogUpdates, WrittenAt, PlacesIn
  <2>3. first \in Nat /\ last \in Nat
    BY <1>5
  <2>. HIDE DEF t, first, last, v
  <2>4. v \in Seq(Recs) /\ Range(v) = Written(Cores(t), first, last) /\ (Distinct(t) => Distinct(v))
    BY ONLY <2>1, <2>2, <2>3, WrittenRange
  <2>. QED  BY ONLY <2>1, <2>4 DEF first, last
<1>. HIDE DEF v
<1>12. d.remoteUnsigned \in Seq(Recs) /\ UpdatesFrom(c.indices.Local, d.remoteUnsigned) = <<>>
  <2>. DEFINE y == d.remoteUnsigned
              first == c.indices.Local
              z == UpdatesFrom(first, y)
  <2>1. y \in Seq(Recs)
    BY <1>1 DEF Disks
  <2>2. first = d.remote.indices.Local
    BY <1>4, <1>8
  <2>3. Range(y) \subseteq Written(A, d.local.indices.Local, d.remote.indices.Local)
    BY <1>1, BookUse DEF Kept
  <2>4. \A u \in Written(A, d.local.indices.Local, d.remote.indices.Local) : ~(u.LogIndex >= d.remote.indices.Local)
    <3>1. \A x \in A : x \in Recs /\ x.LogIndex \in Nat /\ ToLogUpdate(x).LogIndex = x.LogIndex
      <4>1. A \in SUBSET Recs
        BY <1>1, BookFacts
      <4>. QED  BY <4>1, LogUpdateFacts DEF Recs
    <3>. QED  BY <1>5, <3>1 DEF Written
  <2>5. \A u \in Range(y) : ~(u.LogIndex >= first)
    BY ONLY <2>2, <2>3, <2>4
  <2>6. z = UpdatesFrom(first, y)
    OBVIOUS
  <2>. HIDE DEF y, first, z
  <2>7. z = <<>>
    BY ONLY <2>1, <2>5, <2>6, FromFacts
  <2>. QED  BY ONLY <2>1, <2>6, <2>7 DEF first, y
<1>13. /\ f \in Disks /\ f.local = c /\ f.remote = d.remote /\ f.diff = d.diff
       /\ f.unsignedAcked = v /\ f.remoteUnsigned = <<>>
       /\ f.ackedKey = TRUE /\ f.fwdPkgs = d.fwdPkgs
  <2>1. Adopts(d, c, v, f)
    BY <1>1, <1>8, <1>11 DEF f, Adopts
  <2>2. /\ f \in Disks /\ f.local = c /\ f.remote = d.remote /\ f.diff = d.diff
        /\ f.unsignedAcked = v /\ f.remoteUnsigned = UpdatesFrom(c.indices.Local, d.remoteUnsigned)
        /\ f.ackedKey /\ f.fwdPkgs = d.fwdPkgs
    BY ONLY <2>1, CommitmentWritten
  <2>3. f.ackedKey = TRUE
    BY <2>2 DEF Disks
  <2>. QED  BY <1>12, <2>2, <2>3
<1>14. m2.chains = RestoredChains(f) /\ TipOf(f) = TipOf(d)
  BY <1>1, <1>10, <1>13 DEF RestoredChains, TipOf
<1>15. BookOf(m2) = K /\ LogIndices(m2) = ix /\ HtlcCounters(m2) = hc
  BY <1>9, <1>10 DEF BookOf, LogIndices, HtlcCounters
<1>16. Book(K, ix, hc, f)
  <2>1. /\ d \in Disks /\ K \in Books /\ ix \in Pairs /\ hc \in Pairs
        /\ Book(K, ix, hc, d) /\ c \in Commitments
        /\ c.indices.Local = d.remote.indices.Local /\ c.indices.Remote = ix.Remote
        /\ c.htlcIndex.Local = d.remote.htlcIndex.Local /\ c.htlcIndex.Remote = hc.Remote
        /\ c.height = d.local.height + 1 /\ Total(c) = Capacity
    BY <1>1, <1>4, <1>8 DEF h
  <2>2. /\ c.outputs.Local = {OutputOf(a) : a \in LiveOn(K.Local, K.Remote, c.indices.Local, c.indices.Remote)}
        /\ c.outputs.Remote = {OutputOf(a) : a \in LiveOn(K.Remote, K.Local, c.indices.Remote, c.indices.Local)}
    BY <1>8
  <2>3. /\ \A q \in K.Remote : IsRmv(q) /\ q.LogIndex < c.indices.Remote =>
              \E a \in K.Local : IsAdd(a) /\ a.HtlcIndex = q.HtlcIndex /\ a.LogIndex < d.local.indices.Local
        /\ \A q \in K.Local : IsRmv(q) /\ q.LogIndex < c.indices.Local =>
              \E a \in K.Remote : IsAdd(a) /\ a.HtlcIndex = q.HtlcIndex /\ a.LogIndex < d.local.indices.Remote
    BY <1>8
  <2>4. /\ Range(f.unsignedAcked) = Written(K.Remote, d.remote.indices.Remote, ix.Remote)
        /\ Distinct(f.unsignedAcked)
    BY <1>11, <1>13
  <2>. HIDE DEF K, ix, hc
  <2>. QED  BY ONLY <1>13, <2>1, <2>2, <2>3, <2>4, BookRevoke
<1>17. ASSUME NEW p \in Party
       PROVE  \A e \in Range(m2.logs[p].list) : Marked(e, p, f)
  <2>. DEFINE g == m.logs[p].list
  <2>1. m2.logs[p].list = MarkUpTo(g, "Local", upTo[p], h)
    BY <1>9, <1>10, <1>17, Parties
  <2>2. g \in Seq(Entries) /\ \A e \in Range(g) : e \in Entries /\ Marked(e, p, d)
    <3>1. g \in Seq(Entries) /\ \A e \in Range(g) : Marked(e, p, d)
      BY <1>1, <1>17, SoundUse, MemFacts, Parties
    <3>. QED  BY <3>1 DEF Range
  <2>. HIDE DEF g
  <2>3. \A y \in Range(m2.logs[p].list) : \E e \in Range(g) : y = IF e.LogIndex < upTo[p] THEN Mark(e, "Local", h) ELSE e
    <3>. DEFINE w == "Local"
                t == m2.logs[p].list
                up == upTo[p]
    <3>1. g \in Seq(Entries) /\ w \in Party /\ h \in Nat /\ t = MarkUpTo(g, w, up, h)
      BY <1>5, <2>1, <2>2, Parties
    <3>. HIDE DEF w, t, up
    <3>2. \A y \in Range(t) : \E e \in Range(g) : y = IF e.LogIndex < up THEN Mark(e, w, h) ELSE e
      BY ONLY <3>1, MarkUpToFacts
    <3>. QED  BY ONLY <3>2 DEF w, t, up
  <2>4. /\ f.local.height = d.local.height + 1 /\ d.local.indices[p] <= f.local.indices[p]
        /\ f.local.height = h /\ f.local.indices[p] = upTo[p]
    BY <1>7, <1>8, <1>13, <1>17, Parties DEF h
  <2>. SUFFICES ASSUME NEW y \in Range(m2.logs[p].list) PROVE Marked(y, p, f)
    OBVIOUS
  <2>5. PICK e \in Range(g) : y = IF e.LogIndex < upTo[p] THEN Mark(e, "Local", h) ELSE e
    BY <2>3
  <2>6. /\ e \in Entries /\ p \in Party /\ d \in Disks /\ Marked(e, p, d)
        /\ f \in Disks /\ f.remote = d.remote /\ f.diff = d.diff
        /\ f.local.height = d.local.height + 1 /\ d.local.indices[p] <= f.local.indices[p]
        /\ y = IF e.LogIndex < f.local.indices[p] THEN Mark(e, "Local", f.local.height) ELSE e
    BY <1>1, <1>13, <1>17, <2>2, <2>4, <2>5
  <2>. QED  BY ONLY <2>6, MarkedRevoke
<1>18. ASSUME NEW p \in Party
       PROVE  Distinct(m2.logs[p].list) /\ \A i : InOrder(m.logs[p].list, i) => InOrder(m2.logs[p].list, i)
  <2>. DEFINE g == m.logs[p].list
              w == "Local"
              t == m2.logs[p].list
              up == upTo[p]
  <2>1. g \in Seq(Entries) /\ w \in Party /\ h \in Nat /\ t = MarkUpTo(g, w, up, h) /\ Distinct(g)
    BY <1>1, <1>5, <1>9, <1>10, <1>18, SoundUse, MemFacts, Parties
  <2>. HIDE DEF w, t, up, g
  <2>2. Distinct(t) /\ \A i : InOrder(g, i) => InOrder(t, i)
    BY ONLY <2>1, MarkUpToFacts
  <2>. QED  BY ONLY <2>2 DEF t, g
<1>19. InOrder(m2.logs.Local.list, TipOf(f).indices.Local)
  BY <1>14, <1>18, SoundUse, Parties
<1>20. Sent(f)
  BY <1>1, <1>13 DEF Sent, Forwarded, Returned
<1>21. /\ \A x \in BookOf(m2).Local : IsRmv(x) => x.HtlcIndex \in m2.logs.Remote.modified
       /\ \A x \in BookOf(m2).Remote : IsRmv(x) => x.HtlcIndex \in m2.logs.Local.modified
  BY <1>9, <1>10, <1>15, SoundUse
<1>22. /\ Distinct(m2.logs.Local.list) /\ Distinct(m2.logs.Remote.list)
       /\ \A e \in Range(m2.logs.Local.list) : Marked(e, "Local", f)
       /\ \A e \in Range(m2.logs.Remote.list) : Marked(e, "Remote", f)
       /\ Book(BookOf(m2), LogIndices(m2), HtlcCounters(m2), f)
  BY <1>15, <1>16, <1>17, <1>18, Parties
<1>23. Sound(m2, f)
  BY ONLY <1>10, <1>13, <1>14, <1>19, <1>20, <1>21, <1>22, SoundMake
<1>. QED  BY <1>3, <1>10, <1>23

-----------------------------------------------------------------------------
(* Receiving a revocation: what goes to the switch. *)

HtlcsOf(outs) == {o.HtlcIndex : o \in outs}

\* The HTLCs on a commitment, and those that were and are removed.
LEMMA OutsCover ==
    ASSUME NEW A, NEW R, NEW ia, NEW ir, NEW ih, NEW outs, Covers(A, R, ia, ir, ih, outs), NEW h
    PROVE  h \in HtlcsOf(outs) <=>
             \E a \in A : IsAdd(a) /\ a.LogIndex < ia /\ a.HtlcIndex = h /\ ~Gone(R, h, ir)
<1>1. outs = {OutputOf(a) : a \in LiveOn(A, R, ia, ir)}
  BY DEF Covers
<1>2. h \in HtlcsOf(outs) <=> \E a \in LiveOn(A, R, ia, ir) : OutputOf(a).HtlcIndex = h
  BY <1>1 DEF HtlcsOf
<1>3. \A a : OutputOf(a).HtlcIndex = a.HtlcIndex
  BY DEF OutputOf
<1>4. h \in HtlcsOf(outs) <=> \E a \in LiveOn(A, R, ia, ir) : a.HtlcIndex = h
  BY ONLY <1>2, <1>3
<1>. QED  BY ONLY <1>4 DEF LiveOn

\* What it takes to tell the HTLCs a new commitment has no more.
Returning(A, R, ia, ir, ih, outs, ja, jr, jh, outs2) ==
    /\ A \in SUBSET Recs /\ R \in SUBSET Recs /\ Matched(A, R)
    /\ ia \in Nat /\ ir \in Nat /\ ih \in Nat /\ ja \in Nat /\ jr \in Nat /\ jh \in Nat
    /\ ia <= ja /\ ir <= jr /\ ih <= jh
    /\ Covers(A, R, ia, ir, ih, outs) /\ Covers(A, R, ja, jr, jh, outs2)
    /\ \A h \in ih..(jh - 1) : \E x \in A : IsAdd(x) /\ x.HtlcIndex = h

\* Removals in a range of indices.
RemovedIn(R, first, last) == {r.HtlcIndex : r \in {x \in R : IsRmv(x) /\ first <= x.LogIndex /\ x.LogIndex < last}}

\* HTLCs no more on a commitment: those before, and those removed since.
LEMMA Returns ==
    ASSUME NEW A, NEW R, NEW ia, NEW ir, NEW ih, NEW outs, NEW ja, NEW jr, NEW jh, NEW outs2,
           Returning(A, R, ia, ir, ih, outs, ja, jr, jh, outs2)
    PROVE  /\ (0..(ih - 1) \ HtlcsOf(outs)) \cup RemovedIn(R, ir, jr) = 0..(jh - 1) \ HtlcsOf(outs2)
           /\ (0..(ih - 1) \ HtlcsOf(outs)) \cap RemovedIn(R, ir, jr) = {}
<1>0. /\ A \in SUBSET Recs /\ R \in SUBSET Recs /\ Matched(A, R)
      /\ ia \in Nat /\ ir \in Nat /\ ih \in Nat /\ ja \in Nat /\ jr \in Nat /\ jh \in Nat
      /\ ia <= ja /\ ir <= jr /\ ih <= jh
      /\ Covers(A, R, ia, ir, ih, outs) /\ Covers(A, R, ja, jr, jh, outs2)
      /\ \A h \in ih..(jh - 1) : \E x \in A : IsAdd(x) /\ x.HtlcIndex = h
  BY DEF Returning
<1>1. \A x \in A \cup R : x.LogIndex \in Nat /\ x.HtlcIndex \in Nat
  BY <1>0 DEF Recs
<1>2. \A h : /\ h \in HtlcsOf(outs) <=> \E a \in A : IsAdd(a) /\ a.LogIndex < ia /\ a.HtlcIndex = h /\ ~Gone(R, h, ir)
             /\ h \in HtlcsOf(outs2) <=> \E a \in A : IsAdd(a) /\ a.LogIndex < ja /\ a.HtlcIndex = h /\ ~Gone(R, h, jr)
  <2>1. ASSUME NEW h
        PROVE  h \in HtlcsOf(outs) <=> \E a \in A : IsAdd(a) /\ a.LogIndex < ia /\ a.HtlcIndex = h /\ ~Gone(R, h, ir)
    BY <1>0, OutsCover
  <2>2. ASSUME NEW h
        PROVE  h \in HtlcsOf(outs2) <=> \E a \in A : IsAdd(a) /\ a.LogIndex < ja /\ a.HtlcIndex = h /\ ~Gone(R, h, jr)
    BY <1>0, OutsCover
  <2>. QED  BY <2>1, <2>2
<1>3. /\ \A a \in A : IsAdd(a) => (a.LogIndex < ia <=> a.HtlcIndex < ih)
      /\ \A a \in A : IsAdd(a) => (a.LogIndex < ja <=> a.HtlcIndex < jh)
      /\ \A r \in R : \A a \in A : IsRmv(r) /\ r.LogIndex < ir /\ IsAdd(a) /\ a.HtlcIndex = r.HtlcIndex => a.LogIndex < ia
      /\ \A r \in R : \A a \in A : IsRmv(r) /\ r.LogIndex < jr /\ IsAdd(a) /\ a.HtlcIndex = r.HtlcIndex => a.LogIndex < ja
  BY <1>0 DEF Covers
<1>4. /\ \A r \in R : IsRmv(r) => \E a \in A : IsAdd(a) /\ a.HtlcIndex = r.HtlcIndex
      /\ \A r, s \in R : IsRmv(r) /\ IsRmv(s) /\ r.HtlcIndex = s.HtlcIndex => r = s
  BY <1>0 DEF Matched
<1>5. \A h : h \in RemovedIn(R, ir, jr) <=> \E r \in R : IsRmv(r) /\ r.HtlcIndex = h /\ ir <= r.LogIndex /\ r.LogIndex < jr
  BY DEF RemovedIn
<1>6. ASSUME NEW h \in 0..(jh - 1), h \notin HtlcsOf(outs2), ~(h \in 0..(ih - 1) /\ h \notin HtlcsOf(outs))
      PROVE  h \in RemovedIn(R, ir, jr)
  <2>1. PICK a \in A : IsAdd(a) /\ a.HtlcIndex = h
    <3>1. CASE h < ih
      BY <1>0, <1>2, <1>6, <3>1
    <3>2. CASE ~(h < ih)
      <4>1. h \in ih..(jh - 1)
        BY <1>0, <3>2
      <4>. QED  BY <1>0, <4>1
    <3>. QED  BY <3>1, <3>2
  <2>2. a.LogIndex < ja
    BY <1>0, <1>3, <2>1
  <2>3. PICK r \in R : IsRmv(r) /\ r.HtlcIndex = h /\ r.LogIndex < jr
    BY <1>2, <1>6, <2>1, <2>2 DEF Gone
  <2>4. ~(r.LogIndex < ir)
    <3>. SUFFICES ASSUME r.LogIndex < ir PROVE FALSE
      OBVIOUS
    <3>1. a.LogIndex < ia
      BY <1>3, <2>1, <2>3
    <3>2. h < ih
      BY <1>3, <2>1, <3>1
    <3>3. h \in HtlcsOf(outs)
      BY <1>0, <1>6, <3>2
    <3>4. ~Gone(R, h, ir)
      BY <1>2, <3>3
    <3>. QED  BY <2>3, <3>4 DEF Gone
  <2>. QED  BY <1>0, <1>1, <1>5, <2>3, <2>4
<1>7. ASSUME NEW h \in 0..(ih - 1), h \notin HtlcsOf(outs)
      PROVE  h \in 0..(jh - 1) /\ h \notin HtlcsOf(outs2)
  <2>1. h \in 0..(jh - 1)
    BY <1>0
  <2>2. ASSUME h \in HtlcsOf(outs2) PROVE FALSE
    <3>1. PICK a \in A : IsAdd(a) /\ a.LogIndex < ja /\ a.HtlcIndex = h /\ ~Gone(R, h, jr)
      BY <1>2, <2>2
    <3>2. a.LogIndex < ia
      BY <1>0, <1>3, <3>1
    <3>3. Gone(R, h, ir)
      BY <1>2, <1>7, <3>1, <3>2
    <3>4. Gone(R, h, jr)
      BY <1>0, <1>1, <3>3 DEF Gone
    <3>. QED  BY <3>1, <3>4
  <2>. QED  BY <2>1, <2>2
<1>8. ASSUME NEW h \in RemovedIn(R, ir, jr)
      PROVE  h \in 0..(jh - 1) /\ h \notin HtlcsOf(outs2) /\ ~(h \in 0..(ih - 1) /\ h \notin HtlcsOf(outs))
  <2>1. PICK r \in R : IsRmv(r) /\ r.HtlcIndex = h /\ ir <= r.LogIndex /\ r.LogIndex < jr
    BY <1>5
  <2>2. PICK a \in A : IsAdd(a) /\ a.HtlcIndex = h
    BY <1>4, <2>1
  <2>3. a.LogIndex < ja /\ h < jh /\ h \in Nat
    BY <1>1, <1>3, <2>1, <2>2
  <2>4. Gone(R, h, jr)
    BY <2>1 DEF Gone
  <2>5. ASSUME h \in 0..(ih - 1), h \notin HtlcsOf(outs) PROVE FALSE
    <3>1. a.LogIndex < ia
      BY <1>0, <1>3, <2>2, <2>5
    <3>2. PICK s \in R : IsRmv(s) /\ s.HtlcIndex = h /\ s.LogIndex < ir
      BY <1>2, <2>2, <2>5, <3>1 DEF Gone
    <3>3. s = r
      BY <1>4, <2>1, <3>2
    <3>. QED  BY <1>0, <1>1, <2>1, <3>2, <3>3
  <2>. QED  BY <1>0, <1>2, <2>3, <2>4, <2>5
<1>. QED  BY <1>6, <1>7, <1>8

\* HTLCs of the peer on a new commitment and not on the old one.
AddedIn(A, first, last) == {a.HtlcIndex : a \in {x \in A : IsAdd(x) /\ first <= x.LogIndex /\ x.LogIndex < last}}

\* The HTLCs a revocation locks in are numbered from the old counter on.
LEMMA Locks ==
    ASSUME NEW A, NEW R, NEW ia, NEW ir, NEW ih, NEW outs, NEW ja, NEW jr, NEW jh, NEW outs2,
           Returning(A, R, ia, ir, ih, outs, ja, jr, jh, outs2)
    PROVE  /\ 0..(ih - 1) \cup AddedIn(A, ia, ja) = 0..(jh - 1)
           /\ 0..(ih - 1) \cap AddedIn(A, ia, ja) = {}
<1>0. /\ A \in SUBSET Recs
      /\ ia \in Nat /\ ir \in Nat /\ ih \in Nat /\ ja \in Nat /\ jr \in Nat /\ jh \in Nat
      /\ ia <= ja /\ ih <= jh
      /\ \A h \in ih..(jh - 1) : \E x \in A : IsAdd(x) /\ x.HtlcIndex = h
  BY DEF Returning
<1>1. \A x \in A : x.LogIndex \in Nat /\ x.HtlcIndex \in Nat
  BY <1>0 DEF Recs
<1>2. /\ \A a \in A : IsAdd(a) => (a.LogIndex < ia <=> a.HtlcIndex < ih)
      /\ \A a \in A : IsAdd(a) => (a.LogIndex < ja <=> a.HtlcIndex < jh)
  BY DEF Returning, Covers
<1>3. \A h : h \in AddedIn(A, ia, ja) <=> \E a \in A : IsAdd(a) /\ a.HtlcIndex = h /\ ia <= a.LogIndex /\ a.LogIndex < ja
  BY DEF AddedIn
<1>4. \A h : h \in AddedIn(A, ia, ja) <=> h \in ih..(jh - 1)
  <2>1. ASSUME NEW a \in A, IsAdd(a), ia <= a.LogIndex, a.LogIndex < ja PROVE a.HtlcIndex \in ih..(jh - 1)
    BY <1>0, <1>1, <1>2, <2>1
  <2>2. ASSUME NEW a \in A, IsAdd(a), a.HtlcIndex \in ih..(jh - 1) PROVE ia <= a.LogIndex /\ a.LogIndex < ja
    BY <1>0, <1>1, <1>2, <2>2
  <2>. QED  BY <1>0, <1>3, <2>1, <2>2
<1>. QED  BY <1>0, <1>4

-----------------------------------------------------------------------------
(* Compacting the logs. *)

\* An update of p on all commitments, and the updates A of p that are left
\* when those are dropped, the ones they removed with them; R are those of
\* the counterparty.
OnAll(x, p, d) == \A c \in Commits(d) : x.LogIndex < c.indices[p]
Dropped(R, h, p, d) == \E r \in R : IsRmv(r) /\ r.HtlcIndex = h /\ OnAll(r, CounterParty(p), d)
Rest(A, R, p, d) == {x \in A : IF IsAdd(x) THEN ~Dropped(R, x.HtlcIndex, p, d) ELSE ~OnAll(x, p, d)}

\* What is left after CompactLogs was not spent.
LEMMA RestPrunes ==
    ASSUME NEW A, NEW R, NEW p \in Party, NEW d, NEW ix, NEW hc, NEW jr, Ordered(A, ix, hc), Matched(A, R)
    PROVE  Prunes(A, R, Rest(A, R, p, d), Rest(R, A, CounterParty(p), d), ix, jr, hc, p, d)
<1>. DEFINE B == Rest(A, R, p, d)
            S == Rest(R, A, CounterParty(p), d)
<1>1. CounterParty(CounterParty(p)) = p /\ d.remote \in Commits(d)
  BY Parties DEF Commits
<1>2. \A x : ~(IsAdd(x) /\ IsRmv(x))
  BY DEF IsAdd, IsRmv
<1>3. \A x : x \in B <=> x \in A /\ (IsAdd(x) => ~Dropped(R, x.HtlcIndex, p, d)) /\ (~IsAdd(x) => ~OnAll(x, p, d))
  BY DEF Rest
<1>4. \A x : IsRmv(x) => (x \in S <=> x \in R /\ ~OnAll(x, CounterParty(p), d))
  BY <1>2 DEF Rest
<1>. HIDE DEF B, S
<1>5. B \subseteq A /\ \A x \in B : x.LogIndex < ix
  BY <1>3 DEF Ordered
<1>6. \A a \in A : IsAdd(a) => (a.LogIndex < ix <=> a.HtlcIndex < hc)
  BY DEF Ordered
<1>7. \A x \in A \ B : Spent(x, p, R, d)
  <2>. SUFFICES ASSUME NEW x \in A, x \notin B PROVE Spent(x, p, R, d)
    OBVIOUS
  <2>1. CASE IsAdd(x)
    BY <1>3, <2>1 DEF Spent, Dropped, OnAll
  <2>2. CASE ~IsAdd(x)
    BY <1>1, <1>3, <2>2 DEF Spent, OnAll
  <2>. QED  BY <2>1, <2>2
<1>8. \A r \in S : \A a \in A : IsRmv(r) /\ IsAdd(a) /\ a.HtlcIndex = r.HtlcIndex => a \in B
  <2>. SUFFICES ASSUME NEW r \in S, NEW a \in A, IsRmv(r), IsAdd(a), a.HtlcIndex = r.HtlcIndex,
                       Dropped(R, a.HtlcIndex, p, d)
                PROVE  FALSE
    BY <1>3
  <2>1. PICK q \in R : IsRmv(q) /\ q.HtlcIndex = a.HtlcIndex /\ OnAll(q, CounterParty(p), d)
    BY DEF Dropped
  <2>2. r \in R /\ ~OnAll(r, CounterParty(p), d)
    BY <1>4
  <2>3. q = r
    BY <2>1, <2>2 DEF Matched
  <2>. QED  BY <2>1, <2>2, <2>3
<1>9. \A a \in B : \A r \in R \ S : ~(IsRmv(r) /\ IsAdd(a) /\ a.HtlcIndex = r.HtlcIndex)
  BY <1>3, <1>4 DEF Dropped
<1>10. Prunes(A, R, B, S, ix, jr, hc, p, d)
  BY ONLY <1>5, <1>6, <1>7, <1>8, <1>9 DEF Prunes
<1>. QED  BY <1>10 DEF B, S

\* Heights once the peer's pending commitment is its only one.
LEMMA MarkedAdvance ==
    ASSUME NEW e \in Entries, NEW p \in Party, NEW d \in Disks, Marked(e, p, d), d.diff # NoDiff,
           NEW f \in Disks, f.local = d.local, f.remote = d.diff.commit, f.diff = NoDiff
    PROVE  Marked(e, p, f)
<1>1. TipOf(f) = f.remote /\ TipOf(d) = f.remote
  BY DEF TipOf
<1>2. f.remote.indices[p] \in Nat /\ e.LogIndex \in Nat
  <2>1. f.remote \in Commitments
    BY DEF Disks
  <2>. QED  BY <2>1, CommitFacts DEF Entries
<1>. QED  BY <1>1, <1>2 DEF Marked

\* An entry both chains are past.
Done(e, localTail, remoteTail) ==
    /\ e.EntryType # "Add" /\ e.rmv.Local # 0 /\ e.rmv.Remote # 0
    /\ remoteTail >= e.rmv.Remote /\ localTail >= e.rmv.Local

\* With no signature pending, an entry is done when it is on every commitment
\* on record.
LEMMA DoneFacts ==
    ASSUME NEW e \in Entries, NEW p \in Party, NEW f \in Disks, Marked(e, p, f), f.diff = NoDiff
    PROVE  Done(e, f.local.height, f.remote.height) <=> ~IsAdd(e) /\ OnAll(Core(e), p, f)
<1>1. TipOf(f) = f.remote /\ Commits(f) = {f.local, f.remote} /\ Core(e).LogIndex = e.LogIndex
  BY DEF TipOf, Commits, Core
<1>2. /\ f.remote.height \in Nat /\ f.local.height \in Nat
      /\ e.LogIndex \in Nat /\ e.EntryType \in Types /\ e.rmv.Local \in Nat /\ e.rmv.Remote \in Nat
  <2>1. f.remote \in Commitments /\ f.local \in Commitments
    BY DEF Disks
  <2>. QED  BY <2>1, CommitFacts DEF Entries, Pairs
<1>3. CASE IsAdd(e)
  BY <1>3 DEF IsAdd, Done
<1>4. CASE ~IsAdd(e)
  <2>1. At(e) = e.rmv
    <3>1. CASE IsRmv(e)
      BY <3>1 DEF At
    <3>2. CASE ~IsRmv(e)
      <4>1. e.EntryType = "FeeUpdate"
        BY <1>2, <1>4, <3>2 DEF IsAdd, IsRmv, Types
      <4>. QED  BY <3>2, <4>1 DEF At, Marked
    <3>. QED  BY <3>1, <3>2
  <2>2. /\ e.rmv.Local # 0 <=> e.LogIndex < f.local.indices[p]
        /\ e.rmv.Remote # 0 <=> e.LogIndex < f.remote.indices[p]
        /\ e.rmv.Local <= f.local.height /\ e.rmv.Remote <= f.remote.height
    BY <1>1, <2>1 DEF Marked
  <2>3. Done(e, f.local.height, f.remote.height) <=> e.rmv.Local # 0 /\ e.rmv.Remote # 0
    BY <1>2, <1>4, <2>2 DEF Done, IsAdd
  <2>4. OnAll(Core(e), p, f) <=> e.LogIndex < f.local.indices[p] /\ e.LogIndex < f.remote.indices[p]
    BY <1>1 DEF OnAll
  <2>. QED  BY <1>4, <2>2, <2>3, <2>4
<1>. QED  BY <1>3, <1>4

\* The list of p, s, with only what is kept; t is the counterparty's.
GoneFrom(t, a, b) == {e.HtlcIndex : e \in {x \in Range(t) : Done(x, a, b) /\ x.EntryType # "FeeUpdate"}}
KeptPlaces(s, t, a, b) ==
    {k \in DOMAIN s : IF s[k].EntryType = "Add" THEN s[k].HtlcIndex \notin GoneFrom(t, a, b)
                                                ELSE ~Done(s[k], a, b)}

\* What it takes to compact a list.
Compacts(s, t, p, f) ==
    /\ s \in Seq(Entries) /\ t \in Seq(Entries) /\ p \in Party /\ f \in Disks /\ f.diff = NoDiff
    /\ \A e \in Range(s) : Marked(e, p, f)
    /\ \A e \in Range(t) : Marked(e, CounterParty(p), f)

\* A compacted log holds the entries that are not done, in their order.
LEMMA CompactedList ==
    ASSUME NEW s, NEW t, NEW p, NEW f, Compacts(s, t, p, f),
           NEW u, u = SubsequenceAt(s, KeptPlaces(s, t, f.local.height, f.remote.height))
    PROVE  /\ u \in Seq(Entries) /\ Cores(u) = Rest(Cores(s), Cores(t), p, f)
           /\ Range(u) \subseteq Range(s)
           /\ Distinct(s) => Distinct(u)
           /\ \A i : InOrder(s, i) => InOrder(u, i)
<1>. DEFINE a == f.local.height
            b == f.remote.height
            I == KeptPlaces(s, t, a, b)
            G == GoneFrom(t, a, b)
<1>0. /\ s \in Seq(Entries) /\ t \in Seq(Entries) /\ p \in Party /\ f \in Disks /\ f.diff = NoDiff
      /\ \A e \in Range(s) : Marked(e, p, f)
      /\ \A e \in Range(t) : Marked(e, CounterParty(p), f)
      /\ CounterParty(p) \in Party
  BY Parties DEF Compacts
<1>1. /\ \A k \in DOMAIN s : s[k] \in Entries /\ Marked(s[k], p, f)
      /\ \A e \in Range(t) : e \in Entries
  BY <1>0 DEF Range
<1>2. I \in SUBSET (DOMAIN s) /\ u = SubsequenceAt(s, I)
  BY DEF KeptPlaces
<1>3. \A k \in DOMAIN s : k \in I <=> (IsAdd(s[k]) => s[k].HtlcIndex \notin G) /\ (~IsAdd(s[k]) => ~Done(s[k], a, b))
  BY DEF KeptPlaces, IsAdd
<1>4. \A h : h \in G <=> \E e \in Range(t) : Done(e, a, b) /\ e.EntryType # "FeeUpdate" /\ e.HtlcIndex = h
  BY DEF GoneFrom
<1>. HIDE DEF I, G
<1>5. /\ u \in Seq(Entries) /\ Range(u) = {s[i] : i \in I}
      /\ \A j, k \in DOMAIN u : j < k => \E i, l \in I : i < l /\ u[j] = s[i] /\ u[k] = s[l]
      /\ \A k \in DOMAIN u : \E i \in I : u[k] = s[i]
  BY ONLY <1>0, <1>2, Picked
<1>6. \A k \in DOMAIN s : Done(s[k], a, b) <=> ~IsAdd(s[k]) /\ OnAll(Core(s[k]), p, f)
  <2>. SUFFICES ASSUME NEW e \in Entries, Marked(e, p, f) PROVE Done(e, a, b) <=> ~IsAdd(e) /\ OnAll(Core(e), p, f)
    BY <1>1
  <2>. QED  BY <1>0, DoneFacts
<1>7. \A e \in Range(t) : Done(e, a, b) <=> ~IsAdd(e) /\ OnAll(Core(e), CounterParty(p), f)
  <2>. SUFFICES ASSUME NEW e \in Range(t) PROVE Done(e, a, b) <=> ~IsAdd(e) /\ OnAll(Core(e), CounterParty(p), f)
    OBVIOUS
  <2>. DEFINE q == CounterParty(p)
  <2>1. e \in Entries /\ q \in Party /\ f \in Disks /\ Marked(e, q, f) /\ f.diff = NoDiff
    BY <1>0, <1>1
  <2>. HIDE DEF q
  <2>2. Done(e, a, b) <=> ~IsAdd(e) /\ OnAll(Core(e), q, f)
    BY ONLY <2>1, DoneFacts
  <2>. QED  BY ONLY <2>2 DEF q
<1>8. \A e \in Entries : /\ (e.EntryType # "FeeUpdate" /\ ~IsAdd(e)) <=> IsRmv(e)
                         /\ IsAdd(Core(e)) <=> IsAdd(e)
                         /\ IsRmv(Core(e)) <=> IsRmv(e)
                         /\ Core(e).HtlcIndex = e.HtlcIndex
  <2>1. \A e \in Entries : e.EntryType \in Types
    BY DEF Entries
  <2>. QED  BY <2>1, CoreFacts DEF Types, IsAdd, IsRmv
<1>. HIDE DEF a, b
<1>9. \A h : h \in G <=> Dropped(Cores(t), h, p, f)
  <2>1. Cores(t) = {Core(e) : e \in Range(t)}
    BY <1>0, ListFacts
  <2>2. \A h : h \in G <=> \E e \in Range(t) : IsRmv(Core(e)) /\ Core(e).HtlcIndex = h /\ OnAll(Core(e), CounterParty(p), f)
    BY ONLY <1>1, <1>4, <1>7, <1>8
  <2>. QED  BY ONLY <2>1, <2>2 DEF Dropped
<1>10. \A k \in DOMAIN s : k \in I <=> Core(s[k]) \in Rest(Cores(s), Cores(t), p, f)
  <2>1. \A k \in DOMAIN s : Core(s[k]) \in Cores(s)
    BY DEF Cores
  <2>2. \A x : x \in Rest(Cores(s), Cores(t), p, f) <=>
            /\ x \in Cores(s)
            /\ IsAdd(x) => ~Dropped(Cores(t), x.HtlcIndex, p, f)
            /\ ~IsAdd(x) => ~OnAll(x, p, f)
    BY DEF Rest
  <2>. QED  BY ONLY <1>1, <1>3, <1>6, <1>8, <1>9, <2>1, <2>2
<1>11. Cores(u) = Rest(Cores(s), Cores(t), p, f)
  <2>1. Cores(u) = {Core(e) : e \in Range(u)}
    BY <1>5, ListFacts
  <2>2. Cores(u) = {Core(s[i]) : i \in I}
    BY ONLY <1>5, <2>1
  <2>3. \A x \in Rest(Cores(s), Cores(t), p, f) : \E k \in DOMAIN s : x = Core(s[k])
    BY DEF Rest, Cores
  <2>. QED  BY ONLY <1>2, <1>10, <2>2, <2>3
<1>12. Range(u) \subseteq Range(s)
  BY ONLY <1>2, <1>5 DEF Range
<1>13. ASSUME Distinct(s) PROVE Distinct(u)
  <2>1. I \subseteq DOMAIN s /\ \A i \in DOMAIN s : i \in Nat
    BY <1>0, <1>2
  <2>2. \A j, k \in DOMAIN u : j < k => u[j].LogIndex # u[k].LogIndex
    BY ONLY <1>5, <1>13, <2>1 DEF Distinct
  <2>3. \A j, k \in DOMAIN u : j # k => j < k \/ k < j
    BY ONLY <1>5
  <2>. QED  BY ONLY <2>2, <2>3 DEF Distinct
<1>14. ASSUME NEW i, InOrder(s, i) PROVE InOrder(u, i)
  BY ONLY <1>2, <1>5, <1>14 DEF InOrder
<1>. QED  BY <1>5, <1>11, <1>12, <1>13, <1>14

-----------------------------------------------------------------------------
(* Receiving a revocation: the disk. *)

Pkgs == [adds : SUBSET Nat, rmvs : SUBSET Nat]

\* AdvanceCommitChainTail is given a package and the updates not signed yet.
Advances(d, pkg, v, f) ==
    /\ d \in Disks /\ d.diff # NoDiff /\ pkg \in Pkgs /\ v \in Seq(Recs)
    /\ f = AdvanceCommitChainTail(d, pkg, v)

\* What AdvanceCommitChainTail writes.
LEMMA TailAdvanced ==
    ASSUME NEW d, NEW pkg, NEW v, NEW f, Advances(d, pkg, v, f)
    PROVE  /\ f \in Disks /\ f.local = d.local /\ f.remote = d.diff.commit /\ f.diff = NoDiff
           /\ f.unsignedAcked = UpdatesFrom(d.diff.commit.indices.Remote, d.unsignedAcked)
           /\ f.remoteUnsigned = IF d.ackedKey THEN v ELSE d.remoteUnsigned
           /\ f.ackedKey = d.ackedKey /\ f.fwdPkgs = Append(d.fwdPkgs, pkg)
<1>. DEFINE c == d.diff.commit
            w == UpdatesFrom(c.indices.Remote, d.unsignedAcked)
            k == Append(d.fwdPkgs, pkg)
            y == IF d.ackedKey THEN v ELSE d.remoteUnsigned
<1>0. d \in Disks /\ d.diff # NoDiff /\ pkg \in Pkgs /\ v \in Seq(Recs)
  BY DEF Advances
<1>1. f = [d EXCEPT !.remote = c, !.diff = NoDiff, !.fwdPkgs = k, !.unsignedAcked = w, !.remoteUnsigned = y]
  BY DEF Advances, AdvanceCommitChainTail
<1>2. c \in Commitments /\ d.unsignedAcked \in Seq(Recs) /\ d.remoteUnsigned \in Seq(Recs) /\ d.fwdPkgs \in Seq(Pkgs)
  <2>1. d.diff \in Diffs
    BY <1>0 DEF Disks
  <2>2. c \in Commitments
    BY <2>1 DEF Diffs
  <2>. QED  BY <1>0, <2>2 DEF Disks, Pkgs
<1>3. w \in Seq(Recs)
  <2>. DEFINE s == d.unsignedAcked
              first == c.indices.Remote
  <2>1. s \in Seq(Recs) /\ w = UpdatesFrom(first, s)
    BY <1>2
  <2>. HIDE DEF s, first, w
  <2>. QED  BY ONLY <2>1, FromFacts
<1>4. k \in Seq(Pkgs)
  BY <1>0, <1>2
<1>5. y \in Seq(Recs)
  BY <1>0, <1>2
<1>. HIDE DEF c, w, k, y
<1>6. f \in Disks
  BY <1>0, <1>1, <1>2, <1>3, <1>4, <1>5 DEF Disks, Pkgs
<1>7. /\ f.local = d.local /\ f.remote = c /\ f.diff = NoDiff
      /\ f.unsignedAcked = w /\ f.remoteUnsigned = y
      /\ f.ackedKey = d.ackedKey /\ f.fwdPkgs = k
  BY <1>0, <1>1 DEF Disks
<1>. QED  BY <1>6, <1>7 DEF c, w, k, y

\* An update of the peer that a revocation locks in, by its heights.
Fresh(h, localTail, height) == h.Remote = height /\ h.Local > 0 /\ localTail >= h.Local

\* It is one that is new on the peer's pending commitment.
LEMMA FreshFacts ==
    ASSUME NEW e \in Entries, NEW d \in Disks, Marked(e, "Remote", d), Staged(d), d.diff # NoDiff
    PROVE  Fresh(At(e), d.local.height, d.remote.height + 1) <=>
              d.remote.indices.Remote <= e.LogIndex /\ e.LogIndex < d.diff.commit.indices.Remote
<1>. DEFINE c == d.diff.commit
<1>1. TipOf(d) = c
  BY DEF TipOf
<1>2. /\ c.indices.Remote \in Nat /\ d.remote.indices.Remote \in Nat /\ d.local.indices.Remote \in Nat
      /\ c.height \in Nat /\ d.remote.height \in Nat /\ d.local.height \in Nat
  <2>1. c \in Commitments /\ d.remote \in Commitments /\ d.local \in Commitments
    BY <1>1, CommitFacts DEF Disks
  <2>. HIDE DEF c
  <2>. QED  BY <2>1, CommitFacts, Parties
<1>3. c.height = d.remote.height + 1 /\ c.indices.Remote <= d.local.indices.Remote
  BY <1>1 DEF Staged
<1>4. e.LogIndex \in Nat /\ At(e).Local \in Nat /\ At(e).Remote \in Nat
  BY DEF Entries, At, Pairs
<1>5. /\ At(e).Local # 0 <=> e.LogIndex < d.local.indices.Remote
      /\ At(e).Remote # 0 <=> e.LogIndex < c.indices.Remote
      /\ At(e).Local <= d.local.height
      /\ e.LogIndex < d.remote.indices.Remote => At(e).Remote <= d.remote.height
      /\ d.remote.indices.Remote <= e.LogIndex /\ e.LogIndex < c.indices.Remote
         => At(e).Remote = c.height
  BY <1>1 DEF Marked
<1>. HIDE DEF c
<1>6. Fresh(At(e), d.local.height, d.remote.height + 1) <=>
              d.remote.indices.Remote <= e.LogIndex /\ e.LogIndex < c.indices.Remote
  BY ONLY <1>2, <1>3, <1>4, <1>5 DEF Fresh
<1>. QED  BY <1>6 DEF c

\* The forwarding package: the HTLCs and removals that are new on the peer's
\* pending commitment.
LEMMA LockedIn ==
    ASSUME NEW m, NEW d, Sound(m, d), d.diff # NoDiff
    PROVE  /\ FreshlyLockedIn(m).adds = AddedIn(BookOf(m).Remote, d.remote.indices.Remote, d.diff.commit.indices.Remote)
           /\ FreshlyLockedIn(m).rmvs = RemovedIn(BookOf(m).Remote, d.remote.indices.Remote, d.diff.commit.indices.Remote)
           /\ FreshlyLockedIn(m) \in Pkgs
<1>. DEFINE s == m.logs.Remote.list
            K == BookOf(m).Remote
            first == d.remote.indices.Remote
            last == d.diff.commit.indices.Remote
            a == d.local.height
            h == d.remote.height + 1
            adds == {e.HtlcIndex : e \in {x \in Range(s) : x.EntryType = "Add" /\ Fresh(x.add, a, h)}}
            rmvs == {e.HtlcIndex : e \in {x \in Range(s) : x.EntryType \in {"Settle", "Fail"} /\ Fresh(x.rmv, a, h)}}
<1>1. FreshlyLockedIn(m) = [adds |-> adds, rmvs |-> rmvs]
  <2>1. ChainTail(m.chains.Remote) = d.remote /\ ChainTail(m.chains.Local) = d.local
    BY ChainEnds
  <2>. QED  BY <2>1 DEF FreshlyLockedIn, Fresh
<1>2. \A e \in Range(s) : e \in Entries /\ Marked(e, "Remote", d) /\ Core(e) \in K
  <2>1. \A k \in DOMAIN s : s[k] \in Entries /\ Core(s[k]) \in K /\ Marked(s[k], "Remote", d)
    BY EntriesOf
  <2>. QED  BY <2>1 DEF Range
<1>3. \A x \in K : \E e \in Range(s) : x = Core(e)
  <2>1. \A x \in K : \E k \in DOMAIN s : x = Core(s[k])
    BY EntriesOf
  <2>. QED  BY <2>1 DEF Range
<1>4. d \in Disks /\ Staged(d)
  BY SoundUse, BookUse
<1>5. \A e \in Range(s) : Fresh(At(e), a, h) <=> first <= e.LogIndex /\ e.LogIndex < last
  <2>. SUFFICES ASSUME NEW e \in Entries, Marked(e, "Remote", d)
                PROVE  Fresh(At(e), a, h) <=> first <= e.LogIndex /\ e.LogIndex < last
    BY <1>2
  <2>. QED  BY <1>4, FreshFacts
<1>. HIDE DEF s, K, first, last, a, h
<1>6. \A e \in Entries : /\ e.EntryType = "Add" <=> IsAdd(e)
                         /\ e.EntryType \in {"Settle", "Fail"} <=> IsRmv(e)
                         /\ IsAdd(e) => At(e) = e.add
                         /\ IsRmv(e) => At(e) = e.rmv
  BY DEF IsAdd, IsRmv, At
<1>7. \A e \in Entries : /\ Core(e).HtlcIndex = e.HtlcIndex /\ Core(e).LogIndex = e.LogIndex /\ e.HtlcIndex \in Nat
                         /\ IsAdd(Core(e)) <=> IsAdd(e)
                         /\ IsRmv(Core(e)) <=> IsRmv(e)
  BY CoreFacts DEF Entries
<1>8. \A i : i \in adds <=> \E e \in Range(s) : IsAdd(e) /\ e.HtlcIndex = i /\ first <= e.LogIndex /\ e.LogIndex < last
  <2>1. \A i : i \in adds <=> \E e \in Range(s) : e.HtlcIndex = i /\ e.EntryType = "Add" /\ Fresh(e.add, a, h)
    OBVIOUS
  <2>. HIDE DEF adds
  <2>. QED  BY ONLY <1>2, <1>5, <1>6, <2>1
<1>9. \A i : i \in rmvs <=> \E e \in Range(s) : IsRmv(e) /\ e.HtlcIndex = i /\ first <= e.LogIndex /\ e.LogIndex < last
  <2>1. \A i : i \in rmvs <=> \E e \in Range(s) : e.HtlcIndex = i /\ e.EntryType \in {"Settle", "Fail"} /\ Fresh(e.rmv, a, h)
    OBVIOUS
  <2>. HIDE DEF rmvs
  <2>. QED  BY ONLY <1>2, <1>5, <1>6, <2>1
<1>. HIDE DEF adds, rmvs
<1>10. \A i : i \in AddedIn(K, first, last) <=> \E x \in K : IsAdd(x) /\ x.HtlcIndex = i /\ first <= x.LogIndex /\ x.LogIndex < last
  BY DEF AddedIn
<1>11. \A i : i \in RemovedIn(K, first, last) <=> \E x \in K : IsRmv(x) /\ x.HtlcIndex = i /\ first <= x.LogIndex /\ x.LogIndex < last
  BY DEF RemovedIn
<1>12. \A i : i \in adds <=> i \in AddedIn(K, first, last)
  BY ONLY <1>2, <1>3, <1>7, <1>8, <1>10
<1>13. \A i : i \in rmvs <=> i \in RemovedIn(K, first, last)
  BY ONLY <1>2, <1>3, <1>7, <1>9, <1>11
<1>14. adds \in SUBSET Nat /\ rmvs \in SUBSET Nat
  BY ONLY <1>2, <1>7, <1>8, <1>9
<1>15. FreshlyLockedIn(m).adds = adds /\ FreshlyLockedIn(m).rmvs = rmvs /\ FreshlyLockedIn(m) \in Pkgs
  BY <1>1, <1>14 DEF Pkgs
<1>16. adds = AddedIn(K, first, last) /\ rmvs = RemovedIn(K, first, last)
  BY <1>12, <1>13
<1>. QED  BY ONLY <1>15, <1>16 DEF K, first, last

\* The places of a list with an update other than an Add in a range.
OwnPlaces(t, first, last) ==
    {k \in DOMAIN t : t[k].EntryType # "Add" /\ t[k].LogIndex < last /\ t[k].LogIndex >= first}

\* The updates other than Adds of a list in a range, as they are written.
LEMMA OwnRange ==
    ASSUME NEW t \in Seq(Entries), NEW first, NEW last, NEW u, u = WrittenAt(t, OwnPlaces(t, first, last))
    PROVE  /\ u \in Seq(Recs) /\ (Distinct(t) => Distinct(u))
           /\ Range(u) = {ToLogUpdate(x) : x \in {y \in Cores(t) : ~IsAdd(y) /\ y.LogIndex < last /\ y.LogIndex >= first}}
<1>. DEFINE I == OwnPlaces(t, first, last)
<1>1. I \in SUBSET (DOMAIN t) /\ u = WrittenAt(t, I)
  BY DEF OwnPlaces
<1>2. \A k \in DOMAIN t : k \in I <=> ~IsAdd(t[k]) /\ t[k].LogIndex < last /\ t[k].LogIndex >= first
  BY DEF OwnPlaces, IsAdd
<1>. HIDE DEF I
<1>3. u \in Seq(Recs) /\ Range(u) = {ToLogUpdate(Core(t[i])) : i \in I} /\ (Distinct(t) => Distinct(u))
  BY ONLY <1>1, WrittenFacts
<1>4. \A k \in DOMAIN t : t[k] \in Entries
  OBVIOUS
<1>5. \A e \in Entries : Core(e).LogIndex = e.LogIndex /\ (IsAdd(Core(e)) <=> IsAdd(e))
  BY CoreFacts
<1>6. ASSUME NEW i \in I
      PROVE  Core(t[i]) \in Cores(t) /\ ~IsAdd(Core(t[i])) /\ Core(t[i]).LogIndex < last /\ Core(t[i]).LogIndex >= first
  <2>1. i \in DOMAIN t
    BY <1>1
  <2>. QED  BY <1>2, <1>4, <1>5, <2>1 DEF Cores
<1>7. ASSUME NEW x \in Cores(t), ~IsAdd(x), x.LogIndex < last, x.LogIndex >= first
      PROVE  \E i \in I : x = Core(t[i])
  <2>1. PICK i \in DOMAIN t : x = Core(t[i])
    BY DEF Cores
  <2>. QED  BY <1>2, <1>4, <1>5, <1>7, <2>1
<1>. DEFINE W == {y \in Cores(t) : ~IsAdd(y) /\ y.LogIndex < last /\ y.LogIndex >= first}
<1>8. W = {Core(t[i]) : i \in I}
  BY ONLY <1>6, <1>7
<1>9. Range(u) = {ToLogUpdate(x) : x \in W}
  BY ONLY <1>3, <1>8
<1>. QED  BY ONLY <1>3, <1>9

\* unsignedLocalUpdates
LEMMA UnsignedLocal ==
    ASSUME NEW m, NEW d, Sound(m, d), d.diff # NoDiff
    PROVE  /\ UnsignedLocalUpdates(m) \in Seq(Recs) /\ Distinct(UnsignedLocalUpdates(m))
           /\ Range(UnsignedLocalUpdates(m)) =
                {ToLogUpdate(x) : x \in {y \in BookOf(m).Local : /\ ~IsAdd(y)
                                                                 /\ y.LogIndex < d.diff.commit.indices.Local
                                                                 /\ y.LogIndex >= d.local.indices.Local}}
<1>. DEFINE t == m.logs.Local.list
            first == d.local.indices.Local
            last == d.diff.commit.indices.Local
            u == UnsignedLocalUpdates(m)
<1>1. ChainTip(m.chains.Remote) = d.diff.commit /\ ChainTail(m.chains.Local) = d.local
  BY ChainEnds DEF TipOf
<1>2. u = WrittenAt(t, OwnPlaces(t, first, last))
  BY <1>1 DEF UnsignedLocalUpdates, LogUpdates, WrittenAt, OwnPlaces
<1>3. t \in Seq(Entries) /\ Distinct(t) /\ Cores(t) = BookOf(m).Local
  BY SoundUse, MemFacts DEF BookOf
<1>. HIDE DEF t, first, last, u
<1>4. /\ u \in Seq(Recs) /\ (Distinct(t) => Distinct(u))
      /\ Range(u) = {ToLogUpdate(x) : x \in {y \in Cores(t) : ~IsAdd(y) /\ y.LogIndex < last /\ y.LogIndex >= first}}
  BY ONLY <1>2, <1>3, OwnRange
<1>5. Range(u) = {ToLogUpdate(x) : x \in {y \in BookOf(m).Local : ~IsAdd(y) /\ y.LogIndex < last /\ y.LogIndex >= first}}
  BY ONLY <1>3, <1>4
<1>. QED  BY ONLY <1>3, <1>4, <1>5 DEF first, last, u

\* What an additional package sends to the switch.
LEMMA SentMore ==
    ASSUME NEW pkgs \in Seq(Pkgs), NEW pkg \in Pkgs
    PROVE  /\ Range(Append(pkgs, pkg)) = Range(pkgs) \cup {pkg}
           /\ \A i \in DOMAIN Append(pkgs, pkg) :
                 \/ i \in DOMAIN pkgs /\ Append(pkgs, pkg)[i] = pkgs[i]
                 \/ i = Len(pkgs) + 1 /\ Append(pkgs, pkg)[i] = pkg
<1>. DEFINE t == Append(pkgs, pkg)
<1>1. /\ DOMAIN t = 1..(Len(pkgs) + 1) /\ DOMAIN pkgs = 1..Len(pkgs) /\ Len(pkgs) \in Nat
      /\ \A i \in 1..Len(pkgs) : t[i] = pkgs[i]
      /\ t[Len(pkgs) + 1] = pkg
  OBVIOUS
<1>. HIDE DEF t
<1>2. \A i \in DOMAIN t : \/ i \in DOMAIN pkgs /\ t[i] = pkgs[i]
                          \/ i = Len(pkgs) + 1 /\ t[i] = pkg
  BY <1>1
<1>3. Range(t) \subseteq Range(pkgs) \cup {pkg}
  BY <1>2 DEF Range
<1>4. Range(pkgs) \cup {pkg} \subseteq Range(t)
  <2>1. \A i \in DOMAIN pkgs : i \in DOMAIN t /\ t[i] = pkgs[i]
    BY <1>1
  <2>2. Len(pkgs) + 1 \in DOMAIN t /\ t[Len(pkgs) + 1] = pkg
    BY <1>1
  <2>. QED  BY <2>1, <2>2 DEF Range
<1>. QED  BY <1>2, <1>3, <1>4 DEF t

\* Each HTLC of the peer goes to the switch once, and each removal of ours.
LEMMA SentAdvance ==
    ASSUME NEW m, NEW d, Sound(m, d), d.diff # NoDiff, NEW f,
           f.remote = d.diff.commit, f.fwdPkgs = Append(d.fwdPkgs, FreshlyLockedIn(m))
    PROVE  Sent(f) /\ Forwarded(f) = Forwarded(d) \cup FreshlyLockedIn(m).adds
<1>. DEFINE pkg == FreshlyLockedIn(m)
            pkgs == d.fwdPkgs
            A == BookOf(m).Local
            R == BookOf(m).Remote
            b == d.remote
            c == d.diff.commit
<1>1. d \in Disks /\ Sent(d) /\ Book(BookOf(m), LogIndices(m), HtlcCounters(m), d) /\ m \in Mems
  BY SoundUse
<1>2. BookOf(m) \in Books /\ LogIndices(m) \in Pairs /\ HtlcCounters(m) \in Pairs
  BY <1>1, MemFacts
<1>3. TipOf(d) = c
  BY DEF TipOf
<1>4. b \in Commits(d) /\ c \in Commits(d) /\ A \in SUBSET Recs /\ R \in SUBSET Recs
      /\ HtlcCounters(m).Local \in Nat /\ HtlcCounters(m).Remote \in Nat
  BY <1>1, <1>2, <1>3, BookFacts
<1>5. \A x \in Commits(d) :
         /\ x.indices.Local \in Nat /\ x.indices.Remote \in Nat /\ x.htlcIndex.Local \in Nat /\ x.htlcIndex.Remote \in Nat
         /\ x.htlcIndex.Local <= HtlcCounters(m).Local /\ x.htlcIndex.Remote <= HtlcCounters(m).Remote
         /\ Covers(A, R, x.indices.Local, x.indices.Remote, x.htlcIndex.Local, x.outputs.Local)
         /\ Covers(R, A, x.indices.Remote, x.indices.Local, x.htlcIndex.Remote, x.outputs.Remote)
  BY <1>1, <1>2, BookFacts
<1>6. Matched(A, R) /\ Matched(R, A)
  BY <1>1, BookUse
<1>7. /\ b.indices.Local <= c.indices.Local /\ b.indices.Remote <= c.indices.Remote
      /\ b.htlcIndex.Local <= c.htlcIndex.Local /\ b.htlcIndex.Remote <= c.htlcIndex.Remote
  <2>1. Staged(d)
    BY <1>1, BookUse
  <2>. QED  BY <1>3, <2>1 DEF Staged
<1>8. /\ \A h \in b.htlcIndex.Local..(HtlcCounters(m).Local - 1) : \E x \in A : IsAdd(x) /\ x.HtlcIndex = h
      /\ \A h \in b.htlcIndex.Remote..(HtlcCounters(m).Remote - 1) : \E x \in R : IsAdd(x) /\ x.HtlcIndex = h
  <2>1. Complete(BookOf(m), LogIndices(m), HtlcCounters(m), d)
    BY <1>1, BookUse
  <2>. QED  BY <2>1, CompleteUse
<1>9. pkg.adds = AddedIn(R, b.indices.Remote, c.indices.Remote) /\ pkg.rmvs = RemovedIn(R, b.indices.Remote, c.indices.Remote)
      /\ pkg \in Pkgs
  BY LockedIn
<1>10. pkgs \in Seq(Pkgs)
  BY <1>1 DEF Disks, Pkgs
<1>. HIDE DEF A, R, b, c, pkg, pkgs
<1>11. Returning(A, R, b.indices.Local, b.indices.Remote, b.htlcIndex.Local, b.outputs.Local,
                 c.indices.Local, c.indices.Remote, c.htlcIndex.Local, c.outputs.Local)
  BY ONLY <1>4, <1>5, <1>6, <1>7, <1>8 DEF Returning
<1>12. Returning(R, A, b.indices.Remote, b.indices.Local, b.htlcIndex.Remote, b.outputs.Remote,
                 c.indices.Remote, c.indices.Local, c.htlcIndex.Remote, c.outputs.Remote)
  BY ONLY <1>4, <1>5, <1>6, <1>7, <1>8 DEF Returning
<1>13. /\ (0..(b.htlcIndex.Local - 1) \ HtlcsOf(b.outputs.Local)) \cup pkg.rmvs = 0..(c.htlcIndex.Local - 1) \ HtlcsOf(c.outputs.Local)
       /\ (0..(b.htlcIndex.Local - 1) \ HtlcsOf(b.outputs.Local)) \cap pkg.rmvs = {}
  BY ONLY <1>9, <1>11, Returns
<1>14. /\ 0..(b.htlcIndex.Remote - 1) \cup pkg.adds = 0..(c.htlcIndex.Remote - 1)
       /\ 0..(b.htlcIndex.Remote - 1) \cap pkg.adds = {}
  BY ONLY <1>9, <1>12, Locks
<1>15. \A x : Outputs(x, "Local") = HtlcsOf(x.outputs.Local)
  BY DEF Outputs, HtlcsOf
<1>16. /\ \A i, j \in DOMAIN pkgs : i # j => pkgs[i].adds \cap pkgs[j].adds = {} /\ pkgs[i].rmvs \cap pkgs[j].rmvs = {}
       /\ Forwarded(d) = 0..(b.htlcIndex.Remote - 1)
       /\ Returned(d) = 0..(b.htlcIndex.Local - 1) \ HtlcsOf(b.outputs.Local)
  BY <1>1, <1>15 DEF Sent, pkgs, b
<1>17. /\ Range(f.fwdPkgs) = Range(pkgs) \cup {pkg}
       /\ \A i \in DOMAIN f.fwdPkgs : \/ i \in DOMAIN pkgs /\ f.fwdPkgs[i] = pkgs[i]
                                      \/ i = Len(pkgs) + 1 /\ f.fwdPkgs[i] = pkg
  <2>1. f.fwdPkgs = Append(pkgs, pkg)
    BY DEF pkgs, pkg
  <2>2. /\ Range(Append(pkgs, pkg)) = Range(pkgs) \cup {pkg}
        /\ \A i \in DOMAIN Append(pkgs, pkg) :
                 \/ i \in DOMAIN pkgs /\ Append(pkgs, pkg)[i] = pkgs[i]
                 \/ i = Len(pkgs) + 1 /\ Append(pkgs, pkg)[i] = pkg
    BY ONLY <1>9, <1>10, SentMore
  <2>. QED  BY ONLY <2>1, <2>2
<1>18. Forwarded(f) = Forwarded(d) \cup pkg.adds /\ Returned(f) = Returned(d) \cup pkg.rmvs
  <2>1. Forwarded(d) = UNION {k.adds : k \in Range(pkgs)} /\ Returned(d) = UNION {k.rmvs : k \in Range(pkgs)}
    BY DEF Forwarded, Returned, pkgs
  <2>2. Forwarded(f) = UNION {k.adds : k \in Range(f.fwdPkgs)} /\ Returned(f) = UNION {k.rmvs : k \in Range(f.fwdPkgs)}
    BY DEF Forwarded, Returned
  <2>. QED  BY ONLY <1>17, <2>1, <2>2
<1>19. \A i \in DOMAIN pkgs : pkgs[i].adds \cap pkg.adds = {} /\ pkgs[i].rmvs \cap pkg.rmvs = {}
  <2>1. \A i \in DOMAIN pkgs : pkgs[i] \in Range(pkgs)
    BY DEF Range
  <2>2. \A k \in Range(pkgs) : k.adds \subseteq Forwarded(d) /\ k.rmvs \subseteq Returned(d)
    BY DEF Forwarded, Returned, pkgs
  <2>. QED  BY ONLY <1>13, <1>14, <1>16, <2>1, <2>2
<1>20. \A i, j \in DOMAIN f.fwdPkgs : i # j => /\ f.fwdPkgs[i].adds \cap f.fwdPkgs[j].adds = {}
                                              /\ f.fwdPkgs[i].rmvs \cap f.fwdPkgs[j].rmvs = {}
  BY ONLY <1>16, <1>17, <1>19
<1>21. f.remote = c
  BY DEF c
<1>22. /\ Forwarded(f) = 0..(f.remote.htlcIndex.Remote - 1)
       /\ Returned(f) = 0..(f.remote.htlcIndex.Local - 1) \ Outputs(f.remote, "Local")
  BY ONLY <1>13, <1>14, <1>15, <1>16, <1>18, <1>21
<1>23. Sent(f)
  BY ONLY <1>20, <1>22 DEF Sent
<1>. QED  BY <1>18, <1>23 DEF pkg

\* A log that is compacted; t is the list of the counterparty.
Shrinks(g, t, a, b, g2) ==
    /\ g2.list = SubsequenceAt(g.list, KeptPlaces(g.list, t, a, b))
    /\ g2.modified = g.modified \ GoneFrom(t, a, b)
    /\ g2.logIndex = g.logIndex /\ g2.htlcCounter = g.htlcCounter

\* A log with another list and other HTLCs marked.
Relisted(g, u, w, g2) ==
    /\ g \in UpdateLogs /\ u \in Seq(Entries) /\ w \in SUBSET Nat
    /\ g2 = [g EXCEPT !.list = u, !.modified = w]

\* The fields of such a log.
LEMMA RelistedFields ==
    ASSUME NEW g, NEW u, NEW w, NEW g2, Relisted(g, u, w, g2)
    PROVE  /\ g2 \in UpdateLogs /\ g2.list = u /\ g2.modified = w
           /\ g2.logIndex = g.logIndex /\ g2.htlcCounter = g.htlcCounter
BY DEF UpdateLogs, Relisted

\* compactLogs
LEMMA CompactFacts ==
    ASSUME NEW logs \in [Local : UpdateLogs, Remote : UpdateLogs], NEW a, NEW b,
           NEW l2, l2 = CompactLogs(logs, a, b)
    PROVE  /\ l2 \in [Local : UpdateLogs, Remote : UpdateLogs]
           /\ Shrinks(logs.Local, logs.Remote.list, a, b, l2.Local)
           /\ Shrinks(logs.Remote, logs.Local.list, a, b, l2.Remote)
<1>. DEFINE sl == logs.Local.list
            sr == logs.Remote.list
            ul == SubsequenceAt(sl, KeptPlaces(sl, sr, a, b))
            ur == SubsequenceAt(sr, KeptPlaces(sr, sl, a, b))
            nl == logs.Local.modified \ GoneFrom(sr, a, b)
            nr == logs.Remote.modified \ GoneFrom(sl, a, b)
<1>1. logs.Local \in UpdateLogs /\ logs.Remote \in UpdateLogs
  OBVIOUS
<1>2. l2 = [Local |-> [logs.Local EXCEPT !.list = ul, !.modified = nl],
            Remote |-> [logs.Remote EXCEPT !.list = ur, !.modified = nr]]
  BY Parties DEF CompactLogs, KeptPlaces, GoneFrom, Done
<1>3. ul \in Seq(Entries) /\ ur \in Seq(Entries)
  <2>1. ASSUME NEW s \in Seq(Entries), NEW t PROVE SubsequenceAt(s, KeptPlaces(s, t, a, b)) \in Seq(Entries)
    <3>. DEFINE I == KeptPlaces(s, t, a, b)
                u == SubsequenceAt(s, I)
    <3>1. I \in SUBSET (DOMAIN s) /\ u = SubsequenceAt(s, I)
      BY DEF KeptPlaces
    <3>. HIDE DEF I, u
    <3>2. u \in Seq(Entries)
      BY ONLY <3>1, s \in Seq(Entries), Picked
    <3>. QED  BY <3>2 DEF u, I
  <2>2. sl \in Seq(Entries) /\ sr \in Seq(Entries)
    BY <1>1 DEF UpdateLogs
  <2>. QED  BY <2>1, <2>2
<1>4. nl \in SUBSET Nat /\ nr \in SUBSET Nat
  BY <1>1 DEF UpdateLogs
<1>. HIDE DEF ul, ur, nl, nr
<1>5. /\ l2.Local = [logs.Local EXCEPT !.list = ul, !.modified = nl]
      /\ l2.Remote = [logs.Remote EXCEPT !.list = ur, !.modified = nr]
      /\ l2 = [Local |-> l2.Local, Remote |-> l2.Remote]
  BY ONLY <1>2
<1>6. Relisted(logs.Local, ul, nl, l2.Local) /\ Relisted(logs.Remote, ur, nr, l2.Remote)
  BY ONLY <1>1, <1>3, <1>4, <1>5 DEF Relisted
<1>7. /\ l2.Local \in UpdateLogs /\ l2.Local.list = ul /\ l2.Local.modified = nl
      /\ l2.Local.logIndex = logs.Local.logIndex /\ l2.Local.htlcCounter = logs.Local.htlcCounter
  BY ONLY <1>6, RelistedFields
<1>8. /\ l2.Remote \in UpdateLogs /\ l2.Remote.list = ur /\ l2.Remote.modified = nr
      /\ l2.Remote.logIndex = logs.Remote.logIndex /\ l2.Remote.htlcCounter = logs.Remote.htlcCounter
  BY ONLY <1>6, RelistedFields
<1>9. l2 \in [Local : UpdateLogs, Remote : UpdateLogs]
  BY ONLY <1>5, <1>7, <1>8
<1>. QED  BY <1>7, <1>8, <1>9 DEF Shrinks, ul, ur, nl, nr

\* A removal that is kept is not of an HTLC that is dropped.
LEMMA KeptNotGone ==
    ASSUME NEW s, NEW t, NEW p, NEW f, Compacts(s, t, p, f), Matched(Cores(t), Cores(s)),
           NEW x \in Rest(Cores(s), Cores(t), p, f), IsRmv(x)
    PROVE  x.HtlcIndex \notin GoneFrom(s, f.local.height, f.remote.height)
<1>0. /\ s \in Seq(Entries) /\ p \in Party /\ f \in Disks /\ f.diff = NoDiff
      /\ \A e \in Range(s) : Marked(e, p, f)
  BY DEF Compacts
<1>. SUFFICES ASSUME NEW e \in Range(s), Done(e, f.local.height, f.remote.height), e.EntryType # "FeeUpdate",
                     e.HtlcIndex = x.HtlcIndex
              PROVE  FALSE
  BY DEF GoneFrom
<1>1. e \in Entries /\ Marked(e, p, f) /\ Core(e) \in Cores(s)
  BY <1>0 DEF Range, Cores
<1>2. ~IsAdd(e) /\ OnAll(Core(e), p, f)
  BY <1>0, <1>1, DoneFacts
<1>3. IsRmv(e)
  BY <1>1, <1>2 DEF Entries, Types, IsAdd, IsRmv
<1>4. IsRmv(Core(e)) /\ Core(e).HtlcIndex = x.HtlcIndex
  BY <1>1, <1>3, CoreFacts
<1>5. x \in Cores(s) /\ ~OnAll(x, p, f)
  BY DEF Rest, IsAdd, IsRmv
<1>6. Core(e) = x
  BY <1>1, <1>4, <1>5 DEF Matched
<1>. QED  BY <1>2, <1>5, <1>6

\* The book once the peer's pending commitment is its only one.
LEMMA BookOnAdvance ==
    ASSUME NEW m, NEW d, Sound(m, d), d.diff # NoDiff, NEW f,
           f = AdvanceCommitChainTail(d, FreshlyLockedIn(m), UnsignedLocalUpdates(m))
    PROVE  /\ f \in Disks /\ f.local = d.local /\ f.remote = d.diff.commit /\ f.diff = NoDiff
           /\ Sent(f) /\ Book(BookOf(m), LogIndices(m), HtlcCounters(m), f)
           /\ Range(f.remoteUnsigned) \subseteq Written(BookOf(m).Local, f.local.indices.Local, f.remote.indices.Local)
<1>. DEFINE pkg == FreshlyLockedIn(m)
            v == UnsignedLocalUpdates(m)
            K == BookOf(m)
            ix == LogIndices(m)
            hc == HtlcCounters(m)
            c == d.diff.commit
            W == {ToLogUpdate(x) : x \in {y \in K.Local : ~IsAdd(y) /\ y.LogIndex < c.indices.Local
                                                                    /\ y.LogIndex >= d.local.indices.Local}}
<1>1. /\ d \in Disks /\ Sent(d) /\ Book(K, ix, hc, d) /\ K \in Books /\ ix \in Pairs /\ hc \in Pairs
  BY SoundUse, MemFacts
<1>2. pkg \in Pkgs /\ pkg.adds = AddedIn(K.Remote, d.remote.indices.Remote, c.indices.Remote)
  BY LockedIn
<1>3. v \in Seq(Recs) /\ Distinct(v) /\ Range(v) = W
  BY UnsignedLocal
<1>4. Advances(d, pkg, v, f)
  BY <1>1, <1>2, <1>3 DEF Advances
<1>5. TipOf(d) = c /\ Staged(d) /\ Kept(K, d) /\ K.Remote \in SUBSET Recs
  BY <1>1, BookUse, BookFacts DEF TipOf
<1>. HIDE DEF pkg, v, K, ix, hc
<1>6. /\ f \in Disks /\ f.local = d.local /\ f.remote = d.diff.commit /\ f.diff = NoDiff
      /\ f.unsignedAcked = UpdatesFrom(d.diff.commit.indices.Remote, d.unsignedAcked)
      /\ f.remoteUnsigned = IF d.ackedKey THEN v ELSE d.remoteUnsigned
      /\ f.ackedKey = d.ackedKey /\ f.fwdPkgs = Append(d.fwdPkgs, pkg)
  BY ONLY <1>4, TailAdvanced
<1>7. Sent(f) /\ Forwarded(f) = Forwarded(d) \cup pkg.adds
  <2>1. Sound(m, d) /\ d.diff # NoDiff /\ f.remote = d.diff.commit /\ f.fwdPkgs = Append(d.fwdPkgs, FreshlyLockedIn(m))
    BY <1>6 DEF pkg
  <2>2. Sent(f) /\ Forwarded(f) = Forwarded(d) \cup FreshlyLockedIn(m).adds
    BY ONLY <2>1, SentAdvance
  <2>. QED  BY <2>2 DEF pkg
<1>8. ~d.ackedKey => Forwarded(f) = {}
  <2>. SUFFICES ASSUME ~d.ackedKey PROVE Forwarded(f) = {}
    OBVIOUS
  <2>1. d.local.indices.Remote = 0 /\ Forwarded(d) = {}
    BY <1>5 DEF Kept
  <2>2. c.indices.Remote <= 0
    BY <1>5, <2>1 DEF Staged
  <2>3. c.indices.Remote \in Nat
    BY <1>1, <1>5, CommitFacts, Parties
  <2>4. \A x \in K.Remote : x.LogIndex \in Nat
    BY <1>5 DEF Recs
  <2>5. pkg.adds = {}
    BY <1>2, <2>2, <2>3, <2>4 DEF AddedIn
  <2>. QED  BY <1>7, <2>1, <2>5
<1>9. /\ Distinct(f.unsignedAcked)
      /\ Range(f.unsignedAcked) = {u \in Range(d.unsignedAcked) : u.LogIndex >= d.diff.commit.indices.Remote}
  <2>. DEFINE s == d.unsignedAcked
              first == c.indices.Remote
              t == f.unsignedAcked
  <2>1. s \in Seq(Recs) /\ Distinct(s) /\ t = UpdatesFrom(first, s)
    BY <1>1, <1>5, <1>6 DEF Disks, Kept
  <2>. HIDE DEF s, first, t
  <2>2. Range(t) = {u \in Range(s) : u.LogIndex >= first} /\ Distinct(t)
    BY ONLY <2>1, FromFacts
  <2>. QED  BY ONLY <2>2 DEF s, first, t
<1>10. Distinct(f.remoteUnsigned)
  BY <1>3, <1>5, <1>6 DEF Kept
<1>11. d.ackedKey => Range(f.remoteUnsigned) = W
  BY <1>3, <1>6
<1>12. ~d.ackedKey => f.remoteUnsigned = d.remoteUnsigned
  BY <1>6
<1>13. Book(K, ix, hc, f)
  BY ONLY <1>1, <1>6, <1>8, <1>9, <1>10, <1>11, <1>12, d.diff # NoDiff, BookAdvance
<1>14. Range(f.remoteUnsigned) \subseteq Written(K.Local, f.local.indices.Local, f.remote.indices.Local)
  <2>1. Kept(K, f)
    BY <1>13, BookUse
  <2>. QED  BY <2>1 DEF Kept
<1>. QED  BY <1>6, <1>7, <1>13, <1>14 DEF K, ix, hc

\* ReceiveRevocation, in terms of the logs and chains of the memory.
LEMMA AdvancedMem ==
    ASSUME NEW m, NEW d, Sound(m, d), d.diff # NoDiff, NEW m3, m3 = ReceiveRevocation(m, d).m
    PROVE  /\ m3 \in Mems /\ m3.chains = [Local |-> <<d.local>>, Remote |-> <<d.diff.commit>>]
           /\ Shrinks(m.logs.Local, m.logs.Remote.list, d.local.height, d.diff.commit.height, m3.logs.Local)
           /\ Shrinks(m.logs.Remote, m.logs.Local.list, d.local.height, d.diff.commit.height, m3.logs.Remote)
<1>. DEFINE c == d.diff.commit
            m2 == [m EXCEPT !.chains.Remote = Tail(@)]
            x == <<d.local>>
            y == <<c>>
<1>1. m \in Mems /\ m.chains = RestoredChains(d) /\ d \in Disks
  BY SoundUse
<1>2. m.chains.Local = x /\ m.chains.Remote = <<d.remote, c>>
  BY <1>1 DEF RestoredChains
<1>3. Tail(<<d.remote, c>>) = y
  OBVIOUS
<1>4. c \in Commitments /\ d.local \in Commitments
  <2>1. TipOf(d) = c
    BY DEF TipOf
  <2>. QED  BY <1>1, <2>1, CommitFacts DEF Disks
<1>5. Rechains(m, x, y, m2)
  <2>1. m2 = [m EXCEPT !.chains.Remote = y] /\ x = m.chains.Local
    BY <1>2, <1>3
  <2>2. x \in Seq(Commitments) /\ y \in Seq(Commitments)
    BY <1>4
  <2>. QED  BY <1>1, <2>1, <2>2 DEF Rechains
<1>. HIDE DEF m2, x, y
<1>6. /\ m2 \in Mems /\ m2.logs = m.logs /\ m2.chains.Local = x /\ m2.chains.Remote = y
      /\ m2.chains = [Local |-> m2.chains.Local, Remote |-> m2.chains.Remote]
  BY ONLY <1>5, OtherChains
<1>7. ChainTail(m2.chains.Local) = d.local /\ ChainTail(m2.chains.Remote) = c
  BY <1>6 DEF ChainTail, x, y
<1>. DEFINE l2 == CompactLogs(m.logs, d.local.height, c.height)
<1>8. m3 = [m2 EXCEPT !.logs = l2]
  BY <1>6, <1>7 DEF ReceiveRevocation, m2
<1>9. m.logs \in [Local : UpdateLogs, Remote : UpdateLogs]
  BY <1>1 DEF Mems
<1>10. /\ l2 \in [Local : UpdateLogs, Remote : UpdateLogs]
       /\ Shrinks(m.logs.Local, m.logs.Remote.list, d.local.height, c.height, l2.Local)
       /\ Shrinks(m.logs.Remote, m.logs.Local.list, d.local.height, c.height, l2.Remote)
  <2>. DEFINE a == d.local.height
              b == c.height
              logs == m.logs
  <2>1. logs \in [Local : UpdateLogs, Remote : UpdateLogs] /\ l2 = CompactLogs(logs, a, b)
    BY <1>9
  <2>. HIDE DEF a, b, logs, l2
  <2>2. /\ l2 \in [Local : UpdateLogs, Remote : UpdateLogs]
        /\ Shrinks(logs.Local, logs.Remote.list, a, b, l2.Local)
        /\ Shrinks(logs.Remote, logs.Local.list, a, b, l2.Remote)
    BY ONLY <2>1, CompactFacts
  <2>. QED  BY ONLY <2>2 DEF a, b, logs
<1>. HIDE DEF l2
<1>11. m3 \in Mems /\ m3.logs = l2 /\ m3.chains = m2.chains
  BY <1>6, <1>8, <1>10 DEF Mems
<1>. QED  BY <1>6, <1>10, <1>11 DEF x, y

\* The logs of a memory that is compacted for the disk state f.
LEMMA CompactedBook ==
    ASSUME NEW K, NEW ix, NEW hc, NEW f, NEW L, Book(K, ix, hc, f), f \in Disks, K \in Books, ix \in Pairs, hc \in Pairs,
           L \in Books, L.Local = Rest(K.Local, K.Remote, "Local", f), L.Remote = Rest(K.Remote, K.Local, "Remote", f)
    PROVE  Book(L, ix, hc, f)
<1>1. /\ Ordered(K.Local, ix.Local, hc.Local) /\ Ordered(K.Remote, ix.Remote, hc.Remote)
      /\ Matched(K.Local, K.Remote) /\ Matched(K.Remote, K.Local) /\ Kept(K, f)
  BY BookUse
<1>2. Prunes(K.Local, K.Remote, L.Local, L.Remote, ix.Local, ix.Remote, hc.Local, "Local", f)
  <2>. DEFINE A == K.Local
              R == K.Remote
              i == ix.Local
              h == hc.Local
              j == ix.Remote
              p == "Local"
  <2>1. p \in Party /\ Ordered(A, i, h) /\ Matched(A, R)
    BY <1>1, Parties
  <2>. HIDE DEF A, R, i, h, j, p
  <2>2. Prunes(A, R, Rest(A, R, p, f), Rest(R, A, CounterParty(p), f), i, j, h, p, f)
    BY ONLY <2>1, RestPrunes
  <2>. QED  BY <2>2, Parties DEF A, R, i, h, j, p
<1>3. Prunes(K.Remote, K.Local, L.Remote, L.Local, ix.Remote, ix.Local, hc.Remote, "Remote", f)
  <2>. DEFINE A == K.Remote
              R == K.Local
              i == ix.Remote
              h == hc.Remote
              j == ix.Local
              p == "Remote"
  <2>1. p \in Party /\ Ordered(A, i, h) /\ Matched(A, R)
    BY <1>1, Parties
  <2>. HIDE DEF A, R, i, h, j, p
  <2>2. Prunes(A, R, Rest(A, R, p, f), Rest(R, A, CounterParty(p), f), i, j, h, p, f)
    BY ONLY <2>1, RestPrunes
  <2>. QED  BY <2>2, Parties DEF A, R, i, h, j, p
<1>4. /\ K.Local \in SUBSET Recs /\ ix.Local \in Nat /\ hc.Local \in Nat /\ hc.Remote \in Nat /\ f.local \in Commits(f)
      /\ \A c \in Commits(f) : /\ c.indices.Local <= ix.Local /\ c.htlcIndex.Local <= hc.Local
                               /\ c.indices.Remote <= ix.Remote /\ c.htlcIndex.Remote <= hc.Remote
                               /\ c.indices.Local \in Nat
  BY BookFacts
<1>5. \A x \in K.Local \ L.Local : ~IsAdd(x) /\ ~IsRmv(x) => ToLogUpdate(x) \notin Range(f.remoteUnsigned)
  <2>. SUFFICES ASSUME NEW x \in K.Local, x \notin L.Local, ~IsAdd(x), ToLogUpdate(x) \in Range(f.remoteUnsigned)
                PROVE  FALSE
    OBVIOUS
  <2>1. OnAll(x, "Local", f)
    BY DEF Rest
  <2>2. x.LogIndex < f.local.indices.Local
    BY <1>4, <2>1 DEF OnAll
  <2>3. ToLogUpdate(x) \in Written(K.Local, f.local.indices.Local, f.remote.indices.Local)
    BY <1>1 DEF Kept
  <2>4. PICK y \in K.Local : ToLogUpdate(x) = ToLogUpdate(y) /\ f.local.indices.Local <= y.LogIndex
    BY <2>3 DEF Written
  <2>5. x.LogIndex = y.LogIndex /\ x.LogIndex \in Nat
    <3>1. x \in Recs /\ y \in Recs
      BY <1>4
    <3>. QED  BY <2>4, <3>1, LogUpdateFacts DEF Recs
  <2>. QED  BY <1>4, <2>2, <2>4, <2>5
<1>6. ix.Local <= ix.Local /\ hc.Local <= hc.Local /\ hc.Remote <= hc.Remote
  BY <1>4
<1>. QED  BY ONLY <1>2, <1>3, <1>4, <1>5, <1>6, BookPruned,
            Book(K, ix, hc, f), f \in Disks, K \in Books, ix \in Pairs, hc \in Pairs, L \in Books

\* ReceiveRevocation
LEMMA SoundAdvance ==
    ASSUME NEW m, NEW d, Sound(m, d), d.diff # NoDiff, NEW r, r = ReceiveRevocation(m, d)
    PROVE  Sound(r.m, r.d)
<1>. DEFINE m3 == r.m
            f == r.d
            K == BookOf(m)
            ix == LogIndices(m)
            hc == HtlcCounters(m)
            sl == m.logs.Local.list
            sr == m.logs.Remote.list
            L == BookOf(m3)
<1>1. /\ m \in Mems /\ d \in Disks /\ sl \in Seq(Entries) /\ sr \in Seq(Entries)
      /\ K \in Books /\ ix \in Pairs /\ hc \in Pairs /\ Distinct(sl) /\ Distinct(sr)
      /\ K.Local = Cores(sl) /\ K.Remote = Cores(sr)
  BY SoundUse, MemFacts DEF BookOf
<1>2. /\ f \in Disks /\ f.local = d.local /\ f.remote = d.diff.commit /\ f.diff = NoDiff
      /\ Sent(f) /\ Book(K, ix, hc, f)
  <2>1. f = AdvanceCommitChainTail(d, FreshlyLockedIn(m), UnsignedLocalUpdates(m))
    BY DEF ReceiveRevocation
  <2>. HIDE DEF f
  <2>. QED  BY <2>1, BookOnAdvance
<1>3. /\ m3 \in Mems /\ m3.chains = [Local |-> <<d.local>>, Remote |-> <<d.diff.commit>>]
      /\ Shrinks(m.logs.Local, sr, d.local.height, d.diff.commit.height, m3.logs.Local)
      /\ Shrinks(m.logs.Remote, sl, d.local.height, d.diff.commit.height, m3.logs.Remote)
  <2>1. m3 = ReceiveRevocation(m, d).m
    OBVIOUS
  <2>. HIDE DEF m3
  <2>. QED  BY <2>1, AdvancedMem
<1>. HIDE DEF m3, f, K, ix, hc
<1>4. /\ m3.chains = RestoredChains(f)
      /\ TipOf(f).indices.Local = TipOf(d).indices.Local
  BY <1>2, <1>3 DEF RestoredChains, TipOf
<1>5. /\ m3.logs.Local.list = SubsequenceAt(sl, KeptPlaces(sl, sr, f.local.height, f.remote.height))
      /\ m3.logs.Remote.list = SubsequenceAt(sr, KeptPlaces(sr, sl, f.local.height, f.remote.height))
      /\ m3.logs.Local.modified = m.logs.Local.modified \ GoneFrom(sr, f.local.height, f.remote.height)
      /\ m3.logs.Remote.modified = m.logs.Remote.modified \ GoneFrom(sl, f.local.height, f.remote.height)
      /\ LogIndices(m3) = ix /\ HtlcCounters(m3) = hc
  BY <1>2, <1>3 DEF Shrinks, LogIndices, HtlcCounters, ix, hc
<1>6. /\ \A e \in Range(sl) : Marked(e, "Local", f)
      /\ \A e \in Range(sr) : Marked(e, "Remote", f)
  <2>1. ASSUME NEW p \in Party, NEW e \in Entries, Marked(e, p, d) PROVE Marked(e, p, f)
    BY ONLY <1>1, <1>2, <2>1, d.diff # NoDiff, MarkedAdvance
  <2>2. /\ \A e \in Range(sl) : e \in Entries /\ Marked(e, "Local", d)
        /\ \A e \in Range(sr) : e \in Entries /\ Marked(e, "Remote", d)
    BY <1>1, SoundUse DEF Range
  <2>. QED  BY ONLY <2>1, <2>2, Parties
<1>7. Compacts(sl, sr, "Local", f) /\ Compacts(sr, sl, "Remote", f)
  BY <1>1, <1>2, <1>6, Parties DEF Compacts
<1>8. /\ m3.logs.Local.list \in Seq(Entries) /\ Cores(m3.logs.Local.list) = Rest(K.Local, K.Remote, "Local", f)
      /\ Range(m3.logs.Local.list) \subseteq Range(sl) /\ Distinct(m3.logs.Local.list)
      /\ \A i : InOrder(sl, i) => InOrder(m3.logs.Local.list, i)
  <2>. DEFINE p == "Local"
              u == m3.logs.Local.list
              s == sl
              t == sr
  <2>1. Compacts(s, t, p, f) /\ u = SubsequenceAt(s, KeptPlaces(s, t, f.local.height, f.remote.height))
    BY <1>5, <1>7
  <2>. HIDE DEF p, u, s, t
  <2>2. /\ u \in Seq(Entries) /\ Cores(u) = Rest(Cores(s), Cores(t), p, f)
        /\ Range(u) \subseteq Range(s) /\ (Distinct(s) => Distinct(u))
        /\ \A i : InOrder(s, i) => InOrder(u, i)
    BY ONLY <2>1, CompactedList
  <2>. QED  BY ONLY <1>1, <2>2 DEF p, u, s, t
<1>9. /\ m3.logs.Remote.list \in Seq(Entries) /\ Cores(m3.logs.Remote.list) = Rest(K.Remote, K.Local, "Remote", f)
      /\ Range(m3.logs.Remote.list) \subseteq Range(sr) /\ Distinct(m3.logs.Remote.list)
  <2>. DEFINE p == "Remote"
              u == m3.logs.Remote.list
              s == sr
              t == sl
  <2>1. Compacts(s, t, p, f) /\ u = SubsequenceAt(s, KeptPlaces(s, t, f.local.height, f.remote.height))
    BY <1>5, <1>7
  <2>. HIDE DEF p, u, s, t
  <2>2. /\ u \in Seq(Entries) /\ Cores(u) = Rest(Cores(s), Cores(t), p, f)
        /\ Range(u) \subseteq Range(s) /\ (Distinct(s) => Distinct(u))
    BY ONLY <2>1, CompactedList
  <2>. QED  BY ONLY <1>1, <2>2 DEF p, u, s, t
<1>10. L \in Books /\ L.Local = Rest(K.Local, K.Remote, "Local", f) /\ L.Remote = Rest(K.Remote, K.Local, "Remote", f)
  BY <1>3, <1>8, <1>9, MemFacts DEF BookOf
<1>. HIDE DEF L
<1>11. Book(L, ix, hc, f)
  BY ONLY <1>1, <1>2, <1>10, CompactedBook
<1>12. Matched(K.Local, K.Remote) /\ Matched(K.Remote, K.Local)
  BY <1>2, BookUse
<1>13. \A x \in L.Local : IsRmv(x) => x.HtlcIndex \in m3.logs.Remote.modified
  <2>. SUFFICES ASSUME NEW x \in L.Local, IsRmv(x) PROVE x.HtlcIndex \in m3.logs.Remote.modified
    OBVIOUS
  <2>. DEFINE p == "Local"
              s == sl
              t == sr
  <2>1. Compacts(s, t, p, f) /\ Matched(Cores(t), Cores(s)) /\ x \in Rest(Cores(s), Cores(t), p, f)
    BY <1>1, <1>7, <1>10, <1>12
  <2>2. x.HtlcIndex \in m.logs.Remote.modified
    <3>1. x \in BookOf(m).Local
      BY <1>10 DEF Rest, K
    <3>. QED  BY <3>1, SoundUse
  <2>. HIDE DEF p, s, t
  <2>3. x.HtlcIndex \notin GoneFrom(s, f.local.height, f.remote.height)
    BY ONLY <2>1, IsRmv(x), KeptNotGone
  <2>. QED  BY <1>5, <2>2, <2>3 DEF s
<1>14. \A x \in L.Remote : IsRmv(x) => x.HtlcIndex \in m3.logs.Local.modified
  <2>. SUFFICES ASSUME NEW x \in L.Remote, IsRmv(x) PROVE x.HtlcIndex \in m3.logs.Local.modified
    OBVIOUS
  <2>. DEFINE p == "Remote"
              s == sr
              t == sl
  <2>1. Compacts(s, t, p, f) /\ Matched(Cores(t), Cores(s)) /\ x \in Rest(Cores(s), Cores(t), p, f)
    BY <1>1, <1>7, <1>10, <1>12
  <2>2. x.HtlcIndex \in m.logs.Local.modified
    <3>1. x \in BookOf(m).Remote
      BY <1>10 DEF Rest, K
    <3>. QED  BY <3>1, SoundUse
  <2>. HIDE DEF p, s, t
  <2>3. x.HtlcIndex \notin GoneFrom(s, f.local.height, f.remote.height)
    BY ONLY <2>1, IsRmv(x), KeptNotGone
  <2>. QED  BY <1>5, <2>2, <2>3 DEF s
<1>15. InOrder(m3.logs.Local.list, TipOf(f).indices.Local)
  BY <1>4, <1>8, SoundUse
<1>16. /\ \A e \in Range(m3.logs.Local.list) : Marked(e, "Local", f)
       /\ \A e \in Range(m3.logs.Remote.list) : Marked(e, "Remote", f)
  BY <1>6, <1>8, <1>9
<1>17. /\ Book(BookOf(m3), LogIndices(m3), HtlcCounters(m3), f)
       /\ \A x \in BookOf(m3).Local : IsRmv(x) => x.HtlcIndex \in m3.logs.Remote.modified
       /\ \A x \in BookOf(m3).Remote : IsRmv(x) => x.HtlcIndex \in m3.logs.Local.modified
  BY <1>5, <1>11, <1>13, <1>14 DEF L
<1>18. Sound(m3, f)
  BY ONLY <1>2, <1>3, <1>4, <1>8, <1>9, <1>15, <1>16, <1>17, SoundMake
<1>. QED  BY <1>18 DEF m3, f
=============================================================================
