-------------------------- MODULE QuiescenceProofs --------------------------
(***************************************************************************)
(* The safety invariants of Quiescence, for any number of HTLCs, packets   *)
(* and requests, with requests, settles and shutdowns at any moment.       *)
(*                                                                         *)
(* The inductive invariant IInv looks at both directions of the channel:   *)
(* the updates and signatures under way fit what the receiver has (Chan),  *)
(* an stfu under way or read finds the sender's updates settled (Quiet),   *)
(* and the quiescers, the machines and the messages that begin and end     *)
(* quiescence fit together (Rounds).  Either both nodes are in the same    *)
(* round (Level), or one has resumed and the other's resume is still to    *)
(* come (Ahead); the stfu of the next round is then behind the tx_abort    *)
(* that ended this one, or is already there before the resume, and that is *)
(* the one case in which a node takes its peer's stfu for invalid.         *)
(*                                                                         *)
(* What a link does is followed operator by operator on its result r       *)
(* (Link), and a step is then the last of these results applied            *)
(* (ApplyKeeps).                                                           *)
(***************************************************************************)
EXTENDS Quiescence, SumTheorems

Indices == [Local : Nat, Remote : Nat]
Updates == {"Add", "Rmv"}
Logs == [Local : Seq(Updates), Remote : Seq(Updates)]
Channels == [log : Logs, own : Indices, peer : Seq(Indices)]

Messages ==
    [type : {"update"}, kind : Updates] \cup [type : {"commit_sig"}, indices : Indices]
        \cup [type : {"revoke_and_ack"}] \cup [type : {"stfu"}, Initiator : BOOLEAN]
        \cup [type : {"tx_abort"}, reason : BOOLEAN]

\* Sequence t is s with k times e behind it.
More(t, s, k, e) ==
    /\ Len(t) = Len(s) + k
    /\ \A i \in 1..Len(s) : t[i] = s[i]
    /\ \A i \in (Len(s) + 1)..(Len(s) + k) : t[i] = e

\* Sequence t is s without its first element.
Less(t, s) == Len(s) = Len(t) + 1 /\ \A i \in 1..Len(t) : t[i] = s[i + 1]
-----------------------------------------------------------------------------
(* The inductive invariant, one direction of the channel at a time.  A node *)
(* is seen as a record v: who it is, its channel, its quiescer, whether it  *)
(* had the peer's tx_abort, and its splice machine.                         *)

View(n) == [id |-> n, c |-> ch[n], k |-> q[n], tx |-> txSigs[n], m |-> mach[n],
            late |-> work[n].late]

\* What is on its way to n: what its link holds came first.
Pipe(n) == held[n] \o net[n]

Has(p, type) == \E i \in 1..Len(p) : p[i].type = type
Once(p, type) ==
    \A i, j \in 1..Len(p) : p[i].type = type /\ p[j].type = type => i = j
\* A message of the type comes before place i.
Prior(p, i, type) == \E j \in 1..Len(p) : p[j].type = type /\ j < i

Flip(x) == [Local |-> x.Remote, Remote |-> x.Local]

\* The receiver has the first updates of the sender's log, the others are on
\* their way in order, and a signature covers the updates sent before it.  f[i]
\* is how many updates the receiver has once it has read i messages.
Numbered(had, made, p) ==
    \E f \in [0..Len(p) -> Nat] :
        /\ f[0] = Len(had) /\ f[Len(p)] = Len(made)
        /\ \A i, j \in 0..Len(p) : i <= j => f[i] <= f[j]
        /\ \A i \in 1..Len(had) : had[i] = made[i]
        /\ \A i \in 1..Len(p) :
              /\ f[i] = IF p[i].type = "update" THEN f[i - 1] + 1 ELSE f[i - 1]
              /\ p[i].type = "update" => p[i].kind = made[f[i]]
              /\ p[i].type = "commit_sig" => p[i].indices.Remote = f[i]

\* What is on a node's commitments only grows, with its logs in the lead.
Grows(a) ==
    /\ a.own.Local <= a.peer[1].Local /\ a.peer[1].Local <= Last(a.peer).Local
    /\ Last(a.peer).Local <= Len(a.log.Local)
    /\ a.peer[1].Remote <= Last(a.peer).Remote /\ Last(a.peer).Remote <= a.own.Remote
    /\ a.own.Remote <= Len(a.log.Remote)

\* Node b's commitment is one a has on record: the last one when nothing is
\* under way, else the older one until b has read the signature.  A signature
\* covers the updates of b that b's peer has committed to as b sees it then.
InStep(a, b, p, r) ==
    /\ Once(p, "commit_sig") /\ Once(r, "revoke_and_ack")
    /\ Len(a.peer) \in 1..2
    /\ Len(a.peer) = 1 => /\ ~Has(p, "commit_sig") /\ ~Has(r, "revoke_and_ack")
                          /\ b.own = Flip(a.peer[1])
    /\ Len(a.peer) = 2 => /\ Has(p, "commit_sig") <=> ~Has(r, "revoke_and_ack")
                          /\ b.own = Flip(a.peer[IF Has(p, "commit_sig") THEN 1 ELSE 2])
                          /\ a.peer[1] # a.peer[2]
    /\ \A i \in 1..Len(p) : p[i].type = "commit_sig" =>
          /\ p[i].indices = Flip(a.peer[2])
          /\ p[i].indices.Local = b.peer[IF Prior(p, i, "revoke_and_ack") THEN 2 ELSE 1].Local

Chan(a, b, p, r) == Numbered(b.log.Remote, a.log.Local, p) /\ Grows(a) /\ InStep(a, b, p, r)

\* Messages that begin or end quiescence: the tx_abort of the node that won, the
\* echo of one, and an stfu that asks (b) or answers.
IsAbort(m) == m.type = "tx_abort" /\ m.reason
IsEcho(m) == m.type = "tx_abort" /\ ~m.reason
IsStfu(m, b) == m.type = "stfu" /\ m.Initiator = b

HasAbort(p) == \E i \in 1..Len(p) : IsAbort(p[i])
HasEcho(p) == \E i \in 1..Len(p) : IsEcho(p[i])

\* An abort comes between places i and j.
Between(p, i, j) == \E a \in 1..Len(p) : IsAbort(p[a]) /\ i < a /\ a < j

\* An stfu of the round in progress, or of the one after the abort under way.
FirstStfu(p, b) == \E i \in 1..Len(p) : IsStfu(p[i], b) /\ ~Between(p, 0, i)
NextStfu(p, b) == \E i \in 1..Len(p) : IsStfu(p[i], b) /\ Between(p, 0, i)
HasFirst(p) == FirstStfu(p, TRUE) \/ FirstStfu(p, FALSE)
HasNext(p) == NextStfu(p, TRUE) \/ NextStfu(p, FALSE)

\* An echo comes first, there is one abort, and one stfu before and after it.
Shape(p) ==
    \A i, j \in 1..Len(p) : i < j =>
        /\ IsEcho(p[j]) => p[i].type # "stfu" /\ p[i].type # "tx_abort"
        /\ ~(IsAbort(p[i]) /\ IsAbort(p[j]))
        /\ p[i].type = "stfu" /\ p[j].type = "stfu" => Between(p, i, j)

\* An stfu on its way to y: when y reads it, x's updates are on all commitments y
\* knows of.  Updates x makes after it come behind the abort that ended it, unless
\* x settled an HTLC in spite of it.
StfuOK(x, y, p) ==
    \A i \in 1..Len(p) : p[i].type = "stfu" =>
        /\ NoDanglingUpdates(y.c, "Remote")
        /\ y.c.peer[1].Remote = Len(y.c.log.Remote) \/ Prior(p, i, "revoke_and_ack")
        /\ \A j \in 1..Len(p) : p[j].type = "update" => i < j /\ (x.late \/ Between(p, i, j))

\* After y has read x's stfu.
ReceivedOK(x, y, p) ==
    y.k.received =>
        /\ NoDanglingUpdates(y.c, "Remote") /\ y.c.peer[1].Remote = Len(y.c.log.Remote)
        /\ y.tx \/ x.late \/ \A j \in 1..Len(p) : p[j].type = "update" => Prior(p, j, "tx_abort")

Quiet(x, y, p) == StfuOK(x, y, p) /\ ReceivedOK(x, y, p)

\* The machine of v has the peer's abort, or the echo of its own, to handle.
Told(v) == \E i \in 1..Len(v.m.inbox) : v.m.inbox[i].reason
Echoed(v) == \E i \in 1..Len(v.m.inbox) : ~v.m.inbox[i].reason
InboxOK(v) ==
    \A i, j \in 1..Len(v.m.inbox) : i < j => ~v.m.inbox[i].reason /\ v.m.inbox[j].reason

\* A node's quiescer and machine.
Wins(v) == v.k.localInit /\ (v.id = Opener \/ ~v.k.remoteInit)
FlagsOK(v) ==
    /\ v.k.sent /\ ~v.k.localInit => v.k.received /\ v.k.remoteInit
    /\ v.k.received /\ ~v.k.sent => v.k.remoteInit
    /\ v.k.req = "pending" => v.k.localInit /\ ~IsQuiescent(v.k)
    /\ v.k.req \in {"none", "pending", "Local", "Remote", "refused"}
    /\ v.k.req = "Local" => IsQuiescent(v.k) /\ Wins(v)
    /\ v.tx => IsQuiescent(v.k) /\ (Told(v) \/ v.m.resuming)
    /\ v.m.resuming => IsQuiescent(v.k) /\ ((v.m.abortSent /\ ~Echoed(v)) \/ v.tx)
    /\ Told(v) => IsQuiescent(v.k) /\ v.tx /\ ~v.m.resuming
    /\ Told(v) => (v.m.abortSent <=> Echoed(v))
    /\ v.tx /\ v.m.abortSent => Echoed(v)

\* What is on its way to y and what y does about an end it knows of.
PipeOK(y, p) ==
    /\ Shape(p)
    /\ HasEcho(p) => ~y.tx /\ (y.k.received => y.m.resuming)
    /\ HasAbort(p) => ~Told(y) /\ ~y.m.resuming /\ y.k.sent

\* Node x has sent an abort: it is on its way or being handled, or its echo is; p
\* is on its way to y and r to x.  An stfu before the abort was x's request, and y
\* lost.
Token(x, y, p, r) ==
    /\ x.m.abortSent <=> HasAbort(p) \/ Told(y) \/ HasEcho(r) \/ Echoed(x)
    /\ HasEcho(r) \/ Echoed(x) => ~HasAbort(p) /\ ~Told(y)
    /\ HasEcho(r) => ~Echoed(x)
    /\ HasAbort(p) => /\ ~FirstStfu(p, FALSE)
                      /\ FirstStfu(p, TRUE) => y.id # Opener \/ ~y.k.localInit

\* Both nodes are in the same round: y has read x's stfu or will.
Level(x, y, p) ==
    /\ y.k.received => x.k.sent /\ (y.k.remoteInit <=> x.k.localInit) /\ ~HasFirst(p)
    /\ x.k.sent => y.k.received \/ HasFirst(p)
    /\ HasFirst(p) => x.k.sent
    /\ FirstStfu(p, TRUE) => x.k.localInit
    /\ FirstStfu(p, FALSE) => ~x.k.localInit
    /\ ~HasNext(p)
    /\ HasAbort(p) \/ Told(y) => x.m.resuming
    /\ x.m.resuming => HasAbort(p) \/ Told(y) \/ y.m.resuming
    /\ x.m.resuming /\ y.m.resuming => (x.m.abortSent <=> ~y.m.abortSent)
    /\ x.k.req = "Local" => ~x.m.resuming /\ ~y.m.resuming

\* Node x has resumed, and y is still to resume; the stfu of x's next round, if it
\* was sent, is the last.
Ahead(x, y, p, r) ==
    /\ ~x.k.received /\ ~HasFirst(r) /\ ~HasNext(r) /\ ~HasAbort(r)
    /\ y.k.sent /\ y.k.req # "Local"
    /\ HasAbort(p) \/ Told(y) \/ y.m.resuming
    /\ HasAbort(p) => /\ y.k.received <=> ~HasFirst(p)
                      /\ x.k.sent <=> HasNext(p)
                      /\ ~NextStfu(p, FALSE)
    /\ ~HasAbort(p) => /\ y.k.received
                       /\ x.k.sent <=> HasFirst(p)
                       /\ ~FirstStfu(p, FALSE) /\ ~HasNext(p)

\* The quiescers, the machines and the messages that begin and end quiescence.
Rounds(x, y, p, r) ==
    /\ FlagsOK(x) /\ FlagsOK(y) /\ InboxOK(x) /\ InboxOK(y)
    /\ PipeOK(y, p) /\ PipeOK(x, r) /\ Token(x, y, p, r) /\ Token(y, x, r, p)
    /\ \/ Level(x, y, p) /\ Level(y, x, r)
       \/ Ahead(x, y, p, r)
       \/ Ahead(y, x, r, p)

\* What a link holds: the first waits for its resume, and no tx_abort is held.
HeldOK(n) ==
    /\ ~Has(held[n], "tx_abort")
    /\ held[n] # <<>> /\ ~replay[n] => HeldForResume(n)

-----------------------------------------------------------------------------
(* Sequences. *)

\* One element more.
LEMMA AppendMore ==
    ASSUME NEW S, NEW s \in Seq(S), NEW e \in S
    PROVE  Append(s, e) \in Seq(S) /\ More(Append(s, e), s, 1, e)
  BY DEF More

\* Several elements more.
LEMMA ConcatMore ==
    ASSUME NEW S, NEW s \in Seq(S), NEW e \in S, NEW k \in Nat
    PROVE  /\ [i \in 1..k |-> e] \in Seq(S)
           /\ s \o [i \in 1..k |-> e] \in Seq(S) /\ More(s \o [i \in 1..k |-> e], s, k, e)
<1>. DEFINE b == [i \in 1..k |-> e]
            t == s \o b
<1>1. b \in Seq(S) /\ Len(b) = k /\ \A i \in 1..k : b[i] = e
  OBVIOUS
<1>. HIDE DEF b
<1>2. t \in Seq(S) /\ Len(t) = Len(s) + k
  BY <1>1
<1>3. \A i \in 1..Len(s) : t[i] = s[i]
  BY <1>1
<1>4. ASSUME NEW i \in (Len(s) + 1)..(Len(s) + k) PROVE t[i] = e
  <2>1. t[i] = b[i - Len(s)] /\ i - Len(s) \in 1..k
    BY <1>1
  <2>. QED  BY <1>1, <2>1
<1>. QED  BY <1>1, <1>2, <1>3, <1>4 DEF More, b

\* One element less.
LEMMA TailLess ==
    ASSUME NEW S, NEW s \in Seq(S), s # <<>>
    PROVE  /\ Tail(s) \in Seq(S) /\ Less(Tail(s), s)
           /\ Head(s) = s[1] /\ s[1] \in S /\ Len(s) \in Nat /\ Len(s) >= 1
  BY DEF Less

\* The last element taken.
LEMMA TailOfOne ==
    ASSUME NEW S, NEW s \in Seq(S), Len(s) = 1
    PROVE  Tail(s) = <<>>
<1>. DEFINE t == Tail(s)
<1>1. t \in Seq(S) /\ Len(t) = 0
  OBVIOUS
<1>. HIDE DEF t
<1>2. t = <<>>
  BY <1>1
<1>. QED  BY <1>2 DEF t

\* What a longer sequence has.
LEMMA HasMore ==
    ASSUME NEW s \in Seq(Messages), NEW t \in Seq(Messages), NEW k \in Nat, NEW e,
           More(t, s, k, e), NEW type
    PROVE  /\ Has(t, type) <=> Has(s, type) \/ (k > 0 /\ e.type = type)
           /\ e.type # type => (Once(t, type) <=> Once(s, type))
           /\ ~Has(s, type) /\ k = 1 => Once(t, type)
           /\ \A i \in 1..Len(s) : Prior(t, i, type) <=> Prior(s, i, type)
<1>1. Len(s) \in Nat /\ Len(t) \in Nat /\ Len(t) = Len(s) + k
  BY DEF More
<1>2. \A i \in 1..Len(t) : t[i] = IF i <= Len(s) THEN s[i] ELSE e
  BY <1>1 DEF More
<1>3. Has(t, type) <=> Has(s, type) \/ (k > 0 /\ e.type = type)
  <2>1. Has(t, type) => Has(s, type) \/ (k > 0 /\ e.type = type)
    BY <1>1, <1>2 DEF Has
  <2>2. Has(s, type) => Has(t, type)
    BY <1>1, <1>2 DEF Has
  <2>3. k > 0 /\ e.type = type => t[Len(t)].type = type /\ Len(t) \in 1..Len(t)
    BY <1>1, <1>2
  <2>. QED  BY <2>1, <2>2, <2>3 DEF Has
<1>4. e.type # type => (Once(t, type) <=> Once(s, type))
  <2>. SUFFICES ASSUME e.type # type PROVE Once(t, type) <=> Once(s, type)
    OBVIOUS
  <2>1. \A i \in 1..Len(s) : i \in 1..Len(t) /\ t[i] = s[i]
    BY <1>1, <1>2
  <2>2. \A i \in 1..Len(t) : t[i].type = type => i \in 1..Len(s)
    BY <1>1, <1>2
  <2>. QED  BY <2>1, <2>2 DEF Once
<1>5. ~Has(s, type) /\ k = 1 => Once(t, type)
  BY <1>1, <1>2 DEF Once, Has
<1>6. \A i \in 1..Len(s) : Prior(t, i, type) <=> Prior(s, i, type)
  BY <1>1, <1>2, SMTT(30) DEF Prior
<1>. QED  BY <1>3, <1>4, <1>5, <1>6

\* What a shorter sequence has.
LEMMA HasLess ==
    ASSUME NEW s \in Seq(Messages), NEW t \in Seq(Messages), Less(t, s), NEW type
    PROVE  /\ Has(s, type) <=> Has(t, type) \/ s[1].type = type
           /\ Once(s, type) => Once(t, type) /\ (s[1].type = type => ~Has(t, type))
           /\ \A i \in 1..Len(t) :
                 Prior(s, i + 1, type) <=> Prior(t, i, type) \/ s[1].type = type
<1>1. Len(s) \in Nat /\ Len(t) \in Nat /\ Len(s) = Len(t) + 1
  BY DEF Less
<1>2. \A i \in 1..Len(t) : i + 1 \in 1..Len(s) /\ t[i] = s[i + 1]
  BY <1>1 DEF Less
<1>3. \A i \in 1..Len(s) : i = 1 \/ (i - 1 \in 1..Len(t) /\ s[i] = t[i - 1])
  BY <1>1 DEF Less
<1>4. Has(s, type) <=> Has(t, type) \/ s[1].type = type
  <2>1. Has(s, type) => Has(t, type) \/ s[1].type = type
    BY <1>3 DEF Has
  <2>2. Has(t, type) => Has(s, type)
    <3>. SUFFICES ASSUME NEW i \in 1..Len(t), t[i].type = type PROVE Has(s, type)
      BY DEF Has
    <3>1. i + 1 \in 1..Len(s) /\ s[i + 1].type = type
      BY <1>2
    <3>. QED  BY <3>1 DEF Has
  <2>3. 1 \in 1..Len(s)
    BY <1>1
  <2>. QED  BY <2>1, <2>2, <2>3 DEF Has
<1>5. Once(s, type) => Once(t, type) /\ (s[1].type = type => ~Has(t, type))
  <2>. SUFFICES ASSUME Once(s, type)
                PROVE  Once(t, type) /\ (s[1].type = type => ~Has(t, type))
    OBVIOUS
  <2>1. ASSUME NEW i \in 1..Len(t), NEW j \in 1..Len(t), t[i].type = type, t[j].type = type
        PROVE  i = j
    <3>1. /\ i + 1 \in 1..Len(s) /\ s[i + 1].type = type
          /\ j + 1 \in 1..Len(s) /\ s[j + 1].type = type
      BY <1>2, <2>1
    <3>2. i + 1 = j + 1
      BY <3>1 DEF Once
    <3>. QED  BY <3>2
  <2>2. ASSUME s[1].type = type, NEW i \in 1..Len(t) PROVE t[i].type # type
    <3>1. i + 1 \in 1..Len(s) /\ s[i + 1] = t[i] /\ i + 1 # 1 /\ 1 \in 1..Len(s)
      BY <1>1, <1>2
    <3>. QED  BY <2>2, <3>1 DEF Once
  <2>. QED  BY <2>1, <2>2 DEF Once, Has
<1>6. ASSUME NEW i \in 1..Len(t)
      PROVE  Prior(s, i + 1, type) <=> Prior(t, i, type) \/ s[1].type = type
  <2>1. Prior(s, i + 1, type) => Prior(t, i, type) \/ s[1].type = type
    BY <1>1, <1>3, SMTT(30) DEF Prior
  <2>2. Prior(t, i, type) => Prior(s, i + 1, type)
    BY <1>1, <1>2 DEF Prior
  <2>3. s[1].type = type => Prior(s, i + 1, type)
    BY <1>1 DEF Prior
  <2>. QED  BY <2>1, <2>2, <2>3
<1>. QED  BY <1>4, <1>5, <1>6

-----------------------------------------------------------------------------
(* The channel. *)

\* Updates made and sent.
LEMMA NumberedUpdates ==
    ASSUME NEW had \in Seq(Updates), NEW made \in Seq(Updates), NEW made2 \in Seq(Updates),
           NEW p \in Seq(Messages), NEW p2 \in Seq(Messages), NEW k \in Nat, NEW u \in Updates,
           More(made2, made, k, u), More(p2, p, k, [type |-> "update", kind |-> u]),
           Numbered(had, made, p)
    PROVE  Numbered(had, made2, p2)
<1>1. PICK f \in [0..Len(p) -> Nat] :
        /\ f[0] = Len(had) /\ f[Len(p)] = Len(made)
        /\ \A i, j \in 0..Len(p) : i <= j => f[i] <= f[j]
        /\ \A i \in 1..Len(had) : had[i] = made[i]
        /\ \A i \in 1..Len(p) :
              /\ f[i] = IF p[i].type = "update" THEN f[i - 1] + 1 ELSE f[i - 1]
              /\ p[i].type = "update" => p[i].kind = made[f[i]]
              /\ p[i].type = "commit_sig" => p[i].indices.Remote = f[i]
  BY DEF Numbered
<1>2. /\ Len(p) \in Nat /\ Len(p2) = Len(p) + k /\ Len(made) \in Nat /\ Len(made2) = Len(made) + k
      /\ Len(had) \in Nat
  BY DEF More
<1>3. /\ \A i \in 1..Len(p) : p2[i] = p[i]
      /\ \A i \in 1..Len(p2) : i > Len(p) => p2[i].type = "update" /\ p2[i].kind = u
      /\ \A i \in 1..Len(made) : made2[i] = made[i]
      /\ \A i \in 1..Len(made2) : i > Len(made) => made2[i] = u
  <2>1. \A i \in 1..Len(p) : p2[i] = p[i]
    BY DEF More
  <2>2. ASSUME NEW i \in 1..Len(p2), i > Len(p) PROVE p2[i].type = "update" /\ p2[i].kind = u
    <3>1. i \in (Len(p) + 1)..(Len(p) + k)
      BY <1>2, <2>2
    <3>. QED  BY <3>1 DEF More
  <2>3. \A i \in 1..Len(made) : made2[i] = made[i]
    BY DEF More
  <2>4. ASSUME NEW i \in 1..Len(made2), i > Len(made) PROVE made2[i] = u
    <3>1. i \in (Len(made) + 1)..(Len(made) + k)
      BY <1>2, <2>4
    <3>. QED  BY <3>1 DEF More
  <2>. QED  BY <2>1, <2>2, <2>3, <2>4
<1>. DEFINE g == [i \in 0..Len(p2) |-> IF i <= Len(p) THEN f[i] ELSE Len(made) + (i - Len(p))]
<1>4. g \in [0..Len(p2) -> Nat]
  BY <1>1, <1>2
<1>5. /\ \A i \in 0..Len(p) : g[i] = f[i]
      /\ \A i \in 0..Len(p2) : i > Len(p) => g[i] = Len(made) + (i - Len(p))
  BY <1>2
<1>. HIDE DEF g
<1>6. g[0] = Len(had) /\ g[Len(p2)] = Len(made2)
  <2>1. 0 \in 0..Len(p) /\ Len(p2) \in 0..Len(p2) /\ Len(p) \in 0..Len(p)
    BY <1>2
  <2>2. k = 0 => g[Len(p2)] = f[Len(p)]
    BY <1>2, <1>5, <2>1
  <2>3. k > 0 => g[Len(p2)] = Len(made) + (Len(p2) - Len(p))
    BY <1>2, <1>5, <2>1, SMTT(30)
  <2>4. g[0] = Len(had)
    BY <1>1, <1>5, <2>1
  <2>5. g[Len(p2)] = Len(made2)
    BY <1>1, <1>2, <2>2, <2>3
  <2>. QED  BY <2>4, <2>5
<1>7. ASSUME NEW i \in 0..Len(p2), NEW j \in 0..Len(p2), i <= j PROVE g[i] <= g[j]
  <2>1. CASE j <= Len(p)
    BY <1>1, <1>2, <1>5, <1>7, <2>1
  <2>2. CASE j > Len(p) /\ i <= Len(p)
    <3>1. i \in 0..Len(p) /\ Len(p) \in 0..Len(p)
      BY <1>2, <2>2
    <3>2. f[i] <= f[Len(p)] /\ f[i] \in Nat /\ g[i] = f[i]
      BY <1>1, <1>5, <2>2, <3>1
    <3>3. g[j] = Len(made) + (j - Len(p))
      BY <1>5, <2>2
    <3>. QED  BY <1>1, <1>2, <2>2, <3>2, <3>3
  <2>3. CASE i > Len(p)
    <3>1. g[i] = Len(made) + (i - Len(p)) /\ g[j] = Len(made) + (j - Len(p))
      BY <1>2, <1>5, <1>7, <2>3
    <3>. QED  BY <1>2, <1>7, <3>1
  <2>. QED  BY <2>1, <2>2, <2>3, <1>2
<1>8. \A i \in 1..Len(had) : had[i] = made2[i]
  <2>1. Len(had) <= Len(made)
    BY <1>1, <1>2
  <2>. QED  BY <1>1, <1>2, <1>3, <2>1
<1>9. ASSUME NEW i \in 1..Len(p2)
      PROVE  /\ g[i] = IF p2[i].type = "update" THEN g[i - 1] + 1 ELSE g[i - 1]
             /\ p2[i].type = "update" => p2[i].kind = made2[g[i]]
             /\ p2[i].type = "commit_sig" => p2[i].indices.Remote = g[i]
  <2>1. CASE i <= Len(p)
    <3>1. i \in 1..Len(p) /\ i - 1 \in 0..Len(p) /\ g[i] = f[i] /\ g[i - 1] = f[i - 1] /\ p2[i] = p[i]
      BY <1>2, <1>3, <1>5, <2>1
    <3>2. p[i].type = "update" => f[i] \in 1..Len(made)
      <4>1. f[i] <= f[Len(p)] /\ f[i] \in Nat /\ f[i - 1] \in Nat
        <5>1. i \in 0..Len(p) /\ Len(p) \in 0..Len(p) /\ i <= Len(p)
          BY ONLY <1>2, <3>1
        <5>2. \A x, y \in 0..Len(p) : x <= y => f[x] <= f[y]
          BY <1>1
        <5>. QED  BY ONLY f \in [0..Len(p) -> Nat], <3>1, <5>1, <5>2
      <4>2. f[Len(p)] = Len(made) /\ (p[i].type = "update" => f[i] = f[i - 1] + 1)
        <5>1. \A x \in 1..Len(p) : f[x] = IF p[x].type = "update" THEN f[x - 1] + 1 ELSE f[x - 1]
          BY <1>1
        <5>2. f[Len(p)] = Len(made)
          BY <1>1
        <5>. QED  BY ONLY <3>1, <5>1, <5>2
      <4>. QED  BY ONLY <1>2, <4>1, <4>2
    <3>3. /\ f[i] = IF p[i].type = "update" THEN f[i - 1] + 1 ELSE f[i - 1]
          /\ p[i].type = "update" => p[i].kind = made[f[i]]
          /\ p[i].type = "commit_sig" => p[i].indices.Remote = f[i]
      BY <1>1, <3>1
    <3>. QED  BY ONLY <1>3, <3>1, <3>2, <3>3
  <2>2. CASE i > Len(p)
    <3>1. p2[i].type = "update" /\ p2[i].kind = u
      BY <1>3, <2>2
    <3>2. g[i] = Len(made) + (i - Len(p)) /\ g[i - 1] = Len(made) + ((i - 1) - Len(p))
      <4>1. CASE i - 1 > Len(p)
        <5>1. i - 1 \in 0..Len(p2) /\ i \in 0..Len(p2)
          BY <1>2, <2>2
        <5>. QED  BY <1>5, <2>2, <4>1, <5>1
      <4>2. CASE i - 1 = Len(p)
        BY <1>1, <1>2, <1>5, <2>2, <4>2
      <4>. QED  BY <4>1, <4>2, <1>2, <2>2
    <3>3. made2[g[i]] = u
      <4>1. g[i] \in 1..Len(made2) /\ g[i] > Len(made)
        BY <1>2, <2>2, <3>2
      <4>. QED  BY <1>3, <4>1
    <3>. QED  BY <1>2, <2>2, <3>1, <3>2, <3>3
  <2>. QED  BY <2>1, <2>2, <1>2
<1>. QED  BY <1>4, <1>6, <1>7, <1>8, <1>9 DEF Numbered

\* Another message sent: a signature covers all updates so far.
LEMMA NumberedSent ==
    ASSUME NEW had \in Seq(Updates), NEW made \in Seq(Updates),
           NEW p \in Seq(Messages), NEW p2 \in Seq(Messages), NEW e \in Messages,
           More(p2, p, 1, e), e.type # "update",
           e.type = "commit_sig" => e.indices.Remote = Len(made),
           Numbered(had, made, p)
    PROVE  Numbered(had, made, p2)
<1>1. PICK f \in [0..Len(p) -> Nat] :
        /\ f[0] = Len(had) /\ f[Len(p)] = Len(made)
        /\ \A i, j \in 0..Len(p) : i <= j => f[i] <= f[j]
        /\ \A i \in 1..Len(had) : had[i] = made[i]
        /\ \A i \in 1..Len(p) :
              /\ f[i] = IF p[i].type = "update" THEN f[i - 1] + 1 ELSE f[i - 1]
              /\ p[i].type = "update" => p[i].kind = made[f[i]]
              /\ p[i].type = "commit_sig" => p[i].indices.Remote = f[i]
  BY DEF Numbered
<1>2. Len(p) \in Nat /\ Len(p2) = Len(p) + 1 /\ Len(made) \in Nat
  BY DEF More
<1>3. p2[Len(p2)] = e /\ \A i \in 1..Len(p) : p2[i] = p[i]
  BY <1>2 DEF More
<1>. DEFINE g == [i \in 0..Len(p2) |-> IF i <= Len(p) THEN f[i] ELSE Len(made)]
<1>4. g \in [0..Len(p2) -> Nat]
  BY <1>1, <1>2
<1>5. g[Len(p2)] = Len(made) /\ \A i \in 0..Len(p) : g[i] = f[i]
  BY <1>2
<1>. HIDE DEF g
<1>6. g[0] = Len(had) /\ g[Len(p2)] = Len(made)
  BY <1>1, <1>2, <1>5
<1>7. ASSUME NEW i \in 0..Len(p2), NEW j \in 0..Len(p2), i <= j PROVE g[i] <= g[j]
  <2>1. CASE j <= Len(p)
    <3>1. i \in 0..Len(p) /\ j \in 0..Len(p)
      BY <1>2, <1>7, <2>1
    <3>. QED  BY <1>1, <1>5, <1>7, <3>1
  <2>2. CASE j = Len(p2) /\ i <= Len(p)
    <3>1. i \in 0..Len(p) /\ Len(p) \in 0..Len(p)
      BY <1>2, <2>2
    <3>2. f[i] <= f[Len(p)]
      BY <1>1, <1>2, <2>2, <3>1
    <3>. QED  BY <1>1, <1>2, <1>5, <2>2, <3>1, <3>2
  <2>3. CASE i = Len(p2)
    BY <1>2, <1>5, <1>7, <2>3
  <2>. QED  BY <2>1, <2>2, <2>3, <1>2
<1>9. ASSUME NEW i \in 1..Len(p2)
      PROVE  /\ g[i] = IF p2[i].type = "update" THEN g[i - 1] + 1 ELSE g[i - 1]
             /\ p2[i].type = "update" => p2[i].kind = made[g[i]]
             /\ p2[i].type = "commit_sig" => p2[i].indices.Remote = g[i]
  <2>1. CASE i <= Len(p)
    <3>1. i \in 1..Len(p) /\ i - 1 \in 0..Len(p) /\ g[i] = f[i] /\ g[i - 1] = f[i - 1] /\ p2[i] = p[i]
      BY <1>2, <1>3, <1>5, <2>1
    <3>. QED  BY <1>1, <3>1
  <2>2. CASE i = Len(p2)
    <3>1. g[i] = Len(made) /\ g[i - 1] = Len(made)
      BY <1>1, <1>2, <1>5, <2>2
    <3>. QED  BY <1>3, <2>2, <3>1
  <2>. QED  BY <2>1, <2>2, <1>2
<1>. QED  BY <1>1, <1>4, <1>6, <1>7, <1>9 DEF Numbered

\* The first message read: an update goes to the log.
LEMMA NumberedRead ==
    ASSUME NEW had \in Seq(Updates), NEW had2 \in Seq(Updates), NEW made \in Seq(Updates),
           NEW p \in Seq(Messages), NEW p2 \in Seq(Messages), Less(p2, p),
           IF p[1].type = "update" THEN More(had2, had, 1, p[1].kind) ELSE had2 = had,
           Numbered(had, made, p)
    PROVE  /\ Numbered(had2, made, p2)
           /\ p[1].type = "commit_sig" => p[1].indices.Remote = Len(had)
<1>1. PICK f \in [0..Len(p) -> Nat] :
        /\ f[0] = Len(had) /\ f[Len(p)] = Len(made)
        /\ \A i, j \in 0..Len(p) : i <= j => f[i] <= f[j]
        /\ \A i \in 1..Len(had) : had[i] = made[i]
        /\ \A i \in 1..Len(p) :
              /\ f[i] = IF p[i].type = "update" THEN f[i - 1] + 1 ELSE f[i - 1]
              /\ p[i].type = "update" => p[i].kind = made[f[i]]
              /\ p[i].type = "commit_sig" => p[i].indices.Remote = f[i]
  BY DEF Numbered
<1>2. Len(p2) \in Nat /\ Len(p) = Len(p2) + 1 /\ Len(made) \in Nat /\ Len(had) \in Nat
  BY DEF Less
<1>3. \A i \in 1..Len(p2) : p2[i] = p[i + 1]
  BY DEF Less
<1>. DEFINE g == [i \in 0..Len(p2) |-> f[i + 1]]
<1>4. g \in [0..Len(p2) -> Nat]
  BY <1>1, <1>2
<1>5. \A i \in 0..Len(p2) : g[i] = f[i + 1]
  BY <1>2
<1>. HIDE DEF g
<1>6. 1 \in 1..Len(p) /\ 1 - 1 = 0
  BY <1>2
<1>7. /\ f[1] = IF p[1].type = "update" THEN f[0] + 1 ELSE f[0]
      /\ p[1].type = "update" => p[1].kind = made[f[1]]
      /\ p[1].type = "commit_sig" => p[1].indices.Remote = f[1]
  BY <1>1, <1>6
<1>8. g[0] = f[1] /\ g[Len(p2)] = Len(made)
  <2>1. 0 \in 0..Len(p2) /\ Len(p2) \in 0..Len(p2) /\ 0 + 1 = 1
    BY <1>2
  <2>. QED  BY <1>1, <1>2, <1>5, <2>1
<1>9. Len(had2) = f[1] /\ \A i \in 1..Len(had2) : had2[i] = made[i]
  <2>1. CASE p[1].type = "update"
    <3>1. /\ Len(had2) = Len(had) + 1 /\ had2[Len(had) + 1] = p[1].kind
          /\ \A i \in 1..Len(had) : had2[i] = had[i]
      BY <2>1, <1>2 DEF More
    <3>2. f[1] = Len(had) + 1 /\ made[Len(had) + 1] = p[1].kind
      BY <1>1, <1>7, <2>1
    <3>3. ASSUME NEW i \in 1..Len(had2) PROVE had2[i] = made[i]
      <4>1. i \in 1..Len(had) \/ i = Len(had) + 1
        BY <1>2, <3>1
      <4>. QED  BY <1>1, <3>1, <3>2, <4>1
    <3>. QED  BY <3>1, <3>2, <3>3
  <2>2. CASE p[1].type # "update"
    BY <1>1, <1>7, <2>2
  <2>. QED  BY <2>1, <2>2
<1>10. ASSUME NEW i \in 0..Len(p2), NEW j \in 0..Len(p2), i <= j PROVE g[i] <= g[j]
  <2>1. i + 1 \in 0..Len(p) /\ j + 1 \in 0..Len(p) /\ i + 1 <= j + 1
    BY <1>2, <1>10
  <2>. QED  BY <1>1, <1>5, <2>1
<1>11. ASSUME NEW i \in 1..Len(p2)
       PROVE  /\ g[i] = IF p2[i].type = "update" THEN g[i - 1] + 1 ELSE g[i - 1]
              /\ p2[i].type = "update" => p2[i].kind = made[g[i]]
              /\ p2[i].type = "commit_sig" => p2[i].indices.Remote = g[i]
  <2>1. /\ i + 1 \in 1..Len(p) /\ p2[i] = p[i + 1] /\ g[i] = f[i + 1] /\ (i + 1) - 1 = i
        /\ g[i - 1] = f[i]
    <3>1. i \in 0..Len(p2) /\ i - 1 \in 0..Len(p2) /\ (i - 1) + 1 = i /\ i + 1 \in 1..Len(p)
      BY <1>2
    <3>. QED  BY <1>2, <1>3, <1>5, <3>1
  <2>. QED  BY <1>1, <2>1
<1>12. p[1].type = "commit_sig" => p[1].indices.Remote = Len(had)
  BY <1>1, <1>7
<1>13. g[0] = Len(had2)
  BY <1>8, <1>9
<1>14. Numbered(had2, made, p2)
  BY <1>4, <1>8, <1>9, <1>10, <1>11, <1>13 DEF Numbered
<1>. QED  BY <1>12, <1>14

\* A signature that comes next covers the updates that have come.
LEMMA NumberedFirst ==
    ASSUME NEW had, NEW made, NEW p, 1 \in 1..Len(p), Numbered(had, made, p),
           p[1].type = "commit_sig"
    PROVE  p[1].indices.Remote = Len(had)
<1>1. PICK f \in [0..Len(p) -> Nat] :
        /\ f[0] = Len(had)
        /\ \A i \in 1..Len(p) :
              /\ f[i] = IF p[i].type = "update" THEN f[i - 1] + 1 ELSE f[i - 1]
              /\ p[i].type = "commit_sig" => p[i].indices.Remote = f[i]
  BY DEF Numbered
<1>2. f[1] = f[0]
  <2>1. f[1] = f[1 - 1]
    BY <1>1
  <2>. QED  BY <2>1
<1>. QED  BY <1>1, <1>2

\* Sequences of the same elements are the same.
LEMMA SameSequence ==
    ASSUME NEW S, NEW s \in Seq(S), NEW t \in Seq(S), Len(s) = Len(t),
           \A i \in 1..Len(s) : s[i] = t[i]
    PROVE  s = t
  OBVIOUS

\* With nothing missing, no update is under way.
LEMMA NumberedBounds ==
    ASSUME NEW had \in Seq(Updates), NEW made \in Seq(Updates), NEW p \in Seq(Messages),
           Numbered(had, made, p)
    PROVE  /\ Len(had) <= Len(made)
           /\ Len(had) = Len(made) => ~Has(p, "update") /\ had = made
<1>1. PICK f \in [0..Len(p) -> Nat] :
        /\ f[0] = Len(had) /\ f[Len(p)] = Len(made)
        /\ \A i, j \in 0..Len(p) : i <= j => f[i] <= f[j]
        /\ \A i \in 1..Len(had) : had[i] = made[i]
        /\ \A i \in 1..Len(p) :
              f[i] = IF p[i].type = "update" THEN f[i - 1] + 1 ELSE f[i - 1]
  BY DEF Numbered
<1>2. Len(p) \in Nat /\ Len(had) \in Nat /\ Len(made) \in Nat
  OBVIOUS
<1>3. Len(had) <= Len(made)
  BY <1>1, <1>2
<1>4. ASSUME Len(had) = Len(made), NEW i \in 1..Len(p) PROVE p[i].type # "update"
  <2>1. f[0] <= f[i - 1] /\ f[i - 1] <= f[i] /\ f[i] <= f[Len(p)] /\ f[i] \in Nat /\ f[i - 1] \in Nat
    BY <1>1, <1>2
  <2>. QED  BY <1>1, <1>2, <1>4, <2>1
<1>5. Len(had) = Len(made) => had = made
  <2>1. \A i \in 1..Len(had) : had[i] = made[i]
    BY <1>1
  <2>. QED  BY <2>1, SameSequence
<1>. QED  BY <1>3, <1>4, <1>5 DEF Has

\* A channel's fields.
LEMMA ChannelFacts ==
    ASSUME NEW a \in Channels
    PROVE  /\ a.log \in Logs /\ a.log.Local \in Seq(Updates) /\ a.log.Remote \in Seq(Updates)
           /\ Len(a.log.Local) \in Nat /\ Len(a.log.Remote) \in Nat
           /\ a.own \in Indices /\ a.own.Local \in Nat /\ a.own.Remote \in Nat
           /\ a.peer \in Seq(Indices) /\ Len(a.peer) \in Nat
           /\ \A i \in 1..Len(a.peer) :
                 a.peer[i] \in Indices /\ a.peer[i].Local \in Nat /\ a.peer[i].Remote \in Nat
           /\ Last(a.peer) = a.peer[Len(a.peer)]
<1>1. a.log \in Logs /\ a.own \in Indices /\ a.peer \in Seq(Indices)
  BY DEF Channels
<1>2. \A i \in 1..Len(a.peer) : a.peer[i] \in Indices
  BY <1>1
<1>. QED  BY <1>1, <1>2, SMTT(30) DEF Logs, Indices, Last

\* Two commitments are the same when their indices are.
LEMMA FlipFacts ==
    ASSUME NEW x \in Indices, NEW y \in Indices
    PROVE  /\ Flip(x) \in Indices /\ Flip(x).Local = x.Remote /\ Flip(x).Remote = x.Local
           /\ (x.Local = y.Local /\ x.Remote = y.Remote) => x = y
  BY DEF Flip, Indices

\* Both directions of the channel between a and b; p is on its way to b, r to a.
Chans(a, b, p, r) == Chan(a, b, p, r) /\ Chan(b, a, r, p)

\* There are one or two commitments on record.
LEMMA OneOrTwo ==
    ASSUME NEW n, n \in 1..2
    PROVE  /\ n \in Nat /\ n >= 1 /\ n # 0 /\ 1 \in 1..n /\ n \in 1..n /\ (n = 1 \/ n = 2)
           /\ (n = 1 => ~(n = 2)) /\ (~(n > 1) => n = 1)
           /\ \A i \in 1..n : i = 1 \/ (i = 2 /\ n = 2)
  OBVIOUS

\* The peer's commitments on record.
LEMMA PeerFacts ==
    ASSUME NEW a \in Channels, NEW b \in Channels, NEW p \in Seq(Messages), NEW r \in Seq(Messages),
           Chans(a, b, p, r)
    PROVE  /\ Len(a.peer) \in 1..2 /\ a.peer # <<>>
           /\ Head(a.peer) = a.peer[1] /\ Last(a.peer) = a.peer[Len(a.peer)]
           /\ a.peer[1] \in Indices /\ Last(a.peer) \in Indices
           /\ a.peer[1].Local \in Nat /\ a.peer[1].Remote \in Nat
           /\ Last(a.peer).Local \in Nat /\ Last(a.peer).Remote \in Nat
           /\ Len(a.peer) = 1 => Last(a.peer) = a.peer[1]
           /\ Len(a.peer) = 2 => Last(a.peer) = a.peer[2]
           /\ InStep(a, b, p, r) /\ InStep(b, a, r, p) /\ Grows(a) /\ Grows(b)
<1>1. InStep(a, b, p, r) /\ InStep(b, a, r, p) /\ Grows(a) /\ Grows(b)
  BY DEF Chans, Chan
<1>2. Len(a.peer) \in 1..2
  BY <1>1 DEF InStep
<1>4. a.peer \in Seq(Indices) /\ Len(a.peer) \in Nat /\ Last(a.peer) = a.peer[Len(a.peer)]
  BY ChannelFacts
<1>3. Len(a.peer) >= 1 /\ 1 \in 1..Len(a.peer) /\ Len(a.peer) \in 1..Len(a.peer)
  BY <1>2, OneOrTwo, Zenon
<1>5. a.peer[1] \in Indices /\ Last(a.peer) \in Indices
  BY <1>3, <1>4
<1>6. a.peer # <<>> /\ Head(a.peer) = a.peer[1]
  BY <1>3, <1>4
<1>. QED  BY <1>1, <1>2, <1>4, <1>5, <1>6 DEF Indices

\* A node makes updates.
LEMMA UpdatesInStep ==
    ASSUME NEW a \in Channels, NEW b \in Channels, NEW p \in Seq(Messages), NEW r \in Seq(Messages),
           NEW a2 \in Channels, NEW p2 \in Seq(Messages), NEW k \in Nat, NEW u \in Updates,
           Chans(a, b, p, r),
           a2.own = a.own, a2.peer = a.peer, a2.log.Remote = a.log.Remote,
           More(a2.log.Local, a.log.Local, k, u),
           More(p2, p, k, [type |-> "update", kind |-> u])
    PROVE  Chans(a2, b, p2, r)
<1>. DEFINE e == [type |-> "update", kind |-> u]
<1>1. e.type = "update"
  OBVIOUS
<1>2. ASSUME NEW t \in {"commit_sig", "revoke_and_ack"}
      PROVE  /\ Has(p2, t) <=> Has(p, t)
             /\ Once(p2, t) <=> Once(p, t)
             /\ \A i \in 1..Len(p) : Prior(p2, i, t) <=> Prior(p, i, t)
  <2>1. e.type # t
    BY <1>1
  <2>2. More(p2, p, k, e)
    OBVIOUS
  <2>. HIDE DEF e
  <2>3. /\ Has(p2, t) <=> Has(p, t) \/ (k > 0 /\ e.type = t)
        /\ e.type # t => (Once(p2, t) <=> Once(p, t))
        /\ \A i \in 1..Len(p) : Prior(p2, i, t) <=> Prior(p, i, t)
    BY ONLY p \in Seq(Messages), p2 \in Seq(Messages), k \in Nat, <2>2, HasMore, SMTT(30)
  <2>. QED  BY <2>1, <2>3
<1>3. /\ Len(p) \in Nat /\ Len(p2) \in Nat /\ Len(p) <= Len(p2)
      /\ \A i \in 1..Len(p2) : i \in 1..Len(p) \/ p2[i].type = "update"
      /\ \A i \in 1..Len(p) : p2[i] = p[i]
  <2>1. /\ Len(p2) = Len(p) + k /\ \A i \in 1..Len(p) : p2[i] = p[i]
        /\ \A i \in (Len(p) + 1)..(Len(p) + k) : p2[i] = e
    BY DEF More
  <2>2. Len(p) \in Nat /\ Len(p2) \in Nat
    OBVIOUS
  <2>. HIDE DEF e
  <2>3. ASSUME NEW i \in 1..Len(p2) PROVE i \in 1..Len(p) \/ i \in (Len(p) + 1)..(Len(p) + k)
    BY ONLY k \in Nat, i \in 1..Len(p2), <2>1, <2>2
  <2>. QED  BY ONLY k \in Nat, <1>1, <2>1, <2>2, <2>3
<1>4. Numbered(b.log.Remote, a2.log.Local, p2)
  <2>1. Numbered(b.log.Remote, a.log.Local, p)
    BY DEF Chans, Chan
  <2>2. /\ b.log.Remote \in Seq(Updates) /\ a.log.Local \in Seq(Updates)
        /\ a2.log.Local \in Seq(Updates)
    BY ChannelFacts
  <2>. QED  BY <2>1, <2>2, NumberedUpdates, SMTT(30)
<1>5. Grows(a2)
  <2>1. Len(a2.log.Local) >= Len(a.log.Local) /\ Len(a2.log.Local) \in Nat /\ Len(a.log.Local) \in Nat
    BY ChannelFacts DEF More
  <2>. QED  BY <2>1, PeerFacts, SMTT(30) DEF Grows
<1>6. InStep(a2, b, p2, r)
  <2>1. InStep(a, b, p, r)
    BY DEF Chans, Chan
  <2>2. ASSUME NEW i \in 1..Len(p2), p2[i].type = "commit_sig"
        PROVE  i \in 1..Len(p) /\ p2[i] = p[i]
    BY <1>3, <2>2
  <2>. QED  BY <2>1, <2>2, <1>2 DEF InStep
<1>7. InStep(b, a2, r, p2)
  BY <1>2 DEF Chans, Chan, InStep
<1>. QED  BY <1>4, <1>5, <1>6, <1>7 DEF Chans, Chan

\* A node sends a message that is not about updates.
LEMMA OtherInStep ==
    ASSUME NEW a \in Channels, NEW b \in Channels, NEW p \in Seq(Messages), NEW r \in Seq(Messages),
           NEW p2 \in Seq(Messages), NEW e \in Messages, Chans(a, b, p, r), More(p2, p, 1, e),
           e.type \in {"stfu", "tx_abort"}
    PROVE  Chans(a, b, p2, r)
<1>2. ASSUME NEW t \in {"commit_sig", "revoke_and_ack"}
      PROVE  /\ Has(p2, t) <=> Has(p, t)
             /\ Once(p2, t) <=> Once(p, t)
             /\ \A i \in 1..Len(p) : Prior(p2, i, t) <=> Prior(p, i, t)
  <2>1. e.type # t
    OBVIOUS
  <2>. QED  BY <2>1, HasMore
<1>3. /\ Len(p) \in Nat /\ Len(p2) = Len(p) + 1
      /\ \A i \in 1..Len(p2) : i \in 1..Len(p) \/ p2[i] = e
      /\ \A i \in 1..Len(p) : p2[i] = p[i]
  BY DEF More
<1>4. Numbered(b.log.Remote, a.log.Local, p2)
  BY NumberedSent, ChannelFacts DEF Chans, Chan
<1>6. InStep(a, b, p2, r)
  <2>1. InStep(a, b, p, r)
    BY DEF Chans, Chan
  <2>2. ASSUME NEW i \in 1..Len(p2), p2[i].type = "commit_sig"
        PROVE  i \in 1..Len(p) /\ p2[i] = p[i]
    BY <1>3, <2>2
  <2>. QED  BY <2>1, <2>2, <1>2 DEF InStep
<1>7. InStep(b, a, r, p2)
  BY <1>2 DEF Chans, Chan, InStep
<1>. QED  BY <1>4, <1>6, <1>7 DEF Chans, Chan

\* A node reads a message that changes no commitment.
LEMMA ReadInStep ==
    ASSUME NEW a \in Channels, NEW b \in Channels, NEW p \in Seq(Messages), NEW r \in Seq(Messages),
           NEW a2 \in Channels, NEW r2 \in Seq(Messages), Chans(a, b, p, r), Less(r2, r),
           r[1].type \in {"update", "stfu", "tx_abort"},
           a2.own = a.own, a2.peer = a.peer, a2.log.Local = a.log.Local,
           IF r[1].type = "update" THEN More(a2.log.Remote, a.log.Remote, 1, r[1].kind)
                                   ELSE a2.log.Remote = a.log.Remote
    PROVE  Chans(a2, b, p, r2)
<1>2. \A t \in {"commit_sig", "revoke_and_ack"} :
        /\ Has(r2, t) <=> Has(r, t)
        /\ Once(r, t) => Once(r2, t)
        /\ \A i \in 1..Len(r2) : Prior(r, i + 1, t) <=> Prior(r2, i, t)
  BY HasLess
<1>3. \A i \in 1..Len(r2) : i + 1 \in 1..Len(r) /\ r2[i] = r[i + 1]
  BY DEF Less
<1>4. Numbered(a2.log.Remote, b.log.Local, r2)
  BY NumberedRead, ChannelFacts DEF Chans, Chan
<1>5. Grows(a2)
  <2>1. /\ Len(a2.log.Remote) >= Len(a.log.Remote) /\ Len(a2.log.Remote) \in Nat
        /\ Len(a.log.Remote) \in Nat /\ a.own.Remote \in Nat
    BY ChannelFacts DEF More
  <2>. QED  BY <2>1, PeerFacts, SMTT(30) DEF Grows
<1>6. InStep(a2, b, p, r2)
  BY <1>2 DEF Chans, Chan, InStep
<1>7. InStep(b, a2, r2, p)
  <2>1. InStep(b, a, r, p)
    BY DEF Chans, Chan
  <2>2. ASSUME NEW i \in 1..Len(r2), r2[i].type = "commit_sig"
        PROVE  /\ r2[i].indices = Flip(b.peer[2])
               /\ r2[i].indices.Local = a2.peer[IF Prior(r2, i, "revoke_and_ack") THEN 2 ELSE 1].Local
    <3>1. i + 1 \in 1..Len(r) /\ r2[i] = r[i + 1]
      BY <1>3
    <3>2. Prior(r, i + 1, "revoke_and_ack") <=> Prior(r2, i, "revoke_and_ack")
      BY <1>2
    <3>. QED  BY <2>1, <2>2, <3>1, <3>2 DEF InStep
  <2>. QED  BY <2>1, <2>2, <1>2 DEF InStep
<1>. QED  BY <1>4, <1>5, <1>6, <1>7 DEF Chans, Chan

\* A node signs the next commitment of its peer.
LEMMA SignInStep ==
    ASSUME NEW a \in Channels, NEW b \in Channels, NEW p \in Seq(Messages), NEW r \in Seq(Messages),
           NEW a2 \in Channels, NEW p2 \in Seq(Messages), NEW e \in Messages, NEW x \in Indices,
           Chans(a, b, p, r), Len(a.peer) = 1, OweCommitment(a),
           a2.own = a.own, a2.log = a.log, a2.peer = Append(a.peer, x),
           x.Local = Len(a.log.Local), x.Remote = a.own.Remote,
           e.type = "commit_sig", e.indices = Flip(x), More(p2, p, 1, e)
    PROVE  Chans(a2, b, p2, r)
<1>1. /\ Len(a2.peer) = 2 /\ a2.peer[1] = a.peer[1] /\ a2.peer[2] = x
      /\ Last(a2.peer) = x /\ Last(a.peer) = a.peer[1] /\ a.peer[1] \in Indices
  <2>1. a.peer \in Seq(Indices) /\ Last(a.peer) = a.peer[1] /\ a.peer[1] \in Indices
    BY PeerFacts, ChannelFacts
  <2>2. Last(a2.peer) = a2.peer[Len(a2.peer)]
    BY ChannelFacts
  <2>3. Len(a2.peer) = 2 /\ a2.peer[1] = a.peer[1] /\ a2.peer[2] = x
    BY <2>1, SMTT(30)
  <2>. QED  BY <2>1, <2>2, <2>3
<1>2. /\ Has(p2, "commit_sig")
      /\ Has(p2, "revoke_and_ack") <=> Has(p, "revoke_and_ack")
      /\ Once(p2, "revoke_and_ack") <=> Once(p, "revoke_and_ack")
      /\ ~Has(p, "commit_sig") => Once(p2, "commit_sig")
  BY HasMore
<1>3. /\ Len(p) \in Nat /\ Len(p2) = Len(p) + 1 /\ p2[Len(p2)] = e
      /\ \A i \in 1..Len(p2) : i \in 1..Len(p) \/ i = Len(p2)
      /\ \A i \in 1..Len(p) : p2[i] = p[i]
  BY DEF More
<1>4. Numbered(b.log.Remote, a2.log.Local, p2)
  <2>1. e.indices.Remote = Len(a.log.Local)
    BY FlipFacts
  <2>. QED  BY <2>1, NumberedSent, ChannelFacts DEF Chans, Chan
<1>5. Grows(a2)
  BY <1>1, ChannelFacts, SMTT(30) DEF Chans, Chan, Grows
<1>6. InStep(a, b, p, r) /\ InStep(b, a, r, p)
  BY DEF Chans, Chan
<1>7. InStep(a2, b, p2, r)
  <2>1. ~Has(p, "commit_sig") /\ ~Has(r, "revoke_and_ack") /\ b.own = Flip(a.peer[1])
    BY <1>6 DEF InStep
  <2>2. a.peer[1] # x
    BY <1>1 DEF OweCommitment, LogIndex
  <2>3. ASSUME NEW i \in 1..Len(p2), p2[i].type = "commit_sig"
        PROVE  /\ p2[i].indices = Flip(a2.peer[2])
               /\ p2[i].indices.Local = b.peer[IF Prior(p2, i, "revoke_and_ack") THEN 2 ELSE 1].Local
    <3>1. i = Len(p2) /\ p2[i] = e
      BY <1>3, <2>1, <2>3 DEF Has
    <3>2. Prior(p2, i, "revoke_and_ack") <=> Has(p, "revoke_and_ack")
      <4>1. \A j \in 1..Len(p2) : j < i <=> j \in 1..Len(p)
        BY <1>3, <3>1
      <4>2. \A j \in 1..Len(p) : j \in 1..Len(p2)
        BY <1>3
      <4>. QED  BY <1>3, <4>1, <4>2 DEF Prior, Has
    <3>3. e.indices.Local = a.own.Remote
      BY FlipFacts
    <3>4. a.own = Flip(b.peer[IF Has(p, "revoke_and_ack") THEN 2 ELSE 1])
      BY <1>6 DEF InStep
    <3>5. a.own.Remote = b.peer[IF Has(p, "revoke_and_ack") THEN 2 ELSE 1].Local
      BY <3>4 DEF Flip
    <3>. QED  BY <1>1, <3>1, <3>2, <3>3, <3>5
  <2>. QED  BY <1>1, <1>2, <1>6, <2>1, <2>2, <2>3 DEF InStep
<1>8. InStep(b, a2, r, p2)
  <2>1. \A i \in 1..Len(r) : ~Prior(r, i, "revoke_and_ack")
    BY <1>6 DEF InStep, Prior, Has
  <2>. QED  BY <1>1, <1>2, <1>6, <2>1 DEF InStep
<1>. QED  BY <1>4, <1>5, <1>7, <1>8 DEF Chans, Chan

\* A signature that comes is for what the node expects.
LEMMA SignatureExpected ==
    ASSUME NEW a \in Channels, NEW b \in Channels, NEW p \in Seq(Messages), NEW r \in Seq(Messages),
           Chans(a, b, p, r), r # <<>>, r[1].type = "commit_sig"
    PROVE  r[1].indices = NextOwn(a) /\ ~Has(p, "revoke_and_ack") /\ Len(b.peer) = 2
<1>1. InStep(a, b, p, r) /\ InStep(b, a, r, p) /\ Numbered(a.log.Remote, b.log.Local, r) /\ Grows(a)
  BY DEF Chans, Chan
<1>2. 1 \in 1..Len(r) /\ Has(r, "commit_sig") /\ ~Prior(r, 1, "revoke_and_ack")
  <2>1. Len(r) \in Nat /\ Len(r) >= 1
    OBVIOUS
  <2>. QED  BY <2>1 DEF Has, Prior
<1>3. Len(b.peer) = 2 /\ ~Has(p, "revoke_and_ack")
  BY <1>1, <1>2, ChannelFacts DEF InStep
<1>4. r[1].indices = Flip(b.peer[2]) /\ r[1].indices.Local = a.peer[1].Local
  BY <1>1, <1>2 DEF InStep
<1>5. r[1].indices.Remote = Len(a.log.Remote)
  BY <1>1, <1>2, NumberedFirst
<1>6. Len(a.peer) \in 1..2 /\ Head(a.peer) = a.peer[1] /\ a.peer[1] \in Indices
  <2>1. Len(a.peer) \in 1..2
    BY <1>1 DEF InStep
  <2>. QED  BY <2>1, ChannelFacts
<1>7. r[1].indices = NextOwn(a)
  <2>1. NextOwn(a) \in Indices /\ NextOwn(a).Local = a.peer[1].Local /\ NextOwn(a).Remote = Len(a.log.Remote)
    BY <1>6, ChannelFacts DEF NextOwn, LogIndex, Indices
  <2>2. r[1].indices \in Indices
    BY <1>3, <1>4, FlipFacts, ChannelFacts
  <2>. QED  BY <1>4, <1>5, <2>1, <2>2, FlipFacts
<1>. QED  BY <1>3, <1>7

\* The node revokes its commitment and answers the signature.
LEMMA RevokeInStep ==
    ASSUME NEW a \in Channels, NEW b \in Channels, NEW p \in Seq(Messages), NEW r \in Seq(Messages),
           Chans(a, b, p, r), r # <<>>, r[1].type = "commit_sig",
           NEW a2 \in Channels, NEW p2 \in Seq(Messages), NEW r2 \in Seq(Messages),
           NEW e \in Messages, e.type = "revoke_and_ack", More(p2, p, 1, e), Less(r2, r),
           a2.own = NextOwn(a), a2.log = a.log, a2.peer = a.peer
    PROVE  Chans(a2, b, p2, r2)
<1>a. InStep(a, b, p, r) /\ InStep(b, a, r, p) /\ Numbered(a.log.Remote, b.log.Local, r) /\ Grows(a)
  BY DEF Chans, Chan
<1>c. Len(b.peer) = 2 /\ ~Has(p, "revoke_and_ack")
  BY SignatureExpected
<1>d. r[1].indices = Flip(b.peer[2])
  <2>1. 1 \in 1..Len(r)
    OBVIOUS
  <2>. QED  BY <1>a, <2>1 DEF InStep
<1>f. Len(a.peer) \in 1..2 /\ Head(a.peer) = a.peer[1] /\ a.peer[1] \in Indices
  <2>1. Len(a.peer) \in 1..2
    BY <1>a DEF InStep
  <2>. QED  BY <2>1, ChannelFacts
<1>g. r[1].indices = NextOwn(a)
  BY SignatureExpected
<1>1. /\ Has(p2, "revoke_and_ack") /\ Once(p2, "revoke_and_ack")
      /\ Has(p2, "commit_sig") <=> Has(p, "commit_sig")
      /\ Once(p2, "commit_sig") <=> Once(p, "commit_sig")
      /\ \A i \in 1..Len(p) : Prior(p2, i, "revoke_and_ack") <=> Prior(p, i, "revoke_and_ack")
  BY <1>c, HasMore
<1>2. /\ ~Has(r2, "commit_sig") /\ Once(r2, "commit_sig")
      /\ Has(r2, "revoke_and_ack") <=> Has(r, "revoke_and_ack")
      /\ Once(r, "revoke_and_ack") => Once(r2, "revoke_and_ack")
  BY <1>a, HasLess DEF InStep
<1>3. /\ \A i \in 1..Len(p2) : i \in 1..Len(p) \/ p2[i] = e
      /\ \A i \in 1..Len(p) : p2[i] = p[i]
  BY DEF More
<1>4. Numbered(b.log.Remote, a2.log.Local, p2) /\ Numbered(a2.log.Remote, b.log.Local, r2)
  <2>1. Numbered(b.log.Remote, a.log.Local, p) /\ Numbered(a.log.Remote, b.log.Local, r)
    BY DEF Chans, Chan
  <2>2. /\ a.log.Remote \in Seq(Updates) /\ b.log.Local \in Seq(Updates)
        /\ a.log.Local \in Seq(Updates) /\ b.log.Remote \in Seq(Updates)
    BY ChannelFacts
  <2>3. Numbered(b.log.Remote, a2.log.Local, p2)
    BY <2>1, <2>2, NumberedSent
  <2>4. Numbered(a2.log.Remote, b.log.Local, r2)
    BY <2>1, <2>2, NumberedRead
  <2>. QED  BY <2>3, <2>4
<1>5. Grows(a2)
  <2>1. /\ a2.own.Local = a.peer[1].Local /\ a2.own.Remote = Len(a.log.Remote)
        /\ Len(a.log.Remote) \in Nat /\ a.own.Remote \in Nat
    BY <1>f, ChannelFacts DEF NextOwn, LogIndex
  <2>. QED  BY <1>a, <2>1, PeerFacts, SMTT(30) DEF Grows
<1>6. InStep(b, a2, r2, p2)
  <2>1. a2.own = Flip(b.peer[2])
    BY <1>d, <1>g
  <2>2. \A i \in 1..Len(r2) : r2[i].type # "commit_sig"
    BY <1>2 DEF Has
  <2>3. b.peer[1] # b.peer[2] /\ Len(b.peer) \in 1..2
    BY <1>a, <1>c DEF InStep
  <2>. QED  BY <1>c, <1>1, <1>2, <2>1, <2>2, <2>3 DEF InStep
<1>7. InStep(a2, b, p2, r2)
  <2>1. ASSUME NEW i \in 1..Len(p2), p2[i].type = "commit_sig"
        PROVE  i \in 1..Len(p) /\ p2[i] = p[i]
    BY <1>3, <2>1
  <2>. QED  BY <1>a, <1>1, <1>2, <2>1 DEF InStep
<1>. QED  BY <1>4, <1>5, <1>6, <1>7 DEF Chans, Chan

\* A revocation that comes is for the older of two commitments.
LEMMA RevocationExpected ==
    ASSUME NEW a \in Channels, NEW b \in Channels, NEW p \in Seq(Messages), NEW r \in Seq(Messages),
           Chans(a, b, p, r), r # <<>>, r[1].type = "revoke_and_ack"
    PROVE  Len(a.peer) = 2 /\ ~Has(p, "commit_sig") /\ b.own = Flip(a.peer[2])
<1>1. InStep(a, b, p, r) /\ InStep(b, a, r, p) /\ Grows(a)
  BY DEF Chans, Chan
<1>2. 1 \in 1..Len(r) /\ Has(r, "revoke_and_ack")
  <2>1. Len(r) \in Nat /\ Len(r) >= 1
    OBVIOUS
  <2>. QED  BY <2>1 DEF Has
<1>3. Len(a.peer) = 2 /\ ~Has(p, "commit_sig") /\ b.own = Flip(a.peer[2])
  BY <1>1, <1>2, ChannelFacts DEF InStep
<1>. QED  BY <1>3

\* The node takes the older commitment off its record.
LEMMA RevocationInStep ==
    ASSUME NEW a \in Channels, NEW b \in Channels, NEW p \in Seq(Messages), NEW r \in Seq(Messages),
           Chans(a, b, p, r), r # <<>>, r[1].type = "revoke_and_ack",
           NEW a2 \in Channels, NEW r2 \in Seq(Messages), Less(r2, r),
           a2.own = a.own, a2.log = a.log, a2.peer = Tail(a.peer)
    PROVE  Chans(a2, b, p, r2)
<1>a. InStep(a, b, p, r) /\ InStep(b, a, r, p) /\ Grows(a)
  BY DEF Chans, Chan
<1>c. Len(a.peer) = 2 /\ ~Has(p, "commit_sig") /\ b.own = Flip(a.peer[2])
  BY RevocationExpected
<1>1. Len(a2.peer) = 1 /\ a2.peer[1] = a.peer[2] /\ Last(a2.peer) = a.peer[2] /\ Last(a.peer) = a.peer[2]
  <2>1. a.peer \in Seq(Indices) /\ Last(a.peer) = a.peer[2] /\ Last(a2.peer) = a2.peer[Len(a2.peer)]
    BY <1>c, ChannelFacts
  <2>. QED  BY <1>c, <2>1, SMTT(30)
<1>2. /\ ~Has(r2, "revoke_and_ack") /\ Once(r2, "revoke_and_ack")
      /\ Has(r2, "commit_sig") <=> Has(r, "commit_sig")
      /\ Once(r, "commit_sig") => Once(r2, "commit_sig")
      /\ \A i \in 1..Len(r2) : Prior(r, i + 1, "revoke_and_ack")
  BY <1>a, HasLess DEF InStep
<1>3. \A i \in 1..Len(r2) : i + 1 \in 1..Len(r) /\ r2[i] = r[i + 1]
  BY DEF Less
<1>4. Numbered(b.log.Remote, a2.log.Local, p) /\ Numbered(a2.log.Remote, b.log.Local, r2)
  BY NumberedRead, ChannelFacts DEF Chans, Chan
<1>5. Grows(a2)
  <2>1. /\ a.own.Local \in Nat /\ a.peer[1].Local \in Nat /\ a.peer[2].Local \in Nat
        /\ a.peer[2].Remote \in Nat
    BY <1>c, <1>1, PeerFacts, ChannelFacts
  <2>. QED  BY <1>a, <1>c, <1>1, <2>1, SMTT(30) DEF Grows
<1>6. InStep(a2, b, p, r2)
  <2>1. \A i \in 1..Len(p) : p[i].type # "commit_sig"
    BY <1>c DEF Has
  <2>2. b.own = Flip(a2.peer[1])
    BY <1>c, <1>1
  <2>3. Once(p, "commit_sig")
    BY <1>a DEF InStep
  <2>4. Len(a2.peer) \in 1..2 /\ Len(a2.peer) = 1
    <3>1. Len(a2.peer) = 1
      BY <1>1
    <3>. QED  BY <3>1
  <2>5. ~(Len(a2.peer) = 2)
    BY <2>4, OneOrTwo, Zenon
  <2>6. ~Has(r2, "revoke_and_ack") /\ Once(r2, "revoke_and_ack")
    BY <1>2
  <2>. QED  BY <1>c, <2>1, <2>2, <2>3, <2>4, <2>5, <2>6, Zenon DEF InStep
<1>7. InStep(b, a2, r2, p)
  <2>1. ASSUME NEW i \in 1..Len(r2), r2[i].type = "commit_sig"
        PROVE  /\ r2[i].indices = Flip(b.peer[2])
               /\ r2[i].indices.Local = a2.peer[IF Prior(r2, i, "revoke_and_ack") THEN 2 ELSE 1].Local
    <3>1. i + 1 \in 1..Len(r) /\ r2[i] = r[i + 1] /\ Prior(r, i + 1, "revoke_and_ack")
      BY <1>2, <1>3
    <3>2. ~Prior(r2, i, "revoke_and_ack")
      BY <1>2 DEF Prior, Has
    <3>. QED  BY <1>a, <1>1, <2>1, <3>1, <3>2 DEF InStep
  <2>. QED  BY <1>a, <1>2, <2>1 DEF InStep
<1>. QED  BY <1>a, <1>4, <1>5, <1>6, <1>7 DEF Chans, Chan

\* When a node's own commitment holds all its updates, so do those of the peer.
LEMMA SettledFacts ==
    ASSUME NEW a \in Channels, NEW b \in Channels, NEW p \in Seq(Messages), NEW r \in Seq(Messages),
           Chans(a, b, p, r), a.own.Local = Len(a.log.Local)
    PROVE  /\ \A i \in 1..Len(a.peer) : a.peer[i].Local = Len(a.log.Local)
           /\ NoDanglingUpdates(a, "Local") /\ NoDanglingUpdates(b, "Remote")
           /\ ~Has(p, "update") /\ a.log.Local = b.log.Remote
           /\ b.peer[1].Remote = Len(b.log.Remote) \/ Has(p, "revoke_and_ack")
<1>1. InStep(a, b, p, r) /\ InStep(b, a, r, p) /\ Grows(a) /\ Grows(b)
  BY DEF Chans, Chan
<1>2. Len(a.peer) \in 1..2 /\ Len(b.peer) \in 1..2
  BY <1>1 DEF InStep
<1>3. Len(b.log.Remote) <= Len(a.log.Local)
  BY NumberedBounds, ChannelFacts DEF Chans, Chan
<1>4. a.own = Flip(b.peer[1]) \/ (a.own = Flip(b.peer[2]) /\ Len(b.peer) = 2 /\ Has(p, "revoke_and_ack"))
  BY <1>1, <1>2 DEF InStep
<1>5. /\ a.own.Local = b.peer[1].Remote
         \/ (a.own.Local = b.peer[2].Remote /\ Len(b.peer) = 2 /\ Has(p, "revoke_and_ack"))
  BY <1>4 DEF Flip
<1>6. /\ Len(b.log.Remote) = Len(a.log.Local) /\ b.own.Remote = Len(a.log.Local)
      /\ Last(b.peer).Remote = Len(a.log.Local)
  <2>1. /\ Len(a.log.Local) \in Nat /\ Len(b.log.Remote) \in Nat /\ b.own.Remote \in Nat
        /\ a.own.Local \in Nat
    BY ChannelFacts
  <2>2. /\ b.peer[1].Remote \in Nat /\ Last(b.peer).Remote \in Nat
        /\ Len(b.peer) = 2 => Last(b.peer) = b.peer[2]
    BY PeerFacts DEF Chans
  <2>. QED  BY <1>1, <1>3, <1>5, <2>1, <2>2, SMTT(30) DEF Grows
<1>7. a.log.Local = b.log.Remote /\ ~Has(p, "update")
  BY <1>6, NumberedBounds, ChannelFacts DEF Chans, Chan
<1>8. \A i \in 1..Len(a.peer) : a.peer[i].Local = Len(a.log.Local)
  <2>1. Len(a.log.Local) \in Nat /\ a.own.Local \in Nat
    BY ChannelFacts
  <2>2. /\ a.peer[1].Local \in Nat /\ Last(a.peer).Local \in Nat
        /\ Len(a.peer) = 2 => Last(a.peer) = a.peer[2]
    BY PeerFacts
  <2>3. a.peer[1].Local = Len(a.log.Local) /\ Last(a.peer).Local = Len(a.log.Local)
    BY <1>1, <2>1, <2>2, SMTT(30) DEF Grows
  <2>4. ASSUME NEW i \in 1..Len(a.peer) PROVE i = 1 \/ (i = 2 /\ Len(a.peer) = 2)
    BY <1>2, OneOrTwo, Zenon
  <2>. QED  BY <2>2, <2>3, <2>4
<1>9. NoDanglingUpdates(a, "Local")
  <2>1. Len(a.peer) \in 1..Len(a.peer) /\ Last(a.peer) = a.peer[Len(a.peer)]
    BY <1>2, OneOrTwo, PeerFacts, Zenon
  <2>. QED  BY <1>8, <2>1 DEF NoDanglingUpdates, LogIndex
<1>10. NoDanglingUpdates(b, "Remote")
  BY <1>6, ChannelFacts DEF NoDanglingUpdates, LogIndex
<1>. QED  BY <1>5, <1>6, <1>7, <1>8, <1>9, <1>10
-----------------------------------------------------------------------------
(* Messages that begin or end quiescence, on their way. *)

\* Sequence t has the messages of s that begin or end quiescence.
SameEnds(t, s) ==
    /\ HasAbort(t) <=> HasAbort(s)
    /\ HasEcho(t) <=> HasEcho(s)
    /\ \A b \in BOOLEAN : (FirstStfu(t, b) <=> FirstStfu(s, b)) /\ (NextStfu(t, b) <=> NextStfu(s, b))
    /\ Shape(s) => Shape(t)

\* A message is of one kind, and an abort comes before any stfu of the next round.
LEMMA Kinds ==
    ASSUME NEW m \in Messages
    PROVE  /\ m.type = "tx_abort" => (IsEcho(m) <=> ~IsAbort(m))
           /\ m.type # "tx_abort" => ~IsAbort(m) /\ ~IsEcho(m)
           /\ m.type = "stfu" => m.Initiator \in BOOLEAN /\ IsStfu(m, m.Initiator)
           /\ \A b \in BOOLEAN : IsStfu(m, b) <=> m.type = "stfu" /\ m.Initiator = b
  BY DEF IsAbort, IsEcho, IsStfu, Messages

LEMMA NextAfterAbort ==
    ASSUME NEW p \in Seq(Messages)
    PROVE  (HasNext(p) => HasAbort(p)) /\ \A b \in BOOLEAN : NextStfu(p, b) => HasAbort(p)
  BY DEF HasNext, NextStfu, Between, HasAbort

\* What comes between two places when messages are appended, or one is taken.
LEMMA BetweenMore ==
    ASSUME NEW s \in Seq(Messages), NEW t \in Seq(Messages), NEW k \in Nat, NEW e, More(t, s, k, e),
           NEW i \in Nat, NEW j \in Nat
    PROVE  /\ Between(s, i, j) => Between(t, i, j)
           /\ j <= Len(s) + 1 \/ ~IsAbort(e) => (Between(t, i, j) <=> Between(s, i, j))
           /\ j > Len(s) /\ HasAbort(s) /\ i = 0 => Between(t, i, j)
<1>1. Len(s) \in Nat /\ Len(t) = Len(s) + k
  BY DEF More
<1>2. \A n \in 1..Len(s) : n \in 1..Len(t) /\ t[n] = s[n]
  BY <1>1 DEF More
<1>3. \A n \in 1..Len(t) : n \in 1..Len(s) \/ (n > Len(s) /\ t[n] = e)
  BY <1>1 DEF More
<1>4. Between(s, i, j) => Between(t, i, j)
  BY <1>2 DEF Between
<1>5. ASSUME j <= Len(s) + 1 \/ ~IsAbort(e), Between(t, i, j) PROVE Between(s, i, j)
  <2>1. PICK a \in 1..Len(t) : IsAbort(t[a]) /\ i < a /\ a < j
    BY <1>5 DEF Between
  <2>2. a \in 1..Len(s)
    BY <1>1, <1>3, <1>5, <2>1
  <2>. QED  BY <1>2, <2>1, <2>2 DEF Between
<1>6. ASSUME j > Len(s), HasAbort(s), i = 0 PROVE Between(t, i, j)
  <2>1. PICK a \in 1..Len(s) : IsAbort(s[a])
    BY <1>6 DEF HasAbort
  <2>2. a \in 1..Len(t) /\ IsAbort(t[a]) /\ i < a /\ a < j
    BY <1>1, <1>2, <1>6, <2>1
  <2>. QED  BY <2>2 DEF Between
<1>. QED  BY <1>4, <1>5, <1>6

LEMMA BetweenLess ==
    ASSUME NEW s \in Seq(Messages), NEW t \in Seq(Messages), Less(t, s), NEW i \in Nat, NEW j \in Nat
    PROVE  /\ Between(t, i, j) => Between(s, i + 1, j + 1)
           /\ Between(s, i + 1, j + 1) => Between(t, i, j)
           /\ ~IsAbort(s[1]) => (Between(s, 0, j + 1) <=> Between(t, 0, j))
           /\ IsAbort(s[1]) /\ j > 0 => Between(s, 0, j + 1)
<1>1. Len(t) \in Nat /\ Len(s) = Len(t) + 1
  BY DEF Less
<1>2. \A n \in 1..Len(t) : n + 1 \in 1..Len(s) /\ t[n] = s[n + 1]
  BY <1>1 DEF Less
<1>3. \A n \in 1..Len(s) : n = 1 \/ (n - 1 \in 1..Len(t) /\ s[n] = t[n - 1])
  BY <1>1 DEF Less
<1>4. ASSUME NEW z \in Nat, Between(t, z, j) PROVE Between(s, z + 1, j + 1)
  <2>1. PICK a \in 1..Len(t) : IsAbort(t[a]) /\ z < a /\ a < j
    BY <1>4 DEF Between
  <2>2. a + 1 \in 1..Len(s) /\ IsAbort(s[a + 1]) /\ z + 1 < a + 1 /\ a + 1 < j + 1
    BY <1>1, <1>2, <2>1
  <2>. QED  BY <2>2 DEF Between
<1>5. ASSUME NEW z \in Nat, Between(s, z + 1, j + 1) PROVE Between(t, z, j)
  <2>1. PICK a \in 1..Len(s) : IsAbort(s[a]) /\ z + 1 < a /\ a < j + 1
    BY <1>5 DEF Between
  <2>2. a - 1 \in 1..Len(t) /\ t[a - 1] = s[a]
    BY <1>3, <2>1
  <2>3. IsAbort(t[a - 1]) /\ z < a - 1 /\ a - 1 < j
    BY <2>1, <2>2
  <2>. QED  BY <2>2, <2>3 DEF Between
<1>6. ASSUME ~IsAbort(s[1]), Between(s, 0, j + 1) PROVE Between(s, 1, j + 1)
  BY <1>6, <1>1 DEF Between
<1>7. Between(s, 1, j + 1) => Between(s, 0, j + 1)
  BY <1>1 DEF Between
<1>8. ~IsAbort(s[1]) => (Between(s, 0, j + 1) <=> Between(t, 0, j))
  <2>1. 0 \in Nat /\ 0 + 1 = 1
    OBVIOUS
  <2>. QED  BY <1>4, <1>5, <1>6, <1>7, <2>1
<1>9. IsAbort(s[1]) /\ j > 0 => Between(s, 0, j + 1)
  <2>1. 1 \in 1..Len(s) /\ 0 < 1 /\ (j > 0 => 1 < j + 1)
    BY <1>1
  <2>. QED  BY <2>1 DEF Between
<1>. QED  BY <1>4, <1>5, <1>8, <1>9

\* A message of the channel sent.
LEMMA EndsMore ==
    ASSUME NEW s \in Seq(Messages), NEW t \in Seq(Messages), NEW k \in Nat, NEW e, More(t, s, k, e),
           e.type \notin {"stfu", "tx_abort"}
    PROVE  SameEnds(t, s)
<1>1. Len(s) \in Nat /\ Len(t) = Len(s) + k
  BY DEF More
<1>2. \A n \in 1..Len(s) : n \in 1..Len(t) /\ t[n] = s[n] /\ n \in Nat
  BY <1>1 DEF More
<1>3. \A n \in 1..Len(t) : n \in Nat /\ (n \in 1..Len(s) \/ t[n] = e)
  BY <1>1 DEF More
<1>4. ~IsAbort(e) /\ ~IsEcho(e) /\ \A b \in BOOLEAN : ~IsStfu(e, b)
  BY DEF IsAbort, IsEcho, IsStfu
<1>5. \A i, j \in Nat : Between(t, i, j) <=> Between(s, i, j)
  BY <1>4, BetweenMore
<1>6. (HasAbort(t) <=> HasAbort(s)) /\ (HasEcho(t) <=> HasEcho(s))
  BY <1>2, <1>3, <1>4 DEF HasAbort, HasEcho
<1>7. ASSUME NEW b \in BOOLEAN
      PROVE  (FirstStfu(t, b) <=> FirstStfu(s, b)) /\ (NextStfu(t, b) <=> NextStfu(s, b))
  BY <1>2, <1>3, <1>4, <1>5 DEF FirstStfu, NextStfu
<1>8. ASSUME Shape(s) PROVE Shape(t)
  <2>. SUFFICES ASSUME NEW i \in 1..Len(t), NEW j \in 1..Len(t), i < j
                PROVE  /\ IsEcho(t[j]) => t[i].type # "stfu" /\ t[i].type # "tx_abort"
                       /\ ~(IsAbort(t[i]) /\ IsAbort(t[j]))
                       /\ t[i].type = "stfu" /\ t[j].type = "stfu" => Between(t, i, j)
    BY DEF Shape
  <2>1. CASE j \in 1..Len(s)
    <3>1. i \in 1..Len(s)
      BY <1>1, <2>1
    <3>. QED  BY <1>2, <1>5, <1>8, <2>1, <3>1 DEF Shape
  <2>2. CASE t[j] = e
    BY <1>4, <2>2
  <2>. QED  BY <1>3, <2>1, <2>2
<1>. QED  BY <1>6, <1>7, <1>8 DEF SameEnds

\* An stfu sent.
LEMMA StfuMore ==
    ASSUME NEW s \in Seq(Messages), NEW t \in Seq(Messages), NEW e \in Messages, More(t, s, 1, e),
           e.type = "stfu"
    PROVE  /\ (HasAbort(t) <=> HasAbort(s)) /\ (HasEcho(t) <=> HasEcho(s))
           /\ \A b \in BOOLEAN :
                 /\ FirstStfu(t, b) <=> FirstStfu(s, b) \/ (~HasAbort(s) /\ b = e.Initiator)
                 /\ NextStfu(t, b) <=> NextStfu(s, b) \/ (HasAbort(s) /\ b = e.Initiator)
           /\ Shape(s) /\ ~HasNext(s) /\ (HasAbort(s) \/ ~HasFirst(s)) => Shape(t)
<1>1. Len(s) \in Nat /\ Len(t) = Len(s) + 1
  BY DEF More
<1>2. \A n \in 1..Len(s) : n \in 1..Len(t) /\ t[n] = s[n] /\ n \in Nat /\ n <= Len(s) + 1
  BY <1>1 DEF More
<1>3. \A n \in 1..Len(t) : n \in Nat /\ (n \in 1..Len(s) \/ (n = Len(t) /\ t[n] = e))
  BY <1>1 DEF More
<1>4. ~IsAbort(e) /\ ~IsEcho(e) /\ e.Initiator \in BOOLEAN
      /\ \A b \in BOOLEAN : IsStfu(e, b) <=> b = e.Initiator
  BY Kinds
<1>5. \A i, j \in Nat : Between(t, i, j) <=> Between(s, i, j)
  BY <1>4, BetweenMore
<1>6. (HasAbort(t) <=> HasAbort(s)) /\ (HasEcho(t) <=> HasEcho(s))
  BY <1>2, <1>3, <1>4 DEF HasAbort, HasEcho
<1>7. Len(t) \in 1..Len(t) /\ t[Len(t)] = e /\ Len(t) \in Nat
  BY <1>1 DEF More
<1>8. Between(s, 0, Len(t)) <=> HasAbort(s)
  BY <1>1 DEF Between, HasAbort
<1>9. ASSUME NEW b \in BOOLEAN
      PROVE  /\ FirstStfu(t, b) <=> FirstStfu(s, b) \/ (~HasAbort(s) /\ b = e.Initiator)
             /\ NextStfu(t, b) <=> NextStfu(s, b) \/ (HasAbort(s) /\ b = e.Initiator)
  <2>1. FirstStfu(t, b) => FirstStfu(s, b) \/ (~HasAbort(s) /\ b = e.Initiator)
    BY <1>2, <1>3, <1>4, <1>5, <1>8 DEF FirstStfu
  <2>2. NextStfu(t, b) => NextStfu(s, b) \/ (HasAbort(s) /\ b = e.Initiator)
    BY <1>2, <1>3, <1>4, <1>5, <1>8 DEF NextStfu
  <2>3. (FirstStfu(s, b) => FirstStfu(t, b)) /\ (NextStfu(s, b) => NextStfu(t, b))
    BY <1>2, <1>5 DEF FirstStfu, NextStfu
  <2>4. b = e.Initiator => IsStfu(t[Len(t)], b) /\ (Between(t, 0, Len(t)) <=> HasAbort(s))
    BY <1>4, <1>5, <1>7, <1>8
  <2>5. b = e.Initiator => (~HasAbort(s) => FirstStfu(t, b)) /\ (HasAbort(s) => NextStfu(t, b))
    BY <1>7, <2>4 DEF FirstStfu, NextStfu
  <2>. QED  BY <2>1, <2>2, <2>3, <2>5
<1>10. ASSUME Shape(s), ~HasNext(s), HasAbort(s) \/ ~HasFirst(s) PROVE Shape(t)
  <2>. SUFFICES ASSUME NEW i \in 1..Len(t), NEW j \in 1..Len(t), i < j
                PROVE  /\ IsEcho(t[j]) => t[i].type # "stfu" /\ t[i].type # "tx_abort"
                       /\ ~(IsAbort(t[i]) /\ IsAbort(t[j]))
                       /\ t[i].type = "stfu" /\ t[j].type = "stfu" => Between(t, i, j)
    BY DEF Shape
  <2>1. CASE j \in 1..Len(s)
    <3>1. i \in 1..Len(s)
      BY <1>1, <2>1
    <3>. QED  BY <1>2, <1>5, <1>10, <2>1, <3>1 DEF Shape
  <2>2. CASE j = Len(t) /\ t[j] = e
    <3>1. i \in 1..Len(s) /\ t[i] = s[i]
      BY <1>1, <1>2, <2>2
    <3>2. ASSUME s[i].type = "stfu" PROVE Between(t, i, j)
      <4>1. s[i] \in Messages
        BY <3>1
      <4>2. s[i].Initiator \in BOOLEAN /\ IsStfu(s[i], s[i].Initiator)
        BY <3>2, <4>1, Kinds
      <4>3. ~Between(s, 0, i)
        BY <1>10, <3>1, <4>2 DEF HasNext, NextStfu
      <4>4. HasFirst(s)
        BY <3>1, <4>2, <4>3 DEF HasFirst, FirstStfu
      <4>5. PICK a \in 1..Len(s) : IsAbort(s[a])
        BY <1>10, <4>4 DEF HasAbort
      <4>6. ~(a < i) /\ a # i
        <5>1. ~IsAbort(s[i])
          BY <3>2 DEF IsAbort
        <5>2. a \in Nat /\ i \in Nat /\ 0 < a
          BY <1>1
        <5>. QED  BY <4>3, <4>5, <5>1, <5>2 DEF Between
      <4>7. i < a /\ a < j
        BY <1>1, <2>2, <4>6
      <4>. QED  BY <1>2, <4>5, <4>7 DEF Between
    <3>. QED  BY <1>4, <2>2, <3>1, <3>2
  <2>. QED  BY <1>3, <2>1, <2>2
<1>. QED  BY <1>6, <1>9, <1>10

\* An abort sent.
LEMMA AbortMore ==
    ASSUME NEW s \in Seq(Messages), NEW t \in Seq(Messages), NEW e \in Messages, More(t, s, 1, e),
           IsAbort(e), ~HasAbort(s)
    PROVE  /\ HasAbort(t) /\ (HasEcho(t) <=> HasEcho(s))
           /\ \A b \in BOOLEAN : (FirstStfu(t, b) <=> FirstStfu(s, b)) /\ ~NextStfu(t, b)
           /\ Shape(s) => Shape(t)
<1>1. Len(s) \in Nat /\ Len(t) = Len(s) + 1
  BY DEF More
<1>2. \A n \in 1..Len(s) : n \in 1..Len(t) /\ t[n] = s[n] /\ n \in Nat /\ n <= Len(s) + 1
  BY <1>1 DEF More
<1>3. \A n \in 1..Len(t) : n \in Nat /\ n <= Len(s) + 1 /\ (n \in 1..Len(s) \/ (n = Len(t) /\ t[n] = e))
  BY <1>1 DEF More
<1>4. ~IsEcho(e) /\ e.type = "tx_abort" /\ \A b \in BOOLEAN : ~IsStfu(e, b)
  BY DEF IsAbort, IsEcho, IsStfu
<1>5. \A i \in Nat, j \in 1..Len(t) : Between(t, i, j) <=> Between(s, i, j)
  BY <1>1, <1>3, BetweenMore
<1>6. \A i \in Nat, j \in Nat : ~Between(s, i, j)
  BY DEF Between, HasAbort
<1>7. Len(t) \in 1..Len(t) /\ t[Len(t)] = e /\ Len(t) \in Nat
  BY <1>1 DEF More
<1>8. HasAbort(t) /\ (HasEcho(t) <=> HasEcho(s))
  BY <1>2, <1>3, <1>4, <1>7 DEF HasAbort, HasEcho
<1>9. ASSUME NEW b \in BOOLEAN PROVE (FirstStfu(t, b) <=> FirstStfu(s, b)) /\ ~NextStfu(t, b)
  <2>1. \A n \in 1..Len(t) : ~Between(t, 0, n)
    BY <1>3, <1>5, <1>6
  <2>. QED  BY <1>2, <1>3, <1>4, <1>6, <2>1 DEF FirstStfu, NextStfu
<1>10. ASSUME Shape(s) PROVE Shape(t)
  <2>. SUFFICES ASSUME NEW i \in 1..Len(t), NEW j \in 1..Len(t), i < j
                PROVE  /\ IsEcho(t[j]) => t[i].type # "stfu" /\ t[i].type # "tx_abort"
                       /\ ~(IsAbort(t[i]) /\ IsAbort(t[j]))
                       /\ t[i].type = "stfu" /\ t[j].type = "stfu" => Between(t, i, j)
    BY DEF Shape
  <2>1. i \in 1..Len(s)
    BY <1>1
  <2>2. CASE j \in 1..Len(s)
    BY <1>2, <1>5, <1>10, <2>1, <2>2 DEF Shape
  <2>3. CASE j = Len(t) /\ t[j] = e
    <3>1. ~IsAbort(t[i])
      BY <1>2, <2>1 DEF HasAbort
    <3>. QED  BY <1>4, <2>3, <3>1
  <2>. QED  BY <1>3, <2>2, <2>3
<1>. QED  BY <1>8, <1>9, <1>10

\* An echo sent, with nothing before it.
LEMMA EchoMore ==
    ASSUME NEW s \in Seq(Messages), NEW t \in Seq(Messages), NEW e \in Messages, More(t, s, 1, e),
           IsEcho(e), ~HasAbort(s), ~HasEcho(s), ~HasFirst(s)
    PROVE  /\ HasEcho(t) /\ ~HasAbort(t) /\ Shape(t)
           /\ \A b \in BOOLEAN : ~FirstStfu(t, b) /\ ~NextStfu(t, b)
<1>1. Len(s) \in Nat /\ Len(t) = Len(s) + 1
  BY DEF More
<1>2. \A n \in 1..Len(s) : n \in 1..Len(t) /\ t[n] = s[n] /\ n \in Nat
  BY <1>1 DEF More
<1>3. \A n \in 1..Len(t) : n \in Nat /\ (n \in 1..Len(s) \/ (n = Len(t) /\ t[n] = e))
  BY <1>1 DEF More
<1>4. ~IsAbort(e) /\ e.type = "tx_abort" /\ \A b \in BOOLEAN : ~IsStfu(e, b)
  BY DEF IsAbort, IsEcho, IsStfu
<1>5. Len(t) \in 1..Len(t) /\ t[Len(t)] = e
  BY <1>1 DEF More
<1>6. ASSUME NEW n \in 1..Len(s) PROVE s[n].type # "stfu" /\ s[n].type # "tx_abort"
  <2>1. s[n] \in Messages
    OBVIOUS
  <2>2. ~IsAbort(s[n]) /\ ~IsEcho(s[n])
    BY DEF HasAbort, HasEcho
  <2>3. ~Between(s, 0, n)
    BY DEF HasAbort, Between
  <2>4. \A b \in BOOLEAN : ~IsStfu(s[n], b)
    BY <2>3 DEF HasFirst, FirstStfu
  <2>. QED  BY <2>1, <2>2, <2>4, Kinds
<1>7. \A n \in 1..Len(t) : (t[n].type # "stfu" /\ t[n].type # "tx_abort") \/ (n = Len(t) /\ t[n] = e)
  BY <1>2, <1>3, <1>6
<1>8. HasEcho(t) /\ ~HasAbort(t)
  BY <1>4, <1>5, <1>7 DEF HasAbort, HasEcho, IsAbort
<1>9. \A b \in BOOLEAN : ~FirstStfu(t, b) /\ ~NextStfu(t, b)
  BY <1>4, <1>7 DEF FirstStfu, NextStfu, IsStfu
<1>10. Shape(t)
  <2>. SUFFICES ASSUME NEW i \in 1..Len(t), NEW j \in 1..Len(t), i < j
                PROVE  /\ t[i].type # "stfu" /\ t[i].type # "tx_abort"
                       /\ ~(IsAbort(t[i]) /\ IsAbort(t[j]))
    BY DEF Shape
  <2>1. i # Len(t)
    BY <1>1
  <2>. QED  BY <1>7, <2>1 DEF IsAbort
<1>. QED  BY <1>8, <1>9, <1>10

\* The first message of a sequence is taken: what is left has the same shape.
LEMMA ShapeLess ==
    ASSUME NEW s \in Seq(Messages), NEW t \in Seq(Messages), Less(t, s), Shape(s)
    PROVE  Shape(t)
<1>1. Len(t) \in Nat /\ Len(s) = Len(t) + 1
  BY DEF Less
<1>2. \A n \in 1..Len(t) : n + 1 \in 1..Len(s) /\ t[n] = s[n + 1] /\ n \in Nat
  BY <1>1 DEF Less
<1>. SUFFICES ASSUME NEW i \in 1..Len(t), NEW j \in 1..Len(t), i < j
              PROVE  /\ IsEcho(t[j]) => t[i].type # "stfu" /\ t[i].type # "tx_abort"
                     /\ ~(IsAbort(t[i]) /\ IsAbort(t[j]))
                     /\ t[i].type = "stfu" /\ t[j].type = "stfu" => Between(t, i, j)
  BY DEF Shape
<1>3. i + 1 \in 1..Len(s) /\ j + 1 \in 1..Len(s) /\ i + 1 < j + 1
  BY <1>2
<1>4. /\ IsEcho(s[j + 1]) => s[i + 1].type # "stfu" /\ s[i + 1].type # "tx_abort"
      /\ ~(IsAbort(s[i + 1]) /\ IsAbort(s[j + 1]))
      /\ s[i + 1].type = "stfu" /\ s[j + 1].type = "stfu" => Between(s, i + 1, j + 1)
  BY <1>3 DEF Shape
<1>5. Between(s, i + 1, j + 1) => Between(t, i, j)
  BY <1>2, BetweenLess
<1>. QED  BY <1>2, <1>4, <1>5

\* Any message but an abort taken.
LEMMA OthersLess ==
    ASSUME NEW s \in Seq(Messages), NEW t \in Seq(Messages), Less(t, s), ~IsAbort(s[1])
    PROVE  /\ HasAbort(t) <=> HasAbort(s)
           /\ HasEcho(s) <=> HasEcho(t) \/ IsEcho(s[1])
           /\ \A b \in BOOLEAN : /\ FirstStfu(s, b) <=> FirstStfu(t, b) \/ IsStfu(s[1], b)
                                 /\ NextStfu(t, b) <=> NextStfu(s, b)
<1>1. Len(t) \in Nat /\ Len(s) = Len(t) + 1 /\ 1 \in 1..Len(s)
  BY DEF Less
<1>2. \A n \in 1..Len(t) : n + 1 \in 1..Len(s) /\ t[n] = s[n + 1] /\ n \in Nat
  BY <1>1 DEF Less
<1>3. \A n \in 1..Len(s) : n = 1 \/ (n - 1 \in 1..Len(t) /\ s[n] = t[n - 1] /\ n = (n - 1) + 1)
  BY <1>1 DEF Less
<1>4. \A n \in 1..Len(t) : Between(s, 0, n + 1) <=> Between(t, 0, n)
  BY <1>2, BetweenLess
<1>5. ~Between(s, 0, 1)
  BY DEF Between
<1>6. HasAbort(t) <=> HasAbort(s)
  <2>1. HasAbort(t) => HasAbort(s)
    BY <1>2 DEF HasAbort
  <2>2. HasAbort(s) => HasAbort(t)
    BY <1>3 DEF HasAbort
  <2>. QED  BY <2>1, <2>2
<1>7. HasEcho(s) <=> HasEcho(t) \/ IsEcho(s[1])
  <2>1. HasEcho(t) => HasEcho(s)
    BY <1>2 DEF HasEcho
  <2>2. HasEcho(s) => HasEcho(t) \/ IsEcho(s[1])
    BY <1>3 DEF HasEcho
  <2>3. IsEcho(s[1]) => HasEcho(s)
    BY <1>1 DEF HasEcho
  <2>. QED  BY <2>1, <2>2, <2>3
<1>8. ASSUME NEW b \in BOOLEAN
      PROVE  /\ FirstStfu(s, b) <=> FirstStfu(t, b) \/ IsStfu(s[1], b)
             /\ NextStfu(t, b) <=> NextStfu(s, b)
  <2>1. FirstStfu(t, b) => FirstStfu(s, b)
    BY <1>2, <1>4 DEF FirstStfu
  <2>2. IsStfu(s[1], b) => FirstStfu(s, b)
    BY <1>1, <1>5 DEF FirstStfu
  <2>3. FirstStfu(s, b) => FirstStfu(t, b) \/ IsStfu(s[1], b)
    BY <1>3, <1>4 DEF FirstStfu
  <2>4. NextStfu(t, b) => NextStfu(s, b)
    BY <1>2, <1>4 DEF NextStfu
  <2>5. NextStfu(s, b) => NextStfu(t, b)
    BY <1>3, <1>4, <1>5 DEF NextStfu
  <2>. QED  BY <2>1, <2>2, <2>3, <2>4, <2>5
<1>. QED  BY <1>6, <1>7, <1>8

\* A message of the channel taken.
LEMMA EndsLess ==
    ASSUME NEW s \in Seq(Messages), NEW t \in Seq(Messages), Less(t, s),
           s[1].type \notin {"stfu", "tx_abort"}
    PROVE  SameEnds(t, s)
<1>1. ~IsAbort(s[1]) /\ ~IsEcho(s[1]) /\ \A b \in BOOLEAN : ~IsStfu(s[1], b)
  BY DEF IsAbort, IsEcho, IsStfu
<1>. QED  BY <1>1, OthersLess, ShapeLess DEF SameEnds

\* An echo taken.
LEMMA EchoLess ==
    ASSUME NEW s \in Seq(Messages), NEW t \in Seq(Messages), Less(t, s), Shape(s), IsEcho(s[1])
    PROVE  /\ Shape(t) /\ HasEcho(s) /\ ~HasEcho(t) /\ (HasAbort(t) <=> HasAbort(s))
           /\ \A b \in BOOLEAN : (FirstStfu(t, b) <=> FirstStfu(s, b)) /\ (NextStfu(t, b) <=> NextStfu(s, b))
<1>1. ~IsAbort(s[1]) /\ s[1].type = "tx_abort" /\ \A b \in BOOLEAN : ~IsStfu(s[1], b)
  BY DEF IsAbort, IsEcho, IsStfu
<1>2. ASSUME NEW n \in 1..Len(t) PROVE ~IsEcho(t[n])
  <2>1. n + 1 \in 1..Len(s) /\ t[n] = s[n + 1] /\ 1 \in 1..Len(s) /\ 1 < n + 1
    BY DEF Less
  <2>. QED  BY <1>1, <2>1 DEF Shape
<1>. QED  BY <1>1, <1>2, OthersLess, ShapeLess DEF HasEcho

\* An stfu taken: it is the only one of its round, and no echo comes after it.
LEMMA StfuLess ==
    ASSUME NEW s \in Seq(Messages), NEW t \in Seq(Messages), Less(t, s), Shape(s),
           s[1] \in Messages, s[1].type = "stfu"
    PROVE  /\ Shape(t) /\ ~HasEcho(s) /\ ~HasEcho(t) /\ (HasAbort(t) <=> HasAbort(s))
           /\ \A b \in BOOLEAN : /\ ~FirstStfu(t, b) /\ (FirstStfu(s, b) <=> b = s[1].Initiator)
                                 /\ NextStfu(t, b) <=> NextStfu(s, b)
<1>1. ~IsAbort(s[1]) /\ ~IsEcho(s[1]) /\ \A b \in BOOLEAN : IsStfu(s[1], b) <=> b = s[1].Initiator
  BY Kinds
<1>2. ASSUME NEW n \in 1..Len(t) PROVE ~IsEcho(t[n]) /\ (t[n].type = "stfu" => Between(t, 0, n))
  <2>1. n + 1 \in 1..Len(s) /\ t[n] = s[n + 1] /\ 1 \in 1..Len(s) /\ 1 < n + 1 /\ n \in Nat /\ 0 + 1 = 1
    BY DEF Less
  <2>2. ~IsEcho(t[n]) /\ (t[n].type = "stfu" => Between(s, 1, n + 1))
    BY <2>1 DEF Shape
  <2>3. Between(s, 0 + 1, n + 1) => Between(t, 0, n)
    BY <2>1, BetweenLess
  <2>. QED  BY <2>1, <2>2, <2>3
<1>3. ~HasEcho(t) /\ \A b \in BOOLEAN : ~FirstStfu(t, b)
  BY <1>2 DEF HasEcho, FirstStfu, IsStfu
<1>. QED  BY <1>1, <1>3, OthersLess, ShapeLess

\* An abort taken: the stfu after it is one of the round that begins.
LEMMA AbortLess ==
    ASSUME NEW s \in Seq(Messages), NEW t \in Seq(Messages), Less(t, s), Shape(s), IsAbort(s[1])
    PROVE  /\ Shape(t) /\ HasAbort(s) /\ ~HasEcho(s) /\ ~HasEcho(t) /\ ~HasAbort(t)
           /\ \A b \in BOOLEAN : ~FirstStfu(s, b) /\ (FirstStfu(t, b) <=> NextStfu(s, b)) /\ ~NextStfu(t, b)
<1>1. ~IsEcho(s[1]) /\ s[1].type = "tx_abort" /\ \A b \in BOOLEAN : ~IsStfu(s[1], b)
  BY DEF IsAbort, IsEcho, IsStfu
<1>2. Len(t) \in Nat /\ Len(s) = Len(t) + 1 /\ 1 \in 1..Len(s)
  BY DEF Less
<1>3. \A n \in 1..Len(t) : n + 1 \in 1..Len(s) /\ t[n] = s[n + 1] /\ n \in Nat /\ 1 < n + 1 /\ n > 0
  BY <1>2 DEF Less
<1>4. \A n \in 1..Len(s) : n = 1 \/ (n - 1 \in 1..Len(t) /\ s[n] = t[n - 1] /\ n = (n - 1) + 1)
  BY <1>2 DEF Less
<1>5. ASSUME NEW n \in 1..Len(t) PROVE ~IsEcho(t[n]) /\ ~IsAbort(t[n])
  BY <1>1, <1>2, <1>3 DEF Shape
<1>6. \A n \in 1..Len(t) : Between(s, 0, n + 1) /\ ~Between(t, 0, n)
  BY <1>3, <1>5, BetweenLess DEF Between
<1>7. HasAbort(s) /\ ~HasEcho(s) /\ ~HasEcho(t) /\ ~HasAbort(t)
  BY <1>1, <1>2, <1>4, <1>5 DEF HasAbort, HasEcho
<1>8. ASSUME NEW b \in BOOLEAN
      PROVE  ~FirstStfu(s, b) /\ (FirstStfu(t, b) <=> NextStfu(s, b)) /\ ~NextStfu(t, b)
  <2>1. ~FirstStfu(s, b)
    BY <1>1, <1>4, <1>6 DEF FirstStfu
  <2>2. ~NextStfu(t, b)
    BY <1>6 DEF NextStfu
  <2>3. FirstStfu(t, b) => NextStfu(s, b)
    BY <1>3, <1>6 DEF FirstStfu, NextStfu
  <2>4. NextStfu(s, b) => FirstStfu(t, b)
    BY <1>1, <1>4, <1>6 DEF FirstStfu, NextStfu
  <2>. QED  BY <2>1, <2>2, <2>3, <2>4
<1>. QED  BY <1>7, <1>8, ShapeLess

-----------------------------------------------------------------------------
(* The two nodes. *)

Quiescers ==
    [localInit : BOOLEAN, remoteInit : BOOLEAN, sent : BOOLEAN, received : BOOLEAN,
     refuse : BOOLEAN, timer : BOOLEAN,
     req : {"none", "pending", "Local", "Remote", "refused", "error"}, resumeQueue : Nat]
Machines ==
    [inbox : Seq([type : {"tx_abort"}, reason : BOOLEAN]), abortSent : BOOLEAN, resuming : BOOLEAN]
Views == [id : Node, c : Channels, k : Quiescers, tx : BOOLEAN, m : Machines, late : BOOLEAN]

\* Both directions between nodes x and y; p is on its way to y, r to x.
Sides(x, y, p, r) == Quiet(x, y, p) /\ Quiet(y, x, r) /\ Rounds(x, y, p, r)

\* The quiescer's flags that matter here, the machine and its channel's owner.
SameFlags(v, x) ==
    /\ v.id = x.id /\ v.tx = x.tx /\ v.m = x.m
    /\ v.k.localInit = x.k.localInit /\ v.k.remoteInit = x.k.remoteInit
    /\ v.k.sent = x.k.sent /\ v.k.received = x.k.received /\ v.k.req = x.k.req

LEMMA RoundsSym ==
    ASSUME NEW x, NEW y, NEW p, NEW r
    PROVE  Rounds(x, y, p, r) => Rounds(y, x, r, p)
  BY DEF Rounds

\* The fields of a node.
LEMMA ViewTypes ==
    ASSUME NEW v \in Views
    PROVE  /\ v.k \in Quiescers /\ v.m \in Machines /\ v.tx \in BOOLEAN /\ v.id \in Node
           /\ v.k.localInit \in BOOLEAN /\ v.k.remoteInit \in BOOLEAN
           /\ v.k.sent \in BOOLEAN /\ v.k.received \in BOOLEAN /\ v.late \in BOOLEAN
           /\ v.m.abortSent \in BOOLEAN /\ v.m.resuming \in BOOLEAN
           /\ v.m.inbox \in Seq([type : {"tx_abort"}, reason : BOOLEAN])
  BY DEF Views, Quiescers, Machines

\* What the machine has to handle.
LEMMA InboxFacts ==
    ASSUME NEW v \in Views
    PROVE  /\ v.m.inbox = <<>> <=> ~Told(v) /\ ~Echoed(v)
           /\ \A w \in Views : w.m.inbox = v.m.inbox =>
                 (Told(w) <=> Told(v)) /\ (Echoed(w) <=> Echoed(v)) /\ (InboxOK(w) <=> InboxOK(v))
<1>1. v.m.inbox \in Seq([type : {"tx_abort"}, reason : BOOLEAN])
  BY ViewTypes
<1>2. v.m.inbox = <<>> <=> ~Told(v) /\ ~Echoed(v)
  <2>1. v.m.inbox # <<>> => 1 \in 1..Len(v.m.inbox)
    BY <1>1
  <2>2. v.m.inbox = <<>> => Len(v.m.inbox) = 0
    BY <1>1
  <2>. QED  BY <2>1, <2>2 DEF Told, Echoed
<1>. QED  BY <1>2 DEF Told, Echoed, InboxOK

LEMMA InboxAppend ==
    ASSUME NEW v \in Views, NEW w \in Views, NEW m \in Messages, m.type = "tx_abort",
           w.m.inbox = Append(v.m.inbox, m)
    PROVE  /\ Told(w) <=> Told(v) \/ IsAbort(m)
           /\ Echoed(w) <=> Echoed(v) \/ IsEcho(m)
           /\ InboxOK(v) /\ ~Told(v) /\ (IsEcho(m) => ~Echoed(v)) => InboxOK(w)
<1>. DEFINE s == v.m.inbox
            t == w.m.inbox
<1>1. s \in Seq([type : {"tx_abort"}, reason : BOOLEAN]) /\ t = Append(s, m)
  BY ViewTypes
<1>2. (IsAbort(m) <=> m.reason) /\ (IsEcho(m) <=> ~m.reason)
  BY DEF IsAbort, IsEcho
<1>3. /\ Len(s) \in Nat /\ Len(t) = Len(s) + 1 /\ t[Len(t)] = m
      /\ \A i \in 1..Len(s) : t[i] = s[i] /\ i \in 1..Len(t)
      /\ \A i \in 1..Len(t) : i \in 1..Len(s) \/ i = Len(t)
      /\ Len(t) \in 1..Len(t)
  BY <1>1
<1>. HIDE DEF s, t
<1>4. Told(w) <=> Told(v) \/ IsAbort(m)
  <2>1. Told(w) <=> \E i \in 1..Len(t) : t[i].reason
    BY DEF t, Told
  <2>2. Told(v) <=> \E i \in 1..Len(s) : s[i].reason
    BY DEF s, Told
  <2>. QED  BY <1>2, <1>3, <2>1, <2>2
<1>5. Echoed(w) <=> Echoed(v) \/ IsEcho(m)
  <2>1. Echoed(w) <=> \E i \in 1..Len(t) : ~t[i].reason
    BY DEF t, Echoed
  <2>2. Echoed(v) <=> \E i \in 1..Len(s) : ~s[i].reason
    BY DEF s, Echoed
  <2>. QED  BY <1>2, <1>3, <2>1, <2>2
<1>6. ASSUME InboxOK(v), ~Told(v), IsEcho(m) => ~Echoed(v) PROVE InboxOK(w)
  <2>1. \A i, j \in 1..Len(s) : i < j => ~s[i].reason /\ s[j].reason
    BY <1>6 DEF InboxOK, s
  <2>2. \A i \in 1..Len(s) : ~s[i].reason /\ m.reason
    BY <1>2, <1>6 DEF Told, Echoed, s
  <2>3. \A i, j \in 1..Len(t) : i < j => ~t[i].reason /\ t[j].reason
    BY <1>3, <2>1, <2>2
  <2>. QED  BY <2>3 DEF InboxOK, t
<1>. QED  BY <1>4, <1>5, <1>6

LEMMA InboxTail ==
    ASSUME NEW v \in Views, NEW w \in Views, v.m.inbox # <<>>, w.m.inbox = Tail(v.m.inbox), InboxOK(v)
    PROVE  /\ InboxOK(w) /\ ~Echoed(w)
           /\ Head(v.m.inbox).reason => Told(v) /\ ~Echoed(v) /\ ~Told(w)
           /\ ~Head(v.m.inbox).reason => Echoed(v) /\ (Told(w) <=> Told(v))
<1>. DEFINE s == v.m.inbox
            t == w.m.inbox
<1>1. s \in Seq([type : {"tx_abort"}, reason : BOOLEAN]) /\ t = Tail(s) /\ s # <<>>
  BY ViewTypes
<1>2. Less(t, s) /\ Head(s) = s[1] /\ Len(s) \in Nat /\ Len(s) >= 1
  BY <1>1, TailLess
<1>3. Len(t) \in Nat /\ Len(s) = Len(t) + 1 /\ 1 \in 1..Len(s)
  BY <1>1, <1>2 DEF Less
<1>4. \A n \in 1..Len(t) : n + 1 \in 1..Len(s) /\ t[n] = s[n + 1] /\ n \in Nat /\ 1 < n + 1
  BY <1>2, <1>3 DEF Less
<1>5. \A n \in 1..Len(s) : n = 1 \/ (n - 1 \in 1..Len(t) /\ s[n] = t[n - 1])
  BY <1>2, <1>3 DEF Less
<1>. HIDE DEF s, t
<1>6. \A i, j \in 1..Len(s) : i < j => ~s[i].reason /\ s[j].reason
  BY DEF InboxOK, s
<1>7. \A n \in 1..Len(t) : t[n].reason /\ ~s[1].reason
  BY <1>3, <1>4, <1>6
<1>8. ~Echoed(w) /\ InboxOK(w)
  <2>1. ASSUME NEW i \in 1..Len(t), NEW j \in 1..Len(t), i < j PROVE FALSE
    <3>1. i + 1 \in 1..Len(s) /\ j + 1 \in 1..Len(s) /\ i + 1 < j + 1 /\ t[i] = s[i + 1]
      BY <1>4, <2>1
    <3>. QED  BY <1>6, <1>7, <3>1
  <2>. QED  BY <1>7, <2>1 DEF Echoed, InboxOK, t
<1>9. s[1].reason => Told(v) /\ ~Echoed(v) /\ ~Told(w)
  <2>1. s[1].reason => \A n \in 1..Len(t) : FALSE
    BY <1>7
  <2>2. s[1].reason => \A n \in 1..Len(s) : n = 1
    BY <1>5, <2>1
  <2>. QED  BY <1>3, <2>1, <2>2 DEF Told, Echoed, s, t
<1>10. ~s[1].reason => Echoed(v) /\ (Told(w) <=> Told(v))
  <2>1. ~s[1].reason => Echoed(v)
    BY <1>3 DEF Echoed, s
  <2>2. Told(w) => Told(v)
    BY <1>4 DEF Told, s, t
  <2>3. ~s[1].reason /\ Told(v) => Told(w)
    BY <1>5 DEF Told, s, t
  <2>. QED  BY <2>1, <2>2, <2>3
<1>. QED  BY <1>2, <1>8, <1>9, <1>10 DEF s

\* The rounds do not depend on the channel.
LEMMA RoundsSame ==
    ASSUME NEW x \in Views, NEW y \in Views, NEW p, NEW r, Rounds(x, y, p, r),
           NEW x2 \in Views, NEW p2, NEW r2, SameFlags(x2, x), SameEnds(p2, p), SameEnds(r2, r)
    PROVE  Rounds(x2, y, p2, r2)
<1>1. (Told(x2) <=> Told(x)) /\ (Echoed(x2) <=> Echoed(x)) /\ (InboxOK(x2) <=> InboxOK(x))
  BY InboxFacts DEF SameFlags
<1>2. /\ (IsQuiescent(x2.k) <=> IsQuiescent(x.k)) /\ (Wins(x2) <=> Wins(x))
  BY DEF SameFlags, IsQuiescent, Wins
<1>3. FlagsOK(x2) /\ InboxOK(x2)
  BY <1>1, <1>2 DEF Rounds, FlagsOK, SameFlags
<1>4. TRUE \in BOOLEAN /\ FALSE \in BOOLEAN
  OBVIOUS
<1>5. /\ (HasFirst(p2) <=> HasFirst(p)) /\ (HasNext(p2) <=> HasNext(p))
      /\ (HasFirst(r2) <=> HasFirst(r)) /\ (HasNext(r2) <=> HasNext(r))
  BY <1>4 DEF HasFirst, HasNext, SameEnds
<1>6. PipeOK(y, p2) /\ PipeOK(x2, r2)
  BY <1>1 DEF Rounds, PipeOK, SameFlags, SameEnds
<1>7. Token(x2, y, p2, r2) /\ Token(y, x2, r2, p2)
  BY <1>1, <1>4 DEF Rounds, Token, SameFlags, SameEnds
<1>8. Level(x, y, p) /\ Level(y, x, r) => Level(x2, y, p2) /\ Level(y, x2, r2)
  <2>1. Level(x, y, p) => Level(x2, y, p2)
    BY <1>1, <1>4, <1>5 DEF Level, SameFlags, SameEnds
  <2>2. Level(y, x, r) => Level(y, x2, r2)
    BY <1>1, <1>4, <1>5 DEF Level, SameFlags, SameEnds
  <2>. QED  BY <2>1, <2>2
<1>9. Ahead(x, y, p, r) => Ahead(x2, y, p2, r2)
  BY <1>1, <1>4, <1>5 DEF Ahead, SameFlags, SameEnds
<1>10. Ahead(y, x, r, p) => Ahead(y, x2, r2, p2)
  BY <1>1, <1>4, <1>5 DEF Ahead, SameFlags, SameEnds
<1>. QED  BY <1>3, <1>6, <1>7, <1>8, <1>9, <1>10 DEF Rounds

\* A node makes updates only where none is forbidden: an stfu of its own that is
\* on its way is followed by an abort, and a peer that has read one knows of its end.
LEMMA UpdatesAllowed ==
    ASSUME NEW x \in Views, NEW y \in Views, NEW p \in Seq(Messages), NEW r \in Seq(Messages),
           Rounds(x, y, p, r), ~x.k.sent
    PROVE  /\ HasFirst(p) => HasAbort(p)
           /\ ~HasNext(p)
           /\ y.k.received => y.tx \/ HasAbort(p) \/ HasEcho(p)
<1>1. ~HasAbort(p) => ~HasNext(p)
  BY NextAfterAbort
<1>2. CASE Level(x, y, p) /\ Level(y, x, r)
  BY <1>2 DEF Level
<1>3. CASE Ahead(x, y, p, r)
  BY <1>1, <1>3 DEF Ahead, Rounds, FlagsOK, Token, IsQuiescent
<1>4. CASE Ahead(y, x, r, p)
  BY <1>4 DEF Ahead
<1>. QED  BY <1>2, <1>3, <1>4 DEF Rounds

\* An stfu that is sent is the only one of its round.
LEMMA StfuOwed ==
    ASSUME NEW x \in Views, NEW y \in Views, NEW p \in Seq(Messages), NEW r \in Seq(Messages),
           Rounds(x, y, p, r), ~x.k.sent, x.k.received \/ x.k.localInit
    PROVE  ~HasNext(p) /\ (HasAbort(p) \/ ~HasFirst(p))
  BY UpdatesAllowed

\* A node sends the stfu it owes.
LEMMA StfuSentRounds ==
    ASSUME NEW x \in Views, NEW y \in Views, NEW p \in Seq(Messages), NEW r \in Seq(Messages),
           Rounds(x, y, p, r), ~x.k.sent, x.k.received \/ x.k.localInit,
           NEW x2 \in Views, NEW p2 \in Seq(Messages), NEW e \in Messages, More(p2, p, 1, e),
           e.type = "stfu", e.Initiator = x.k.localInit,
           x2.id = x.id, x2.tx = x.tx, x2.m = x.m, x2.k.sent,
           x2.k.localInit = x.k.localInit, x2.k.remoteInit = x.k.remoteInit,
           x2.k.received = x.k.received,
           x2.k.req = IF x.k.received /\ x.k.req = "pending"
                      THEN IF Wins(x) THEN "Local" ELSE "Remote" ELSE x.k.req
    PROVE  Rounds(x2, y, p2, r)
<1>1. (Told(x2) <=> Told(x)) /\ (Echoed(x2) <=> Echoed(x)) /\ (InboxOK(x2) <=> InboxOK(x))
  BY InboxFacts
<1>2. Wins(x2) <=> Wins(x)
  BY DEF Wins
<1>3. ~x.tx /\ ~x.m.resuming /\ ~Told(x) /\ ~HasAbort(r) /\ x.k.req # "Local"
  BY DEF Rounds, FlagsOK, PipeOK, IsQuiescent
<1>4. FlagsOK(x2) /\ InboxOK(x2)
  BY <1>1, <1>2, <1>3 DEF Rounds, FlagsOK, IsQuiescent
<1>5. ~HasNext(p) /\ (HasAbort(p) \/ ~HasFirst(p))
  BY StfuOwed
<1>6. /\ HasAbort(p2) <=> HasAbort(p)
      /\ HasEcho(p2) <=> HasEcho(p)
      /\ Shape(p2)
      /\ FirstStfu(p2, TRUE) <=> FirstStfu(p, TRUE) \/ (~HasAbort(p) /\ x.k.localInit)
      /\ FirstStfu(p2, FALSE) <=> FirstStfu(p, FALSE) \/ (~HasAbort(p) /\ ~x.k.localInit)
      /\ NextStfu(p2, TRUE) <=> NextStfu(p, TRUE) \/ (HasAbort(p) /\ x.k.localInit)
      /\ NextStfu(p2, FALSE) <=> NextStfu(p, FALSE) \/ (HasAbort(p) /\ ~x.k.localInit)
  <2>1. Shape(p) /\ TRUE \in BOOLEAN /\ FALSE \in BOOLEAN /\ x.k.localInit \in BOOLEAN
    BY ViewTypes DEF Rounds, PipeOK
  <2>2. /\ HasAbort(p2) <=> HasAbort(p)
        /\ HasEcho(p2) <=> HasEcho(p)
        /\ Shape(p) /\ ~HasNext(p) /\ (HasAbort(p) \/ ~HasFirst(p)) => Shape(p2)
        /\ \A b \in BOOLEAN :
              /\ FirstStfu(p2, b) <=> FirstStfu(p, b) \/ (~HasAbort(p) /\ b = x.k.localInit)
              /\ NextStfu(p2, b) <=> NextStfu(p, b) \/ (HasAbort(p) /\ b = x.k.localInit)
    BY StfuMore
  <2>. QED  BY <1>5, <2>1, <2>2
<1>7. PipeOK(y, p2) /\ PipeOK(x2, r)
  BY <1>1, <1>3, <1>6 DEF Rounds, PipeOK
<1>8. Token(x2, y, p2, r) /\ Token(y, x2, r, p2)
  BY <1>1, <1>3, <1>6 DEF Rounds, Token
<1>9. CASE Level(x, y, p) /\ Level(y, x, r)
  <2>1. ~HasAbort(p) /\ ~HasFirst(p) /\ ~y.m.resuming /\ ~y.k.received
    BY <1>3, <1>9 DEF Level
  <2>2. x2.k.req = "Local" => Wins(x) /\ x.k.received
    BY <1>3
  <2>3. Level(x2, y, p2)
    BY <1>1, <1>3, <1>6, <1>9, <2>1 DEF Level, HasFirst, HasNext
  <2>4. Level(y, x2, r)
    BY <1>1, <1>3, <1>6, <1>9, <2>1 DEF Level
  <2>. QED  BY <1>4, <1>7, <1>8, <2>3, <2>4 DEF Rounds
<1>10. CASE Ahead(x, y, p, r)
  <2>1. x.k.localInit /\ ~x.k.received
    BY <1>10 DEF Ahead
  <2>2. Ahead(x2, y, p2, r)
    BY <1>1, <1>3, <1>6, <1>10, <2>1 DEF Ahead, HasFirst, HasNext
  <2>. QED  BY <1>4, <1>7, <1>8, <2>2 DEF Rounds
<1>11. CASE Ahead(y, x, r, p)
  BY <1>11 DEF Ahead
<1>. QED  BY <1>9, <1>10, <1>11 DEF Rounds

\* An stfu that comes is valid, or meets a quiescence that is about to end.
LEMMA StfuExpected ==
    ASSUME NEW x \in Views, NEW y \in Views, NEW p \in Seq(Messages), NEW r \in Seq(Messages),
           Rounds(x, y, p, r), r[1] \in Messages, r[1].type = "stfu",
           NEW r2 \in Seq(Messages), Less(r2, r)
    PROVE  /\ x.k.received => x.m.resuming \/ x.m.inbox # <<>>
           /\ ~x.k.received => x.k.sent \/ r[1].Initiator
<1>1. /\ HasFirst(r) /\ (FirstStfu(r, TRUE) <=> r[1].Initiator) /\ (FirstStfu(r, FALSE) <=> ~r[1].Initiator)
  <2>1. Shape(r) /\ TRUE \in BOOLEAN /\ FALSE \in BOOLEAN /\ r[1].Initiator \in BOOLEAN
    BY Kinds DEF Rounds, PipeOK
  <2>2. \A b \in BOOLEAN : FirstStfu(r, b) <=> b = r[1].Initiator
    BY <2>1, StfuLess
  <2>. QED  BY <2>1, <2>2 DEF HasFirst
<1>2. Told(x) => x.m.inbox # <<>>
  BY InboxFacts
<1>3. CASE Level(x, y, p) /\ Level(y, x, r)
  BY <1>1, <1>3 DEF Level, Rounds, FlagsOK
<1>4. CASE Ahead(x, y, p, r)
  BY <1>1, <1>4 DEF Ahead
<1>5. CASE Ahead(y, x, r, p)
  BY <1>1, <1>2, <1>5 DEF Ahead
<1>. QED  BY <1>3, <1>4, <1>5 DEF Rounds

\* A node reads an stfu.
LEMMA StfuReadRounds ==
    ASSUME NEW x \in Views, NEW y \in Views, NEW p \in Seq(Messages), NEW r \in Seq(Messages),
           Rounds(x, y, p, r), x.id # y.id, r[1] \in Messages, r[1].type = "stfu",
           ~x.k.received,
           NEW x2 \in Views, NEW r2 \in Seq(Messages), Less(r2, r),
           x2.id = x.id, x2.tx = x.tx, x2.m = x.m, x2.k.received,
           x2.k.localInit = x.k.localInit, x2.k.remoteInit = r[1].Initiator,
           x2.k.sent = x.k.sent,
           x2.k.req = IF x.k.sent /\ x.k.req = "pending"
                      THEN IF Wins(x2) THEN "Local" ELSE "Remote" ELSE x.k.req
    PROVE  Rounds(x2, y, p, r2)
<1>1. (Told(x2) <=> Told(x)) /\ (Echoed(x2) <=> Echoed(x)) /\ (InboxOK(x2) <=> InboxOK(x))
  BY InboxFacts
<1>2. /\ Shape(r2) /\ ~HasEcho(r) /\ ~HasEcho(r2) /\ (HasAbort(r2) <=> HasAbort(r))
      /\ ~HasFirst(r2) /\ HasFirst(r) /\ (HasNext(r2) <=> HasNext(r))
      /\ ~FirstStfu(r2, TRUE) /\ ~FirstStfu(r2, FALSE)
      /\ FirstStfu(r, TRUE) <=> r[1].Initiator
      /\ FirstStfu(r, FALSE) <=> ~r[1].Initiator
      /\ NextStfu(r2, FALSE) <=> NextStfu(r, FALSE)
  <2>1. Shape(r) /\ TRUE \in BOOLEAN /\ FALSE \in BOOLEAN /\ r[1].Initiator \in BOOLEAN
    BY Kinds DEF Rounds, PipeOK
  <2>2. /\ Shape(r2) /\ ~HasEcho(r) /\ ~HasEcho(r2) /\ (HasAbort(r2) <=> HasAbort(r))
        /\ \A b \in BOOLEAN : /\ ~FirstStfu(r2, b) /\ (FirstStfu(r, b) <=> b = r[1].Initiator)
                              /\ NextStfu(r2, b) <=> NextStfu(r, b)
    BY <2>1, StfuLess
  <2>. QED  BY <2>1, <2>2 DEF HasFirst, HasNext
<1>3. ~x.tx /\ ~x.m.resuming /\ ~Told(x) /\ x.k.req # "Local"
  BY DEF Rounds, FlagsOK, IsQuiescent
<1>4. x.k.sent \/ r[1].Initiator
  BY StfuExpected
<1>5. FlagsOK(x2) /\ InboxOK(x2)
  <2>1. x.k.sent /\ ~x.k.localInit => x.k.received
    BY DEF Rounds, FlagsOK
  <2>2. x.k.req = "pending" => x.k.localInit
    BY DEF Rounds, FlagsOK
  <2>. QED  BY <1>1, <1>3, <1>4, <2>1, <2>2 DEF Rounds, FlagsOK, IsQuiescent
<1>6. PipeOK(y, p) /\ PipeOK(x2, r2)
  BY <1>1, <1>2, <1>3 DEF Rounds, PipeOK
<1>7. Token(x2, y, p, r2) /\ Token(y, x2, r2, p)
  BY <1>1, <1>2, <1>3 DEF Rounds, Token
<1>8. CASE Level(x, y, p) /\ Level(y, x, r)
  <2>1. y.k.sent /\ (r[1].Initiator <=> y.k.localInit)
    BY <1>2, <1>8 DEF Level
  <2>2. Level(y, x2, r2)
    BY <1>1, <1>2, <1>3, <1>8, <2>1 DEF Level
  <2>3. ~y.m.resuming \/ HasAbort(r)
    BY <1>3, <1>8 DEF Level
  <2>4. x2.k.req = "Local" => ~y.m.resuming
    <3>. SUFFICES ASSUME x2.k.req = "Local", HasAbort(r) PROVE FALSE
      BY <2>3
    <3>1. Wins(x2) /\ r[1].Initiator
      BY <1>2, <1>3 DEF Rounds, Token
    <3>2. x.id # Opener \/ ~x.k.localInit
      BY <1>2, <3>1 DEF Rounds, Token
    <3>. QED  BY <3>1, <3>2 DEF Wins
  <2>5. Level(x2, y, p)
    BY <1>1, <1>2, <1>3, <1>8, <2>4 DEF Level
  <2>. QED  BY <1>5, <1>6, <1>7, <2>2, <2>5 DEF Rounds
<1>9. CASE Ahead(x, y, p, r)
  BY <1>2, <1>9 DEF Ahead
<1>10. CASE Ahead(y, x, r, p)
  <2>1. HasAbort(r) /\ x.k.sent
    BY <1>3, <1>10 DEF Ahead
  <2>2. x2.k.req # "Local"
    <3>1. r[1].Initiator /\ (x.id # Opener \/ ~x.k.localInit)
      BY <1>2, <2>1 DEF Rounds, Token
    <3>. QED  BY <1>3, <3>1 DEF Wins
  <2>3. Ahead(y, x2, r2, p)
    BY <1>1, <1>2, <1>3, <1>10, <2>1, <2>2 DEF Ahead
  <2>. QED  BY <1>5, <1>6, <1>7, <2>3 DEF Rounds
<1>. QED  BY <1>8, <1>9, <1>10 DEF Rounds

\* Once a node had the peer's tx_abort, or the echo of its own, no other is on its
\* way to it.
LEMMA OneAbort ==
    ASSUME NEW x \in Views, NEW y \in Views, NEW p \in Seq(Messages), NEW r \in Seq(Messages),
           Rounds(x, y, p, r), x.tx
    PROVE  ~Has(r, "tx_abort")
<1>1. ~HasEcho(r) /\ ~HasAbort(r)
  BY DEF Rounds, PipeOK, FlagsOK
<1>2. ASSUME NEW i \in 1..Len(r) PROVE r[i].type # "tx_abort"
  <2>1. r[i] \in Messages /\ ~IsEcho(r[i]) /\ ~IsAbort(r[i])
    BY <1>1 DEF HasEcho, HasAbort
  <2>. QED  BY <2>1, Kinds
<1>. QED  BY <1>2 DEF Has

\* A node that reads a tx_abort and has read the peer's stfu is quiescent.
LEMMA AbortMeets ==
    ASSUME NEW x \in Views, NEW y \in Views, NEW p \in Seq(Messages), NEW r \in Seq(Messages),
           Rounds(x, y, p, r), Has(r, "tx_abort"), x.k.received
    PROVE  IsQuiescent(x.k)
<1>1. PICK i \in 1..Len(r) : r[i].type = "tx_abort"
  BY DEF Has
<1>2. HasEcho(r) \/ HasAbort(r)
  <2>1. r[i] \in Messages
    OBVIOUS
  <2>. QED  BY <1>1, <2>1, Kinds DEF HasEcho, HasAbort
<1>. QED  BY <1>2 DEF Rounds, PipeOK, FlagsOK, IsQuiescent

\* A node reads the echo of its abort.
LEMMA EchoReadRounds ==
    ASSUME NEW x \in Views, NEW y \in Views, NEW p \in Seq(Messages), NEW r \in Seq(Messages),
           Rounds(x, y, p, r), r[1] \in Messages, IsEcho(r[1]),
           NEW x2 \in Views, NEW r2 \in Seq(Messages), Less(r2, r),
           x2.id = x.id, x2.k = x.k, x2.tx = (x.tx \/ IsQuiescent(x.k)),
           x2.m.abortSent = x.m.abortSent, x2.m.resuming = x.m.resuming,
           x2.m.inbox = Append(x.m.inbox, r[1])
    PROVE  Rounds(x2, y, p, r2)
<1>1. /\ Shape(r2) /\ HasEcho(r) /\ ~HasEcho(r2) /\ (HasAbort(r2) <=> HasAbort(r))
      /\ (FirstStfu(r2, TRUE) <=> FirstStfu(r, TRUE)) /\ (FirstStfu(r2, FALSE) <=> FirstStfu(r, FALSE))
      /\ (NextStfu(r2, TRUE) <=> NextStfu(r, TRUE)) /\ (NextStfu(r2, FALSE) <=> NextStfu(r, FALSE))
      /\ (HasFirst(r2) <=> HasFirst(r)) /\ (HasNext(r2) <=> HasNext(r))
  <2>1. Shape(r) /\ TRUE \in BOOLEAN /\ FALSE \in BOOLEAN
    BY DEF Rounds, PipeOK
  <2>2. /\ Shape(r2) /\ HasEcho(r) /\ ~HasEcho(r2) /\ (HasAbort(r2) <=> HasAbort(r))
        /\ \A b \in BOOLEAN : (FirstStfu(r2, b) <=> FirstStfu(r, b)) /\ (NextStfu(r2, b) <=> NextStfu(r, b))
    BY <2>1, EchoLess
  <2>. QED  BY <2>1, <2>2 DEF HasFirst, HasNext
<1>2. ~x.tx /\ ~Told(x) /\ ~Echoed(x) /\ x.m.abortSent /\ (x.k.received => x.m.resuming)
  BY <1>1 DEF Rounds, PipeOK, Token, FlagsOK
<1>3. Echoed(x2) /\ ~Told(x2) /\ InboxOK(x2)
  <2>1. r[1].type = "tx_abort" /\ ~IsAbort(r[1])
    BY DEF IsEcho, IsAbort
  <2>2. /\ Told(x2) <=> Told(x) \/ IsAbort(r[1])
        /\ Echoed(x2) <=> Echoed(x) \/ IsEcho(r[1])
        /\ InboxOK(x) /\ ~Told(x) /\ (IsEcho(r[1]) => ~Echoed(x)) => InboxOK(x2)
    BY <2>1, InboxAppend
  <2>. QED  BY <1>2, <2>1, <2>2 DEF Rounds
<1>4. FlagsOK(x2)
  <2>1. x2.tx <=> IsQuiescent(x.k)
    BY <1>2
  <2>2. IsQuiescent(x.k) => x.m.resuming
    BY <1>2 DEF IsQuiescent
  <2>3. Wins(x2) <=> Wins(x)
    BY DEF Wins
  <2>. QED  BY <1>2, <1>3, <2>1, <2>2, <2>3 DEF Rounds, FlagsOK
<1>5. PipeOK(y, p) /\ PipeOK(x2, r2)
  BY <1>1, <1>2, <1>3 DEF Rounds, PipeOK
<1>6. Token(x2, y, p, r2) /\ Token(y, x2, r2, p)
  BY <1>1, <1>2, <1>3 DEF Rounds, Token
<1>7. Level(x, y, p) /\ Level(y, x, r) => Level(x2, y, p) /\ Level(y, x2, r2)
  BY <1>1, <1>2, <1>3 DEF Level
<1>8. Ahead(x, y, p, r) => Ahead(x2, y, p, r2)
  BY <1>1, <1>2, <1>3 DEF Ahead
<1>9. Ahead(y, x, r, p) => Ahead(y, x2, r2, p)
  BY <1>1, <1>2, <1>3 DEF Ahead
<1>. QED  BY <1>3, <1>4, <1>5, <1>6, <1>7, <1>8, <1>9 DEF Rounds

\* A node reads the peer's abort.
LEMMA AbortReadRounds ==
    ASSUME NEW x \in Views, NEW y \in Views, NEW p \in Seq(Messages), NEW r \in Seq(Messages),
           Rounds(x, y, p, r), r[1] \in Messages, IsAbort(r[1]),
           NEW x2 \in Views, NEW r2 \in Seq(Messages), Less(r2, r),
           x2.id = x.id, x2.k = x.k, x2.tx = (x.tx \/ IsQuiescent(x.k)),
           x2.m.abortSent = x.m.abortSent, x2.m.resuming = x.m.resuming,
           x2.m.inbox = Append(x.m.inbox, r[1])
    PROVE  Rounds(x2, y, p, r2)
<1>1. /\ Shape(r2) /\ HasAbort(r) /\ ~HasEcho(r) /\ ~HasEcho(r2) /\ ~HasAbort(r2)
      /\ ~FirstStfu(r, TRUE) /\ ~FirstStfu(r, FALSE) /\ ~NextStfu(r2, TRUE) /\ ~NextStfu(r2, FALSE)
      /\ (FirstStfu(r2, TRUE) <=> NextStfu(r, TRUE)) /\ (FirstStfu(r2, FALSE) <=> NextStfu(r, FALSE))
      /\ ~HasFirst(r) /\ (HasFirst(r2) <=> HasNext(r)) /\ ~HasNext(r2)
  <2>1. Shape(r) /\ TRUE \in BOOLEAN /\ FALSE \in BOOLEAN
    BY DEF Rounds, PipeOK
  <2>2. /\ Shape(r2) /\ HasAbort(r) /\ ~HasEcho(r) /\ ~HasEcho(r2) /\ ~HasAbort(r2)
        /\ \A b \in BOOLEAN : ~FirstStfu(r, b) /\ (FirstStfu(r2, b) <=> NextStfu(r, b)) /\ ~NextStfu(r2, b)
    BY <2>1, AbortLess
  <2>. QED  BY <2>1, <2>2 DEF HasFirst, HasNext
<1>2. ~x.tx /\ ~Told(x) /\ ~x.m.resuming /\ x.k.sent
  BY <1>1 DEF Rounds, PipeOK, FlagsOK
<1>3. (Echoed(x2) <=> Echoed(x)) /\ Told(x2) /\ InboxOK(x2)
  <2>1. r[1].type = "tx_abort" /\ ~IsEcho(r[1])
    BY DEF IsEcho, IsAbort
  <2>2. /\ Told(x2) <=> Told(x) \/ IsAbort(r[1])
        /\ Echoed(x2) <=> Echoed(x) \/ IsEcho(r[1])
        /\ InboxOK(x) /\ ~Told(x) /\ (IsEcho(r[1]) => ~Echoed(x)) => InboxOK(x2)
    BY <2>1, InboxAppend
  <2>. QED  BY <1>2, <2>1, <2>2 DEF Rounds
<1>4. ~Ahead(x, y, p, r)
  BY <1>1 DEF Ahead
<1>5. x.k.received /\ IsQuiescent(x.k) /\ x2.tx
  <2>1. Level(x, y, p) /\ Level(y, x, r) => x.k.received
    BY <1>1 DEF Level, Rounds, FlagsOK, IsQuiescent
  <2>2. Ahead(y, x, r, p) => x.k.received
    BY <1>1 DEF Ahead
  <2>3. x.k.received
    BY <1>4, <2>1, <2>2 DEF Rounds
  <2>. QED  BY <1>2, <2>3 DEF IsQuiescent
<1>6. x.m.abortSent <=> Echoed(x)
  <2>1. CASE Level(x, y, p) /\ Level(y, x, r)
    <3>1. y.m.resuming
      BY <1>1, <2>1 DEF Level
    <3>2. ~HasAbort(p) /\ ~Told(y)
      BY <3>1 DEF Rounds, PipeOK, FlagsOK
    <3>. QED  BY <1>1, <3>2 DEF Rounds, Token
  <2>2. CASE Ahead(y, x, r, p)
    <3>1. ~HasAbort(p) /\ ~Told(y)
      BY <2>2 DEF Ahead, Rounds, FlagsOK, IsQuiescent
    <3>. QED  BY <1>1, <3>1 DEF Rounds, Token
  <2>. QED  BY <1>4, <2>1, <2>2 DEF Rounds
<1>7. FlagsOK(x2)
  <2>1. Wins(x2) <=> Wins(x)
    BY DEF Wins
  <2>. QED  BY <1>2, <1>3, <1>5, <1>6, <2>1 DEF Rounds, FlagsOK
<1>8. PipeOK(y, p) /\ PipeOK(x2, r2)
  BY <1>1, <1>2, <1>3 DEF Rounds, PipeOK
<1>9. Token(x2, y, p, r2) /\ Token(y, x2, r2, p)
  BY <1>1, <1>2, <1>3 DEF Rounds, Token
<1>10. Level(x, y, p) /\ Level(y, x, r) => Level(x2, y, p) /\ Level(y, x2, r2)
  BY <1>1, <1>2, <1>3, <1>5 DEF Level, HasNext
<1>11. Ahead(y, x, r, p) => Ahead(y, x2, r2, p)
  <2>. SUFFICES ASSUME Ahead(y, x, r, p) PROVE Ahead(y, x2, r2, p)
    OBVIOUS
  <2>1. /\ ~y.k.received /\ ~HasFirst(p) /\ ~HasNext(p) /\ ~HasAbort(p)
        /\ x.k.sent /\ x.k.req # "Local" /\ (y.k.sent <=> HasNext(r)) /\ ~NextStfu(r, FALSE)
    BY <1>1 DEF Ahead
  <2>2. x2.k = x.k
    OBVIOUS
  <2>3. ~HasAbort(r2)
    BY ONLY <1>1
  <2>4. HasFirst(r2) <=> HasNext(r)
    BY ONLY <1>1
  <2>5. ~FirstStfu(r2, FALSE) /\ ~HasNext(r2)
    BY ONLY <1>1, <2>1
  <2>6. Told(x2) /\ x2.k.received
    BY ONLY <1>3, <1>5, <2>2
  <2>7. x2.k.sent /\ x2.k.req # "Local"
    BY ONLY <2>1, <2>2
  <2>8. y.k.sent <=> HasFirst(r2)
    BY ONLY <2>1, <2>4
  <2>. QED  BY ONLY <2>1, <2>3, <2>5, <2>6, <2>7, <2>8 DEF Ahead
<1>. QED  BY <1>3, <1>4, <1>7, <1>8, <1>9, <1>10, <1>11 DEF Rounds

\* A request for quiescence.
LEMMA InitRounds ==
    ASSUME NEW x \in Views, NEW y \in Views, NEW p \in Seq(Messages), NEW r \in Seq(Messages),
           Rounds(x, y, p, r), x.k.req = "none",
           NEW x2 \in Views, x2.id = x.id, x2.tx = x.tx, x2.m = x.m,
           x2.k.remoteInit = x.k.remoteInit, x2.k.sent = x.k.sent, x2.k.received = x.k.received,
           \/ x2.k.localInit = x.k.localInit /\ x2.k.req \in {"refused", "Remote"}
           \/ ~x.k.sent /\ x2.k.localInit /\ x2.k.req = "pending"
    PROVE  Rounds(x2, y, p, r)
<1>1. (Told(x2) <=> Told(x)) /\ (Echoed(x2) <=> Echoed(x)) /\ (InboxOK(x2) <=> InboxOK(x))
  BY InboxFacts
<1>2. (IsQuiescent(x2.k) <=> IsQuiescent(x.k)) /\ x2.k.req # "Local" /\ x2.k.req # "none"
  BY DEF IsQuiescent
<1>3. FlagsOK(x2) /\ InboxOK(x2)
  BY <1>1, <1>2 DEF Rounds, FlagsOK, IsQuiescent
<1>4. x.k.sent => (x2.k.localInit <=> x.k.localInit)
  OBVIOUS
<1>5. PipeOK(y, p) /\ PipeOK(x2, r)
  BY <1>1 DEF Rounds, PipeOK
<1>6. HasAbort(r) => x.k.sent
  BY DEF Rounds, PipeOK
<1>7. Token(x2, y, p, r) /\ Token(y, x2, r, p)
  BY <1>1, <1>4, <1>6 DEF Rounds, Token
<1>8. Level(x, y, p) /\ Level(y, x, r) => Level(x2, y, p) /\ Level(y, x2, r)
  BY <1>1, <1>2, <1>4 DEF Level, HasFirst
<1>9. Ahead(x, y, p, r) => Ahead(x2, y, p, r)
  BY <1>1, <1>2, <1>4 DEF Ahead
<1>10. Ahead(y, x, r, p) => Ahead(y, x2, r, p)
  BY <1>1, <1>2, <1>4 DEF Ahead
<1>. QED  BY <1>3, <1>5, <1>7, <1>8, <1>9, <1>10 DEF Rounds

\* A request whose stfu is owed is withdrawn, or an answer is taken up.
LEMMA WithdrawRounds ==
    ASSUME NEW x \in Views, NEW y \in Views, NEW p \in Seq(Messages), NEW r \in Seq(Messages),
           Rounds(x, y, p, r), NEW x2 \in Views,
           x2.id = x.id, x2.tx = x.tx, x2.m = x.m,
           x2.k.remoteInit = x.k.remoteInit, x2.k.sent = x.k.sent, x2.k.received = x.k.received,
           \/ /\ ~x.k.sent /\ ~x2.k.localInit
              /\ x2.k.req = IF x.k.req = "pending" THEN "refused" ELSE x.k.req
           \/ x2.k.localInit = x.k.localInit /\ x2.k.req \in {"none", x.k.req}
    PROVE  Rounds(x2, y, p, r)
<1>1. (Told(x2) <=> Told(x)) /\ (Echoed(x2) <=> Echoed(x)) /\ (InboxOK(x2) <=> InboxOK(x))
  BY InboxFacts
<1>2. (IsQuiescent(x2.k) <=> IsQuiescent(x.k)) /\ (x2.k.req = "Local" => x.k.req = "Local")
  BY DEF IsQuiescent
<1>3. x.k.sent => (x2.k.localInit <=> x.k.localInit)
  OBVIOUS
<1>4. FlagsOK(x2) /\ InboxOK(x2)
  <2>1. x2.k.req = "Local" => Wins(x2)
    BY <1>2 DEF Rounds, FlagsOK, Wins, IsQuiescent
  <2>2. x2.k.req = "pending" => x2.k.localInit /\ ~IsQuiescent(x2.k)
    BY <1>2 DEF Rounds, FlagsOK
  <2>3. x2.k.req \in {"none", "pending", "Local", "Remote", "refused"}
    BY DEF Rounds, FlagsOK
  <2>. QED  BY <1>1, <1>2, <1>3, <2>1, <2>2, <2>3 DEF Rounds, FlagsOK
<1>5. PipeOK(y, p) /\ PipeOK(x2, r)
  BY <1>1 DEF Rounds, PipeOK
<1>6. HasAbort(r) => x.k.sent
  BY DEF Rounds, PipeOK
<1>7. Token(x2, y, p, r) /\ Token(y, x2, r, p)
  BY <1>1, <1>3, <1>6 DEF Rounds, Token
<1>8. Level(x, y, p) /\ Level(y, x, r) => Level(x2, y, p) /\ Level(y, x2, r)
  BY <1>1, <1>2, <1>3 DEF Level, HasFirst
<1>9. Ahead(x, y, p, r) => Ahead(x2, y, p, r)
  BY <1>1, <1>2, <1>3 DEF Ahead
<1>10. Ahead(y, x, r, p) => Ahead(y, x2, r, p)
  BY <1>1, <1>2, <1>3 DEF Ahead
<1>. QED  BY <1>4, <1>5, <1>7, <1>8, <1>9, <1>10 DEF Rounds

\* The winner ends quiescence.
LEMMA EndRounds ==
    ASSUME NEW x \in Views, NEW y \in Views, NEW p \in Seq(Messages), NEW r \in Seq(Messages),
           Rounds(x, y, p, r), x.id # y.id, x.k.req = "Local", x.m.inbox = <<>>, ~x.m.resuming,
           NEW x2 \in Views, NEW p2 \in Seq(Messages), NEW e \in Messages, More(p2, p, 1, e), IsAbort(e),
           x2.id = x.id, x2.tx = x.tx, x2.m.inbox = x.m.inbox,
           x2.m.abortSent, x2.m.resuming, x2.k.req = "none",
           x2.k.localInit = x.k.localInit, x2.k.remoteInit = x.k.remoteInit,
           x2.k.sent = x.k.sent, x2.k.received = x.k.received
    PROVE  Rounds(x2, y, p2, r)
<1>1. (Told(x2) <=> Told(x)) /\ (Echoed(x2) <=> Echoed(x)) /\ InboxOK(x2) /\ ~Told(x) /\ ~Echoed(x)
  BY InboxFacts DEF Rounds
<1>2. x.k.sent /\ x.k.received /\ Wins(x) /\ ~x.tx
  BY <1>1 DEF Rounds, FlagsOK, IsQuiescent
<1>3. Level(x, y, p) /\ Level(y, x, r)
  BY <1>2 DEF Rounds, Ahead
<1>4. /\ ~y.m.resuming /\ ~HasAbort(p) /\ ~HasAbort(r) /\ ~Told(y) /\ ~HasEcho(r) /\ y.k.sent
      /\ (x.k.remoteInit <=> y.k.localInit)
  BY <1>2, <1>3 DEF Level, Rounds, PipeOK
<1>5. x.id = Opener \/ ~y.k.localInit
  BY <1>2, <1>4 DEF Wins
<1>6. /\ HasAbort(p2) /\ (HasEcho(p2) <=> HasEcho(p)) /\ Shape(p2)
      /\ (FirstStfu(p2, TRUE) <=> FirstStfu(p, TRUE)) /\ (FirstStfu(p2, FALSE) <=> FirstStfu(p, FALSE))
      /\ (HasFirst(p2) <=> HasFirst(p)) /\ ~HasNext(p2)
  <2>1. Shape(p) /\ TRUE \in BOOLEAN /\ FALSE \in BOOLEAN
    BY DEF Rounds, PipeOK
  <2>2. /\ HasAbort(p2) /\ (HasEcho(p2) <=> HasEcho(p)) /\ (Shape(p) => Shape(p2))
        /\ \A b \in BOOLEAN : (FirstStfu(p2, b) <=> FirstStfu(p, b)) /\ ~NextStfu(p2, b)
    BY <1>4, AbortMore
  <2>. QED  BY <2>1, <2>2 DEF HasFirst, HasNext
<1>7. y.k.req # "Local"
  <2>. SUFFICES ASSUME y.k.req = "Local" PROVE FALSE
    OBVIOUS
  <2>1. Wins(y) /\ y.k.received
    BY DEF Rounds, FlagsOK, IsQuiescent
  <2>2. y.k.remoteInit <=> x.k.localInit
    BY <1>3, <2>1 DEF Level
  <2>. QED  BY <1>2, <1>4, <2>1, <2>2 DEF Wins
<1>8. FlagsOK(x2)
  BY <1>1, <1>2 DEF Rounds, FlagsOK, IsQuiescent
<1>9. PipeOK(y, p2) /\ PipeOK(x2, r)
  BY <1>1, <1>4, <1>6 DEF Rounds, PipeOK
<1>10. Token(x2, y, p2, r)
  <2>1. FirstStfu(p, TRUE) => y.id # Opener \/ ~y.k.localInit
    BY <1>5
  <2>2. ~FirstStfu(p, FALSE)
    BY <1>2, <1>3 DEF Level, Wins
  <2>. QED  BY <1>1, <1>4, <1>6, <2>1, <2>2 DEF Token
<1>11. Token(y, x2, r, p2)
  BY <1>1, <1>4, <1>6 DEF Rounds, Token
<1>12. Level(x2, y, p2)
  BY <1>1, <1>3, <1>4, <1>6 DEF Level
<1>13. Level(y, x2, r)
  BY <1>1, <1>3, <1>4, <1>7 DEF Level
<1>. QED  BY <1>1, <1>8, <1>9, <1>10, <1>11, <1>12, <1>13 DEF Rounds

\* What a machine that waits for an echo finds first.
LEMMA InboxExpected ==
    ASSUME NEW x \in Views, NEW y \in Views, NEW p \in Seq(Messages), NEW r \in Seq(Messages),
           Rounds(x, y, p, r), x.m.inbox # <<>>
    PROVE  Head(x.m.inbox).reason <=> ~x.m.abortSent
<1>1. PICK w \in Views : w.m.inbox = Tail(x.m.inbox)
  <2>0. Tail(x.m.inbox) \in Seq([type : {"tx_abort"}, reason : BOOLEAN])
    BY ViewTypes, TailLess
  <2>1. [x EXCEPT !.m.inbox = Tail(@)] \in Views
    BY <2>0 DEF Views, Machines
  <2>2. [x EXCEPT !.m.inbox = Tail(@)].m.inbox = Tail(x.m.inbox)
    BY ViewTypes DEF Views, Machines
  <2>. QED  BY <2>1, <2>2
<1>2. /\ Head(x.m.inbox).reason => Told(x) /\ ~Echoed(x)
      /\ ~Head(x.m.inbox).reason => Echoed(x)
  BY <1>1, InboxTail DEF Rounds
<1>. QED  BY <1>2 DEF Rounds, FlagsOK, Token

\* The machine takes up the echo of its abort.
LEMMA EchoRounds ==
    ASSUME NEW x \in Views, NEW y \in Views, NEW p \in Seq(Messages), NEW r \in Seq(Messages),
           Rounds(x, y, p, r), x.m.abortSent, ~x.m.resuming, x.m.inbox # <<>>,
           NEW x2 \in Views, x2.id = x.id, x2.k = x.k, x2.tx = x.tx,
           ~x2.m.abortSent, ~x2.m.resuming, x2.m.inbox = Tail(x.m.inbox)
    PROVE  Rounds(x2, y, p, r)
<1>1. Echoed(x) /\ ~Echoed(x2) /\ (Told(x2) <=> Told(x)) /\ InboxOK(x2)
  <2>1. ~Head(x.m.inbox).reason
    BY InboxExpected
  <2>. QED  BY <2>1, InboxTail DEF Rounds
<1>2. ~HasAbort(p) /\ ~Told(y) /\ ~HasEcho(r)
  BY <1>1 DEF Rounds, Token
<1>3. FlagsOK(x2)
  <2>1. Wins(x2) <=> Wins(x)
    BY DEF Wins
  <2>. QED  BY <1>1, <2>1 DEF Rounds, FlagsOK
<1>4. PipeOK(y, p) /\ PipeOK(x2, r)
  BY <1>1, <1>2 DEF Rounds, PipeOK
<1>5. Token(x2, y, p, r) /\ Token(y, x2, r, p)
  BY <1>1, <1>2 DEF Rounds, Token
<1>6. Level(x, y, p) /\ Level(y, x, r) => Level(x2, y, p) /\ Level(y, x2, r)
  BY <1>1 DEF Level
<1>7. Ahead(x, y, p, r) => Ahead(x2, y, p, r)
  BY DEF Ahead
<1>8. Ahead(y, x, r, p) => Ahead(y, x2, r, p)
  BY <1>1 DEF Ahead
<1>. QED  BY <1>1, <1>3, <1>4, <1>5, <1>6, <1>7, <1>8 DEF Rounds

\* The machine echoes the peer's abort.
LEMMA EchoedRounds ==
    ASSUME NEW x \in Views, NEW y \in Views, NEW p \in Seq(Messages), NEW r \in Seq(Messages),
           Rounds(x, y, p, r), ~x.m.abortSent, ~x.m.resuming, x.m.inbox # <<>>,
           NEW x2 \in Views, NEW p2 \in Seq(Messages), NEW e \in Messages, More(p2, p, 1, e), IsEcho(e),
           x2.id = x.id, x2.k = x.k, x2.tx = x.tx,
           ~x2.m.abortSent, x2.m.resuming, x2.m.inbox = Tail(x.m.inbox)
    PROVE  Rounds(x2, y, p2, r)
<1>1. Told(x) /\ ~Echoed(x) /\ ~Told(x2) /\ ~Echoed(x2) /\ InboxOK(x2)
  <2>1. Head(x.m.inbox).reason
    BY InboxExpected
  <2>. QED  BY <2>1, InboxTail DEF Rounds
<1>2. x.tx /\ x.k.sent /\ x.k.received
  BY <1>1 DEF Rounds, FlagsOK, IsQuiescent
<1>3. y.m.abortSent /\ ~HasEcho(p) /\ ~Echoed(y) /\ ~HasAbort(r) /\ ~y.tx
  BY <1>1 DEF Rounds, Token, FlagsOK, PipeOK
<1>4. ~HasAbort(p) /\ ~Told(y) /\ ~HasEcho(r)
  BY DEF Rounds, Token
<1>5. ~Ahead(x, y, p, r)
  BY <1>2 DEF Ahead
<1>6. ~HasFirst(p) /\ (y.k.received => y.m.resuming) /\ x.k.req # "Local"
  <2>1. CASE Level(x, y, p) /\ Level(y, x, r)
    <3>1. y.m.resuming
      BY <1>1, <2>1 DEF Level
    <3>2. y.k.received
      BY <3>1 DEF Rounds, FlagsOK, IsQuiescent
    <3>. QED  BY <2>1, <3>1, <3>2 DEF Level
  <2>2. CASE Ahead(y, x, r, p)
    BY <2>2 DEF Ahead
  <2>. QED  BY <1>5, <2>1, <2>2 DEF Rounds
<1>7. /\ HasEcho(p2) /\ ~HasAbort(p2) /\ Shape(p2) /\ ~HasFirst(p2) /\ ~HasNext(p2)
      /\ ~FirstStfu(p2, TRUE) /\ ~FirstStfu(p2, FALSE) /\ ~NextStfu(p2, TRUE) /\ ~NextStfu(p2, FALSE)
  <2>1. TRUE \in BOOLEAN /\ FALSE \in BOOLEAN
    OBVIOUS
  <2>2. /\ HasEcho(p2) /\ ~HasAbort(p2) /\ Shape(p2)
        /\ \A b \in BOOLEAN : ~FirstStfu(p2, b) /\ ~NextStfu(p2, b)
    BY <1>3, <1>4, <1>6, EchoMore
  <2>. QED  BY <2>1, <2>2 DEF HasFirst, HasNext
<1>8. FlagsOK(x2)
  <2>1. Wins(x2) <=> Wins(x)
    BY DEF Wins
  <2>. QED  BY <1>1, <1>2, <2>1 DEF Rounds, FlagsOK
<1>9. PipeOK(y, p2) /\ PipeOK(x2, r)
  BY <1>1, <1>3, <1>4, <1>6, <1>7 DEF Rounds, PipeOK
<1>10. Token(x2, y, p2, r) /\ Token(y, x2, r, p2)
  BY <1>1, <1>3, <1>4, <1>7 DEF Rounds, Token
<1>11. CASE Level(x, y, p) /\ Level(y, x, r)
  <2>1. y.m.resuming
    BY <1>1, <1>11 DEF Level
  <2>2. y.k.received
    BY <2>1 DEF Rounds, FlagsOK, IsQuiescent
  <2>3. Level(x2, y, p2)
    BY <1>1, <1>3, <1>4, <1>6, <1>7, <1>11, <2>1, <2>2 DEF Level
  <2>4. Level(y, x2, r)
    BY <1>1, <1>3, <1>11, <2>1 DEF Level
  <2>. QED  BY <1>1, <1>8, <1>9, <1>10, <2>3, <2>4 DEF Rounds
<1>12. CASE Ahead(y, x, r, p)
  <2>1. Ahead(y, x2, r, p2)
    BY <1>1, <1>3, <1>7, <1>12 DEF Ahead
  <2>. QED  BY <1>1, <1>8, <1>9, <1>10, <2>1 DEF Rounds
<1>. QED  BY <1>5, <1>11, <1>12 DEF Rounds

\* A link resumes: the first to do so gets ahead of its peer.
LEMMA ResumeRounds ==
    ASSUME NEW x \in Views, NEW y \in Views, NEW p \in Seq(Messages), NEW r \in Seq(Messages),
           Rounds(x, y, p, r), x.m.resuming,
           NEW x2 \in Views, x2.id = x.id, ~x2.tx,
           x2.m.abortSent = x.m.abortSent, ~x2.m.resuming, x2.m.inbox = x.m.inbox,
           ~x2.k.sent, ~x2.k.received, ~x2.k.localInit, ~x2.k.remoteInit, x2.k.req = x.k.req
    PROVE  Rounds(x2, y, p, r)
<1>1. (Told(x2) <=> Told(x)) /\ (Echoed(x2) <=> Echoed(x)) /\ InboxOK(x2)
  BY InboxFacts DEF Rounds
<1>2. x.k.sent /\ x.k.received /\ ~Told(x) /\ ~HasAbort(r) /\ x.k.req # "pending"
  BY DEF Rounds, FlagsOK, PipeOK, IsQuiescent
<1>3. ~Ahead(x, y, p, r)
  BY <1>2 DEF Ahead
<1>4. x.k.req # "Local"
  BY <1>3 DEF Rounds, Level, Ahead
<1>5. FlagsOK(x2)
  BY <1>1, <1>2, <1>4 DEF Rounds, FlagsOK, IsQuiescent
<1>6. PipeOK(y, p) /\ PipeOK(x2, r)
  BY <1>1, <1>2 DEF Rounds, PipeOK
<1>7. Token(x2, y, p, r) /\ Token(y, x2, r, p)
  BY <1>1, <1>2 DEF Rounds, Token
<1>8. CASE Level(x, y, p) /\ Level(y, x, r)
  <2>1. ~HasFirst(r) /\ ~HasNext(r) /\ y.k.sent /\ y.k.req # "Local" /\ ~HasNext(p)
    BY <1>2, <1>8 DEF Level
  <2>2. HasAbort(p) \/ Told(y) \/ y.m.resuming
    BY <1>8 DEF Level
  <2>3. y.k.received <=> ~HasFirst(p)
    BY <1>2, <1>8 DEF Level
  <2>4. ~HasAbort(p) => y.k.received
    BY <2>2 DEF Rounds, FlagsOK, IsQuiescent
  <2>5. Ahead(x2, y, p, r)
    BY <1>2, <2>1, <2>2, <2>3, <2>4 DEF Ahead, HasFirst, HasNext
  <2>. QED  BY <1>1, <1>5, <1>6, <1>7, <2>5 DEF Rounds
<1>9. CASE Ahead(y, x, r, p)
  <2>1. /\ ~y.k.received /\ ~HasFirst(p) /\ ~HasNext(p) /\ ~HasAbort(p)
        /\ (y.k.sent <=> HasFirst(r)) /\ ~FirstStfu(r, FALSE) /\ ~HasNext(r)
    BY <1>2, <1>9 DEF Ahead
  <2>2. ~Told(y) /\ ~y.m.resuming /\ y.k.req # "Local" /\ (y.k.sent => y.k.localInit)
    BY <2>1 DEF Rounds, FlagsOK, IsQuiescent
  <2>3. Level(x2, y, p)
    BY <1>1, <2>1, <2>2 DEF Level, HasFirst
  <2>4. Level(y, x2, r)
    BY <1>1, <1>2, <2>1, <2>2 DEF Level, HasFirst
  <2>. QED  BY <1>1, <1>5, <1>6, <1>7, <2>3, <2>4 DEF Rounds
<1>. QED  BY <1>3, <1>8, <1>9 DEF Rounds

\* What a node has sent does not depend on its channel.
LEMMA QuietSame ==
    ASSUME NEW x \in Views, NEW y \in Views, NEW p \in Seq(Messages), Quiet(x, y, p),
           NEW x2 \in Views, x.late => x2.late
    PROVE  Quiet(x2, y, p)
  BY DEF Quiet, StfuOK, ReceivedOK

\* What a node has been sent, when its channel has all that was signed.
LEMMA QuietThere ==
    ASSUME NEW x \in Views, NEW y \in Views, NEW r \in Seq(Messages), Quiet(y, x, r),
           NEW x2 \in Views, x2.k.received => x.k.received, x.tx => x2.tx \/ ~x2.k.received,
           NoDanglingUpdates(x.c, "Remote") => NoDanglingUpdates(x2.c, "Remote"),
           x2.c.peer[1] = x.c.peer[1], x2.c.log.Remote = x.c.log.Remote
    PROVE  Quiet(y, x2, r)
  BY DEF Quiet, StfuOK, ReceivedOK

\* A signature, a revocation or a tx_abort sent.
LEMMA QuietMore ==
    ASSUME NEW x \in Views, NEW y \in Views, NEW p \in Seq(Messages), Quiet(x, y, p),
           NEW x2 \in Views, x2.late = x.late,
           NEW p2 \in Seq(Messages), NEW e, More(p2, p, 1, e), e.type # "update", e.type # "stfu"
    PROVE  Quiet(x2, y, p2)
<1>1. Len(p) \in Nat /\ Len(p2) = Len(p) + 1 /\ 1 \in Nat
  BY DEF More
<1>2. \A i \in 1..Len(p2) : p2[i].type \in {"update", "stfu"} => i \in 1..Len(p) /\ p2[i] = p[i] /\ i \in Nat
  BY <1>1 DEF More
<1>3. \A i, j \in 1..Len(p) : Between(p, i, j) => Between(p2, i, j)
  <2>1. \A i \in 1..Len(p) : i \in Nat
    BY <1>1
  <2>. QED  BY <1>1, <2>1, BetweenMore
<1>4. \A i \in 1..Len(p) : /\ Prior(p2, i, "revoke_and_ack") <=> Prior(p, i, "revoke_and_ack")
                           /\ Prior(p2, i, "tx_abort") <=> Prior(p, i, "tx_abort")
  BY <1>1, HasMore
<1>5. StfuOK(x2, y, p2)
  BY <1>2, <1>3, <1>4 DEF StfuOK, Quiet
<1>6. ReceivedOK(x2, y, p2)
  BY <1>2, <1>4 DEF ReceivedOK, Quiet
<1>. QED  BY <1>5, <1>6 DEF Quiet

\* A message read, seen from those behind it.
LEMMA StfuOKLess ==
    ASSUME NEW x \in Views, NEW y \in Views, NEW r \in Seq(Messages), StfuOK(y, x, r),
           NEW x2 \in Views, NEW r2 \in Seq(Messages), Less(r2, r),
           NoDanglingUpdates(x.c, "Remote") => NoDanglingUpdates(x2.c, "Remote"),
           NoDanglingUpdates(x.c, "Remote")
               /\ (x.c.peer[1].Remote = Len(x.c.log.Remote) \/ r[1].type = "revoke_and_ack")
               => x2.c.peer[1].Remote = Len(x2.c.log.Remote)
    PROVE  StfuOK(y, x2, r2)
<1>1. \A i \in 1..Len(r2) : i + 1 \in 1..Len(r) /\ r2[i] = r[i + 1] /\ i \in Nat
  BY DEF Less
<1>2. \A i \in 1..Len(r2) : Prior(r, i + 1, "revoke_and_ack")
                              <=> Prior(r2, i, "revoke_and_ack") \/ r[1].type = "revoke_and_ack"
  BY HasLess
<1>3. \A i, j \in 1..Len(r2) : Between(r, i + 1, j + 1) => Between(r2, i, j)
  BY <1>1, BetweenLess
<1>. SUFFICES ASSUME NEW i \in 1..Len(r2), r2[i].type = "stfu"
              PROVE  /\ NoDanglingUpdates(x2.c, "Remote")
                     /\ x2.c.peer[1].Remote = Len(x2.c.log.Remote) \/ Prior(r2, i, "revoke_and_ack")
                     /\ \A j \in 1..Len(r2) : r2[j].type = "update" => i < j /\ (y.late \/ Between(r2, i, j))
  BY DEF StfuOK
<1>4. i + 1 \in 1..Len(r) /\ r[i + 1].type = "stfu"
  BY <1>1
<1>5. /\ NoDanglingUpdates(x.c, "Remote")
      /\ x.c.peer[1].Remote = Len(x.c.log.Remote) \/ Prior(r, i + 1, "revoke_and_ack")
      /\ \A j \in 1..Len(r) : r[j].type = "update" => i + 1 < j /\ (y.late \/ Between(r, i + 1, j))
  BY <1>4 DEF StfuOK
<1>6. ASSUME NEW j \in 1..Len(r2), r2[j].type = "update" PROVE i < j /\ (y.late \/ Between(r2, i, j))
  <2>1. j + 1 \in 1..Len(r) /\ r[j + 1].type = "update"
    BY <1>1, <1>6
  <2>2. i + 1 < j + 1 /\ (y.late \/ Between(r, i + 1, j + 1))
    BY <1>5, <2>1
  <2>. QED  BY <1>1, <1>3, <2>2
<1>. QED  BY <1>2, <1>5, <1>6

\* An update that comes: no stfu is behind it, and one that was read allows it or was
\* ignored by the peer.
LEMMA UpdateExpected ==
    ASSUME NEW x \in Views, NEW y \in Views, NEW r \in Seq(Messages), Quiet(y, x, r),
           1 \in 1..Len(r), r[1].type = "update"
    PROVE  ~Has(r, "stfu") /\ (x.k.received => x.tx \/ y.late)
<1>1. ASSUME NEW i \in 1..Len(r), r[i].type = "stfu" PROVE FALSE
  <2>1. i < 1
    BY <1>1 DEF Quiet, StfuOK
  <2>. QED  BY <2>1
<1>2. ~Prior(r, 1, "tx_abort")
  BY DEF Prior
<1>. QED  BY <1>1, <1>2 DEF Has, Quiet, ReceivedOK

\* A node makes updates: where none is forbidden, or in spite of its stfu.
LEMMA UpdatesKeep ==
    ASSUME NEW x \in Views, NEW y \in Views, NEW p \in Seq(Messages), NEW r \in Seq(Messages),
           Sides(x, y, p, r),
           NEW x2 \in Views, NEW p2 \in Seq(Messages), NEW k \in Nat, NEW e, More(p2, p, k, e),
           SameFlags(x2, x), e.type = "update", x2.late \/ (x2.late = x.late /\ ~x.k.sent),
           x2.c.own = x.c.own, x2.c.peer = x.c.peer, x2.c.log.Remote = x.c.log.Remote
    PROVE  Sides(x2, y, p2, r)
<1>1. SameEnds(p2, p) /\ SameEnds(r, r)
  <2>1. SameEnds(p2, p)
    BY EndsMore
  <2>. QED  BY <2>1 DEF SameEnds
<1>2. Rounds(x2, y, p2, r)
  BY <1>1, RoundsSame DEF Sides
<1>3. /\ Len(p) \in Nat /\ Len(p2) = Len(p) + k
      /\ \A i \in 1..Len(p2) : i \in Nat /\ ((i \in 1..Len(p) /\ p2[i] = p[i]) \/ (i > Len(p) /\ p2[i].type = "update"))
      /\ \A i \in 1..Len(p) : i \in 1..Len(p2) /\ p2[i] = p[i] /\ i \in Nat
  BY DEF More
<1>4. /\ \A i \in 1..Len(p) : Prior(p2, i, "tx_abort") <=> Prior(p, i, "tx_abort")
      /\ \A i \in 1..Len(p) : Prior(p2, i, "revoke_and_ack") <=> Prior(p, i, "revoke_and_ack")
  BY HasMore
<1>5. \A i, j \in 1..Len(p) : Between(p, i, j) => Between(p2, i, j)
  BY <1>3, BetweenMore
<1>6. ~x.k.sent => /\ HasFirst(p) => HasAbort(p)
                   /\ ~HasNext(p)
                   /\ y.k.received => y.tx \/ HasAbort(p) \/ HasEcho(p)
  BY UpdatesAllowed DEF Sides
<1>7. x.late => x2.late
  OBVIOUS
<1>8. StfuOK(x2, y, p2)
  <2>. SUFFICES ASSUME NEW i \in 1..Len(p2), p2[i].type = "stfu"
                PROVE  /\ NoDanglingUpdates(y.c, "Remote")
                       /\ y.c.peer[1].Remote = Len(y.c.log.Remote) \/ Prior(p2, i, "revoke_and_ack")
                       /\ \A j \in 1..Len(p2) : p2[j].type = "update" => i < j /\ (x2.late \/ Between(p2, i, j))
    BY DEF StfuOK
  <2>1. i \in 1..Len(p) /\ p[i] = p2[i] /\ p[i].type = "stfu"
    BY <1>3
  <2>2. /\ NoDanglingUpdates(y.c, "Remote")
        /\ y.c.peer[1].Remote = Len(y.c.log.Remote) \/ Prior(p, i, "revoke_and_ack")
        /\ \A j \in 1..Len(p) : p[j].type = "update" => i < j /\ (x.late \/ Between(p, i, j))
    BY <2>1 DEF Sides, Quiet, StfuOK
  <2>3. ASSUME ~x2.late, NEW j \in 1..Len(p2), j > Len(p) PROVE Between(p2, i, j)
    <3>1. p[i] \in Messages
      BY <2>1
    <3>2. p[i].Initiator \in BOOLEAN /\ IsStfu(p[i], p[i].Initiator)
      BY <2>1, <3>1, Kinds
    <3>3. ~Between(p, 0, i)
      BY <1>6, <2>1, <2>3, <3>2 DEF HasNext, NextStfu
    <3>4. HasFirst(p)
      BY <2>1, <3>2, <3>3 DEF HasFirst, FirstStfu
    <3>5. PICK a \in 1..Len(p) : IsAbort(p[a])
      BY <1>6, <2>3, <3>4 DEF HasAbort
    <3>6. ~(a < i) /\ a # i
      <4>1. ~IsAbort(p[i])
        BY <2>1 DEF IsAbort
      <4>2. a \in Nat /\ i \in Nat /\ 0 < a
        BY <1>3
      <4>. QED  BY <3>3, <3>5, <4>1, <4>2 DEF Between
    <3>7. i < a /\ a < j
      BY <1>3, <2>1, <2>3, <3>6
    <3>. QED  BY <1>3, <3>5, <3>7 DEF Between
  <2>4. ASSUME NEW j \in 1..Len(p2), p2[j].type = "update" PROVE i < j /\ (x2.late \/ Between(p2, i, j))
    <3>1. CASE j \in 1..Len(p) /\ p2[j] = p[j]
      BY <1>5, <1>7, <2>1, <2>2, <2>4, <3>1
    <3>2. CASE j > Len(p)
      BY <1>3, <2>1, <2>3, <3>2
    <3>. QED  BY <1>3, <3>1, <3>2
  <2>. QED  BY <1>4, <2>1, <2>2, <2>4
<1>9. ReceivedOK(x2, y, p2)
  <2>1. ReceivedOK(x, y, p)
    BY DEF Sides, Quiet
  <2>2. ASSUME y.k.received, ~y.tx, ~x2.late, NEW j \in 1..Len(p2), p2[j].type = "update"
        PROVE  Prior(p2, j, "tx_abort")
    <3>1. CASE j \in 1..Len(p) /\ p2[j] = p[j]
      BY <1>4, <1>7, <2>1, <2>2, <3>1 DEF ReceivedOK
    <3>2. CASE j > Len(p)
      <4>1. PICK a \in 1..Len(p) : p[a].type = "tx_abort"
        BY <1>6, <2>2 DEF HasAbort, HasEcho, IsAbort, IsEcho
      <4>. QED  BY <1>3, <3>2, <4>1 DEF Prior
    <3>. QED  BY <1>3, <3>1, <3>2
  <2>. QED  BY <2>1, <2>2 DEF ReceivedOK
<1>10. Quiet(y, x2, r)
  <2>1. NoDanglingUpdates(x.c, "Remote") => NoDanglingUpdates(x2.c, "Remote")
    BY DEF NoDanglingUpdates, LogIndex
  <2>. QED  BY <2>1, QuietThere DEF Sides, SameFlags
<1>. QED  BY <1>2, <1>8, <1>9, <1>10 DEF Sides, Quiet

\* A node sends a signature or a revocation.
LEMMA CommitmentKeeps ==
    ASSUME NEW x \in Views, NEW y \in Views, NEW p \in Seq(Messages), NEW r \in Seq(Messages),
           Sides(x, y, p, r),
           NEW x2 \in Views, NEW p2 \in Seq(Messages), NEW e, More(p2, p, 1, e),
           SameFlags(x2, x), x2.late = x.late, e.type \in {"commit_sig", "revoke_and_ack"},
           NoDanglingUpdates(x.c, "Remote") => NoDanglingUpdates(x2.c, "Remote"),
           x2.c.peer[1] = x.c.peer[1], x2.c.log = x.c.log
    PROVE  Sides(x2, y, p2, r)
<1>1. SameEnds(p2, p) /\ SameEnds(r, r)
  <2>1. SameEnds(p2, p)
    BY EndsMore
  <2>. QED  BY <2>1 DEF SameEnds
<1>2. Rounds(x2, y, p2, r)
  BY <1>1, RoundsSame DEF Sides
<1>3. Quiet(x2, y, p2)
  BY QuietMore DEF Sides
<1>4. Quiet(y, x2, r)
  BY QuietThere DEF Sides, SameFlags
<1>. QED  BY <1>2, <1>3, <1>4 DEF Sides

\* A node reads a signature or a revocation.
LEMMA ReadKeeps ==
    ASSUME NEW x \in Views, NEW y \in Views, NEW p \in Seq(Messages), NEW r \in Seq(Messages),
           Sides(x, y, p, r),
           NEW x2 \in Views, NEW r2 \in Seq(Messages), Less(r2, r),
           SameFlags(x2, x), x2.late = x.late, r[1].type \in {"commit_sig", "revoke_and_ack"},
           NoDanglingUpdates(x.c, "Remote") => NoDanglingUpdates(x2.c, "Remote"),
           NoDanglingUpdates(x.c, "Remote")
               /\ (x.c.peer[1].Remote = Len(x.c.log.Remote) \/ r[1].type = "revoke_and_ack")
               => x2.c.peer[1].Remote = Len(x2.c.log.Remote)
    PROVE  Sides(x2, y, p, r2)
<1>1. SameEnds(r2, r) /\ SameEnds(p, p)
  <2>1. SameEnds(r2, r)
    BY EndsLess
  <2>. QED  BY <2>1 DEF SameEnds
<1>2. Rounds(x2, y, p, r2)
  BY <1>1, RoundsSame DEF Sides
<1>3. Quiet(x2, y, p)
  BY QuietSame DEF Sides
<1>4. StfuOK(y, x2, r2)
  BY StfuOKLess DEF Sides, Quiet
<1>5. ReceivedOK(y, x2, r2)
  <2>1. ReceivedOK(y, x, r)
    BY DEF Sides, Quiet
  <2>2. \A j \in 1..Len(r2) : Prior(r, j + 1, "tx_abort") => Prior(r2, j, "tx_abort")
    BY HasLess
  <2>3. ASSUME x.k.received, ~x.tx, ~y.late, NEW j \in 1..Len(r2), r2[j].type = "update"
        PROVE  Prior(r2, j, "tx_abort")
    <3>1. j + 1 \in 1..Len(r) /\ r[j + 1] = r2[j]
      BY DEF Less
    <3>2. Prior(r, j + 1, "tx_abort")
      BY <2>1, <2>3, <3>1 DEF ReceivedOK
    <3>. QED  BY <2>2, <3>2
  <2>. QED  BY <2>1, <2>3 DEF ReceivedOK, SameFlags
<1>. QED  BY <1>2, <1>3, <1>4, <1>5 DEF Sides, Quiet

\* A node reads an update.
LEMMA UpdateReadKeeps ==
    ASSUME NEW x \in Views, NEW y \in Views, NEW p \in Seq(Messages), NEW r \in Seq(Messages),
           Sides(x, y, p, r),
           NEW x2 \in Views, NEW r2 \in Seq(Messages), Less(r2, r),
           SameFlags(x2, x), x2.late = x.late, r[1].type = "update", ~x.k.received
    PROVE  Sides(x2, y, p, r2)
<1>1. SameEnds(r2, r) /\ SameEnds(p, p)
  <2>1. SameEnds(r2, r)
    BY EndsLess
  <2>. QED  BY <2>1 DEF SameEnds
<1>2. Rounds(x2, y, p, r2)
  BY <1>1, RoundsSame DEF Sides
<1>3. Quiet(x2, y, p)
  BY QuietSame DEF Sides
<1>4. ~Has(r2, "stfu")
  <2>1. 1 \in 1..Len(r)
    BY DEF Less
  <2>2. ~Has(r, "stfu")
    BY <2>1, UpdateExpected DEF Sides
  <2>. QED  BY <2>2, HasLess
<1>5. Quiet(y, x2, r2)
  BY <1>4 DEF Quiet, StfuOK, ReceivedOK, Has, SameFlags
<1>. QED  BY <1>2, <1>3, <1>5 DEF Sides

\* A node sends the stfu it owes: its updates are on all commitments the peer will know.
LEMMA StfuSentKeeps ==
    ASSUME NEW x \in Views, NEW y \in Views, NEW p \in Seq(Messages), NEW r \in Seq(Messages),
           Sides(x, y, p, r), Chans(x.c, y.c, p, r), ~x.k.sent, x.k.received \/ x.k.localInit,
           NoDanglingUpdates(x.c, "Local"),
           NEW x2 \in Views, NEW p2 \in Seq(Messages), NEW e \in Messages, More(p2, p, 1, e),
           e.type = "stfu", e.Initiator = x.k.localInit,
           x2.id = x.id, x2.c = x.c, x2.tx = x.tx, x2.m = x.m, x2.late = x.late, x2.k.sent,
           x2.k.localInit = x.k.localInit, x2.k.remoteInit = x.k.remoteInit,
           x2.k.received = x.k.received,
           x2.k.req = IF x.k.received /\ x.k.req = "pending"
                      THEN IF Wins(x) THEN "Local" ELSE "Remote" ELSE x.k.req
    PROVE  Sides(x2, y, p2, r)
<1>1. Rounds(x2, y, p2, r)
  BY StfuSentRounds DEF Sides
<1>2. Quiet(y, x2, r)
  BY QuietThere DEF Sides
<1>3. /\ NoDanglingUpdates(y.c, "Remote") /\ ~Has(p, "update")
      /\ y.c.peer[1].Remote = Len(y.c.log.Remote) \/ Has(p, "revoke_and_ack")
  <2>1. x.c \in Channels /\ y.c \in Channels /\ x.c.own.Local = Len(x.c.log.Local)
    BY DEF Views, NoDanglingUpdates, LogIndex
  <2>. QED  BY <2>1, SettledFacts
<1>4. /\ Len(p) \in Nat /\ Len(p2) = Len(p) + 1
      /\ \A i \in 1..Len(p2) : (i \in 1..Len(p) /\ p2[i] = p[i]) \/ (i = Len(p2) /\ p2[i] = e)
      /\ \A i \in 1..Len(p) : i \in 1..Len(p2) /\ p2[i] = p[i]
  BY DEF More
<1>5. \A i \in 1..Len(p) : Prior(p2, i, "revoke_and_ack") <=> Prior(p, i, "revoke_and_ack")
  BY HasMore
<1>6. ~Has(p2, "update")
  BY <1>3, <1>4 DEF Has
<1>7. Has(p, "revoke_and_ack") => Prior(p2, Len(p2), "revoke_and_ack")
  BY <1>4 DEF Has, Prior
<1>8. StfuOK(x2, y, p2)
  BY <1>3, <1>4, <1>5, <1>6, <1>7 DEF Sides, Quiet, StfuOK, Has
<1>9. ReceivedOK(x2, y, p2)
  BY <1>6 DEF Sides, Quiet, ReceivedOK, Has
<1>. QED  BY <1>1, <1>2, <1>8, <1>9 DEF Sides, Quiet

\* A node reads an stfu.
LEMMA StfuReadKeeps ==
    ASSUME NEW x \in Views, NEW y \in Views, NEW p \in Seq(Messages), NEW r \in Seq(Messages),
           Sides(x, y, p, r), x.id # y.id, r[1] \in Messages, r[1].type = "stfu", ~x.k.received,
           NEW x2 \in Views, NEW r2 \in Seq(Messages), Less(r2, r),
           x2.id = x.id, x2.c = x.c, x2.tx = x.tx, x2.m = x.m, x2.late = x.late, x2.k.received,
           x2.k.localInit = x.k.localInit, x2.k.remoteInit = r[1].Initiator,
           x2.k.sent = x.k.sent,
           x2.k.req = IF x.k.sent /\ x.k.req = "pending"
                      THEN IF Wins(x2) THEN "Local" ELSE "Remote" ELSE x.k.req
    PROVE  Sides(x2, y, p, r2)
<1>1. Rounds(x2, y, p, r2)
  BY StfuReadRounds DEF Sides
<1>2. Quiet(x2, y, p)
  BY QuietSame DEF Sides
<1>3. StfuOK(y, x2, r2)
  BY StfuOKLess DEF Sides, Quiet
<1>4. Len(r2) \in Nat /\ 1 \in 1..Len(r) /\ ~Prior(r, 1, "revoke_and_ack")
  BY DEF Less, Prior
<1>5. /\ NoDanglingUpdates(x.c, "Remote") /\ x.c.peer[1].Remote = Len(x.c.log.Remote)
      /\ \A j \in 1..Len(r) : r[j].type = "update" => y.late \/ Between(r, 1, j)
  BY <1>4 DEF Sides, Quiet, StfuOK
<1>6. ASSUME ~y.late, NEW j \in 1..Len(r2), r2[j].type = "update" PROVE Prior(r2, j, "tx_abort")
  <2>1. j + 1 \in 1..Len(r) /\ r[j + 1] = r2[j] /\ j \in Nat /\ 0 \in Nat /\ 0 + 1 = 1
    BY DEF Less
  <2>2. Between(r, 0 + 1, j + 1)
    BY <1>5, <1>6, <2>1
  <2>3. Between(r2, 0, j)
    BY <2>1, <2>2, BetweenLess
  <2>. QED  BY <2>3 DEF Between, Prior, IsAbort
<1>7. ReceivedOK(y, x2, r2)
  BY <1>5, <1>6 DEF ReceivedOK
<1>. QED  BY <1>1, <1>2, <1>3, <1>7 DEF Sides, Quiet

\* A node reads a tx_abort: it was the peer's, or the echo of its own.
LEMMA AbortReadKeeps ==
    ASSUME NEW x \in Views, NEW y \in Views, NEW p \in Seq(Messages), NEW r \in Seq(Messages),
           Sides(x, y, p, r), r[1] \in Messages, r[1].type = "tx_abort",
           NEW x2 \in Views, NEW r2 \in Seq(Messages), Less(r2, r),
           x2.id = x.id, x2.c = x.c, x2.k = x.k, x2.tx = (x.tx \/ IsQuiescent(x.k)), x2.late = x.late,
           x2.m.abortSent = x.m.abortSent, x2.m.resuming = x.m.resuming,
           x2.m.inbox = Append(x.m.inbox, r[1])
    PROVE  Sides(x2, y, p, r2)
<1>1. Rounds(x2, y, p, r2)
  <2>1. CASE IsAbort(r[1])
    BY <2>1, AbortReadRounds DEF Sides
  <2>2. CASE IsEcho(r[1])
    BY <2>2, EchoReadRounds DEF Sides
  <2>. QED  BY <2>1, <2>2, Kinds
<1>2. Quiet(x2, y, p)
  BY QuietSame DEF Sides
<1>3. StfuOK(y, x2, r2)
  BY StfuOKLess DEF Sides, Quiet
<1>4. ReceivedOK(y, x2, r2)
  <2>. SUFFICES ASSUME x.k.received PROVE ReceivedOK(y, x2, r2)
    BY DEF ReceivedOK
  <2>1. Has(r, "tx_abort")
    <3>1. 1 \in 1..Len(r)
      BY DEF Less
    <3>. QED  BY <3>1 DEF Has
  <2>2. x2.tx
    BY <2>1, AbortMeets DEF Sides
  <2>. QED  BY <2>2 DEF Sides, Quiet, ReceivedOK
<1>. QED  BY <1>1, <1>2, <1>3, <1>4 DEF Sides, Quiet

\* A request for quiescence.
LEMMA InitKeeps ==
    ASSUME NEW x \in Views, NEW y \in Views, NEW p \in Seq(Messages), NEW r \in Seq(Messages),
           Sides(x, y, p, r), x.k.req = "none",
           NEW x2 \in Views,
           x2.id = x.id, x2.c = x.c, x2.tx = x.tx, x2.m = x.m, x2.late = x.late,
           x2.k.remoteInit = x.k.remoteInit, x2.k.sent = x.k.sent, x2.k.received = x.k.received,
           \/ x2.k.localInit = x.k.localInit /\ x2.k.req \in {"refused", "Remote"}
           \/ ~x.k.sent /\ x2.k.localInit /\ x2.k.req = "pending"
    PROVE  Sides(x2, y, p, r)
<1>1. Rounds(x2, y, p, r)
  BY InitRounds DEF Sides
<1>2. Quiet(x2, y, p) /\ Quiet(y, x2, r)
  BY QuietSame, QuietThere DEF Sides
<1>. QED  BY <1>1, <1>2 DEF Sides

\* A request whose stfu is owed is withdrawn, or an answer is taken up.
LEMMA WithdrawKeeps ==
    ASSUME NEW x \in Views, NEW y \in Views, NEW p \in Seq(Messages), NEW r \in Seq(Messages),
           Sides(x, y, p, r), NEW x2 \in Views,
           x2.id = x.id, x2.c = x.c, x2.tx = x.tx, x2.m = x.m, x2.late = x.late,
           x2.k.remoteInit = x.k.remoteInit, x2.k.sent = x.k.sent, x2.k.received = x.k.received,
           \/ /\ ~x.k.sent /\ ~x2.k.localInit
              /\ x2.k.req = IF x.k.req = "pending" THEN "refused" ELSE x.k.req
           \/ x2.k.localInit = x.k.localInit /\ x2.k.req \in {"none", x.k.req}
    PROVE  Sides(x2, y, p, r)
<1>1. Rounds(x2, y, p, r)
  BY WithdrawRounds DEF Sides
<1>2. Quiet(x2, y, p) /\ Quiet(y, x2, r)
  BY QuietSame, QuietThere DEF Sides
<1>. QED  BY <1>1, <1>2 DEF Sides

\* The winner ends quiescence.
LEMMA EndKeeps ==
    ASSUME NEW x \in Views, NEW y \in Views, NEW p \in Seq(Messages), NEW r \in Seq(Messages),
           Sides(x, y, p, r), x.id # y.id, x.k.req = "Local", x.m.inbox = <<>>, ~x.m.resuming,
           NEW x2 \in Views, NEW p2 \in Seq(Messages), NEW e \in Messages, More(p2, p, 1, e),
           e.type = "tx_abort", e.reason,
           x2.id = x.id, x2.c = x.c, x2.tx = x.tx, x2.m.inbox = x.m.inbox, x2.late = x.late,
           x2.m.abortSent, x2.m.resuming, x2.k.req = "none",
           x2.k.localInit = x.k.localInit, x2.k.remoteInit = x.k.remoteInit,
           x2.k.sent = x.k.sent, x2.k.received = x.k.received
    PROVE  Sides(x2, y, p2, r)
<1>1. Rounds(x2, y, p2, r)
  BY EndRounds DEF Sides, IsAbort
<1>2. Quiet(x2, y, p2)
  BY QuietMore DEF Sides
<1>3. Quiet(y, x2, r)
  BY QuietThere DEF Sides
<1>. QED  BY <1>1, <1>2, <1>3 DEF Sides

\* The machine takes up the echo of its abort.
LEMMA EchoKeeps ==
    ASSUME NEW x \in Views, NEW y \in Views, NEW p \in Seq(Messages), NEW r \in Seq(Messages),
           Sides(x, y, p, r), x.m.abortSent, ~x.m.resuming, x.m.inbox # <<>>,
           NEW x2 \in Views,
           x2.id = x.id, x2.c = x.c, x2.k = x.k, x2.tx = x.tx, x2.late = x.late,
           ~x2.m.abortSent, ~x2.m.resuming, x2.m.inbox = Tail(x.m.inbox)
    PROVE  Sides(x2, y, p, r)
<1>1. Rounds(x2, y, p, r)
  BY EchoRounds DEF Sides
<1>2. Quiet(x2, y, p) /\ Quiet(y, x2, r)
  BY QuietSame, QuietThere DEF Sides
<1>. QED  BY <1>1, <1>2 DEF Sides

\* The machine echoes the peer's abort.
LEMMA EchoedKeeps ==
    ASSUME NEW x \in Views, NEW y \in Views, NEW p \in Seq(Messages), NEW r \in Seq(Messages),
           Sides(x, y, p, r), ~x.m.abortSent, ~x.m.resuming, x.m.inbox # <<>>,
           NEW x2 \in Views, NEW p2 \in Seq(Messages), NEW e \in Messages, More(p2, p, 1, e),
           e.type = "tx_abort", ~e.reason,
           x2.id = x.id, x2.c = x.c, x2.k = x.k, x2.tx = x.tx, x2.late = x.late,
           ~x2.m.abortSent, x2.m.resuming, x2.m.inbox = Tail(x.m.inbox)
    PROVE  Sides(x2, y, p2, r)
<1>1. Rounds(x2, y, p2, r)
  BY EchoedRounds DEF Sides, IsEcho
<1>2. Quiet(x2, y, p2)
  BY QuietMore DEF Sides
<1>3. Quiet(y, x2, r)
  BY QuietThere DEF Sides
<1>. QED  BY <1>1, <1>2, <1>3 DEF Sides

\* A link resumes.
LEMMA ResumeKeeps ==
    ASSUME NEW x \in Views, NEW y \in Views, NEW p \in Seq(Messages), NEW r \in Seq(Messages),
           Sides(x, y, p, r), x.m.resuming,
           NEW x2 \in Views,
           x2.id = x.id, x2.c = x.c, ~x2.tx, x2.late = x.late,
           x2.m.abortSent = x.m.abortSent, ~x2.m.resuming, x2.m.inbox = x.m.inbox,
           ~x2.k.sent, ~x2.k.received, ~x2.k.localInit, ~x2.k.remoteInit, x2.k.req = x.k.req
    PROVE  Sides(x2, y, p, r)
<1>1. Rounds(x2, y, p, r)
  BY ResumeRounds DEF Sides
<1>2. Quiet(x2, y, p) /\ Quiet(y, x2, r)
  BY QuietSame, QuietThere DEF Sides
<1>. QED  BY <1>1, <1>2 DEF Sides

-----------------------------------------------------------------------------
(* The steps of a link. *)

Packets == [kind : Updates, at : {"new", "applied", "dropped"}]
Works == [forward : Nat, hold : Nat, added : Nat, late : BOOLEAN]
Results == [c : Channels, k : Quiescers, box : Seq(Packets), w : Works, msgs : Seq(Messages)]

\* Node v with the channel and the quiescer of result r, and whether it made updates
\* in spite of its stfu.
Seen(v, r) == [v EXCEPT !.c = r.c, !.k = r.k, !.late = r.w.late]

\* Result r is good for node v: p was on its way to the peer y, in is on its way to v.
Link(v, y, p, in, r) ==
    /\ r \in Results
    /\ Chans(r.c, y.c, p \o r.msgs, in)
    /\ Sides(Seen(v, r), y, p \o r.msgs, in)

\* Packets in the channel and still in the mailbox are not signed for, and stfu has
\* not been sent.
BoxFits(r) ==
    Last(r.c.peer).Local = Len(r.c.log.Local) \/ r.k.sent =>
        \A i \in 1..Len(r.box) : r.box[i].at # "applied"

\* Messages behind messages.
LEMMA ConcatFacts ==
    ASSUME NEW S, NEW s \in Seq(S), NEW t \in Seq(S)
    PROVE  /\ s \o t \in Seq(S) /\ Len(s \o t) = Len(s) + Len(t)
           /\ \A i \in 1..Len(s) : (s \o t)[i] = s[i]
           /\ \A i \in 1..Len(t) : (s \o t)[Len(s) + i] = t[i]
<1>1. s \o t \in Seq(S) /\ Len(s \o t) = Len(s) + Len(t)
  OBVIOUS
<1>2. \A i \in 1..Len(s) : (s \o t)[i] = s[i]
  OBVIOUS
<1>3. ASSUME NEW i \in 1..Len(t) PROVE (s \o t)[Len(s) + i] = t[i]
  <2>1. Len(s) + i \in 1..(Len(s) + Len(t)) /\ Len(s) + i > Len(s) /\ (Len(s) + i) - Len(s) = i
    OBVIOUS
  <2>. QED  BY <2>1
<1>. QED  BY <1>1, <1>2, <1>3

\* More behind the second is more behind both.
LEMMA ConcatKeepsMore ==
    ASSUME NEW S, NEW s \in Seq(S), NEW t \in Seq(S), NEW u \in Seq(S), NEW k \in Nat, NEW e,
           More(u, t, k, e)
    PROVE  More(s \o u, s \o t, k, e)
<1>1. /\ Len(u) = Len(t) + k /\ Len(s) \in Nat /\ Len(t) \in Nat
      /\ \A i \in 1..Len(t) : u[i] = t[i]
      /\ \A i \in (Len(t) + 1)..(Len(t) + k) : u[i] = e
  BY DEF More
<1>2. /\ Len(s \o u) = Len(s) + Len(u)
      /\ \A i \in 1..Len(s) : (s \o u)[i] = s[i]
      /\ \A i \in 1..Len(u) : (s \o u)[Len(s) + i] = u[i]
  BY ConcatFacts
<1>3. /\ Len(s \o t) = Len(s) + Len(t)
      /\ \A i \in 1..Len(s) : (s \o t)[i] = s[i]
      /\ \A i \in 1..Len(t) : (s \o t)[Len(s) + i] = t[i]
  BY ConcatFacts
<1>. DEFINE a == s \o u
            b == s \o t
<1>. HIDE DEF a, b
<1>4. Len(a) = Len(b) + k
  BY <1>1, <1>2, <1>3 DEF a, b
<1>5. ASSUME NEW i \in 1..Len(b) PROVE a[i] = b[i]
  <2>1. CASE i \in 1..Len(s)
    BY <1>2, <1>3, <2>1 DEF a, b
  <2>2. CASE i \notin 1..Len(s)
    <3>1. i - Len(s) \in 1..Len(t) /\ i - Len(s) \in 1..Len(u) /\ i = Len(s) + (i - Len(s))
      BY <1>1, <1>3, <2>2 DEF b
    <3>2. a[Len(s) + (i - Len(s))] = u[i - Len(s)] /\ b[Len(s) + (i - Len(s))] = t[i - Len(s)]
      BY <1>2, <1>3, <3>1 DEF a, b
    <3>. QED  BY <1>1, <3>1, <3>2
  <2>. QED  BY <2>1, <2>2
<1>6. ASSUME NEW i \in (Len(b) + 1)..(Len(b) + k) PROVE a[i] = e
  <2>1. /\ i - Len(s) \in (Len(t) + 1)..(Len(t) + k) /\ i - Len(s) \in 1..Len(u)
        /\ i = Len(s) + (i - Len(s))
    BY <1>1, <1>3 DEF b
  <2>2. a[Len(s) + (i - Len(s))] = u[i - Len(s)]
    BY <1>2, <2>1 DEF a
  <2>. QED  BY <1>1, <2>1, <2>2
<1>. QED  BY <1>4, <1>5, <1>6 DEF More, a, b

\* The fields of a node as a step sees it.
LEMMA SeenFacts ==
    ASSUME NEW v \in Views, NEW r \in Results
    PROVE  /\ Seen(v, r) \in Views /\ Seen(v, r).id = v.id /\ Seen(v, r).tx = v.tx
           /\ Seen(v, r).m = v.m /\ Seen(v, r).c = r.c /\ Seen(v, r).k = r.k
           /\ Seen(v, r).late = r.w.late
           /\ r.c \in Channels /\ r.k \in Quiescers /\ r.msgs \in Seq(Messages)
           /\ r.box \in Seq(Packets) /\ r.w \in Works
<1>1. r.w \in Works /\ r.c \in Channels /\ r.k \in Quiescers /\ r.msgs \in Seq(Messages) /\ r.box \in Seq(Packets)
  BY DEF Results
<1>2. r.w.late \in BOOLEAN
  BY <1>1 DEF Works
<1>. QED  BY <1>1, <1>2 DEF Seen, Views

LEMMA SeenLate ==
    ASSUME NEW v \in Views, NEW r \in Results, NEW v2 \in Views, NEW d \in Results, d.w = r.w
    PROVE  Seen(v2, d).late = Seen(v, r).late
<1>1. Seen(v, r).late = r.w.late
  BY SeenFacts
<1>2. Seen(v2, d).late = d.w.late
  BY SeenFacts
<1>. QED  BY <1>1, <1>2

\* What the channel's operations do to its fields.
LEMMA OperationFacts ==
    ASSUME NEW c \in Channels
    PROVE  /\ \A s \in Seq(Updates) :
                 LET d == AppendUpdates(c, "Local", s)
                 IN  /\ d \in Channels /\ d.own = c.own /\ d.peer = c.peer
                     /\ d.log.Remote = c.log.Remote /\ d.log.Local = c.log.Local \o s
           /\ \A s \in Seq(Updates) :
                 LET d == AppendUpdates(c, "Remote", s)
                 IN  /\ d \in Channels /\ d.own = c.own /\ d.peer = c.peer
                     /\ d.log.Local = c.log.Local /\ d.log.Remote = c.log.Remote \o s
           /\ LET d == SignNextCommitment(c)
                  x == [Local |-> Len(c.log.Local), Remote |-> c.own.Remote]
              IN  /\ d \in Channels /\ d.own = c.own /\ d.log = c.log
                  /\ d.peer = Append(c.peer, x) /\ x \in Indices
           /\ c.peer # <<>> =>
              LET d == RevokeCurrentCommitment(c)
              IN  /\ d \in Channels /\ d.own = NextOwn(c) /\ d.log = c.log /\ d.peer = c.peer
                  /\ NextOwn(c).Local = c.peer[1].Local /\ NextOwn(c).Remote = Len(c.log.Remote)
                  /\ LET e == ReceiveRevocation(c)
                     IN  /\ e \in Channels /\ e.own = c.own /\ e.log = c.log
                         /\ e.peer = Tail(c.peer)
<1>1. /\ c.log \in Logs /\ c.log.Local \in Seq(Updates) /\ c.log.Remote \in Seq(Updates)
      /\ c.own \in Indices /\ c.peer \in Seq(Indices) /\ c.own.Remote \in Nat
      /\ Len(c.log.Local) \in Nat /\ Len(c.log.Remote) \in Nat
  BY ChannelFacts
<1>2. ASSUME NEW s \in Seq(Updates)
      PROVE  LET d == AppendUpdates(c, "Local", s)
             IN  /\ d \in Channels /\ d.own = c.own /\ d.peer = c.peer
                 /\ d.log.Remote = c.log.Remote /\ d.log.Local = c.log.Local \o s
  <2>. DEFINE t == c.log.Local \o s
              l == [c.log EXCEPT !["Local"] = t]
  <2>1. t \in Seq(Updates)
    BY <1>1
  <2>2. AppendUpdates(c, "Local", s) = [c EXCEPT !.log = l]
    BY DEF AppendUpdates
  <2>. HIDE DEF t
  <2>3. l \in Logs /\ l.Local = t /\ l.Remote = c.log.Remote
    BY <1>1, <2>1 DEF Logs
  <2>. HIDE DEF l
  <2>4. [c EXCEPT !.log = l] \in Channels
    BY <2>3 DEF Channels
  <2>. QED  BY <2>2, <2>3, <2>4 DEF t, Channels
<1>3. ASSUME NEW s \in Seq(Updates)
      PROVE  LET d == AppendUpdates(c, "Remote", s)
             IN  /\ d \in Channels /\ d.own = c.own /\ d.peer = c.peer
                 /\ d.log.Local = c.log.Local /\ d.log.Remote = c.log.Remote \o s
  <2>. DEFINE t == c.log.Remote \o s
              l == [c.log EXCEPT !["Remote"] = t]
  <2>1. t \in Seq(Updates)
    BY <1>1
  <2>2. AppendUpdates(c, "Remote", s) = [c EXCEPT !.log = l]
    BY DEF AppendUpdates
  <2>. HIDE DEF t
  <2>3. l \in Logs /\ l.Remote = t /\ l.Local = c.log.Local
    BY <1>1, <2>1 DEF Logs
  <2>. HIDE DEF l
  <2>4. [c EXCEPT !.log = l] \in Channels
    BY <2>3 DEF Channels
  <2>. QED  BY <2>2, <2>3, <2>4 DEF t, Channels
<1>4. LET d == SignNextCommitment(c)
          x == [Local |-> Len(c.log.Local), Remote |-> c.own.Remote]
      IN  /\ d \in Channels /\ d.own = c.own /\ d.log = c.log
          /\ d.peer = Append(c.peer, x) /\ x \in Indices
  <2>1. [Local |-> Len(c.log.Local), Remote |-> c.own.Remote] \in Indices
    BY <1>1 DEF Indices
  <2>2. Append(c.peer, [Local |-> Len(c.log.Local), Remote |-> c.own.Remote]) \in Seq(Indices)
    BY <1>1, <2>1
  <2>. QED  BY <1>1, <2>1, <2>2 DEF SignNextCommitment, LogIndex, Channels
<1>5. ASSUME c.peer # <<>>
      PROVE  LET d == RevokeCurrentCommitment(c)
             IN  /\ d \in Channels /\ d.own = NextOwn(c) /\ d.log = c.log /\ d.peer = c.peer
                 /\ NextOwn(c).Local = c.peer[1].Local /\ NextOwn(c).Remote = Len(c.log.Remote)
                 /\ LET e == ReceiveRevocation(c)
                    IN  /\ e \in Channels /\ e.own = c.own /\ e.log = c.log
                        /\ e.peer = Tail(c.peer)
  <2>1. /\ Head(c.peer) = c.peer[1] /\ c.peer[1] \in Indices /\ Tail(c.peer) \in Seq(Indices)
    BY <1>1, <1>5
  <2>2. /\ NextOwn(c) \in Indices /\ NextOwn(c).Local = c.peer[1].Local
        /\ NextOwn(c).Remote = Len(c.log.Remote)
    BY <1>1, <2>1 DEF NextOwn, LogIndex, Indices
  <2>3. LET d == RevokeCurrentCommitment(c)
        IN  d \in Channels /\ d.own = NextOwn(c) /\ d.log = c.log /\ d.peer = c.peer
    BY <1>1, <2>2 DEF RevokeCurrentCommitment, Channels
  <2>4. LET e == ReceiveRevocation(c)
        IN  e \in Channels /\ e.own = c.own /\ e.log = c.log /\ e.peer = Tail(c.peer)
    BY <1>1, <2>1 DEF ReceiveRevocation, Channels
  <2>. QED  BY <2>2, <2>3, <2>4
<1>. QED  BY <1>2, <1>3, <1>4, <1>5

\* An update in spite of our stfu is on its way.
LEMMA LateOK ==
    ASSUME NEW v \in Views, NEW y \in Views, NEW p \in Seq(Messages), NEW in \in Seq(Messages),
           NEW r, Link(v, y, p, in, r),
           NEW d \in Results, d.c = r.c, d.k = r.k, d.msgs = r.msgs, r.w.late => d.w.late
    PROVE  Link(v, y, p, in, d)
<1>. DEFINE x == Seen(v, r)
            x2 == Seen(v, d)
            pipe == p \o r.msgs
<1>1. /\ r \in Results /\ Chans(r.c, y.c, pipe, in) /\ Sides(x, y, pipe, in)
  BY DEF Link
<1>2. r.msgs \in Seq(Messages)
  BY <1>1 DEF Results
<1>3. pipe \in Seq(Messages)
  BY <1>2
<1>4. /\ x \in Views /\ x2 \in Views /\ SameFlags(x2, x) /\ x2.c = x.c /\ x2.k = x.k /\ x2.tx = x.tx
      /\ x.late => x2.late
  BY <1>1, SeenFacts DEF SameFlags
<1>5. SameEnds(pipe, pipe) /\ SameEnds(in, in)
  BY DEF SameEnds
<1>. HIDE DEF x, x2, pipe
<1>6. Rounds(x2, y, pipe, in)
  BY <1>1, <1>4, <1>5, RoundsSame DEF Sides
<1>7. Quiet(x2, y, pipe)
  BY <1>1, <1>3, <1>4, QuietSame DEF Sides
<1>8. Quiet(y, x2, in)
  BY <1>1, <1>4, QuietThere DEF Sides
<1>9. Sides(x2, y, pipe, in)
  BY <1>6, <1>7, <1>8 DEF Sides
<1>. QED  BY <1>1, <1>9 DEF Link, x2, pipe

\* Updates of ours: a link that may send them, or does in spite of its stfu.
LEMMA MakeUpdatesOK ==
    ASSUME NEW v \in Views, NEW y \in Views, NEW p \in Seq(Messages), NEW in \in Seq(Messages),
           NEW r, Link(v, y, p, in, r), r.w.late \/ CanSendUpdates(r.k),
           NEW u \in Updates, NEW k \in Nat
    PROVE  LET d == MakeUpdates(r, u, k)
           IN  /\ Link(v, y, p, in, d) /\ d.k = r.k /\ d.box = r.box /\ d.w = r.w
               /\ (k > 0 /\ CanSendUpdates(r.k)) \/ BoxFits(r) => BoxFits(d)
               /\ k > 0 => OweCommitment(d.c)
<1>. DEFINE b == [i \in 1..k |-> u]
            e == [type |-> "update", kind |-> u]
            ms == [i \in 1..k |-> e]
            d == MakeUpdates(r, u, k)
            l == r.c.log.Local
<1>1. /\ r \in Results /\ r.c \in Channels /\ r.k \in Quiescers /\ r.msgs \in Seq(Messages)
      /\ Chans(r.c, y.c, p \o r.msgs, in) /\ Sides(Seen(v, r), y, p \o r.msgs, in)
      /\ y.c \in Channels /\ l \in Seq(Updates) /\ Len(l) \in Nat /\ p \o r.msgs \in Seq(Messages)
  <2>1. r \in Results /\ Chans(r.c, y.c, p \o r.msgs, in) /\ Sides(Seen(v, r), y, p \o r.msgs, in)
    BY DEF Link
  <2>2. r.c \in Channels /\ r.k \in Quiescers /\ r.msgs \in Seq(Messages) /\ y.c \in Channels
    BY <2>1 DEF Results, Views
  <2>. QED  BY <2>1, <2>2, ChannelFacts
<1>2. e \in Messages /\ e.type = "update"
  BY DEF Messages
<1>3. b \in Seq(Updates) /\ l \o b \in Seq(Updates) /\ More(l \o b, l, k, u)
  BY <1>1, ConcatMore
<1>4. r.msgs \o ms \in Seq(Messages) /\ More(r.msgs \o ms, r.msgs, k, e)
  <2>. HIDE DEF e
  <2>. QED  BY <1>1, <1>2, ConcatMore
<1>5. More(p \o (r.msgs \o ms), p \o r.msgs, k, e) /\ p \o (r.msgs \o ms) \in Seq(Messages)
  <2>. DEFINE m2 == r.msgs \o ms
  <2>1. m2 \in Seq(Messages) /\ More(m2, r.msgs, k, e)
    BY <1>4
  <2>. HIDE DEF m2, e
  <2>2. More(p \o m2, p \o r.msgs, k, e) /\ p \o m2 \in Seq(Messages)
    BY <1>1, <2>1, ConcatKeepsMore
  <2>. QED  BY <2>2 DEF m2
<1>6. LET c == AppendUpdates(r.c, "Local", b)
      IN  /\ c \in Channels /\ c.own = r.c.own /\ c.peer = r.c.peer
          /\ c.log.Remote = r.c.log.Remote /\ c.log.Local = l \o b
  <2>. HIDE DEF b
  <2>. QED  BY <1>1, <1>3, OperationFacts
<1>7. /\ d \in Results /\ d.c = AppendUpdates(r.c, "Local", b) /\ d.msgs = r.msgs \o ms
      /\ d.k = r.k /\ d.box = r.box /\ d.w = r.w
  <2>. DEFINE c2 == AppendUpdates(r.c, "Local", b)
              m2 == r.msgs \o ms
  <2>1. d = [r EXCEPT !.c = c2, !.msgs = m2]
    BY DEF MakeUpdates
  <2>2. c2 \in Channels /\ m2 \in Seq(Messages)
    BY <1>4, <1>6
  <2>. HIDE DEF d, c2, m2
  <2>3. /\ d \in Results /\ d.c = c2 /\ d.msgs = m2 /\ d.k = r.k /\ d.box = r.box /\ d.w = r.w
    BY <1>1, <2>1, <2>2 DEF Results
  <2>. QED  BY <2>3 DEF c2, m2
<1>. HIDE DEF d, b, e, ms
<1>8. /\ d.c \in Channels /\ d.c.own = r.c.own /\ d.c.peer = r.c.peer
      /\ d.c.log.Remote = r.c.log.Remote /\ d.c.log.Local = l \o b
      /\ More(d.c.log.Local, r.c.log.Local, k, u)
      /\ More(p \o d.msgs, p \o r.msgs, k, e) /\ p \o d.msgs \in Seq(Messages)
  BY <1>3, <1>5, <1>6, <1>7
<1>9. Chans(d.c, y.c, p \o d.msgs, in)
  <2>1. More(p \o d.msgs, p \o r.msgs, k, [type |-> "update", kind |-> u])
    BY <1>8 DEF e
  <2>. DEFINE a == r.c
              c == d.c
              pipe == p \o r.msgs
              pipe2 == p \o d.msgs
  <2>2. /\ a \in Channels /\ y.c \in Channels /\ pipe \in Seq(Messages) /\ in \in Seq(Messages)
        /\ c \in Channels /\ pipe2 \in Seq(Messages) /\ k \in Nat /\ u \in Updates
        /\ Chans(a, y.c, pipe, in) /\ c.own = a.own /\ c.peer = a.peer /\ c.log.Remote = a.log.Remote
        /\ More(c.log.Local, a.log.Local, k, u)
        /\ More(pipe2, pipe, k, [type |-> "update", kind |-> u])
    BY <1>1, <1>8, <2>1
  <2>. HIDE DEF a, c, pipe, pipe2
  <2>3. Chans(c, y.c, pipe2, in)
    BY ONLY <2>2, UpdatesInStep
  <2>. QED  BY <2>3 DEF c, pipe2
<1>10. Sides(Seen(v, d), y, p \o d.msgs, in)
  <2>1. /\ SameFlags(Seen(v, d), Seen(v, r))
        /\ Seen(v, d).late \/ (Seen(v, d).late = Seen(v, r).late /\ ~Seen(v, r).k.sent)
    BY <1>1, <1>7, SeenFacts DEF SameFlags, CanSendUpdates
  <2>2. /\ Seen(v, d) \in Views /\ Seen(v, r) \in Views
        /\ Seen(v, d).c.own = Seen(v, r).c.own /\ Seen(v, d).c.peer = Seen(v, r).c.peer
        /\ Seen(v, d).c.log.Remote = Seen(v, r).c.log.Remote
    BY <1>1, <1>7, <1>8, SeenFacts
  <2>. QED  BY <1>1, <1>2, <1>8, <2>1, <2>2, UpdatesKeep
<1>11. Last(d.c.peer).Local <= Len(l) /\ Last(d.c.peer).Local \in Nat /\ Len(d.c.log.Local) = Len(l) + k
  <2>1. Last(r.c.peer).Local <= Len(r.c.log.Local) /\ Last(r.c.peer).Local \in Nat
    BY <1>1, PeerFacts DEF Grows
  <2>. QED  BY <1>8, <2>1 DEF More
<1>12. k > 0 => Last(d.c.peer).Local # Len(d.c.log.Local)
  BY <1>1, <1>11
<1>13. (k > 0 /\ CanSendUpdates(r.k)) \/ BoxFits(r) => BoxFits(d)
  <2>1. k > 0 /\ CanSendUpdates(r.k) => BoxFits(d)
    BY <1>7, <1>12 DEF BoxFits, CanSendUpdates
  <2>2. BoxFits(r) => BoxFits(d)
    <3>1. ~(k > 0) => Len(d.c.log.Local) = Len(r.c.log.Local)
      BY <1>1, <1>11, SMTT(30)
    <3>. QED  BY <1>7, <1>8, <1>12, <3>1 DEF BoxFits
  <2>. QED  BY <2>1, <2>2
<1>14. k > 0 => OweCommitment(d.c)
  BY <1>12 DEF OweCommitment, LogIndex
<1>15. Link(v, y, p, in, d)
  BY <1>7, <1>9, <1>10 DEF Link
<1>. QED  BY <1>7, <1>13, <1>14, <1>15 DEF d

\* A signature, when one is owed or cannot be sent.
LEMMA UpdateCommitTxOK ==
    ASSUME NEW v \in Views, NEW y \in Views, NEW p \in Seq(Messages), NEW in \in Seq(Messages),
           NEW r, Link(v, y, p, in, r), BoxFits(r), OweCommitment(r.c)
    PROVE  LET d == UpdateCommitTx(r)
           IN  Link(v, y, p, in, d) /\ BoxFits(d) /\ d.k = r.k /\ d.w = r.w
<1>. DEFINE d == UpdateCommitTx(r)
<1>1. /\ r \in Results /\ r.c \in Channels /\ r.k \in Quiescers /\ r.msgs \in Seq(Messages)
      /\ Chans(r.c, y.c, p \o r.msgs, in) /\ Sides(Seen(v, r), y, p \o r.msgs, in)
      /\ y.c \in Channels /\ p \o r.msgs \in Seq(Messages) /\ r.box \in Seq(Packets)
  <2>1. r \in Results /\ Chans(r.c, y.c, p \o r.msgs, in) /\ Sides(Seen(v, r), y, p \o r.msgs, in)
    BY DEF Link
  <2>2. /\ r.c \in Channels /\ r.k \in Quiescers /\ r.msgs \in Seq(Messages) /\ y.c \in Channels
        /\ r.box \in Seq(Packets)
    BY <2>1 DEF Results, Views
  <2>. QED  BY <2>1, <2>2
<1>2. CASE HasUnackedCommitment(r.c)
  BY <1>2 DEF UpdateCommitTx
<1>3. CASE ~HasUnackedCommitment(r.c)
  <2>. DEFINE x == [Local |-> Len(r.c.log.Local), Remote |-> r.c.own.Remote]
              f == [Local |-> r.c.own.Remote, Remote |-> Len(r.c.log.Local)]
              e == [type |-> "commit_sig", indices |-> f]
              I == {i \in DOMAIN r.box : r.box[i].at # "applied"}
              bx == SubsequenceAt(r.box, I)
              c2 == SignNextCommitment(r.c)
              m2 == Append(r.msgs, e)
  <2>1. /\ c2 \in Channels /\ c2.own = r.c.own /\ c2.log = r.c.log
        /\ c2.peer = Append(r.c.peer, x) /\ x \in Indices
    BY <1>1, OperationFacts
  <2>2. /\ r.c.own.Remote \in Nat /\ Len(r.c.log.Local) \in Nat /\ Len(r.c.peer) = 1
        /\ r.c.peer \in Seq(Indices)
    <3>1. Len(r.c.peer) \in 1..2
      BY <1>1, PeerFacts
    <3>2. Len(r.c.peer) = 1
      BY <1>3, <3>1, OneOrTwo, Zenon DEF HasUnackedCommitment
    <3>. QED  BY <1>1, <3>2, ChannelFacts
  <2>3. e \in Messages /\ e.type = "commit_sig" /\ e.indices = Flip(x)
    <3>1. f \in Indices
      BY <2>2 DEF Indices
    <3>. HIDE DEF f
    <3>2. e \in Messages /\ e.type = "commit_sig" /\ e.indices = f
      BY <3>1 DEF Messages
    <3>. QED  BY <3>2 DEF Flip, f
  <2>4. bx \in Seq(Packets) /\ \A i \in 1..Len(bx) : bx[i].at # "applied"
    <3>1. I \in SUBSET (DOMAIN r.box)
      OBVIOUS
    <3>2. \A i \in I : r.box[i].at # "applied"
      OBVIOUS
    <3>. HIDE DEF I
    <3>3. /\ bx \in Seq(Packets) /\ DOMAIN bx = 1..Len(bx)
          /\ \A i \in DOMAIN bx : PlaceAt(I, i) \in I /\ bx[i] = r.box[PlaceAt(I, i)]
      BY <1>1, <3>1, SubsequenceFacts
    <3>. HIDE DEF bx
    <3>. QED  BY <3>2, <3>3
  <2>5. d = [r EXCEPT !.c = c2, !.box = bx, !.msgs = m2]
    <3>1. d = Send([r EXCEPT !.c = c2, !.box = bx], e)
      BY <1>3 DEF UpdateCommitTx, LogIndex
    <3>2. [r EXCEPT !.c = c2, !.box = bx].msgs = r.msgs
      BY <1>1 DEF Results
    <3>. HIDE DEF c2, bx, e
    <3>. QED  BY <1>1, <3>1, <3>2 DEF Send, Results
  <2>. HIDE DEF e
  <2>6. m2 \in Seq(Messages) /\ More(m2, r.msgs, 1, e)
    BY <1>1, <2>3, AppendMore
  <2>. HIDE DEF d, c2, bx, m2
  <2>7. d \in Results /\ d.c = c2 /\ d.k = r.k /\ d.box = bx /\ d.msgs = m2 /\ d.w = r.w
    BY <1>1, <2>1, <2>4, <2>5, <2>6 DEF Results
  <2>8. p \o m2 \in Seq(Messages) /\ More(p \o m2, p \o r.msgs, 1, e)
    BY <1>1, <2>6, ConcatKeepsMore
  <2>. HIDE DEF x
  <2>9. Chans(d.c, y.c, p \o d.msgs, in)
    <3>1. x.Local = Len(r.c.log.Local) /\ x.Remote = r.c.own.Remote
      BY DEF x
    <3>. QED  BY <1>1, <2>1, <2>2, <2>3, <2>7, <2>8, <3>1, SignInStep
  <2>10. /\ Last(c2.peer) = x /\ Last(r.c.peer) = r.c.peer[1] /\ c2.peer[1] = r.c.peer[1]
    BY <2>1, <2>2 DEF Last
  <2>11. Sides(Seen(v, d), y, p \o d.msgs, in)
    <3>1. /\ SameFlags(Seen(v, d), Seen(v, r)) /\ Seen(v, d) \in Views /\ Seen(v, r) \in Views
          /\ Seen(v, d).c = c2 /\ Seen(v, r).c = r.c
      BY <1>1, <2>7, SeenFacts DEF SameFlags
    <3>4. Seen(v, d).late = Seen(v, r).late
      BY <1>1, <2>7, SeenLate
    <3>2. NoDanglingUpdates(r.c, "Remote") => NoDanglingUpdates(c2, "Remote")
      <4>1. x["Remote"] = r.c.own["Remote"]
        BY DEF x
      <4>. QED  BY <2>1, <2>10, <4>1 DEF NoDanglingUpdates, LogIndex
    <3>. QED  BY <1>1, <2>1, <2>3, <2>7, <2>8, <2>10, <3>1, <3>2, <3>4, CommitmentKeeps
  <2>12. BoxFits(d)
    BY <2>4, <2>7 DEF BoxFits
  <2>. QED  BY <2>7, <2>9, <2>11, <2>12 DEF Link, d
<1>. QED  BY <1>2, <1>3

\* The same with nothing owed.
LEMMA SignIfOwedOK ==
    ASSUME NEW v \in Views, NEW y \in Views, NEW p \in Seq(Messages), NEW in \in Seq(Messages),
           NEW r, Link(v, y, p, in, r), BoxFits(r)
    PROVE  LET d == SignIfOwed(r)
           IN  Link(v, y, p, in, d) /\ BoxFits(d) /\ d.k = r.k /\ d.w = r.w
  BY UpdateCommitTxOK DEF SignIfOwed

\* What an answered request holds.
LEMMA ResolveFacts ==
    ASSUME NEW k \in Quiescers, NEW n, k.req = "pending" => k.localInit
    PROVE  LET d == ResolveAndStartTimeout(k, n)
           IN  /\ d \in Quiescers /\ d.sent = k.sent /\ d.received = k.received
               /\ d.localInit = k.localInit /\ d.remoteInit = k.remoteInit
               /\ d.req = IF k.sent /\ k.received /\ k.req = "pending"
                          THEN IF k.localInit /\ (n = Opener \/ ~k.remoteInit)
                               THEN "Local" ELSE "Remote"
                          ELSE k.req
<1>1. /\ k.localInit \in BOOLEAN /\ k.remoteInit \in BOOLEAN /\ k.sent \in BOOLEAN
      /\ k.received \in BOOLEAN
  BY DEF Quiescers
<1>2. k.localInit => QuiescenceInitiator(k, n) = IF n = Opener \/ ~k.remoteInit THEN "Local" ELSE "Remote"
  BY <1>1 DEF QuiescenceInitiator
<1>3. CASE ~IsQuiescent(k)
  BY <1>3 DEF ResolveAndStartTimeout, IsQuiescent
<1>4. CASE IsQuiescent(k)
  <2>. DEFINE a == IF k.req = "pending" THEN QuiescenceInitiator(k, n) ELSE k.req
  <2>1. ResolveAndStartTimeout(k, n) = [k EXCEPT !.timer = TRUE, !.req = a]
    BY <1>4 DEF ResolveAndStartTimeout
  <2>2. /\ a = IF k.sent /\ k.received /\ k.req = "pending"
               THEN IF k.localInit /\ (n = Opener \/ ~k.remoteInit)
                    THEN "Local" ELSE "Remote"
               ELSE k.req
        /\ a \in {"none", "pending", "Local", "Remote", "refused", "error"}
    BY <1>1, <1>2, <1>4 DEF IsQuiescent, Quiescers
  <2>. HIDE DEF a
  <2>3. /\ [k EXCEPT !.timer = TRUE, !.req = a] \in Quiescers
        /\ [k EXCEPT !.timer = TRUE, !.req = a].sent = k.sent
        /\ [k EXCEPT !.timer = TRUE, !.req = a].received = k.received
        /\ [k EXCEPT !.timer = TRUE, !.req = a].localInit = k.localInit
        /\ [k EXCEPT !.timer = TRUE, !.req = a].remoteInit = k.remoteInit
        /\ [k EXCEPT !.timer = TRUE, !.req = a].req = a
    BY <2>2 DEF Quiescers
  <2>. QED  BY <2>1, <2>2, <2>3
<1>. QED  BY <1>3, <1>4

\* The stfu a link owes, once its updates are on both commitments.
LEMMA SendOwedStfuOK ==
    ASSUME NEW v \in Views, NEW y \in Views, NEW p \in Seq(Messages), NEW in \in Seq(Messages),
           NEW r, Link(v, y, p, in, r), BoxFits(r)
    PROVE  LET d == SendOwedStfuIfClean(r, v.id)
           IN  /\ Link(v, y, p, in, d) /\ d.c = r.c /\ d.box = r.box /\ d.w = r.w
               /\ d.k.received = r.k.received /\ BoxFits(d)
<1>. DEFINE d == SendOwedStfuIfClean(r, v.id)
<1>1. /\ r \in Results /\ r.c \in Channels /\ r.k \in Quiescers /\ r.msgs \in Seq(Messages)
      /\ Chans(r.c, y.c, p \o r.msgs, in) /\ Sides(Seen(v, r), y, p \o r.msgs, in)
      /\ y.c \in Channels /\ p \o r.msgs \in Seq(Messages)
  <2>1. r \in Results /\ Chans(r.c, y.c, p \o r.msgs, in) /\ Sides(Seen(v, r), y, p \o r.msgs, in)
    BY DEF Link
  <2>2. /\ r.c \in Channels /\ r.k \in Quiescers /\ r.msgs \in Seq(Messages) /\ y.c \in Channels
    BY <2>1 DEF Results, Views
  <2>. QED  BY <2>1, <2>2
<1>2. CASE ~(NoDanglingUpdates(r.c, "Local") /\ OweStfu(r.k))
  BY <1>2 DEF SendOwedStfuIfClean, SendOwedStfu
<1>3. CASE NoDanglingUpdates(r.c, "Local") /\ OweStfu(r.k)
  <2>. DEFINE e == Stfu(r.k.localInit)
              k1 == [r.k EXCEPT !.sent = TRUE]
              k2 == ResolveAndStartTimeout(k1, v.id)
              m2 == Append(r.msgs, e)
              x == Seen(v, r)
              x2 == Seen(v, d)
  <2>1. e \in Messages /\ e.type = "stfu" /\ e.Initiator = r.k.localInit
    BY <1>1 DEF Stfu, Messages, Quiescers
  <2>2. /\ k1 \in Quiescers /\ k1.sent /\ k1.received = r.k.received /\ k1.req = r.k.req
        /\ k1.localInit = r.k.localInit /\ k1.remoteInit = r.k.remoteInit
    BY <1>1 DEF Quiescers
  <2>3. r.k.req = "pending" => r.k.localInit
    BY <1>1, SeenFacts DEF Sides, Rounds, FlagsOK
  <2>. HIDE DEF k1
  <2>4. /\ k2 \in Quiescers /\ k2.sent /\ k2.received = r.k.received
        /\ k2.localInit = r.k.localInit /\ k2.remoteInit = r.k.remoteInit
        /\ k2.req = IF r.k.received /\ r.k.req = "pending"
                    THEN IF r.k.localInit /\ (v.id = Opener \/ ~r.k.remoteInit)
                         THEN "Local" ELSE "Remote"
                    ELSE r.k.req
    BY <2>2, <2>3, ResolveFacts
  <2>5. d = [r EXCEPT !.k = k2, !.msgs = m2]
    BY <1>1, <1>3 DEF SendOwedStfuIfClean, SendOwedStfu, Send, Results, k1
  <2>. HIDE DEF e
  <2>6. m2 \in Seq(Messages) /\ More(m2, r.msgs, 1, e)
    BY <1>1, <2>1, AppendMore
  <2>. HIDE DEF d, k2, m2
  <2>7. d \in Results /\ d.c = r.c /\ d.k = k2 /\ d.box = r.box /\ d.msgs = m2 /\ d.w = r.w
    BY <1>1, <2>4, <2>5, <2>6 DEF Results
  <2>8. p \o m2 \in Seq(Messages) /\ More(p \o m2, p \o r.msgs, 1, e)
    BY <1>1, <2>6, ConcatKeepsMore
  <2>9. Chans(d.c, y.c, p \o d.msgs, in)
    BY <1>1, <2>1, <2>7, <2>8, OtherInStep
  <2>10. /\ x \in Views /\ x2 \in Views /\ x.c = r.c /\ x.k = r.k /\ x2.c = r.c /\ x2.k = k2
         /\ x.id = v.id /\ x2.id = v.id /\ x2.tx = x.tx /\ x2.m = x.m /\ x2.late = x.late
    BY <1>1, <2>7, SeenFacts
  <2>. HIDE DEF x, x2
  <2>11. Sides(x2, y, p \o d.msgs, in)
    <3>1. Sides(x, y, p \o r.msgs, in) /\ Chans(x.c, y.c, p \o r.msgs, in)
      BY <1>1, <2>10 DEF x
    <3>2. ~x.k.sent /\ (x.k.received \/ x.k.localInit) /\ NoDanglingUpdates(x.c, "Local")
      BY <1>3, <2>10 DEF OweStfu
    <3>3. x2.k.req = IF x.k.received /\ x.k.req = "pending"
                     THEN IF Wins(x) THEN "Local" ELSE "Remote" ELSE x.k.req
      BY <2>4, <2>10 DEF Wins
    <3>4. /\ x2.id = x.id /\ x2.c = x.c /\ x2.k.sent /\ x2.k.localInit = x.k.localInit
          /\ x2.k.remoteInit = x.k.remoteInit /\ x2.k.received = x.k.received
          /\ e.Initiator = x.k.localInit
      BY <2>1, <2>4, <2>10
    <3>5. p \o d.msgs \in Seq(Messages) /\ More(p \o d.msgs, p \o r.msgs, 1, e)
      BY <2>7, <2>8
    <3>. QED  BY <1>1, <2>1, <2>10, <3>1, <3>2, <3>3, <3>4, <3>5, StfuSentKeeps
  <2>12. BoxFits(d)
    BY <1>3, <2>7 DEF BoxFits, NoDanglingUpdates, LogIndex
  <2>. QED  BY <2>4, <2>7, <2>9, <2>11, <2>12 DEF Link, d, x2
<1>. QED  BY <1>2, <1>3

\* What a good result holds.
LEMMA LinkFacts ==
    ASSUME NEW v \in Views, NEW y \in Views, NEW p \in Seq(Messages), NEW in \in Seq(Messages),
           NEW r, Link(v, y, p, in, r)
    PROVE  /\ r \in Results /\ r.c \in Channels /\ r.k \in Quiescers /\ r.msgs \in Seq(Messages)
           /\ r.box \in Seq(Packets) /\ r.w \in Works /\ y.c \in Channels
           /\ p \o r.msgs \in Seq(Messages)
           /\ Chans(r.c, y.c, p \o r.msgs, in) /\ Sides(Seen(v, r), y, p \o r.msgs, in)
<1>1. r \in Results /\ Chans(r.c, y.c, p \o r.msgs, in) /\ Sides(Seen(v, r), y, p \o r.msgs, in)
  BY DEF Link
<1>2. /\ r.c \in Channels /\ r.k \in Quiescers /\ r.msgs \in Seq(Messages) /\ y.c \in Channels
      /\ r.box \in Seq(Packets) /\ r.w \in Works
  BY <1>1 DEF Results, Views
<1>. QED  BY <1>1, <1>2

\* HTLCs locked in are counted by what comes of them.
LEMMA OutcomesCounted ==
    ASSUME NEW m \in Nat, NEW outcomes \in [1..m -> Outcomes], NEW what
    PROVE  Cardinality({i \in DOMAIN outcomes : outcomes[i] = what}) \in Nat
<1>. DEFINE T == {i \in DOMAIN outcomes : outcomes[i] = what}
<1>1. T \subseteq 1..m
  OBVIOUS
<1>2. IsFiniteSet(1..m)
  BY FS_Interval
<1>. HIDE DEF T
<1>3. IsFiniteSet(T)
  BY <1>1, <1>2, FS_Subset
<1>. QED  BY <1>3, FS_CardinalityType DEF T

\* HTLCs locked in are processed.
LEMMA ProcessRemoteAddsOK ==
    ASSUME NEW v \in Views, NEW y \in Views, NEW p \in Seq(Messages), NEW in \in Seq(Messages),
           NEW r, Link(v, y, p, in, r), BoxFits(r), CanSendUpdates(r.k),
           NEW m \in Nat, NEW outcomes \in [1..m -> Outcomes]
    PROVE  LET d == ProcessRemoteAdds(r, outcomes)
           IN  Link(v, y, p, in, d) /\ BoxFits(d) /\ d.k = r.k /\ d.w.late = r.w.late
<1>. DEFINE number(what) == Cardinality({i \in DOMAIN outcomes : outcomes[i] = what})
            d == ProcessRemoteAdds(r, outcomes)
            a == number("resolve")
            b == number("forward")
            c == number("hold")
            e == MakeUpdates(r, "Rmv", a)
            g == e.w.forward + b
            h == e.w.hold + c
            w == [e.w EXCEPT !.forward = g, !.hold = h]
<1>1. a \in Nat /\ b \in Nat /\ c \in Nat
  BY OutcomesCounted
<1>2. d = [e EXCEPT !.w.forward = @ + b, !.w.hold = @ + c]
  BY DEF ProcessRemoteAdds
<1>3. "Rmv" \in Updates
  BY DEF Updates
<1>. HIDE DEF a, b, c
<1>4. Link(v, y, p, in, e) /\ e.k = r.k /\ e.w = r.w /\ BoxFits(e)
  BY <1>1, <1>3, MakeUpdatesOK
<1>. HIDE DEF e
<1>5. e \in Results /\ e.w \in Works
  BY <1>4, LinkFacts
<1>6. w \in Works /\ w.late = e.w.late
  <2>1. e.w.forward \in Nat /\ e.w.hold \in Nat
    BY <1>5 DEF Works
  <2>2. g \in Nat /\ h \in Nat
    BY <1>1, <2>1, SMTT(30)
  <2>. HIDE DEF g, h
  <2>. QED  BY <1>5, <2>2 DEF Works
<1>7. d = [e EXCEPT !.w = w]
  BY <1>2, <1>5 DEF Results, Works
<1>. HIDE DEF w, d
<1>8. d \in Results /\ d.c = e.c /\ d.k = e.k /\ d.box = e.box /\ d.msgs = e.msgs /\ d.w = w
  BY <1>5, <1>6, <1>7 DEF Results
<1>9. Seen(v, d) = Seen(v, e)
  BY <1>6, <1>8 DEF Seen
<1>10. Link(v, y, p, in, d) /\ BoxFits(d)
  BY <1>4, <1>8, <1>9 DEF Link, BoxFits
<1>. QED  BY <1>4, <1>6, <1>8, <1>10 DEF d

\* HTLCs locked in are processed or kept.
LEMMA ProcessOrDeferOK ==
    ASSUME NEW v \in Views, NEW y \in Views, NEW p \in Seq(Messages), NEW in \in Seq(Messages),
           NEW r, Link(v, y, p, in, r), BoxFits(r),
           NEW m \in Nat, NEW outcomes \in [1..m -> Outcomes]
    PROVE  LET d == ProcessOrDefer(r, m, outcomes)
           IN  /\ Link(v, y, p, in, d) /\ BoxFits(d) /\ d.k.received = r.k.received
               /\ d.w.late = r.w.late
<1>. DEFINE d == ProcessOrDefer(r, m, outcomes)
<1>1. CASE CanSendUpdates(r.k)
  BY <1>1, ProcessRemoteAddsOK DEF ProcessOrDefer
<1>2. CASE ~CanSendUpdates(r.k)
  <2>. DEFINE g == r.k.resumeQueue + m
              k2 == [r.k EXCEPT !.resumeQueue = g]
  <2>1. r \in Results /\ r.k \in Quiescers /\ p \o r.msgs \in Seq(Messages)
    BY LinkFacts
  <2>2. d = [r EXCEPT !.k = k2]
    BY <1>2 DEF ProcessOrDefer
  <2>3. /\ k2 \in Quiescers /\ k2.sent = r.k.sent /\ k2.received = r.k.received
        /\ k2.localInit = r.k.localInit /\ k2.remoteInit = r.k.remoteInit /\ k2.req = r.k.req
    <3>1. r.k.resumeQueue \in Nat
      BY <2>1 DEF Quiescers
    <3>2. g \in Nat
      BY <3>1
    <3>. HIDE DEF g
    <3>. QED  BY <2>1, <3>2 DEF Quiescers
  <2>. HIDE DEF d, k2
  <2>4. d \in Results /\ d.c = r.c /\ d.k = k2 /\ d.box = r.box /\ d.msgs = r.msgs /\ d.w = r.w
    BY <2>1, <2>2, <2>3 DEF Results
  <2>. DEFINE x == Seen(v, r)
              x2 == Seen(v, d)
  <2>5. /\ x \in Views /\ x2 \in Views /\ x2.id = x.id /\ x2.tx = x.tx /\ x2.m = x.m
        /\ x2.c = x.c /\ x.k = r.k /\ x2.k = k2
    BY <2>1, <2>4, SeenFacts
  <2>8. x2.late = x.late
    BY <2>1, <2>4, SeenLate
  <2>. HIDE DEF x, x2
  <2>6. Sides(x2, y, p \o r.msgs, in)
    <3>1. Sides(x, y, p \o r.msgs, in)
      BY DEF x, Link
    <3>2. /\ x2.k.localInit = x.k.localInit /\ x2.k.remoteInit = x.k.remoteInit
          /\ x2.k.sent = x.k.sent /\ x2.k.received = x.k.received /\ x2.k.req = x.k.req
      BY <2>3, <2>5
    <3>. QED  BY <2>1, <2>5, <2>8, <3>1, <3>2, WithdrawKeeps
  <2>7. Link(v, y, p, in, d) /\ BoxFits(d)
    BY <2>3, <2>4, <2>6 DEF Link, BoxFits, x2
  <2>. QED  BY <2>3, <2>4, <2>7 DEF d
<1>. QED  BY <1>1, <1>2

\* A commit_sig read and answered.
LEMMA CommitSigOK ==
    ASSUME NEW v \in Views, NEW y \in Views, NEW p \in Seq(Messages), NEW in \in Seq(Messages),
           NEW r, Link(v, y, p, in, r), BoxFits(r), in # <<>>, in[1].type = "commit_sig"
    PROVE  LET d == Send([r EXCEPT !.c = RevokeCurrentCommitment(@)], [type |-> "revoke_and_ack"])
           IN  /\ in[1].indices = NextOwn(r.c)
               /\ Link(v, y, p, Tail(in), d) /\ BoxFits(d) /\ d.k = r.k /\ d.w = r.w
<1>. DEFINE e == [type |-> "revoke_and_ack"]
            c2 == RevokeCurrentCommitment(r.c)
            m2 == Append(r.msgs, e)
            d == Send([r EXCEPT !.c = RevokeCurrentCommitment(@)], e)
<1>1. /\ r \in Results /\ r.c \in Channels /\ r.k \in Quiescers /\ r.msgs \in Seq(Messages)
      /\ r.box \in Seq(Packets) /\ r.w \in Works /\ y.c \in Channels
      /\ p \o r.msgs \in Seq(Messages)
      /\ Chans(r.c, y.c, p \o r.msgs, in) /\ Sides(Seen(v, r), y, p \o r.msgs, in)
  BY LinkFacts
<1>2. Tail(in) \in Seq(Messages) /\ Less(Tail(in), in)
  BY TailLess
<1>3. in[1].indices = NextOwn(r.c)
  <2>. DEFINE a == r.c
              pipe == p \o r.msgs
  <2>1. /\ a \in Channels /\ y.c \in Channels /\ pipe \in Seq(Messages) /\ in \in Seq(Messages)
        /\ Chans(a, y.c, pipe, in) /\ in # <<>> /\ in[1].type = "commit_sig"
    BY <1>1
  <2>. HIDE DEF a, pipe
  <2>2. in[1].indices = NextOwn(a)
    BY ONLY <2>1, SignatureExpected
  <2>. QED  BY <2>2 DEF a
<1>4. e \in Messages /\ e.type = "revoke_and_ack"
  BY DEF Messages
<1>5. r.c.peer # <<>>
  BY <1>1, PeerFacts
<1>6. /\ c2 \in Channels /\ c2.own = NextOwn(r.c) /\ c2.log = r.c.log /\ c2.peer = r.c.peer
      /\ NextOwn(r.c).Local = r.c.peer[1].Local /\ NextOwn(r.c).Remote = Len(r.c.log.Remote)
  BY <1>1, <1>5, OperationFacts
<1>7. d = [r EXCEPT !.c = c2, !.msgs = m2]
  BY <1>1 DEF Send, Results
<1>. HIDE DEF e, d, c2
<1>8. m2 \in Seq(Messages) /\ More(m2, r.msgs, 1, e)
  BY <1>1, <1>4, AppendMore
<1>. HIDE DEF m2
<1>9. d \in Results /\ d.c = c2 /\ d.k = r.k /\ d.box = r.box /\ d.msgs = m2 /\ d.w = r.w
  BY <1>1, <1>6, <1>7, <1>8 DEF Results
<1>10. p \o m2 \in Seq(Messages) /\ More(p \o m2, p \o r.msgs, 1, e)
  BY <1>1, <1>8, ConcatKeepsMore
<1>11. Chans(c2, y.c, p \o m2, Tail(in))
  BY <1>1, <1>2, <1>4, <1>6, <1>10, RevokeInStep
<1>. DEFINE x == Seen(v, r)
            x2 == Seen(v, d)
<1>12. /\ x \in Views /\ x2 \in Views /\ SameFlags(x2, x) /\ SameFlags(x2, x2)
       /\ x2.c = c2 /\ x.c = r.c
  BY <1>1, <1>9, SeenFacts DEF SameFlags
<1>18. x2.late = x.late
  BY <1>1, <1>9, SeenLate
<1>14. NoDanglingUpdates(r.c, "Remote") => NoDanglingUpdates(c2, "Remote")
  BY <1>6 DEF NoDanglingUpdates, LogIndex
<1>. HIDE DEF x, x2
<1>15. Sides(x2, y, p \o r.msgs, Tail(in))
  <2>1. Sides(x, y, p \o r.msgs, in)
    BY <1>1 DEF x
  <2>. QED  BY <1>1, <1>2, <1>6, <1>12, <1>14, <1>18, <2>1, ReadKeeps
<1>16. Sides(x2, y, p \o m2, Tail(in))
  BY <1>1, <1>2, <1>4, <1>10, <1>12, <1>15, <1>18, CommitmentKeeps
<1>17. Link(v, y, p, Tail(in), d) /\ BoxFits(d)
  BY <1>6, <1>9, <1>11, <1>16 DEF Link, BoxFits, x2
<1>. QED  BY <1>3, <1>9, <1>17 DEF d, e

\* A revoke_and_ack read.
LEMMA RevokeAndAckOK ==
    ASSUME NEW v \in Views, NEW y \in Views, NEW p \in Seq(Messages), NEW in \in Seq(Messages),
           NEW r, Link(v, y, p, in, r), BoxFits(r), in # <<>>, in[1].type = "revoke_and_ack"
    PROVE  LET d == [r EXCEPT !.c = ReceiveRevocation(@)]
           IN  /\ Len(r.c.peer) = 2
               /\ Link(v, y, p, Tail(in), d) /\ BoxFits(d) /\ d.k = r.k /\ d.w = r.w
<1>. DEFINE c2 == ReceiveRevocation(r.c)
            d == [r EXCEPT !.c = ReceiveRevocation(@)]
<1>1. /\ r \in Results /\ r.c \in Channels /\ r.k \in Quiescers /\ r.msgs \in Seq(Messages)
      /\ r.box \in Seq(Packets) /\ r.w \in Works /\ y.c \in Channels
      /\ p \o r.msgs \in Seq(Messages)
      /\ Chans(r.c, y.c, p \o r.msgs, in) /\ Sides(Seen(v, r), y, p \o r.msgs, in)
  BY LinkFacts
<1>2. Tail(in) \in Seq(Messages) /\ Less(Tail(in), in)
  BY TailLess
<1>3. Len(r.c.peer) = 2
  BY <1>1, RevocationExpected
<1>5. r.c.peer # <<>> /\ r.c.peer \in Seq(Indices) /\ Last(r.c.peer) = r.c.peer[2]
  BY <1>1, <1>3, PeerFacts, ChannelFacts
<1>6. /\ c2 \in Channels /\ c2.own = r.c.own /\ c2.log = r.c.log /\ c2.peer = Tail(r.c.peer)
  BY <1>1, <1>5, OperationFacts
<1>7. d = [r EXCEPT !.c = c2]
  OBVIOUS
<1>. HIDE DEF d, c2
<1>9. d \in Results /\ d.c = c2 /\ d.k = r.k /\ d.box = r.box /\ d.msgs = r.msgs /\ d.w = r.w
  BY <1>1, <1>6, <1>7 DEF Results
<1>10. c2.peer[1] = r.c.peer[2] /\ Last(c2.peer) = r.c.peer[2]
  <2>1. Len(c2.peer) = 1 /\ c2.peer[1] = r.c.peer[2]
    BY <1>3, <1>5, <1>6
  <2>. QED  BY <2>1 DEF Last
<1>11. Chans(c2, y.c, p \o r.msgs, Tail(in))
  BY <1>1, <1>2, <1>6, RevocationInStep
<1>. DEFINE x == Seen(v, r)
            x2 == Seen(v, d)
<1>12. /\ x \in Views /\ x2 \in Views /\ SameFlags(x2, x) /\ x2.c = c2 /\ x.c = r.c
  BY <1>1, <1>9, SeenFacts DEF SameFlags
<1>18. x2.late = x.late
  BY <1>1, <1>9, SeenLate
<1>14. NoDanglingUpdates(r.c, "Remote") => NoDanglingUpdates(c2, "Remote")
  BY <1>5, <1>6, <1>10 DEF NoDanglingUpdates, LogIndex
<1>15. NoDanglingUpdates(r.c, "Remote") => c2.peer[1].Remote = Len(c2.log.Remote)
  BY <1>5, <1>6, <1>10 DEF NoDanglingUpdates, LogIndex
<1>. HIDE DEF x, x2
<1>16. Sides(x2, y, p \o r.msgs, Tail(in))
  <2>1. Sides(x, y, p \o r.msgs, in)
    BY <1>1 DEF x
  <2>. QED  BY <1>1, <1>2, <1>12, <1>14, <1>15, <1>18, <2>1, ReadKeeps
<1>17. Link(v, y, p, Tail(in), d) /\ BoxFits(d)
  BY <1>5, <1>6, <1>9, <1>10, <1>11, <1>16 DEF Link, BoxFits, x2
<1>. QED  BY <1>3, <1>9, <1>17 DEF d

\* An update read.
LEMMA ReadUpdateOK ==
    ASSUME NEW v \in Views, NEW y \in Views, NEW p \in Seq(Messages), NEW in \in Seq(Messages),
           NEW r, Link(v, y, p, in, r), BoxFits(r), in # <<>>, in[1].type = "update",
           ~r.k.received
    PROVE  LET d == [r EXCEPT !.c = AppendUpdates(@, "Remote", <<in[1].kind>>)]
           IN  Link(v, y, p, Tail(in), d) /\ BoxFits(d) /\ d.w = r.w
<1>. DEFINE u == in[1].kind
            one == <<u>>
            l == r.c.log.Remote
            c2 == AppendUpdates(r.c, "Remote", one)
            d == [r EXCEPT !.c = AppendUpdates(@, "Remote", one)]
<1>1. /\ r \in Results /\ r.c \in Channels /\ r.k \in Quiescers /\ r.msgs \in Seq(Messages)
      /\ r.box \in Seq(Packets) /\ r.w \in Works /\ y.c \in Channels
      /\ p \o r.msgs \in Seq(Messages)
      /\ Chans(r.c, y.c, p \o r.msgs, in) /\ Sides(Seen(v, r), y, p \o r.msgs, in)
  BY LinkFacts
<1>2. Tail(in) \in Seq(Messages) /\ Less(Tail(in), in) /\ in[1] \in Messages
  BY TailLess
<1>3. u \in Updates
  BY <1>2 DEF Messages
<1>4. l \in Seq(Updates) /\ Len(l) \in Nat
  BY <1>1, ChannelFacts
<1>. HIDE DEF u
<1>5. one \in Seq(Updates) /\ Len(one) = 1 /\ one[1] = u
  BY <1>3
<1>. HIDE DEF one, l
<1>6. l \o one \in Seq(Updates) /\ More(l \o one, l, 1, u)
  <2>1. /\ l \o one \in Seq(Updates) /\ Len(l \o one) = Len(l) + Len(one)
        /\ \A i \in 1..Len(l) : (l \o one)[i] = l[i]
        /\ \A i \in 1..Len(one) : (l \o one)[Len(l) + i] = one[i]
    <3>1. l \in Seq(Updates) /\ one \in Seq(Updates)
      BY <1>4, <1>5
    <3>. QED  BY ONLY <3>1, ConcatFacts
  <2>. DEFINE t == l \o one
  <2>2. /\ t \in Seq(Updates) /\ Len(t) = Len(l) + 1 /\ t[Len(l) + 1] = u
        /\ \A i \in 1..Len(l) : t[i] = l[i]
    BY <1>5, <2>1
  <2>. HIDE DEF t
  <2>3. \A i \in (Len(l) + 1)..(Len(l) + 1) : i = Len(l) + 1
    BY <1>4
  <2>4. More(t, l, 1, u)
    BY <2>2, <2>3 DEF More
  <2>. QED  BY <2>1, <2>4 DEF t
<1>7. /\ c2 \in Channels /\ c2.own = r.c.own /\ c2.peer = r.c.peer
      /\ c2.log.Local = r.c.log.Local /\ c2.log.Remote = l \o one
  BY <1>1, <1>5, OperationFacts DEF l
<1>8. d = [r EXCEPT !.c = c2]
  OBVIOUS
<1>. HIDE DEF c2, d
<1>9. d \in Results /\ d.c = c2 /\ d.k = r.k /\ d.box = r.box /\ d.msgs = r.msgs /\ d.w = r.w
  BY <1>1, <1>7, <1>8 DEF Results
<1>10. Chans(c2, y.c, p \o r.msgs, Tail(in))
  <2>1. More(c2.log.Remote, r.c.log.Remote, 1, in[1].kind)
    BY <1>6, <1>7 DEF l, u
  <2>. QED  BY <1>1, <1>2, <1>7, <2>1, ReadInStep
<1>. DEFINE x == Seen(v, r)
            x2 == Seen(v, d)
<1>11. /\ x \in Views /\ x2 \in Views /\ SameFlags(x2, x) /\ x2.c = c2 /\ x.c = r.c /\ ~x.k.received
  BY <1>1, <1>9, SeenFacts DEF SameFlags
<1>18. x2.late = x.late
  BY <1>1, <1>9, SeenLate
<1>. HIDE DEF x, x2
<1>12. Sides(x2, y, p \o r.msgs, Tail(in))
  <2>1. Sides(x, y, p \o r.msgs, in)
    BY <1>1 DEF x
  <2>. QED  BY <1>1, <1>2, <1>7, <1>11, <1>18, <2>1, UpdateReadKeeps
<1>13. Link(v, y, p, Tail(in), d) /\ BoxFits(d)
  BY <1>7, <1>9, <1>10, <1>12 DEF Link, BoxFits, x2
<1>. QED  BY <1>9, <1>13 DEF d, one, u

\* A stfu read.
LEMMA ReadStfuOK ==
    ASSUME NEW v \in Views, NEW y \in Views, NEW p \in Seq(Messages), NEW in \in Seq(Messages),
           NEW r, Link(v, y, p, in, r), BoxFits(r), in # <<>>, in[1].type = "stfu", v.id # y.id
    PROVE  /\ NoDanglingUpdates(r.c, "Remote")
           /\ \/ StfuValid(r.k, in[1].Initiator)
              \/ r.k.received /\ (v.m.resuming \/ v.m.inbox # <<>>)
           /\ StfuValid(r.k, in[1].Initiator) =>
              LET d == [r EXCEPT !.k = RecvStfu(@, v.id, in[1].Initiator)]
              IN  Link(v, y, p, Tail(in), d) /\ BoxFits(d) /\ d.w = r.w
<1>. DEFINE init == in[1].Initiator
            k1 == [r.k EXCEPT !.received = TRUE, !.remoteInit = init]
            k2 == ResolveAndStartTimeout(k1, v.id)
            d == [r EXCEPT !.k = RecvStfu(@, v.id, init)]
            x == Seen(v, r)
            x2 == Seen(v, d)
<1>1. /\ r \in Results /\ r.c \in Channels /\ r.k \in Quiescers /\ r.msgs \in Seq(Messages)
      /\ r.box \in Seq(Packets) /\ r.w \in Works /\ y.c \in Channels
      /\ p \o r.msgs \in Seq(Messages)
      /\ Chans(r.c, y.c, p \o r.msgs, in) /\ Sides(Seen(v, r), y, p \o r.msgs, in)
  BY LinkFacts
<1>2. /\ Tail(in) \in Seq(Messages) /\ Less(Tail(in), in) /\ in[1] \in Messages
      /\ 1 \in 1..Len(in)
  BY TailLess
<1>3. x \in Views /\ x.id = v.id /\ x.k = r.k /\ x.c = r.c /\ x.m = v.m
  BY <1>1, SeenFacts
<1>4. /\ NoDanglingUpdates(x.c, "Remote")
      /\ x.k.received => x.m.resuming \/ x.m.inbox # <<>>
      /\ ~x.k.received => x.k.sent \/ init
  <2>. HIDE DEF x
  <2>1. Sides(x, y, p \o r.msgs, in)
    BY <1>1 DEF x
  <2>2. NoDanglingUpdates(x.c, "Remote")
    BY <1>2, <2>1 DEF Sides, Quiet, StfuOK
  <2>3. Rounds(x, y, p \o r.msgs, in)
    BY <2>1 DEF Sides
  <2>. QED  BY <1>1, <1>2, <1>3, <2>2, <2>3, StfuExpected
<1>5. /\ NoDanglingUpdates(r.c, "Remote")
      /\ StfuValid(r.k, init) \/ (r.k.received /\ (v.m.resuming \/ v.m.inbox # <<>>))
  BY <1>3, <1>4 DEF StfuValid
<1>16. CASE ~StfuValid(r.k, init)
  BY <1>5, <1>16 DEF init
<1>. SUFFICES ASSUME StfuValid(r.k, init)
              PROVE  Link(v, y, p, Tail(in), d) /\ BoxFits(d) /\ d.w = r.w
  BY <1>5, <1>16 DEF init
<1>6. init \in BOOLEAN
  BY <1>2 DEF Messages
<1>7. r.k.req = "pending" => r.k.localInit
  BY <1>1, <1>3 DEF Sides, Rounds, FlagsOK
<1>. HIDE DEF init
<1>8. /\ k1 \in Quiescers /\ k1.received /\ k1.sent = r.k.sent /\ k1.req = r.k.req
      /\ k1.localInit = r.k.localInit /\ k1.remoteInit = init
  BY <1>1, <1>6 DEF Quiescers
<1>9. d = [r EXCEPT !.k = k2]
  BY DEF RecvStfu
<1>. HIDE DEF k1
<1>10. /\ k2 \in Quiescers /\ k2.received /\ k2.sent = r.k.sent
       /\ k2.localInit = r.k.localInit /\ k2.remoteInit = init
       /\ k2.req = IF r.k.sent /\ r.k.req = "pending"
                   THEN IF k2.localInit /\ (v.id = Opener \/ ~k2.remoteInit)
                        THEN "Local" ELSE "Remote"
                   ELSE r.k.req
  BY <1>7, <1>8, ResolveFacts
<1>. HIDE DEF k2, d
<1>11. d \in Results /\ d.c = r.c /\ d.k = k2 /\ d.box = r.box /\ d.msgs = r.msgs /\ d.w = r.w
  BY <1>1, <1>9, <1>10 DEF Results
<1>12. /\ x2 \in Views /\ x2.id = x.id /\ x2.tx = x.tx /\ x2.m = x.m /\ x2.c = x.c /\ x2.k = k2
       /\ x2.late = x.late
  BY <1>1, <1>3, <1>11, SeenFacts
<1>. HIDE DEF x, x2
<1>13. Chans(d.c, y.c, p \o r.msgs, Tail(in))
  BY <1>1, <1>2, <1>11, ReadInStep
<1>14. Sides(x2, y, p \o r.msgs, Tail(in))
  <2>1. Sides(x, y, p \o r.msgs, in)
    BY <1>1 DEF x
  <2>2. x2.k.req = IF x.k.sent /\ x.k.req = "pending"
                   THEN IF Wins(x2) THEN "Local" ELSE "Remote" ELSE x.k.req
    BY <1>3, <1>10, <1>12 DEF Wins
  <2>3. /\ x2.k.received /\ x2.k.localInit = x.k.localInit /\ x2.k.remoteInit = in[1].Initiator
        /\ x2.k.sent = x.k.sent /\ x.id # y.id /\ ~x.k.received
    BY <1>3, <1>10, <1>12 DEF init, StfuValid
  <2>. QED  BY <1>1, <1>2, <1>3, <1>12, <2>1, <2>2, <2>3, StfuReadKeeps
<1>15. Link(v, y, p, Tail(in), d) /\ BoxFits(d)
  BY <1>10, <1>11, <1>13, <1>14 DEF Link, BoxFits, x2
<1>. QED  BY <1>11, <1>15

\* A tx_abort read: node v becomes v2.
LEMMA ReadAbortOK ==
    ASSUME NEW v \in Views, NEW y \in Views, NEW p \in Seq(Messages), NEW in \in Seq(Messages),
           NEW r, Link(v, y, p, in, r), in # <<>>, in[1].type = "tx_abort",
           NEW v2 \in Views, v2.id = v.id, v2.tx = (v.tx \/ IsQuiescent(r.k)),
           v2.m.abortSent = v.m.abortSent, v2.m.resuming = v.m.resuming,
           v2.m.inbox = Append(v.m.inbox, in[1])
    PROVE  Link(v2, y, p, Tail(in), r)
<1>. DEFINE x == Seen(v, r)
            x2 == Seen(v2, r)
<1>1. /\ r \in Results /\ r.c \in Channels /\ r.k \in Quiescers /\ r.msgs \in Seq(Messages)
      /\ r.box \in Seq(Packets) /\ r.w \in Works /\ y.c \in Channels
      /\ p \o r.msgs \in Seq(Messages)
      /\ Chans(r.c, y.c, p \o r.msgs, in) /\ Sides(Seen(v, r), y, p \o r.msgs, in)
  BY LinkFacts
<1>2. Tail(in) \in Seq(Messages) /\ Less(Tail(in), in) /\ in[1] \in Messages
  BY TailLess
<1>3. Chans(r.c, y.c, p \o r.msgs, Tail(in))
  BY <1>1, <1>2, ReadInStep
<1>4. /\ x \in Views /\ x2 \in Views /\ x.id = v.id /\ x2.id = v2.id /\ x.m = v.m /\ x2.m = v2.m
      /\ x.tx = v.tx /\ x2.tx = v2.tx /\ x.k = r.k /\ x2.k = r.k /\ x.c = r.c /\ x2.c = r.c
      /\ x2.late = x.late
  BY <1>1, SeenFacts
<1>. HIDE DEF x, x2
<1>5. Sides(x2, y, p \o r.msgs, Tail(in))
  <2>1. Sides(x, y, p \o r.msgs, in)
    BY <1>1 DEF x
  <2>2. /\ x2.id = x.id /\ x2.c = x.c /\ x2.k = x.k /\ x2.tx = (x.tx \/ IsQuiescent(x.k))
        /\ x2.m.abortSent = x.m.abortSent /\ x2.m.resuming = x.m.resuming
        /\ x2.m.inbox = Append(x.m.inbox, in[1])
    BY <1>4
  <2>. QED  BY <1>1, <1>2, <1>4, <2>1, <2>2, AbortReadKeeps
<1>. QED  BY <1>1, <1>3, <1>5 DEF Link, x2

\* A request taken up.
LEMMA InitOK ==
    ASSUME NEW v \in Views, NEW y \in Views, NEW p \in Seq(Messages), NEW in \in Seq(Messages),
           NEW r, Link(v, y, p, in, r), BoxFits(r), r.k.req = "none"
    PROVE  LET d == [r EXCEPT !.k = InitStfu(@, v.id)]
           IN  Link(v, y, p, in, d) /\ BoxFits(d) /\ d.k.received = r.k.received /\ d.w = r.w
<1>. DEFINE k2 == InitStfu(r.k, v.id)
            d == [r EXCEPT !.k = InitStfu(@, v.id)]
            x == Seen(v, r)
            x2 == Seen(v, d)
<1>1. /\ r \in Results /\ r.c \in Channels /\ r.k \in Quiescers /\ r.msgs \in Seq(Messages)
      /\ r.box \in Seq(Packets) /\ r.w \in Works /\ y.c \in Channels
      /\ p \o r.msgs \in Seq(Messages)
      /\ Chans(r.c, y.c, p \o r.msgs, in) /\ Sides(Seen(v, r), y, p \o r.msgs, in)
  BY LinkFacts
<1>2. x \in Views /\ x.id = v.id /\ x.k = r.k /\ x.c = r.c /\ x.m = v.m
  BY <1>1, SeenFacts
<1>3. /\ r.k.sent \in BOOLEAN /\ r.k.received \in BOOLEAN /\ r.k.localInit \in BOOLEAN
      /\ r.k.remoteInit \in BOOLEAN /\ r.k.refuse \in BOOLEAN
  BY <1>1 DEF Quiescers
<1>4. r.k.sent /\ ~r.k.localInit => r.k.received /\ r.k.remoteInit
  BY <1>1, <1>2 DEF Sides, Rounds, FlagsOK
<1>5. /\ k2 \in Quiescers /\ k2.remoteInit = r.k.remoteInit /\ k2.sent = r.k.sent
      /\ k2.received = r.k.received
      /\ \/ k2.localInit = r.k.localInit /\ k2.req \in {"refused", "Remote"}
         \/ ~r.k.sent /\ k2.localInit /\ k2.req = "pending"
  <2>1. CASE r.k.refuse \/ r.k.localInit
    <3>1. k2 = [r.k EXCEPT !.req = "refused"]
      BY <1>3, <2>1 DEF InitStfu
    <3>. HIDE DEF k2
    <3>. QED  BY <1>1, <3>1 DEF Quiescers
  <2>2. CASE ~r.k.refuse /\ ~r.k.localInit /\ r.k.sent
    <3>1. IsQuiescent(r.k) /\ QuiescenceInitiator(r.k, v.id) = "Remote"
      BY <1>3, <1>4, <2>2 DEF IsQuiescent, QuiescenceInitiator
    <3>2. k2 = [r.k EXCEPT !.req = "Remote"]
      BY <1>3, <2>2, <3>1 DEF InitStfu
    <3>. HIDE DEF k2
    <3>. QED  BY <1>1, <3>2 DEF Quiescers
  <2>3. CASE ~r.k.refuse /\ ~r.k.localInit /\ ~r.k.sent
    <3>1. k2 = [r.k EXCEPT !.localInit = TRUE, !.req = "pending"]
      BY <1>3, <2>3 DEF InitStfu
    <3>. HIDE DEF k2
    <3>. QED  BY <1>1, <2>3, <3>1 DEF Quiescers
  <2>. QED  BY <1>3, <2>1, <2>2, <2>3
<1>6. d = [r EXCEPT !.k = k2]
  OBVIOUS
<1>. HIDE DEF k2, d
<1>7. d \in Results /\ d.c = r.c /\ d.k = k2 /\ d.box = r.box /\ d.msgs = r.msgs /\ d.w = r.w
  BY <1>1, <1>5, <1>6 DEF Results
<1>8. /\ x2 \in Views /\ x2.id = x.id /\ x2.tx = x.tx /\ x2.m = x.m /\ x2.c = x.c /\ x2.k = k2
      /\ x2.late = x.late
  BY <1>1, <1>2, <1>7, SeenFacts
<1>. HIDE DEF x, x2
<1>9. Sides(x2, y, p \o r.msgs, in)
  <2>1. Sides(x, y, p \o r.msgs, in)
    BY <1>1, <1>2 DEF x
  <2>2. /\ x2.k.remoteInit = x.k.remoteInit /\ x2.k.sent = x.k.sent
        /\ x2.k.received = x.k.received /\ x.k.req = "none"
        /\ \/ x2.k.localInit = x.k.localInit /\ x2.k.req \in {"refused", "Remote"}
           \/ ~x.k.sent /\ x2.k.localInit /\ x2.k.req = "pending"
    BY <1>2, <1>5, <1>8
  <2>. QED  BY <1>1, <1>2, <1>8, <2>1, <2>2, InitKeeps
<1>10. Link(v, y, p, in, d) /\ BoxFits(d) /\ d.k.received = r.k.received
  BY <1>1, <1>5, <1>7, <1>9 DEF Link, BoxFits, x2
<1>. QED  BY <1>7, <1>10 DEF d

\* The quiescer is reset and the mailbox delivers its packets again: node v
\* becomes v2.
LEMMA ResumeOK ==
    ASSUME NEW v \in Views, NEW y \in Views, NEW p \in Seq(Messages), NEW in \in Seq(Messages),
           NEW r, Link(v, y, p, in, r), v.m.resuming, NEW v2 \in Views, v2.id = v.id, ~v2.tx,
           v2.m.abortSent = v.m.abortSent, ~v2.m.resuming, v2.m.inbox = v.m.inbox
    PROVE  LET d == [r EXCEPT !.k = Reset(@), !.box = ResetPackets(@)]
           IN  Link(v2, y, p, in, d) /\ BoxFits(d) /\ CanSendUpdates(d.k) /\ d.w = r.w
<1>. DEFINE k2 == Reset(r.k)
            b == ResetPackets(r.box)
            d == [r EXCEPT !.k = Reset(@), !.box = ResetPackets(@)]
            x == Seen(v, r)
            x2 == Seen(v2, d)
<1>1. /\ r \in Results /\ r.c \in Channels /\ r.k \in Quiescers /\ r.msgs \in Seq(Messages)
      /\ r.box \in Seq(Packets) /\ r.w \in Works /\ y.c \in Channels
      /\ p \o r.msgs \in Seq(Messages)
      /\ Chans(r.c, y.c, p \o r.msgs, in) /\ Sides(Seen(v, r), y, p \o r.msgs, in)
  BY LinkFacts
<1>2. /\ k2 \in Quiescers /\ ~k2.sent /\ ~k2.received /\ ~k2.localInit /\ ~k2.remoteInit
      /\ k2.req = r.k.req
  BY <1>1 DEF Quiescers, Reset
<1>3. b \in Seq(Packets) /\ \A i \in 1..Len(b) : b[i].at # "applied"
  <2>. DEFINE l == Len(r.box)
              f(i) == [r.box[i] EXCEPT !.at = "new"]
  <2>1. l \in Nat /\ DOMAIN r.box = 1..l /\ \A i \in 1..l : r.box[i] \in Packets
    BY <1>1
  <2>2. \A i \in 1..l : f(i) \in Packets /\ f(i).at = "new"
    BY <2>1 DEF Packets
  <2>3. b = [i \in 1..l |-> f(i)]
    BY <2>1 DEF ResetPackets
  <2>. HIDE DEF l, f, b
  <2>4. b \in Seq(Packets) /\ Len(b) = l /\ \A i \in 1..l : b[i] = f(i)
    BY <2>1, <2>2, <2>3
  <2>. QED  BY <2>2, <2>4
<1>4. d = [r EXCEPT !.k = k2, !.box = b]
  OBVIOUS
<1>. HIDE DEF k2, b, d
<1>5. d \in Results /\ d.c = r.c /\ d.k = k2 /\ d.box = b /\ d.msgs = r.msgs /\ d.w = r.w
  BY <1>1, <1>2, <1>3, <1>4 DEF Results
<1>6. /\ x \in Views /\ x2 \in Views /\ x.id = v.id /\ x2.id = v2.id /\ x.m = v.m /\ x2.m = v2.m
      /\ x.tx = v.tx /\ x2.tx = v2.tx /\ x.k = r.k /\ x2.k = k2 /\ x.c = r.c /\ x2.c = r.c
  BY <1>1, <1>5, SeenFacts
<1>9. x2.late = x.late
  BY <1>1, <1>5, SeenLate
<1>. HIDE DEF x, x2
<1>7. Sides(x2, y, p \o r.msgs, in)
  <2>1. Sides(x, y, p \o r.msgs, in) /\ x.m.resuming
    BY <1>1, <1>6 DEF x
  <2>2. /\ x2.id = x.id /\ x2.c = x.c /\ ~x2.tx
        /\ x2.m.abortSent = x.m.abortSent /\ ~x2.m.resuming /\ x2.m.inbox = x.m.inbox
        /\ ~x2.k.sent /\ ~x2.k.received /\ ~x2.k.localInit /\ ~x2.k.remoteInit
        /\ x2.k.req = x.k.req
    BY <1>2, <1>6
  <2>. QED  BY <1>1, <1>6, <1>9, <2>1, <2>2, ResumeKeeps
<1>8. Link(v2, y, p, in, d) /\ BoxFits(d) /\ CanSendUpdates(d.k)
  BY <1>1, <1>2, <1>3, <1>5, <1>7 DEF Link, BoxFits, x2, CanSendUpdates
<1>. QED  BY <1>5, <1>8 DEF d

\* Packages kept for resume are processed before or after the reset alike.
LEMMA ResetCommutes ==
    ASSUME NEW r \in Results, NEW m \in Nat, NEW outcomes \in [1..m -> Outcomes]
    PROVE  [ProcessRemoteAdds(r, outcomes) EXCEPT !.k = Reset(@), !.box = ResetPackets(@)]
             = ProcessRemoteAdds([r EXCEPT !.k = Reset(@), !.box = ResetPackets(@)], outcomes)
<1>. DEFINE number(what) == Cardinality({i \in DOMAIN outcomes : outcomes[i] = what})
            a == number("resolve")
            g == number("forward")
            h == number("hold")
            k2 == Reset(r.k)
            b == ResetPackets(r.box)
            c2 == AppendUpdates(r.c, "Local", [i \in 1..a |-> "Rmv"])
            m2 == r.msgs \o [i \in 1..a |-> [type |-> "update", kind |-> "Rmv"]]
            w2 == [r.w EXCEPT !.forward = @ + g, !.hold = @ + h]
            e == [r EXCEPT !.k = Reset(@), !.box = ResetPackets(@)]
<1>1. ProcessRemoteAdds(r, outcomes) = [r EXCEPT !.c = c2, !.msgs = m2, !.w = w2]
  BY DEF ProcessRemoteAdds, MakeUpdates, Results, Works
<1>2. e = [r EXCEPT !.k = k2, !.box = b]
  OBVIOUS
<1>3. ProcessRemoteAdds(e, outcomes) = [r EXCEPT !.c = c2, !.msgs = m2, !.w = w2, !.k = k2, !.box = b]
  <2>. HIDE DEF k2, b, e, a
  <2>1. e.c = r.c /\ e.msgs = r.msgs /\ e.w = r.w
    BY <1>2 DEF Results
  <2>2. ProcessRemoteAdds(e, outcomes) = [e EXCEPT !.c = c2, !.msgs = m2, !.w = w2]
    BY <1>2, <2>1 DEF ProcessRemoteAdds, MakeUpdates, Results, Works, a
  <2>. HIDE DEF c2, m2, w2
  <2>. QED  BY <1>2, <2>2 DEF Results
<1>. HIDE DEF k2, b, c2, m2, w2
<1>4. [ProcessRemoteAdds(r, outcomes) EXCEPT !.k = Reset(@), !.box = ResetPackets(@)]
        = [r EXCEPT !.c = c2, !.msgs = m2, !.w = w2, !.k = k2, !.box = b]
  BY <1>1 DEF Results, k2, b
<1>. QED  BY <1>3, <1>4

\* Sequences in a row.
LEMMA ConcatAssociates ==
    ASSUME NEW S, NEW s \in Seq(S), NEW t \in Seq(S), NEW u \in Seq(S)
    PROVE  s \o (t \o u) = (s \o t) \o u
<1>. DEFINE a == t \o u
            b == s \o t
<1>1. /\ a \in Seq(S) /\ Len(a) = Len(t) + Len(u)
      /\ \A i \in 1..Len(t) : a[i] = t[i]
      /\ \A i \in 1..Len(u) : a[Len(t) + i] = u[i]
  BY ConcatFacts
<1>2. /\ b \in Seq(S) /\ Len(b) = Len(s) + Len(t)
      /\ \A i \in 1..Len(s) : b[i] = s[i]
      /\ \A i \in 1..Len(t) : b[Len(s) + i] = t[i]
  BY ConcatFacts
<1>. HIDE DEF a, b
<1>. DEFINE x == s \o a
            y == b \o u
<1>3. /\ x \in Seq(S) /\ Len(x) = Len(s) + Len(a)
      /\ \A i \in 1..Len(s) : x[i] = s[i]
      /\ \A i \in 1..Len(a) : x[Len(s) + i] = a[i]
  <2>1. a \in Seq(S) /\ s \in Seq(S)
    BY <1>1
  <2>. QED  BY ONLY <2>1, ConcatFacts
<1>4. /\ y \in Seq(S) /\ Len(y) = Len(b) + Len(u)
      /\ \A i \in 1..Len(b) : y[i] = b[i]
      /\ \A i \in 1..Len(u) : y[Len(b) + i] = u[i]
  <2>1. b \in Seq(S) /\ u \in Seq(S)
    BY <1>2
  <2>. QED  BY ONLY <2>1, ConcatFacts
<1>5. Len(s) \in Nat /\ Len(t) \in Nat /\ Len(u) \in Nat
  OBVIOUS
<1>. HIDE DEF x, y
<1>6. Len(x) = Len(y) /\ Len(x) = Len(s) + Len(t) + Len(u)
  BY <1>1, <1>2, <1>3, <1>4, <1>5
<1>7. ASSUME NEW i \in 1..Len(x) PROVE x[i] = y[i]
  <2>1. CASE i <= Len(s)
    <3>1. i \in 1..Len(s) /\ i \in 1..Len(b)
      BY <1>2, <1>5, <2>1
    <3>. QED  BY <1>2, <1>3, <1>4, <3>1
  <2>2. CASE i > Len(s) /\ i <= Len(s) + Len(t)
    <3>. DEFINE k == i - Len(s)
    <3>1. k \in 1..Len(t) /\ k \in 1..Len(a) /\ i \in 1..Len(b) /\ i = Len(s) + k
      BY <1>1, <1>2, <1>5, <2>2
    <3>. HIDE DEF k
    <3>. QED  BY <1>1, <1>2, <1>3, <1>4, <3>1
  <2>3. CASE i > Len(s) + Len(t)
    <3>. DEFINE k == i - (Len(s) + Len(t))
    <3>1. /\ k \in 1..Len(u) /\ Len(t) + k \in 1..Len(a) /\ i = Len(s) + (Len(t) + k)
          /\ i = Len(b) + k
      BY <1>1, <1>2, <1>5, <1>6, <2>3
    <3>. HIDE DEF k
    <3>. QED  BY <1>1, <1>3, <1>4, <3>1
  <2>. QED  BY <1>5, <2>1, <2>2, <2>3
<1>8. x = y
  BY ONLY <1>3, <1>4, <1>6, <1>7, SameSequence
<1>. QED  BY <1>8 DEF x, y, a, b

\* The first of two sequences in a row.
LEMMA ConcatFirst ==
    ASSUME NEW S, NEW s \in Seq(S), NEW t \in Seq(S)
    PROVE  /\ s # <<>> => /\ s \o t # <<>> /\ (s \o t)[1] = Head(s) /\ Tail(s) \in Seq(S)
                         /\ Tail(s) \o t = Tail(s \o t)
           /\ <<>> \o t = t /\ s \o <<>> = s
           /\ t # <<>> => /\ Append(s, Head(t)) \in Seq(S) /\ Tail(t) \in Seq(S)
                         /\ Append(s, Head(t)) \o Tail(t) = s \o t
<1>1. <<>> \o t = t /\ s \o <<>> = s
  OBVIOUS
<1>2. ASSUME s # <<>>
      PROVE  /\ s \o t # <<>> /\ (s \o t)[1] = Head(s) /\ Tail(s) \in Seq(S)
             /\ Tail(s) \o t = Tail(s \o t)
  <2>. DEFINE a == s \o t
              b == Tail(s)
              c == b \o t
              d == Tail(a)
  <2>1. /\ a \in Seq(S) /\ Len(a) = Len(s) + Len(t)
        /\ \A i \in 1..Len(s) : a[i] = s[i]
        /\ \A i \in 1..Len(t) : a[Len(s) + i] = t[i]
    BY ConcatFacts
  <2>2. b \in Seq(S) /\ Less(b, s) /\ Head(s) = s[1] /\ Len(s) \in Nat /\ Len(s) >= 1
    BY <1>2, TailLess
  <2>. HIDE DEF a, b
  <2>3. /\ c \in Seq(S) /\ Len(c) = Len(b) + Len(t)
        /\ \A i \in 1..Len(b) : c[i] = b[i]
        /\ \A i \in 1..Len(t) : c[Len(b) + i] = t[i]
    BY ONLY <2>2, t \in Seq(S), ConcatFacts
  <2>4. Len(t) \in Nat /\ Len(b) \in Nat /\ Len(s) = Len(b) + 1
    BY <2>2 DEF Less
  <2>5. a # <<>> /\ a[1] = s[1]
    BY <2>1, <2>2, <2>4
  <2>6. d \in Seq(S) /\ Less(d, a)
    BY ONLY <2>1, <2>5, TailLess
  <2>. HIDE DEF c, d
  <2>7. Len(c) = Len(d)
    BY <2>1, <2>3, <2>4, <2>6 DEF Less
  <2>8. ASSUME NEW i \in 1..Len(c) PROVE c[i] = d[i]
    <3>1. d[i] = a[i + 1]
      BY <2>6, <2>7 DEF Less
    <3>2. CASE i <= Len(b)
      <4>1. i \in 1..Len(b) /\ i + 1 \in 1..Len(s)
        BY <2>4, <3>2
      <4>. QED  BY <2>1, <2>2, <2>3, <3>1, <4>1 DEF Less
    <3>3. CASE i > Len(b)
      <4>. DEFINE k == i - Len(b)
      <4>1. k \in 1..Len(t) /\ i = Len(b) + k /\ i + 1 = Len(s) + k
        BY <2>3, <2>4, <3>3
      <4>. HIDE DEF k
      <4>. QED  BY <2>1, <2>3, <3>1, <4>1
    <3>. QED  BY <2>4, <3>2, <3>3
  <2>9. c = d
    BY ONLY <2>3, <2>6, <2>7, <2>8, SameSequence
  <2>. QED  BY <2>2, <2>5, <2>9 DEF a, b, c, d
<1>3. ASSUME t # <<>>
      PROVE  /\ Append(s, Head(t)) \in Seq(S) /\ Tail(t) \in Seq(S)
             /\ Append(s, Head(t)) \o Tail(t) = s \o t
  <2>. DEFINE h == Head(t)
              b == Tail(t)
              a == Append(s, h)
              c == a \o b
              d == s \o t
  <2>1. /\ b \in Seq(S) /\ Less(b, t) /\ h = t[1] /\ h \in S /\ Len(t) \in Nat /\ Len(t) >= 1
    BY <1>3, TailLess
  <2>. HIDE DEF h, b
  <2>2. a \in Seq(S) /\ More(a, s, 1, h)
    BY ONLY <2>1, s \in Seq(S), AppendMore
  <2>. HIDE DEF a
  <2>3. /\ c \in Seq(S) /\ Len(c) = Len(a) + Len(b)
        /\ \A i \in 1..Len(a) : c[i] = a[i]
        /\ \A i \in 1..Len(b) : c[Len(a) + i] = b[i]
    BY ONLY <2>1, <2>2, ConcatFacts
  <2>4. /\ d \in Seq(S) /\ Len(d) = Len(s) + Len(t)
        /\ \A i \in 1..Len(s) : d[i] = s[i]
        /\ \A i \in 1..Len(t) : d[Len(s) + i] = t[i]
    BY ConcatFacts
  <2>5. /\ Len(s) \in Nat /\ Len(b) \in Nat /\ Len(t) = Len(b) + 1 /\ Len(a) = Len(s) + 1
    BY <2>1, <2>2 DEF Less, More
  <2>. HIDE DEF c, d
  <2>6. Len(c) = Len(d)
    BY <2>3, <2>4, <2>5
  <2>7. ASSUME NEW i \in 1..Len(c) PROVE c[i] = d[i]
    <3>1. CASE i <= Len(s)
      <4>1. i \in 1..Len(s) /\ i \in 1..Len(a)
        BY <2>5, <3>1
      <4>. QED  BY <2>2, <2>3, <2>4, <4>1 DEF More
    <3>2. CASE i = Len(s) + 1
      <4>1. i \in 1..Len(a) /\ i \in (Len(s) + 1)..(Len(s) + 1) /\ 1 \in 1..Len(t)
        BY <2>1, <2>5, <3>2
      <4>2. c[i] = h
        BY <2>2, <2>3, <4>1 DEF More
      <4>. QED  BY <2>1, <2>4, <3>2, <4>1, <4>2
    <3>3. CASE i > Len(s) + 1
      <4>. DEFINE k == i - Len(a)
      <4>1. k \in 1..Len(b) /\ i = Len(a) + k /\ k + 1 \in 1..Len(t) /\ i = Len(s) + (k + 1)
        BY <2>3, <2>5, <3>3
      <4>. HIDE DEF k
      <4>2. c[i] = b[k]
        BY <2>3, <4>1
      <4>3. d[i] = t[k + 1]
        BY <2>4, <4>1
      <4>. QED  BY <2>1, <4>1, <4>2, <4>3 DEF Less
    <3>. QED  BY <2>5, <3>1, <3>2, <3>3
  <2>8. c = d
    BY ONLY <2>3, <2>4, <2>6, <2>7, SameSequence
  <2>. QED  BY <2>1, <2>2, <2>8 DEF a, b, c, d, h
<1>. QED  BY <1>1, <1>2, <1>3

-----------------------------------------------------------------------------
(* The invariant, and the steps. *)

Typed ==
    /\ ch \in [Node -> Channels] /\ q \in [Node -> Quiescers]
    /\ mail \in [Node -> Seq(Packets)] /\ work \in [Node -> Works]
    /\ held \in [Node -> Seq(Messages)] /\ net \in [Node -> Seq(Messages)]
    /\ replay \in [Node -> BOOLEAN] /\ txSigs \in [Node -> BOOLEAN]
    /\ mach \in [Node -> Machines]

\* The inductive invariant.
IInv ==
    /\ Typed /\ StfuRespected
    /\ \A n \in Node :
          /\ Chans(ch[n], ch[Other(n)], Pipe(Other(n)), Pipe(n))
          /\ Sides(View(n), View(Other(n)), Pipe(Other(n)), Pipe(n))
          /\ HeldOK(n) /\ BoxFits(State(n))

\* A channel has two ends.
LEMMA OtherFacts ==
    ASSUME NEW n \in Node
    PROVE  /\ Other(n) \in Node /\ Other(n) # n /\ Other(Other(n)) = n
           /\ \A m \in Node : m = n \/ m = Other(n)
  BY NodesDiffer DEF Node, Other

\* The fields of a node.
LEMMA ViewFacts ==
    ASSUME Typed, NEW n \in Node
    PROVE  /\ View(n) \in Views /\ View(n).id = n /\ View(n).c = ch[n] /\ View(n).k = q[n]
           /\ View(n).tx = txSigs[n] /\ View(n).m = mach[n] /\ View(n).late = work[n].late
           /\ held[n] \in Seq(Messages) /\ net[n] \in Seq(Messages) /\ Pipe(n) \in Seq(Messages)
           /\ ch[n] \in Channels /\ q[n] \in Quiescers /\ mail[n] \in Seq(Packets)
           /\ work[n] \in Works /\ txSigs[n] \in BOOLEAN /\ mach[n] \in Machines
           /\ replay[n] \in BOOLEAN
<1>1. /\ held[n] \in Seq(Messages) /\ net[n] \in Seq(Messages)
      /\ ch[n] \in Channels /\ q[n] \in Quiescers /\ mail[n] \in Seq(Packets)
      /\ work[n] \in Works /\ txSigs[n] \in BOOLEAN /\ mach[n] \in Machines
      /\ replay[n] \in BOOLEAN
  BY DEF Typed
<1>2. held[n] \o net[n] \in Seq(Messages)
  BY ONLY <1>1
<1>3. View(n) \in Views
  <2>1. work[n].late \in BOOLEAN
    BY <1>1 DEF Works
  <2>. QED  BY <1>1, <2>1 DEF View, Views
<1>. QED  BY <1>1, <1>2, <1>3 DEF View, Pipe

\* Nodes with the same fields are the same.
LEMMA SameView ==
    ASSUME NEW v \in Views, NEW w \in Views, w.id = v.id, w.c = v.c, w.k = v.k, w.tx = v.tx,
           w.m = v.m, w.late = v.late
    PROVE  w = v
  BY DEF Views

\* A node before its step.
LEMMA StateFacts ==
    ASSUME Typed, NEW n \in Node
    PROVE  /\ State(n) \in Results /\ State(n).c = ch[n] /\ State(n).k = q[n]
           /\ State(n).box = mail[n] /\ State(n).w = work[n] /\ State(n).msgs = <<>>
           /\ Seen(View(n), State(n)) = View(n)
<1>1. /\ ch[n] \in Channels /\ q[n] \in Quiescers /\ mail[n] \in Seq(Packets) /\ work[n] \in Works
  BY ViewFacts
<1>2. <<>> \in Seq(Messages)
  OBVIOUS
<1>3. State(n) \in Results
  BY <1>1, <1>2 DEF State, Results
<1>4. Seen(View(n), State(n)) = View(n)
  <2>. DEFINE v == View(n)
              w == Seen(View(n), State(n))
  <2>1. State(n).c = ch[n] /\ State(n).k = q[n] /\ State(n).w = work[n]
    BY DEF State
  <2>2. /\ v \in Views /\ w \in Views /\ w.id = v.id /\ w.c = v.c /\ w.k = v.k /\ w.tx = v.tx
        /\ w.m = v.m
    BY <1>3, <2>1, ViewFacts, SeenFacts
  <2>4. w.late = work[n].late
    BY <1>3, <2>1, ViewFacts, SeenFacts
  <2>5. v.late = work[n].late
    BY ViewFacts
  <2>. HIDE DEF v, w
  <2>3. w = v
    BY <2>2, <2>4, <2>5, SameView
  <2>. QED  BY <2>3 DEF v, w
<1>. QED  BY <1>3, <1>4 DEF State

\* Every step starts from a good result.
LEMMA StartLink ==
    ASSUME IInv, NEW n \in Node
    PROVE  /\ Link(View(n), View(Other(n)), Pipe(Other(n)), Pipe(n), State(n))
           /\ BoxFits(State(n))
<1>1. Typed /\ BoxFits(State(n))
  BY DEF IInv
<1>2. /\ Chans(ch[n], ch[Other(n)], Pipe(Other(n)), Pipe(n))
      /\ Sides(View(n), View(Other(n)), Pipe(Other(n)), Pipe(n))
  BY DEF IInv
<1>3. Pipe(Other(n)) \in Seq(Messages) /\ View(Other(n)).c = ch[Other(n)]
  BY <1>1, OtherFacts, ViewFacts
<1>4. Pipe(Other(n)) \o <<>> = Pipe(Other(n))
  BY ONLY <1>3
<1>5. /\ State(n) \in Results /\ State(n).c = ch[n] /\ State(n).msgs = <<>>
      /\ Seen(View(n), State(n)) = View(n)
  BY <1>1, StateFacts
<1>. QED  BY <1>1, <1>2, <1>3, <1>4, <1>5 DEF Link

\* A step of node n leaves the invariant to show for n alone.
LEMMA StepKeeps ==
    ASSUME IInv, NEW n \in Node, Typed', StfuRespected',
           View(Other(n))' = View(Other(n)), mail'[Other(n)] = mail[Other(n)],
           held'[Other(n)] = held[Other(n)], replay'[Other(n)] = replay[Other(n)],
           Chans(ch'[n], ch[Other(n)], Pipe(Other(n))', Pipe(n)'),
           Sides(View(n)', View(Other(n)), Pipe(Other(n))', Pipe(n)'),
           HeldOK(n)', BoxFits(State(n))'
    PROVE  IInv'
<1>1. /\ Other(n) \in Node /\ Other(n) # n /\ Other(Other(n)) = n
      /\ \A m \in Node : m = n \/ m = Other(n)
  BY OtherFacts
<1>2. /\ ch'[Other(n)] = ch[Other(n)] /\ q'[Other(n)] = q[Other(n)]
      /\ txSigs'[Other(n)] = txSigs[Other(n)] /\ mach'[Other(n)] = mach[Other(n)]
  BY DEF View
<1>3. HeldOK(Other(n))'
  <2>1. HeldOK(Other(n))
    BY <1>1 DEF IInv
  <2>. QED  BY <1>2, <2>1 DEF HeldOK, HeldForResume, MustWait, CanRecvUpdates
<1>4. BoxFits(State(Other(n)))'
  <2>1. BoxFits(State(Other(n)))
    BY <1>1 DEF IInv
  <2>2. /\ State(Other(n)).c = State(Other(n))'.c /\ State(Other(n)).box = State(Other(n))'.box
        /\ State(Other(n)).k = State(Other(n))'.k
    BY <1>2 DEF State
  <2>. QED  BY <2>1, <2>2 DEF BoxFits
<1>5. /\ Chans(ch[n], ch[Other(n)], Pipe(Other(n)), Pipe(n))'
      /\ Sides(View(n), View(Other(n)), Pipe(Other(n)), Pipe(n))'
  BY <1>2
<1>6. /\ Chans(ch[Other(n)], ch[Other(Other(n))], Pipe(Other(Other(n))), Pipe(Other(n)))'
      /\ Sides(View(Other(n)), View(Other(Other(n))), Pipe(Other(Other(n))), Pipe(Other(n)))'
  <2>. DEFINE x == View(n)'
              y == View(Other(n))'
              p == Pipe(Other(n))'
              r == Pipe(n)'
  <2>1. Sides(x, y, p, r)
    BY <1>5
  <2>2. Chans(ch'[n], ch'[Other(n)], p, r)
    BY <1>5
  <2>. HIDE DEF x, y, p, r
  <2>3. Sides(y, x, r, p)
    BY <2>1, RoundsSym DEF Sides
  <2>4. Chans(ch'[Other(n)], ch'[n], r, p)
    BY <2>2 DEF Chans
  <2>. QED  BY <1>1, <2>3, <2>4 DEF x, y, p, r
<1>7. ASSUME NEW m \in Node
      PROVE  /\ Chans(ch[m], ch[Other(m)], Pipe(Other(m)), Pipe(m))'
             /\ Sides(View(m), View(Other(m)), Pipe(Other(m)), Pipe(m))'
             /\ HeldOK(m)' /\ BoxFits(State(m))'
  <2>1. CASE m = n
    BY <1>5, <2>1
  <2>2. CASE m = Other(n)
    BY <1>3, <1>4, <1>6, <2>2
  <2>. QED  BY <1>1, <2>1, <2>2
<1>. QED  BY <1>7 DEF IInv

\* What a link holds, when it does not turn to it.
LEMMA HeldSame ==
    ASSUME NEW n \in Node, HeldOK(n), held'[n] = held[n], replay'[n] = replay[n] \/ replay'[n],
           q'[n].received = q[n].received, txSigs'[n] = txSigs[n]
    PROVE  HeldOK(n)'
  BY DEF HeldOK, HeldForResume, MustWait, CanRecvUpdates

\* A link ends its step with a good result.
LEMMA ApplyKeeps ==
    ASSUME IInv, NEW n \in Node, NEW r, NEW inbox \in Seq(Messages), NEW waiting \in Seq(Messages),
           Apply(n, r, inbox, waiting), StfuRespected',
           NEW v \in Views, v.id = n, v.tx = txSigs'[n], v.m = mach'[n],
           txSigs' \in [Node -> BOOLEAN], mach' \in [Node -> Machines],
           replay' \in [Node -> BOOLEAN], txSigs'[Other(n)] = txSigs[Other(n)],
           mach'[Other(n)] = mach[Other(n)], replay'[Other(n)] = replay[Other(n)],
           Link(v, View(Other(n)), Pipe(Other(n)), waiting \o inbox, r), BoxFits(r), HeldOK(n)'
    PROVE  IInv'
<1>. DEFINE m == Other(n)
<1>1. m \in Node /\ m # n
  BY OtherFacts
<1>2. Typed
  BY DEF IInv
<1>. HIDE DEF m
<1>3. /\ View(m) \in Views /\ View(m).c = ch[m] /\ Pipe(m) \in Seq(Messages)
      /\ held[m] \in Seq(Messages) /\ net[m] \in Seq(Messages)
  BY <1>1, <1>2, ViewFacts
<1>4. Link(v, View(m), Pipe(m), waiting \o inbox, r)
  BY DEF m
<1>5. waiting \o inbox \in Seq(Messages)
  OBVIOUS
<1>6. /\ r \in Results /\ r.c \in Channels /\ r.k \in Quiescers /\ r.msgs \in Seq(Messages)
      /\ r.box \in Seq(Packets) /\ r.w \in Works
      /\ Chans(r.c, View(m).c, Pipe(m) \o r.msgs, waiting \o inbox)
      /\ Sides(Seen(v, r), View(m), Pipe(m) \o r.msgs, waiting \o inbox)
  BY <1>3, <1>4, <1>5, LinkFacts
<1>7. net[m] \o r.msgs \in Seq(Messages)
  BY ONLY <1>3, <1>6
<1>8. /\ ch' = [ch EXCEPT ![n] = r.c] /\ q' = [q EXCEPT ![n] = r.k]
      /\ mail' = [mail EXCEPT ![n] = r.box] /\ work' = [work EXCEPT ![n] = r.w]
      /\ net' = [net EXCEPT ![n] = inbox, ![m] = @ \o r.msgs]
      /\ held' = [held EXCEPT ![n] = waiting]
  BY DEF Apply, m
<1>9. /\ ch'[n] = r.c /\ ch'[m] = ch[m] /\ q'[n] = r.k /\ q'[m] = q[m]
      /\ mail'[n] = r.box /\ mail'[m] = mail[m] /\ held'[n] = waiting /\ held'[m] = held[m]
      /\ work'[n] = r.w /\ work'[m] = work[m]
  BY <1>1, <1>2, <1>8 DEF Typed
<1>10. net'[n] = inbox /\ net'[m] = net[m] \o r.msgs
  BY <1>1, <1>2, <1>8 DEF Typed
<1>11. Typed'
  <2>1. /\ ch' \in [Node -> Channels] /\ q' \in [Node -> Quiescers]
        /\ mail' \in [Node -> Seq(Packets)] /\ work' \in [Node -> Works]
        /\ held' \in [Node -> Seq(Messages)]
    BY <1>2, <1>6, <1>8 DEF Typed
  <2>2. net' \in [Node -> Seq(Messages)]
    <3>. DEFINE t == net[m] \o r.msgs
    <3>1. net' = [net EXCEPT ![n] = inbox, ![m] = t]
      BY <1>1, <1>2, <1>8 DEF Typed
    <3>2. t \in Seq(Messages)
      BY <1>7
    <3>. HIDE DEF t
    <3>. QED  BY <1>1, <1>2, <3>1, <3>2 DEF Typed
  <2>. QED  BY <2>1, <2>2 DEF Typed
<1>12. Pipe(n)' = waiting \o inbox
  BY <1>9, <1>10 DEF Pipe
<1>13. Pipe(m)' = Pipe(m) \o r.msgs
  <2>1. Pipe(m)' = held[m] \o (net[m] \o r.msgs)
    BY <1>9, <1>10 DEF Pipe
  <2>2. held[m] \o (net[m] \o r.msgs) = (held[m] \o net[m]) \o r.msgs
    <3>. DEFINE a == held[m]
                b == net[m]
                c == r.msgs
    <3>1. a \in Seq(Messages) /\ b \in Seq(Messages) /\ c \in Seq(Messages)
      BY <1>3, <1>6
    <3>. HIDE DEF a, b, c
    <3>2. a \o (b \o c) = (a \o b) \o c
      BY ONLY <3>1, ConcatAssociates, SMTT(30)
    <3>. QED  BY <3>2 DEF a, b, c
  <2>. QED  BY <2>1, <2>2 DEF Pipe
<1>14. View(n)' = Seen(v, r)
  <2>. DEFINE x == View(n)'
              w == Seen(v, r)
  <2>1. /\ x \in Views /\ x.id = n /\ x.c = r.c /\ x.k = r.k /\ x.tx = txSigs'[n]
        /\ x.m = mach'[n]
    <3>1. r.w.late \in BOOLEAN
      BY <1>6 DEF Works
    <3>. QED  BY <1>6, <1>9, <3>1 DEF View, Views
  <2>2. /\ w \in Views /\ w.id = n /\ w.c = r.c /\ w.k = r.k /\ w.tx = txSigs'[n]
        /\ w.m = mach'[n]
    BY <1>6, SeenFacts
  <2>4. x.late = r.w.late
    BY <1>9 DEF View
  <2>5. w.late = r.w.late
    BY <1>6, SeenFacts
  <2>. HIDE DEF x, w
  <2>3. x = w
    BY <2>1, <2>2, <2>4, <2>5, SameView
  <2>. QED  BY <2>3 DEF x, w
<1>15. View(m)' = View(m)
  BY <1>9 DEF View, m
<1>16. BoxFits(State(n))'
  <2>1. State(n)'.c = r.c /\ State(n)'.box = r.box /\ State(n)'.k = r.k
    BY <1>9 DEF State
  <2>. QED  BY <2>1 DEF BoxFits
<1>. QED  BY <1>3, <1>6, <1>9, <1>11, <1>12, <1>13, <1>14, <1>15, <1>16, StepKeeps DEF m

\* A step of a link alone.
LEMMA ApplySame ==
    ASSUME IInv, NEW n \in Node, NEW r, NEW inbox \in Seq(Messages), NEW waiting \in Seq(Messages),
           Apply(n, r, inbox, waiting), UNCHANGED <<replay, txSigs, mach>>, conn' = "up",
           Link(View(n), View(Other(n)), Pipe(Other(n)), waiting \o inbox, r), BoxFits(r),
           HeldOK(n)'
    PROVE  IInv'
<1>1. Typed /\ StfuRespected'
  BY DEF IInv, StfuRespected
<1>2. /\ txSigs' \in [Node -> BOOLEAN] /\ mach' \in [Node -> Machines]
      /\ replay' \in [Node -> BOOLEAN]
  BY <1>1 DEF Typed
<1>3. View(n) \in Views /\ View(n).id = n /\ View(n).tx = txSigs'[n] /\ View(n).m = mach'[n]
  BY <1>1, ViewFacts
<1>4. /\ txSigs'[Other(n)] = txSigs[Other(n)] /\ mach'[Other(n)] = mach[Other(n)]
      /\ replay'[Other(n)] = replay[Other(n)]
  OBVIOUS
<1>. QED  BY <1>1, <1>2, <1>3, <1>4, ApplyKeeps

\* The same for an event that does not come from the peer.
LEMMA LinkStep ==
    ASSUME IInv, NEW n \in Node, NEW r, Apply(n, r, net[n], held[n]),
           UNCHANGED <<replay, txSigs, mach>>, conn' = "up",
           Link(View(n), View(Other(n)), Pipe(Other(n)), Pipe(n), r), BoxFits(r),
           r.k.received = q[n].received
    PROVE  IInv'
<1>1. Typed /\ HeldOK(n)
  BY DEF IInv
<1>2. held[n] \in Seq(Messages) /\ net[n] \in Seq(Messages)
  BY <1>1, ViewFacts
<1>3. held'[n] = held[n] /\ q'[n] = r.k
  BY <1>1 DEF Apply, Typed
<1>4. HeldOK(n)'
  BY <1>1, <1>3, HeldSame
<1>5. Link(View(n), View(Other(n)), Pipe(Other(n)), held[n] \o net[n], r)
  BY DEF Pipe
<1>. QED  BY <1>2, <1>4, <1>5, ApplySame

\* The same for a message of the peer.
LEMMA ReadStep ==
    ASSUME IInv, NEW n \in Node, NEW r, NEW inbox \in Seq(Messages), NEW waiting \in Seq(Messages),
           Apply(n, r, inbox, waiting), UNCHANGED <<replay, txSigs, mach>>, conn' = "up",
           Link(View(n), View(Other(n)), Pipe(Other(n)), waiting \o inbox, r), BoxFits(r),
           ~Has(waiting, "tx_abort"), waiting = <<>> \/ replay[n]
    PROVE  IInv'
<1>1. Typed
  BY DEF IInv
<1>2. held'[n] = waiting
  BY <1>1 DEF Apply, Typed
<1>3. HeldOK(n)'
  BY <1>2 DEF HeldOK
<1>. QED  BY <1>3, ApplySame

\* Its mailbox and its HTLCs do not matter to a result, but for packets in the
\* channel and not signed for.
LEMMA BoxAndWork ==
    ASSUME NEW v, NEW y, NEW p, NEW in, NEW r, Link(v, y, p, in, r),
           NEW d \in Results, d.c = r.c, d.k = r.k, d.msgs = r.msgs, d.w.late = r.w.late
    PROVE  /\ Link(v, y, p, in, d)
           /\ BoxFits(r) /\ (\A i \in 1..Len(d.box) : d.box[i].at = "applied" =>
                                 i \in 1..Len(r.box) /\ r.box[i].at = "applied")
                => BoxFits(d)
<1>1. Seen(v, d) = Seen(v, r)
  BY DEF Seen
<1>2. Link(v, y, p, in, d)
  BY <1>1 DEF Link
<1>3. ASSUME BoxFits(r), \A i \in 1..Len(d.box) : d.box[i].at = "applied" =>
                             i \in 1..Len(r.box) /\ r.box[i].at = "applied"
      PROVE  BoxFits(d)
  BY <1>3 DEF BoxFits
<1>. QED  BY <1>2, <1>3

\* SwitchPacket
LEMMA SwitchPacketKeeps ==
    ASSUME IInv, NEW n \in Node, NEW type \in {"Add", "Rmv"}, SwitchPacket(n, type)
    PROVE  IInv'
<1>. DEFINE e == [kind |-> type, at |-> "new"]
            b == Append(mail[n], e)
            w == IF type = "Add" THEN [work[n] EXCEPT !.added = @ + 1]
                                 ELSE [work[n] EXCEPT !.forward = @ - 1]
<1>1. Typed /\ HeldOK(n) /\ BoxFits(State(n))
  BY DEF IInv
<1>2. mail[n] \in Seq(Packets) /\ work[n] \in Works
  BY <1>1, ViewFacts
<1>3. e \in Packets /\ e.at = "new"
  BY DEF Packets, Updates
<1>4. w \in Works /\ w.late = work[n].late
  <2>1. work[n].forward \in Nat /\ work[n].added \in Nat
    BY <1>2 DEF Works
  <2>2. CASE type = "Add"
    <3>. DEFINE g == work[n].added + 1
    <3>1. g \in Nat /\ w = [work[n] EXCEPT !.added = g]
      BY <2>1, <2>2
    <3>. HIDE DEF g, w
    <3>. QED  BY <1>2, <3>1 DEF Works
  <2>3. CASE type # "Add"
    <3>. DEFINE g == work[n].forward - 1
    <3>1. work[n].forward > 0
      BY <2>3 DEF SwitchPacket
    <3>2. g \in Nat /\ w = [work[n] EXCEPT !.forward = g]
      BY <2>1, <2>3, <3>1
    <3>. HIDE DEF g, w
    <3>. QED  BY <1>2, <3>2 DEF Works
  <2>. QED  BY <2>2, <2>3
<1>5. mail' = [mail EXCEPT ![n] = b] /\ work' = [work EXCEPT ![n] = w]
  <2>1. mail' = [mail EXCEPT ![n] = b]
    BY DEF SwitchPacket
  <2>2. CASE type = "Add"
    BY <2>1, <2>2 DEF SwitchPacket
  <2>3. CASE type # "Add"
    BY <2>1, <2>3 DEF SwitchPacket
  <2>. QED  BY <2>2, <2>3
<1>. HIDE DEF e
<1>6. b \in Seq(Packets) /\ More(b, mail[n], 1, e)
  BY <1>2, <1>3, AppendMore
<1>. HIDE DEF b, w
<1>7. UNCHANGED <<ch, q, held, replay, txSigs, mach, net, conn>>
  BY DEF SwitchPacket
<1>8. Typed' /\ StfuRespected'
  <2>1. mail' \in [Node -> Seq(Packets)] /\ work' \in [Node -> Works]
    BY <1>1, <1>4, <1>5, <1>6 DEF Typed
  <2>2. Typed'
    BY <1>1, <1>7, <2>1 DEF Typed
  <2>3. StfuRespected'
    BY DEF StfuRespected, SwitchPacket
  <2>. QED  BY <2>2, <2>3
<1>9. /\ mail'[Other(n)] = mail[Other(n)] /\ mail'[n] = b
      /\ work'[Other(n)] = work[Other(n)] /\ work'[n] = w
  BY <1>1, <1>5, OtherFacts DEF Typed
<1>10. View(n)' = View(n) /\ View(Other(n))' = View(Other(n))
  BY <1>4, <1>7, <1>9 DEF View
<1>11. Pipe(n)' = Pipe(n) /\ Pipe(Other(n))' = Pipe(Other(n))
  BY <1>7 DEF Pipe
<1>12. HeldOK(n)'
  BY <1>1, <1>7, HeldSame
<1>13. BoxFits(State(n))'
  <2>1. /\ State(n)'.c = State(n).c /\ State(n)'.box = b /\ State(n).box = mail[n]
        /\ State(n)'.k = State(n).k
    BY <1>7, <1>9 DEF State
  <2>2. ASSUME \A i \in 1..Len(mail[n]) : mail[n][i].at # "applied"
        PROVE  \A i \in 1..Len(b) : b[i].at # "applied"
    <3>1. \A i \in 1..Len(b) : i \in 1..Len(mail[n]) \/ i \in (Len(mail[n]) + 1)..(Len(mail[n]) + 1)
      BY <1>2, <1>6 DEF More
    <3>2. \A i \in (Len(mail[n]) + 1)..(Len(mail[n]) + 1) : b[i].at = "new"
      BY <1>3, <1>6 DEF More
    <3>3. \A i \in 1..Len(mail[n]) : b[i].at # "applied"
      BY <1>6, <2>2 DEF More
    <3>. QED  BY <3>1, <3>2, <3>3
  <2>. QED  BY <1>1, <2>1, <2>2 DEF BoxFits
<1>14. /\ Chans(ch'[n], ch[Other(n)], Pipe(Other(n))', Pipe(n)')
       /\ Sides(View(n)', View(Other(n)), Pipe(Other(n))', Pipe(n)')
  BY <1>7, <1>10, <1>11 DEF IInv
<1>. QED  BY <1>7, <1>8, <1>9, <1>10, <1>12, <1>13, <1>14, StepKeeps

\* HandleDownstreamPkt
LEMMA HandleDownstreamPktKeeps ==
    ASSUME IInv, NEW n \in Node, HandleDownstreamPkt(n)
    PROVE  IInv'
<1>. DEFINE at(i, x) == [State(n) EXCEPT !.box[i].at = x]
            made(i) == MakeUpdates(at(i, "applied"), mail[n][i].kind, 1)
            v == View(n)
            y == View(Other(n))
            p == Pipe(Other(n))
            in == Pipe(n)
<1>1. PICK i \in DOMAIN mail[n] :
        /\ mail[n][i].at = "new"
        /\ Apply(n, CASE ~CanSendUpdates(q[n]) -> at(i, "dropped")
                      [] CanSendUpdates(q[n]) /\ mail[n][i].kind = "Add" -> made(i)
                      [] OTHER -> UpdateCommitTx(made(i)),
                 net[n], held[n])
  BY DEF HandleDownstreamPkt
<1>2. UNCHANGED <<replay, txSigs, mach>> /\ conn' = "up"
  BY DEF HandleDownstreamPkt, LinkFree
<1>3. Typed
  BY DEF IInv
<1>4. /\ v \in Views /\ y \in Views /\ p \in Seq(Messages) /\ in \in Seq(Messages)
      /\ mail[n] \in Seq(Packets) /\ work[n] \in Works
  BY <1>3, OtherFacts, ViewFacts
<1>5. Link(v, y, p, in, State(n)) /\ BoxFits(State(n))
  BY StartLink
<1>6. /\ State(n) \in Results /\ State(n).k = q[n] /\ State(n).box = mail[n]
      /\ State(n).w = work[n]
  BY <1>3, StateFacts
<1>7. mail[n][i] \in Packets /\ mail[n][i].kind \in Updates /\ i \in 1..Len(mail[n])
  <2>1. i \in 1..Len(mail[n])
    BY <1>4
  <2>2. mail[n][i] \in Packets
    BY <1>4, <2>1
  <2>. QED  BY <2>1, <2>2 DEF Packets
<1>. HIDE DEF v, y, p, in
<1>8. ASSUME NEW x \in {"applied", "dropped"}
      PROVE  /\ Link(v, y, p, in, at(i, x)) /\ at(i, x).k = q[n]
             /\ x = "dropped" => BoxFits(at(i, x))
  <2>. DEFINE e == [mail[n][i] EXCEPT !.at = x]
              b == [mail[n] EXCEPT ![i] = e]
              d == [State(n) EXCEPT !.box = b]
  <2>1. e \in Packets /\ e.at = x
    BY <1>7 DEF Packets
  <2>2. at(i, x) = [State(n) EXCEPT !.box = b]
    BY <1>6
  <2>. HIDE DEF e
  <2>3. /\ b \in Seq(Packets) /\ Len(b) = Len(mail[n]) /\ b[i] = e
        /\ \A j \in 1..Len(mail[n]) : j # i => b[j] = mail[n][j]
    BY <1>4, <1>7, <2>1
  <2>. HIDE DEF b
  <2>4. /\ d \in Results /\ d.k = State(n).k /\ d.c = State(n).c /\ d.msgs = State(n).msgs
        /\ d.box = b /\ d.w = State(n).w
    BY <1>6, <2>3 DEF Results
  <2>. HIDE DEF d
  <2>5. /\ Link(v, y, p, in, d)
        /\ BoxFits(State(n)) /\ (\A j \in 1..Len(b) : b[j].at = "applied" =>
                                  j \in 1..Len(State(n).box) /\ State(n).box[j].at = "applied")
             => BoxFits(d)
    BY <1>5, <2>4, BoxAndWork
  <2>6. x = "dropped" => \A j \in 1..Len(b) : b[j].at = "applied" =>
                            j \in 1..Len(State(n).box) /\ State(n).box[j].at = "applied"
    BY <1>6, <2>1, <2>3
  <2>. QED  BY <1>5, <1>6, <2>2, <2>4, <2>5, <2>6 DEF d
<1>. HIDE DEF at
<1>9. CASE ~CanSendUpdates(q[n])
  <2>1. Apply(n, at(i, "dropped"), net[n], held[n])
    BY <1>1, <1>9
  <2>2. Link(v, y, p, in, at(i, "dropped")) /\ at(i, "dropped").k = q[n] /\ BoxFits(at(i, "dropped"))
    BY <1>8
  <2>. HIDE DEF at
  <2>. QED  BY <1>2, <2>1, <2>2, LinkStep DEF v, y, p, in
<1>10. CASE CanSendUpdates(q[n])
  <2>1. Link(v, y, p, in, at(i, "applied")) /\ at(i, "applied").k = q[n]
    BY <1>8
  <2>. HIDE DEF at
  <2>2. /\ Link(v, y, p, in, made(i)) /\ made(i).k = q[n] /\ BoxFits(made(i))
        /\ OweCommitment(made(i).c)
    <3>. DEFINE r == at(i, "applied")
                u == mail[n][i].kind
    <3>1. Link(v, y, p, in, r) /\ r.k = q[n] /\ CanSendUpdates(r.k) /\ u \in Updates
      BY <1>7, <1>10, <2>1
    <3>. HIDE DEF r, u
    <3>2. /\ Link(v, y, p, in, MakeUpdates(r, u, 1)) /\ MakeUpdates(r, u, 1).k = r.k
          /\ ((1 > 0 /\ CanSendUpdates(r.k)) \/ BoxFits(r) => BoxFits(MakeUpdates(r, u, 1)))
          /\ (1 > 0 => OweCommitment(MakeUpdates(r, u, 1).c))
      BY <1>4, <3>1, MakeUpdatesOK
    <3>. QED  BY <3>1, <3>2 DEF r, u
  <2>. HIDE DEF made
  <2>3. CASE mail[n][i].kind = "Add"
    <3>1. Apply(n, made(i), net[n], held[n])
      BY <1>1, <1>10, <2>3
    <3>. QED  BY <1>2, <2>2, <3>1, LinkStep DEF v, y, p, in
  <2>4. CASE mail[n][i].kind # "Add"
    <3>1. Apply(n, UpdateCommitTx(made(i)), net[n], held[n])
      BY <1>1, <1>10, <2>4
    <3>2. /\ Link(v, y, p, in, UpdateCommitTx(made(i))) /\ BoxFits(UpdateCommitTx(made(i)))
          /\ UpdateCommitTx(made(i)).k = made(i).k
      BY <1>4, <2>2, UpdateCommitTxOK
    <3>. QED  BY <1>2, <2>2, <3>1, <3>2, LinkStep DEF v, y, p, in
  <2>. QED  BY <2>3, <2>4
<1>. QED  BY <1>9, <1>10

\* BatchTick
LEMMA BatchTickKeeps ==
    ASSUME IInv, NEW n \in Node, BatchTick(n)
    PROVE  IInv'
<1>. DEFINE r == State(n)
            d == UpdateCommitTx(r)
<1>1. /\ Apply(n, d, net[n], held[n]) /\ UNCHANGED <<replay, txSigs, mach>> /\ conn' = "up"
      /\ LogIndex(ch[n], "Local") # Last(ch[n].peer).Local
  BY DEF BatchTick, LinkFree
<1>2. Typed
  BY DEF IInv
<1>3. r.c = ch[n] /\ r.k = q[n]
  BY <1>2, StateFacts
<1>4. /\ View(n) \in Views /\ View(Other(n)) \in Views /\ Pipe(Other(n)) \in Seq(Messages)
      /\ Pipe(n) \in Seq(Messages)
  BY <1>2, OtherFacts, ViewFacts
<1>5. Link(View(n), View(Other(n)), Pipe(Other(n)), Pipe(n), r) /\ BoxFits(r)
  BY StartLink
<1>6. OweCommitment(r.c)
  BY <1>1, <1>3 DEF OweCommitment
<1>. HIDE DEF r
<1>7. /\ Link(View(n), View(Other(n)), Pipe(Other(n)), Pipe(n), d) /\ BoxFits(d) /\ d.k = r.k
  BY <1>4, <1>5, <1>6, UpdateCommitTxOK
<1>. HIDE DEF d
<1>. QED  BY <1>1, <1>3, <1>7, LinkStep

\* HandleHtlcResolution
LEMMA HandleHtlcResolutionKeeps ==
    ASSUME IInv, NEW n \in Node, HandleHtlcResolution(n)
    PROVE  IInv'
<1>. DEFINE g == work[n].hold - 1
            l == work[n].late \/ ~CanSendUpdates(q[n])
            w == [work[n] EXCEPT !.hold = g, !.late = l]
            r == [State(n) EXCEPT !.w = w]
            e == MakeUpdates(r, "Rmv", 1)
            d == UpdateCommitTx(e)
            v == View(n)
            y == View(Other(n))
            p == Pipe(Other(n))
            in == Pipe(n)
<1>1. Typed
  BY DEF IInv
<1>2. /\ State(n) \in Results /\ State(n).k = q[n] /\ State(n).box = mail[n]
      /\ State(n).w = work[n]
  BY <1>1, StateFacts
<1>3. /\ v \in Views /\ y \in Views /\ p \in Seq(Messages) /\ in \in Seq(Messages)
      /\ work[n] \in Works /\ mail[n] \in Seq(Packets)
  BY <1>1, OtherFacts, ViewFacts
<1>4. Link(v, y, p, in, State(n)) /\ BoxFits(State(n))
  BY StartLink
<1>5. work[n].hold > 0 /\ UNCHANGED <<replay, txSigs, mach>> /\ conn' = "up"
  BY DEF HandleHtlcResolution, LinkFree
<1>6. w \in Works /\ w.late = l
  <2>1. work[n].hold \in Nat /\ work[n].late \in BOOLEAN
    BY <1>3 DEF Works
  <2>2. g \in Nat /\ l \in BOOLEAN
    BY <1>5, <2>1 DEF CanSendUpdates
  <2>. HIDE DEF g, l
  <2>. QED  BY <1>3, <2>2 DEF Works
<1>7. r = [State(n) EXCEPT !.w.hold = @ - 1, !.w.late = @ \/ ~CanSendUpdates(q[n])]
  BY <1>2, <1>3 DEF Results, Works
<1>8. Apply(n, d, net[n], held[n])
  <2>. HIDE DEF r
  <2>. QED  BY <1>7 DEF HandleHtlcResolution
<1>. HIDE DEF v, y, p, in, w
<1>9. Link(v, y, p, in, r) /\ r.k = q[n] /\ BoxFits(r) /\ (r.w.late \/ CanSendUpdates(r.k))
  <2>1. /\ r \in Results /\ r.k = State(n).k /\ r.c = State(n).c /\ r.msgs = State(n).msgs
        /\ r.w = w /\ r.box = State(n).box
    BY <1>2, <1>6 DEF Results
  <2>. HIDE DEF r
  <2>2. r.w.late = (State(n).w.late \/ ~CanSendUpdates(q[n]))
    BY <1>2, <1>6, <2>1
  <2>3. BoxFits(r)
    BY <1>4, <2>1 DEF BoxFits
  <2>4. Link(v, y, p, in, r)
    BY <1>3, <1>4, <2>1, <2>2, LateOK
  <2>. QED  BY <1>2, <2>1, <2>2, <2>3, <2>4
<1>. HIDE DEF r
<1>10. Link(v, y, p, in, e) /\ e.k = q[n] /\ BoxFits(e) /\ OweCommitment(e.c)
  <2>1. "Rmv" \in Updates /\ 1 \in Nat /\ 1 > 0
    BY DEF Updates
  <2>. QED  BY <1>3, <1>9, <2>1, MakeUpdatesOK
<1>. HIDE DEF e
<1>11. Link(v, y, p, in, d) /\ BoxFits(d) /\ d.k = q[n]
  BY <1>3, <1>10, UpdateCommitTxOK
<1>. HIDE DEF d
<1>. QED  BY <1>5, <1>8, <1>11, LinkStep DEF v, y, p, in

\* A message among others.
LEMMA HasConcat ==
    ASSUME NEW s \in Seq(Messages), NEW t \in Seq(Messages), NEW type
    PROVE  Has(s \o t, type) <=> Has(s, type) \/ Has(t, type)
<1>. DEFINE a == s \o t
<1>1. /\ Len(a) = Len(s) + Len(t) /\ Len(s) \in Nat /\ Len(t) \in Nat
      /\ \A i \in 1..Len(s) : a[i] = s[i]
      /\ \A i \in 1..Len(t) : a[Len(s) + i] = t[i]
  BY ConcatFacts
<1>. HIDE DEF a
<1>2. ASSUME NEW i \in 1..Len(a), a[i].type = type PROVE Has(s, type) \/ Has(t, type)
  <2>1. CASE i \in 1..Len(s)
    BY <1>1, <1>2, <2>1 DEF Has
  <2>2. CASE i \notin 1..Len(s)
    <3>. DEFINE k == i - Len(s)
    <3>1. k \in 1..Len(t) /\ i = Len(s) + k
      BY <1>1, <2>2
    <3>. HIDE DEF k
    <3>. QED  BY <1>1, <1>2, <3>1 DEF Has
  <2>. QED  BY <2>1, <2>2
<1>3. ASSUME NEW i \in 1..Len(s), s[i].type = type PROVE Has(a, type)
  <2>1. i \in 1..Len(a)
    BY <1>1
  <2>. QED  BY <1>1, <1>3, <2>1 DEF Has
<1>4. ASSUME NEW i \in 1..Len(t), t[i].type = type PROVE Has(a, type)
  <2>1. Len(s) + i \in 1..Len(a)
    BY <1>1
  <2>. QED  BY <1>1, <1>4, <2>1 DEF Has
<1>5. Has(a, type) <=> Has(s, type) \/ Has(t, type)
  BY <1>2, <1>3, <1>4 DEF Has
<1>. QED  BY <1>5 DEF a

\* What every step starts from.
LEMMA StartFacts ==
    ASSUME IInv, NEW n \in Node
    PROVE  /\ Typed /\ View(n) \in Views /\ View(Other(n)) \in Views
           /\ Pipe(Other(n)) \in Seq(Messages) /\ Pipe(n) \in Seq(Messages)
           /\ View(n).id # View(Other(n)).id
           /\ State(n) \in Results /\ State(n).c = ch[n] /\ State(n).k = q[n]
           /\ Link(View(n), View(Other(n)), Pipe(Other(n)), Pipe(n), State(n))
           /\ BoxFits(State(n))
<1>1. Typed
  BY DEF IInv
<1>2. Other(n) \in Node /\ Other(n) # n
  BY OtherFacts
<1>3. /\ View(n) \in Views /\ View(n).id = n /\ Pipe(n) \in Seq(Messages)
      /\ View(Other(n)) \in Views /\ View(Other(n)).id = Other(n)
      /\ Pipe(Other(n)) \in Seq(Messages)
  BY <1>1, <1>2, ViewFacts
<1>. QED  BY <1>1, <1>2, <1>3, StateFacts, StartLink

\* HandleQuiescenceReq
LEMMA HandleQuiescenceReqKeeps ==
    ASSUME IInv, NEW n \in Node, HandleQuiescenceReq(n)
    PROVE  IInv'
<1>. DEFINE v == View(n)
            y == View(Other(n))
            p == Pipe(Other(n))
            in == Pipe(n)
            s == State(n)
            r == [s EXCEPT !.k = InitStfu(@, v.id)]
            d == SendOwedStfuIfClean(r, v.id)
<1>1. /\ Typed /\ v \in Views /\ y \in Views /\ p \in Seq(Messages) /\ in \in Seq(Messages)
      /\ s.c = ch[n] /\ s.k = q[n] /\ Link(v, y, p, in, s) /\ BoxFits(s)
  BY StartFacts
<1>2. v.id = n
  BY DEF View
<1>3. /\ q[n].req = "none" /\ UNCHANGED <<replay, txSigs, mach>> /\ conn' = "up"
  BY DEF HandleQuiescenceReq, LinkFree
<1>4. Apply(n, d, net[n], held[n])
  BY <1>2 DEF HandleQuiescenceReq
<1>. HIDE DEF v, y, p, in, s
<1>6. Link(v, y, p, in, r) /\ BoxFits(r) /\ r.k.received = s.k.received
  BY <1>1, <1>3, InitOK
<1>. HIDE DEF r
<1>7. Link(v, y, p, in, d) /\ BoxFits(d) /\ d.k.received = r.k.received
  BY <1>1, <1>6, SendOwedStfuOK
<1>. HIDE DEF d
<1>. QED  BY <1>1, <1>3, <1>4, <1>6, <1>7, LinkStep DEF v, y, p, in

-----------------------------------------------------------------------------
(* Messages of the peer. *)

\* Message m is the first on its way to n, and the link turns to it.
TurnsTo(n, m, inbox, waiting) ==
    /\ inbox \in Seq(Messages) /\ waiting \in Seq(Messages)
    /\ Pipe(n) # <<>> /\ m = Pipe(n)[1] /\ waiting \o inbox = Tail(Pipe(n))
    /\ ~Has(waiting, "tx_abort") /\ (waiting = <<>> \/ replay[n]) /\ conn = "up"
    /\ m.type = "update" /\ q[n].received => work[Other(n)].late

\* The link fails, for a reason the invariant allows.
LEMMA FailLinkKeeps ==
    ASSUME IInv, NEW why, FailLink(why), StfuRespected'
    PROVE  IInv'
<1>1. UNCHANGED <<ch, q, mail, work, held, replay, txSigs, mach, net>>
  BY DEF FailLink
<1>2. Typed'
  BY <1>1 DEF IInv, Typed
<1>3. ASSUME NEW n \in Node
      PROVE  View(n)' = View(n) /\ Pipe(n)' = Pipe(n) /\ State(n)' = State(n)
  BY <1>1 DEF View, Pipe, State
<1>4. ASSUME NEW n \in Node
      PROVE  /\ Chans(ch[n], ch[Other(n)], Pipe(Other(n)), Pipe(n))'
             /\ Sides(View(n), View(Other(n)), Pipe(Other(n)), Pipe(n))'
             /\ HeldOK(n)' /\ BoxFits(State(n))'
  <2>1. Other(n) \in Node
    BY OtherFacts
  <2>2. /\ View(n)' = View(n) /\ Pipe(n)' = Pipe(n) /\ State(n)' = State(n)
        /\ View(Other(n))' = View(Other(n)) /\ Pipe(Other(n))' = Pipe(Other(n))
    BY <1>3, <2>1
  <2>3. HeldOK(n)'
    <3>1. HeldOK(n)
      BY DEF IInv
    <3>. QED  BY <1>1, <3>1 DEF HeldOK, HeldForResume, MustWait, CanRecvUpdates
  <2>4. /\ Chans(ch[n], ch[Other(n)], Pipe(Other(n)), Pipe(n))
        /\ Sides(View(n), View(Other(n)), Pipe(Other(n)), Pipe(n)) /\ BoxFits(State(n))
    BY DEF IInv
  <2>. QED  BY <1>1, <2>2, <2>3, <2>4
<1>. QED  BY <1>2, <1>4 DEF IInv

\* ReceiveUpdate
LEMMA ReceiveUpdateKeeps ==
    ASSUME IInv, NEW n \in Node, NEW m, NEW inbox, NEW waiting, TurnsTo(n, m, inbox, waiting),
           ReceiveUpdate(n, m, inbox, waiting)
    PROVE  IInv'
<1>. DEFINE v == View(n)
            y == View(Other(n))
            p == Pipe(Other(n))
            in == Pipe(n)
            s == State(n)
            d == [s EXCEPT !.c = AppendUpdates(@, "Remote", <<in[1].kind>>)]
<1>1. /\ Typed /\ v \in Views /\ y \in Views /\ p \in Seq(Messages) /\ in \in Seq(Messages)
      /\ s.c = ch[n] /\ s.k = q[n] /\ Link(v, y, p, in, s) /\ BoxFits(s)
  BY StartFacts
<1>2. in # <<>> /\ in[1].type = "update" /\ waiting \o inbox = Tail(in) /\ m = in[1]
  BY <1>1 DEF TurnsTo, ReceiveUpdate
<1>6. CASE q[n].received
  <2>1. FailLink("update after stfu") /\ work[Other(n)].late
    BY <1>2, <1>6 DEF ReceiveUpdate, TurnsTo, CanRecvUpdates
  <2>2. work' = work /\ conn' = "update after stfu"
    BY <2>1 DEF FailLink
  <2>3. StfuRespected'
    BY <2>1, <2>2, OtherFacts DEF StfuRespected
  <2>. QED  BY <2>1, <2>3, FailLinkKeeps
<1>. SUFFICES ASSUME ~q[n].received PROVE IInv'
  BY <1>6
<1>3. Apply(n, d, inbox, waiting) /\ UNCHANGED <<replay, txSigs, mach>> /\ conn' = "up" /\ ~s.k.received
  BY <1>1, <1>2 DEF ReceiveUpdate, TurnsTo, CanRecvUpdates
<1>. HIDE DEF v, y, p, in, s
<1>4. Link(v, y, p, Tail(in), d) /\ BoxFits(d)
  BY <1>1, <1>2, <1>3, ReadUpdateOK
<1>. HIDE DEF d
<1>5. Link(View(n), View(Other(n)), Pipe(Other(n)), waiting \o inbox, d)
  BY <1>2, <1>4 DEF v, y, p
<1>. QED  BY <1>3, <1>4, <1>5, ReadStep DEF TurnsTo

\* ReceiveCommitSig
LEMMA ReceiveCommitSigKeeps ==
    ASSUME IInv, NEW n \in Node, NEW m, NEW inbox, NEW waiting, TurnsTo(n, m, inbox, waiting),
           ReceiveCommitSig(n, m, inbox, waiting)
    PROVE  IInv'
<1>. DEFINE v == View(n)
            y == View(Other(n))
            p == Pipe(Other(n))
            in == Pipe(n)
            s == State(n)
            r == Send([s EXCEPT !.c = RevokeCurrentCommitment(@)], [type |-> "revoke_and_ack"])
            e == SignIfOwed(r)
            d == SendOwedStfuIfClean(e, v.id)
<1>1. /\ Typed /\ v \in Views /\ y \in Views /\ p \in Seq(Messages) /\ in \in Seq(Messages)
      /\ s.c = ch[n] /\ s.k = q[n] /\ Link(v, y, p, in, s) /\ BoxFits(s)
  BY StartFacts
<1>2. /\ in # <<>> /\ in[1].type = "commit_sig" /\ waiting \o inbox = Tail(in) /\ m = in[1]
      /\ v.id = n /\ Tail(in) \in Seq(Messages)
  BY <1>1, TailLess DEF TurnsTo, ReceiveCommitSig, View
<1>3. m.indices = NextOwn(ch[n]) =>
          Apply(n, d, inbox, waiting) /\ UNCHANGED <<replay, txSigs, mach>> /\ conn' = "up"
  BY <1>2 DEF ReceiveCommitSig, TurnsTo
<1>. HIDE DEF v, y, p, in, s
<1>4. in[1].indices = NextOwn(s.c) /\ Link(v, y, p, Tail(in), r) /\ BoxFits(r)
  BY <1>1, <1>2, CommitSigOK
<1>. HIDE DEF r
<1>5. Link(v, y, p, Tail(in), e) /\ BoxFits(e)
  BY <1>1, <1>2, <1>4, SignIfOwedOK
<1>. HIDE DEF e
<1>6. Link(v, y, p, Tail(in), d) /\ BoxFits(d)
  BY <1>1, <1>2, <1>5, SendOwedStfuOK
<1>. HIDE DEF d
<1>7. Link(View(n), View(Other(n)), Pipe(Other(n)), waiting \o inbox, d)
  BY <1>2, <1>6 DEF v, y, p
<1>. QED  BY <1>1, <1>2, <1>3, <1>4, <1>6, <1>7, ReadStep DEF TurnsTo

\* ReceiveRevokeAndAck
LEMMA ReceiveRevokeAndAckKeeps ==
    ASSUME IInv, NEW n \in Node, NEW m, NEW inbox, NEW waiting, TurnsTo(n, m, inbox, waiting),
           ReceiveRevokeAndAck(n, m, inbox, waiting)
    PROVE  IInv'
<1>. DEFINE v == View(n)
            y == View(Other(n))
            p == Pipe(Other(n))
            in == Pipe(n)
            s == State(n)
            g == LockedInAdds(ch[n])
            r == [s EXCEPT !.c = ReceiveRevocation(@)]
<1>1. /\ Typed /\ v \in Views /\ y \in Views /\ p \in Seq(Messages) /\ in \in Seq(Messages)
      /\ s.c = ch[n] /\ s.k = q[n] /\ Link(v, y, p, in, s) /\ BoxFits(s) /\ ch[n] \in Channels
  BY StartFacts, ViewFacts
<1>2. /\ in # <<>> /\ in[1].type = "revoke_and_ack" /\ waiting \o inbox = Tail(in)
      /\ Tail(in) \in Seq(Messages)
  BY <1>1, TailLess DEF TurnsTo, ReceiveRevokeAndAck
<1>3. PICK outcomes \in [1..g -> Outcomes] :
          Apply(n, SignIfOwed(ProcessOrDefer(r, g, outcomes)), inbox, waiting)
  BY DEF ReceiveRevokeAndAck
<1>4. UNCHANGED <<replay, txSigs, mach>> /\ conn' = "up"
  BY DEF ReceiveRevokeAndAck, TurnsTo
<1>. HIDE DEF v, y, p, in, s
<1>5. Len(s.c.peer) = 2 /\ Link(v, y, p, Tail(in), r) /\ BoxFits(r)
  BY <1>1, <1>2, RevokeAndAckOK
<1>6. g \in Nat
  <2>. DEFINE c == ch[n]
              a == c.peer[1].Remote + 1
              b == c.peer[2].Remote
              T == {i \in a..b : c.log.Remote[i] = "Add"}
  <2>1. c.peer[1].Remote \in Nat /\ c.peer[2].Remote \in Nat
    <3>1. c \in Channels /\ Len(c.peer) = 2
      BY <1>1, <1>5
    <3>2. 1 \in 1..Len(c.peer) /\ 2 \in 1..Len(c.peer)
      BY <3>1
    <3>. HIDE DEF c
    <3>. QED  BY <3>1, <3>2, ChannelFacts
  <2>2. a \in Int /\ b \in Int
    BY <2>1
  <2>3. g = Cardinality(T)
    BY DEF LockedInAdds
  <2>. HIDE DEF a, b
  <2>4. IsFiniteSet(a..b)
    BY <2>2, FS_Interval
  <2>5. T \subseteq a..b
    OBVIOUS
  <2>. HIDE DEF T
  <2>6. Cardinality(T) \in Nat
    BY <2>4, <2>5, FS_Subset, FS_CardinalityType
  <2>. QED  BY <2>3, <2>6
<1>. HIDE DEF r, g
<1>. DEFINE e == ProcessOrDefer(r, g, outcomes)
            d == SignIfOwed(e)
<1>7. Link(v, y, p, Tail(in), e) /\ BoxFits(e)
  BY <1>1, <1>2, <1>5, <1>6, ProcessOrDeferOK
<1>8. Apply(n, d, inbox, waiting)
  BY <1>3
<1>. HIDE DEF e
<1>9. Link(v, y, p, Tail(in), d) /\ BoxFits(d)
  BY <1>1, <1>2, <1>7, SignIfOwedOK
<1>. HIDE DEF d
<1>10. Link(View(n), View(Other(n)), Pipe(Other(n)), waiting \o inbox, d)
  BY <1>2, <1>9 DEF v, y, p
<1>. QED  BY <1>4, <1>8, <1>9, <1>10, ReadStep DEF TurnsTo

\* HandleStfu
LEMMA HandleStfuKeeps ==
    ASSUME IInv, NEW n \in Node, NEW m, NEW inbox, NEW waiting, TurnsTo(n, m, inbox, waiting),
           HandleStfu(n, m, inbox, waiting)
    PROVE  IInv'
<1>. DEFINE v == View(n)
            y == View(Other(n))
            p == Pipe(Other(n))
            in == Pipe(n)
            s == State(n)
            r == [s EXCEPT !.k = RecvStfu(@, v.id, in[1].Initiator)]
            d == SendOwedStfuIfClean(r, v.id)
<1>1. /\ Typed /\ v \in Views /\ y \in Views /\ p \in Seq(Messages) /\ in \in Seq(Messages)
      /\ s.c = ch[n] /\ s.k = q[n] /\ Link(v, y, p, in, s) /\ BoxFits(s) /\ v.id # y.id
  BY StartFacts
<1>2. /\ in # <<>> /\ in[1].type = "stfu" /\ waiting \o inbox = Tail(in) /\ m = in[1]
      /\ v.id = n /\ Tail(in) \in Seq(Messages)
  BY <1>1, TailLess DEF TurnsTo, HandleStfu, View
<1>3. NoDanglingUpdates(ch[n], "Remote") /\ StfuValid(q[n], m.Initiator) =>
          Apply(n, d, inbox, waiting) /\ UNCHANGED <<replay, txSigs, mach>> /\ conn' = "up"
  BY <1>2 DEF HandleStfu, TurnsTo
<1>7. ~(NoDanglingUpdates(ch[n], "Remote") /\ StfuValid(q[n], m.Initiator)) => FailLink("invalid stfu")
  BY <1>2 DEF HandleStfu
<1>8. v.m = mach[n]
  BY <1>1, ViewFacts
<1>. HIDE DEF v, y, p, in, s
<1>9. /\ NoDanglingUpdates(s.c, "Remote")
      /\ StfuValid(s.k, in[1].Initiator) \/ (s.k.received /\ (v.m.resuming \/ v.m.inbox # <<>>))
      /\ StfuValid(s.k, in[1].Initiator) => Link(v, y, p, Tail(in), r) /\ BoxFits(r)
  BY <1>1, <1>2, ReadStfuOK
<1>10. CASE ~StfuValid(s.k, in[1].Initiator)
  <2>1. FailLink("invalid stfu") /\ q[n].received /\ (mach[n].resuming \/ mach[n].inbox # <<>>)
    BY <1>1, <1>2, <1>7, <1>8, <1>9, <1>10
  <2>2. q' = q /\ mach' = mach /\ conn' = "invalid stfu"
    BY <2>1 DEF FailLink
  <2>3. StfuRespected'
    BY <2>1, <2>2 DEF StfuRespected
  <2>. QED  BY <2>1, <2>3, FailLinkKeeps
<1>. SUFFICES ASSUME StfuValid(s.k, in[1].Initiator) PROVE IInv'
  BY <1>10
<1>4. Link(v, y, p, Tail(in), r) /\ BoxFits(r)
  BY <1>9
<1>. HIDE DEF r
<1>5. Link(v, y, p, Tail(in), d) /\ BoxFits(d)
  BY <1>1, <1>2, <1>4, SendOwedStfuOK
<1>. HIDE DEF d
<1>6. Link(View(n), View(Other(n)), Pipe(Other(n)), waiting \o inbox, d)
  BY <1>2, <1>5 DEF v, y, p
<1>. QED  BY <1>1, <1>2, <1>3, <1>5, <1>6, <1>9, ReadStep DEF TurnsTo

\* HandleTxAbort
LEMMA HandleTxAbortKeeps ==
    ASSUME IInv, NEW n \in Node, NEW m, NEW inbox, NEW waiting, TurnsTo(n, m, inbox, waiting),
           HandleTxAbort(n, m, inbox, waiting)
    PROVE  IInv'
<1>. DEFINE v == View(n)
            y == View(Other(n))
            p == Pipe(Other(n))
            in == Pipe(n)
            s == State(n)
            t2 == txSigs[n] \/ IsQuiescent(q[n])
            box == Append(mach[n].inbox, m)
            m2 == [mach[n] EXCEPT !.inbox = box]
            v2 == [v EXCEPT !.tx = t2, !.m = m2]
<1>1. /\ Typed /\ v \in Views /\ y \in Views /\ p \in Seq(Messages) /\ in \in Seq(Messages)
      /\ s.c = ch[n] /\ s.k = q[n] /\ Link(v, y, p, in, s) /\ BoxFits(s)
      /\ v.id = n /\ v.tx = txSigs[n] /\ v.m = mach[n] /\ mach[n] \in Machines
      /\ txSigs[n] \in BOOLEAN
  BY StartFacts, ViewFacts
<1>2. /\ in # <<>> /\ in[1].type = "tx_abort" /\ waiting \o inbox = Tail(in) /\ m = in[1]
      /\ Tail(in) \in Seq(Messages) /\ in[1] \in Messages
  BY <1>1, TailLess DEF TurnsTo, HandleTxAbort
<1>3. /\ txSigs' = [txSigs EXCEPT ![n] = t2] /\ mach' = [mach EXCEPT ![n] = m2]
      /\ Apply(n, s, inbox, waiting) /\ UNCHANGED <<replay, conn>>
  BY DEF HandleTxAbort
<1>4. t2 \in BOOLEAN
  BY <1>1 DEF IsQuiescent
<1>5. m2 \in Machines /\ m2.abortSent = mach[n].abortSent /\ m2.resuming = mach[n].resuming
      /\ m2.inbox = Append(mach[n].inbox, m)
  <2>1. m \in [type : {"tx_abort"}, reason : BOOLEAN]
    BY <1>2 DEF Messages
  <2>2. mach[n].inbox \in Seq([type : {"tx_abort"}, reason : BOOLEAN])
    BY <1>1 DEF Machines
  <2>3. box \in Seq([type : {"tx_abort"}, reason : BOOLEAN])
    BY <2>1, <2>2, AppendMore
  <2>. HIDE DEF box
  <2>4. m2 \in Machines /\ m2.abortSent = mach[n].abortSent /\ m2.resuming = mach[n].resuming
        /\ m2.inbox = box
    BY <1>1, <2>3 DEF Machines
  <2>. QED  BY <2>4 DEF box
<1>6. /\ txSigs' \in [Node -> BOOLEAN] /\ mach' \in [Node -> Machines]
      /\ replay' \in [Node -> BOOLEAN] /\ StfuRespected' /\ txSigs'[n] = t2 /\ mach'[n] = m2
      /\ txSigs'[Other(n)] = txSigs[Other(n)] /\ mach'[Other(n)] = mach[Other(n)]
      /\ replay'[Other(n)] = replay[Other(n)]
  <2>. HIDE DEF t2, m2
  <2>1. StfuRespected'
    BY <1>3 DEF TurnsTo, StfuRespected
  <2>. QED  BY <1>1, <1>3, <1>4, <1>5, <2>1, OtherFacts DEF Typed
<1>. HIDE DEF m2, t2
<1>7. v2 \in Views /\ v2.id = n /\ v2.tx = t2 /\ v2.m = m2
  <2>. HIDE DEF v
  <2>. QED  BY <1>1, <1>4, <1>5 DEF Views
<1>. HIDE DEF v, y, p, in, s, v2
<1>8. Link(v2, y, p, Tail(in), s)
  <2>1. /\ v2.id = v.id /\ v2.tx = (v.tx \/ IsQuiescent(s.k))
        /\ v2.m.abortSent = v.m.abortSent /\ v2.m.resuming = v.m.resuming
        /\ v2.m.inbox = Append(v.m.inbox, in[1])
    BY <1>1, <1>2, <1>5, <1>7 DEF t2
  <2>. QED  BY <1>1, <1>2, <1>7, <2>1, ReadAbortOK
<1>9. HeldOK(n)'
  <2>1. held'[n] = waiting
    BY <1>1, <1>3 DEF Apply, Typed
  <2>. QED  BY <1>3, <2>1 DEF HeldOK, TurnsTo
<1>10. Link(v2, View(Other(n)), Pipe(Other(n)), waiting \o inbox, s)
  BY <1>2, <1>8 DEF v, y, p
<1>11. inbox \in Seq(Messages) /\ waiting \in Seq(Messages)
  BY DEF TurnsTo
<1>. QED  BY <1>1, <1>3, <1>6, <1>7, <1>9, <1>10, <1>11, ApplyKeeps

\* The link turns to the first message on its way.
LEMMA HandleKeeps ==
    ASSUME IInv, NEW n \in Node, NEW m, NEW inbox, NEW waiting, TurnsTo(n, m, inbox, waiting),
           Handle(n, m, inbox, waiting)
    PROVE  IInv'
  BY ReceiveUpdateKeeps, ReceiveCommitSigKeeps, ReceiveRevokeAndAckKeeps, HandleStfuKeeps,
     HandleTxAbortKeeps DEF Handle

\* An update that need not wait comes before the peer's stfu, or after our resume,
\* or the peer made it in spite of its stfu.
LEMMA UpdateInTime ==
    ASSUME IInv, NEW n \in Node, Pipe(n) # <<>>, ~MustWait(n, Pipe(n)[1]),
           Pipe(n)[1].type = "update"
    PROVE  q[n].received => work[Other(n)].late
<1>. DEFINE v == View(n)
            y == View(Other(n))
            in == Pipe(n)
<1>1. Typed /\ Sides(v, y, Pipe(Other(n)), in)
  BY DEF IInv
<1>2. /\ v.k = q[n] /\ v.tx = txSigs[n] /\ in \in Seq(Messages) /\ v \in Views /\ y \in Views
      /\ y.late = work[Other(n)].late
  BY <1>1, OtherFacts, ViewFacts
<1>3. 1 \in 1..Len(in)
  BY <1>2
<1>. HIDE DEF v, y, in
<1>5. v.k.received => v.tx \/ y.late
  BY <1>1, <1>2, <1>3, UpdateExpected DEF Sides, in
<1>. QED  BY <1>2, <1>5 DEF MustWait, CanRecvUpdates

\* HandleUpstreamMsg: a message read is held, or handled.
LEMMA HandleUpstreamMsgKeeps ==
    ASSUME IInv, NEW n \in Node, HandleUpstreamMsg(n)
    PROVE  IInv'
<1>. DEFINE h == held[n]
            t == net[n]
            m == Head(t)
<1>1. Typed /\ HeldOK(n) /\ Sides(View(n), View(Other(n)), Pipe(Other(n)), Pipe(n))
  BY DEF IInv
<1>2. h \in Seq(Messages) /\ t \in Seq(Messages) /\ t # <<>> /\ ~replay[n]
  BY <1>1, ViewFacts DEF HandleUpstreamMsg, LinkFree
<1>3. Pipe(n) = h \o t
  BY DEF Pipe
<1>4. h # <<>> => HeldForResume(n) /\ txSigs[n]
  BY <1>1, <1>2 DEF HeldOK, HeldForResume, MustWait
<1>5. CASE MustHold(n, m)
  <2>. DEFINE h2 == Append(h, m)
  <2>1. Apply(n, State(n), Tail(t), h2) /\ UNCHANGED <<replay, txSigs, mach>> /\ conn' = "up"
    BY <1>5 DEF HandleUpstreamMsg, LinkFree
  <2>2. /\ Tail(t) \in Seq(Messages) /\ h2 \in Seq(Messages) /\ h2 \o Tail(t) = h \o t
        /\ More(h2, h, 1, m)
    <3>. HIDE DEF h, t, m
    <3>1. Tail(t) \in Seq(Messages) /\ m \in Messages
      BY ONLY <1>2, TailLess DEF m
    <3>2. h2 \in Seq(Messages) /\ More(h2, h, 1, m)
      BY ONLY <1>2, <3>1, AppendMore
    <3>3. Append(h, Head(t)) \o Tail(t) = h \o t
      BY ONLY <1>2, ConcatFirst
    <3>. QED  BY <3>1, <3>2, <3>3 DEF m
  <2>3. m.type # "tx_abort"
    BY <1>4, <1>5 DEF MustHold, MustWait
  <2>4. ~Has(h2, "tx_abort")
    <3>. HIDE DEF h, h2, m
    <3>1. ~Has(h, "tx_abort")
      BY <1>1 DEF HeldOK, h
    <3>. QED  BY <1>2, <2>2, <2>3, <3>1, HasMore
  <2>5. h2 # <<>> /\ Head(h2) = IF h = <<>> THEN m ELSE Head(h)
    <3>. HIDE DEF h, h2, m
    <3>1. Len(h) \in Nat /\ Len(h2) = Len(h) + 1
      BY <1>2, <2>2 DEF More
    <3>2. h2 # <<>> /\ Head(h2) = h2[1]
      BY <2>2, <3>1
    <3>3. CASE h = <<>>
      <4>1. 1 \in (Len(h) + 1)..(Len(h) + 1)
        BY <3>3
      <4>. QED  BY <2>2, <3>2, <3>3, <4>1 DEF More
    <3>4. CASE h # <<>>
      <4>1. 1 \in 1..Len(h) /\ Head(h) = h[1]
        BY <1>2, <3>4
      <4>. QED  BY <2>2, <3>2, <3>4, <4>1 DEF More
    <3>. QED  BY <3>3, <3>4
  <2>6. held'[n] = h2 /\ q'[n] = q[n] /\ txSigs'[n] = txSigs[n]
    BY <1>1, <2>1 DEF Apply, Typed, State
  <2>7. HeldForResume(n)'
    <3>. HIDE DEF h2
    <3>. QED  BY <1>4, <1>5, <2>5, <2>6 DEF HeldForResume, MustHold, MustWait, CanRecvUpdates
  <2>8. HeldOK(n)'
    BY <2>4, <2>6, <2>7 DEF HeldOK
  <2>9. Link(View(n), View(Other(n)), Pipe(Other(n)), h2 \o Tail(t), State(n)) /\ BoxFits(State(n))
    BY <1>3, <2>2, StartLink
  <2>. HIDE DEF h2
  <2>. QED  BY <2>1, <2>2, <2>8, <2>9, ApplySame
<1>6. CASE ~MustHold(n, m)
  <2>1. Handle(n, m, Tail(t), h)
    BY <1>6 DEF HandleUpstreamMsg
  <2>2. h = <<>>
    <3>1. h # <<>> => ~Has(Pipe(n), "tx_abort")
      <4>1. /\ View(n) \in Views /\ View(Other(n)) \in Views /\ View(n).tx = txSigs[n]
            /\ Pipe(Other(n)) \in Seq(Messages) /\ Pipe(n) \in Seq(Messages)
        BY <1>1, OtherFacts, ViewFacts
      <4>. QED  BY <1>1, <1>4, <4>1, OneAbort DEF Sides
    <3>2. h # <<>> => m.type = "tx_abort"
      BY <1>4, <1>6 DEF MustHold
    <3>3. m.type = "tx_abort" => Has(t, "tx_abort")
      <4>1. 1 \in 1..Len(t) /\ m = t[1]
        BY <1>2
      <4>. QED  BY <4>1 DEF Has
    <3>4. Has(t, "tx_abort") => Has(h \o t, "tx_abort")
      <4>. HIDE DEF h, t
      <4>. QED  BY ONLY <1>2, HasConcat
    <3>. QED  BY <1>3, <3>1, <3>2, <3>3, <3>4
  <2>3. Pipe(n) = t
    <3>1. <<>> \o t = t
      BY <1>2
    <3>. QED  BY <1>3, <2>2, <3>1
  <2>4. /\ Pipe(n) # <<>> /\ m = Pipe(n)[1] /\ h \o Tail(t) = Tail(t) /\ Tail(t) \in Seq(Messages)
    BY <1>2, <2>2, <2>3
  <2>5. m.type = "update" /\ q[n].received => work[Other(n)].late
    <3>1. ~MustWait(n, m)
      BY <1>6, <2>2 DEF MustHold
    <3>. QED  BY <2>4, <3>1, UpdateInTime
  <2>6. ~Has(h, "tx_abort")
    BY <1>1 DEF HeldOK
  <2>8. conn = "up"
    BY DEF HandleUpstreamMsg, LinkFree
  <2>7. TurnsTo(n, m, Tail(t), h)
    BY <1>2, <2>2, <2>3, <2>4, <2>5, <2>6, <2>8 DEF TurnsTo
  <2>. QED  BY <2>1, <2>7, HandleKeeps
<1>. QED  BY <1>5, <1>6

\* ReplayHeld: what was held is handled in order.
LEMMA ReplayHeldKeeps ==
    ASSUME IInv, NEW n \in Node, ReplayHeld(n)
    PROVE  IInv'
<1>. DEFINE h == held[n]
            t == net[n]
            m == Head(h)
<1>1. Typed /\ HeldOK(n)
  BY DEF IInv
<1>2. h \in Seq(Messages) /\ t \in Seq(Messages) /\ replay[n]
  BY <1>1, ViewFacts DEF ReplayHeld
<1>3. CASE h = <<>> \/ HeldForResume(n)
  <2>1. /\ replay' = [replay EXCEPT ![n] = FALSE]
        /\ UNCHANGED <<ch, q, mail, work, held, txSigs, mach, net, conn>>
    BY <1>3 DEF ReplayHeld
  <2>2. Typed'
    <3>1. replay' \in [Node -> BOOLEAN]
      BY <1>1, <2>1 DEF Typed
    <3>. QED  BY <1>1, <2>1, <3>1 DEF Typed
  <2>3. StfuRespected'
    BY <2>1 DEF ReplayHeld, StfuRespected
  <2>4. View(n)' = View(n) /\ View(Other(n))' = View(Other(n))
    BY <2>1 DEF View
  <2>5. Pipe(n)' = Pipe(n) /\ Pipe(Other(n))' = Pipe(Other(n))
    BY <2>1 DEF Pipe
  <2>6. HeldOK(n)'
    BY <1>1, <1>3, <2>1 DEF HeldOK, HeldForResume, MustWait, CanRecvUpdates
  <2>7. BoxFits(State(n))'
    <3>1. State(n)' = State(n)
      BY <2>1 DEF State
    <3>. QED  BY <3>1 DEF IInv
  <2>8. /\ Chans(ch'[n], ch[Other(n)], Pipe(Other(n))', Pipe(n)')
        /\ Sides(View(n)', View(Other(n)), Pipe(Other(n))', Pipe(n)')
    BY <2>1, <2>4, <2>5 DEF IInv
  <2>9. replay'[Other(n)] = replay[Other(n)]
    BY <1>1, <2>1, OtherFacts DEF Typed
  <2>. QED  BY <2>1, <2>2, <2>3, <2>4, <2>6, <2>7, <2>8, <2>9, StepKeeps
<1>4. CASE h # <<>> /\ ~HeldForResume(n)
  <2>1. Handle(n, m, t, Tail(h))
    BY <1>4 DEF ReplayHeld
  <2>2. /\ Pipe(n) # <<>> /\ m = Pipe(n)[1] /\ Tail(h) \in Seq(Messages)
        /\ Tail(h) \o t = Tail(Pipe(n))
    <3>1. h # <<>>
      BY <1>4
    <3>. HIDE DEF h, t
    <3>2. /\ h \o t # <<>> /\ (h \o t)[1] = Head(h) /\ Tail(h) \in Seq(Messages)
          /\ Tail(h) \o t = Tail(h \o t)
      BY ONLY <1>2, <3>1, ConcatFirst
    <3>. QED  BY <3>2 DEF Pipe, h, t
  <2>3. m.type = "update" /\ q[n].received => work[Other(n)].late
    <3>1. ~MustWait(n, m)
      BY <1>4 DEF HeldForResume
    <3>. QED  BY <2>2, <3>1, UpdateInTime
  <2>4. ~Has(Tail(h), "tx_abort")
    <3>1. ~Has(h, "tx_abort") /\ h # <<>>
      BY <1>1, <1>4 DEF HeldOK
    <3>. HIDE DEF h
    <3>2. Less(Tail(h), h)
      BY ONLY <1>2, <3>1, TailLess
    <3>. QED  BY <1>2, <2>2, <3>1, <3>2, HasLess
  <2>6. conn = "up"
    BY DEF ReplayHeld
  <2>5. TurnsTo(n, m, t, Tail(h))
    BY <1>2, <2>2, <2>3, <2>4, <2>6 DEF TurnsTo
  <2>. QED  BY <2>1, <2>5, HandleKeeps
<1>. QED  BY <1>3, <1>4

-----------------------------------------------------------------------------
(* The splice machine, the end of quiescence, and the theorems. *)

\* Node n with quiescer k and machine m.
Turned(n, k, m) == [id |-> n, c |-> ch[n], k |-> k, tx |-> txSigs[n], m |-> m,
                    late |-> work[n].late]

\* A step of a machine, or of a quiescer that sends nothing.
LEMMA MachineStep ==
    ASSUME IInv, NEW n \in Node, NEW k \in Quiescers, NEW m \in Machines, NEW s \in Seq(Messages),
           q' = [q EXCEPT ![n] = k], mach' = [mach EXCEPT ![n] = m],
           net' = [net EXCEPT ![Other(n)] = s],
           UNCHANGED <<ch, mail, work, held, replay, txSigs>>, conn' = "up",
           k.received = q[n].received, k.sent = q[n].sent,
           Chans(ch[n], ch[Other(n)], held[Other(n)] \o s, Pipe(n)),
           Sides(Turned(n, k, m), View(Other(n)), held[Other(n)] \o s, Pipe(n))
    PROVE  IInv'
<1>1. Typed /\ HeldOK(n) /\ BoxFits(State(n)) /\ Other(n) \in Node /\ Other(n) # n
  BY OtherFacts DEF IInv
<1>2. /\ q' \in [Node -> Quiescers] /\ mach' \in [Node -> Machines]
      /\ net' \in [Node -> Seq(Messages)] /\ q'[n] = k /\ mach'[n] = m
      /\ q'[Other(n)] = q[Other(n)] /\ mach'[Other(n)] = mach[Other(n)]
      /\ net'[n] = net[n] /\ net'[Other(n)] = s
  BY <1>1 DEF Typed
<1>3. Typed' /\ StfuRespected'
  <2>1. Typed'
    BY <1>1, <1>2 DEF Typed
  <2>2. StfuRespected'
    BY DEF StfuRespected
  <2>. QED  BY <2>1, <2>2
<1>4. View(n)' = Turned(n, k, m) /\ View(Other(n))' = View(Other(n))
  BY <1>2 DEF View, Turned
<1>5. Pipe(n)' = Pipe(n) /\ Pipe(Other(n))' = held[Other(n)] \o s
  BY <1>2 DEF Pipe
<1>6. HeldOK(n)'
  BY <1>1, <1>2, HeldSame
<1>7. BoxFits(State(n))'
  <2>1. /\ State(n)'.c = State(n).c /\ State(n)'.box = State(n).box
        /\ State(n)'.k.sent = State(n).k.sent
    BY <1>2 DEF State
  <2>. QED  BY <1>1, <2>1 DEF BoxFits
<1>. QED  BY <1>3, <1>4, <1>5, <1>6, <1>7, StepKeeps

\* What a machine's or a quiescer's step starts from.
LEMMA BeforeTurn ==
    ASSUME IInv, NEW n \in Node
    PROVE  /\ View(n) \in Views /\ View(Other(n)) \in Views /\ View(n).id # View(Other(n)).id
           /\ View(n).k = q[n] /\ View(n).m = mach[n]
           /\ q[n] \in Quiescers /\ mach[n] \in Machines /\ net[Other(n)] \in Seq(Messages)
           /\ Pipe(n) \in Seq(Messages) /\ Pipe(Other(n)) \in Seq(Messages)
           /\ Pipe(Other(n)) = held[Other(n)] \o net[Other(n)]
           /\ Chans(ch[n], ch[Other(n)], Pipe(Other(n)), Pipe(n))
           /\ Sides(View(n), View(Other(n)), Pipe(Other(n)), Pipe(n))
           /\ q = [q EXCEPT ![n] = q[n]] /\ mach = [mach EXCEPT ![n] = mach[n]]
           /\ net = [net EXCEPT ![Other(n)] = net[Other(n)]]
<1>1. Typed /\ Other(n) \in Node /\ Other(n) # n
  BY OtherFacts DEF IInv
<1>2. /\ View(n) \in Views /\ View(n).id = n /\ View(n).k = q[n] /\ View(n).m = mach[n]
      /\ q[n] \in Quiescers /\ mach[n] \in Machines /\ Pipe(n) \in Seq(Messages)
  BY <1>1, ViewFacts
<1>3. /\ View(Other(n)) \in Views /\ View(Other(n)).id = Other(n)
      /\ net[Other(n)] \in Seq(Messages) /\ Pipe(Other(n)) \in Seq(Messages)
  BY <1>1, ViewFacts
<1>4. /\ Chans(ch[n], ch[Other(n)], Pipe(Other(n)), Pipe(n))
      /\ Sides(View(n), View(Other(n)), Pipe(Other(n)), Pipe(n))
  BY DEF IInv
<1>5. /\ q = [q EXCEPT ![n] = q[n]] /\ mach = [mach EXCEPT ![n] = mach[n]]
      /\ net = [net EXCEPT ![Other(n)] = net[Other(n)]]
  BY <1>1 DEF Typed
<1>6. Pipe(Other(n)) = held[Other(n)] \o net[Other(n)]
  BY DEF Pipe
<1>. QED  BY <1>1, <1>2, <1>3, <1>4, <1>5, <1>6

\* The node after it.
LEMMA TurnFacts ==
    ASSUME Typed, NEW n \in Node, NEW k, k \in Quiescers, NEW m, m \in Machines
    PROVE  /\ Turned(n, k, m) \in Views /\ Turned(n, k, m).id = View(n).id
           /\ Turned(n, k, m).c = View(n).c /\ Turned(n, k, m).tx = View(n).tx
           /\ Turned(n, k, m).k = k /\ Turned(n, k, m).m = m
           /\ Turned(n, k, m).late = View(n).late
<1>1. /\ View(n).id = n /\ View(n).c = ch[n] /\ View(n).tx = txSigs[n]
      /\ ch[n] \in Channels /\ txSigs[n] \in BOOLEAN
  BY ViewFacts
<1>2. Turned(n, k, m).late = View(n).late
  BY DEF Turned, View
<1>3. work[n].late \in BOOLEAN
  <2>1. work[n] \in Works
    BY ViewFacts
  <2>. QED  BY <2>1 DEF Works
<1>4. Turned(n, k, m) \in Views
  BY <1>1, <1>3 DEF Turned, Views
<1>5. /\ Turned(n, k, m).id = n /\ Turned(n, k, m).c = ch[n] /\ Turned(n, k, m).k = k
      /\ Turned(n, k, m).m = m /\ Turned(n, k, m).tx = txSigs[n]
  BY DEF Turned
<1>. QED  BY <1>1, <1>2, <1>4, <1>5

\* A tx_abort sent to the peer.
LEMMA AbortAppended ==
    ASSUME IInv, NEW n \in Node, NEW reason \in BOOLEAN
    PROVE  LET e == TxAbort(reason)
               s == Append(net[Other(n)], e)
               p == held[Other(n)] \o s
           IN  /\ e \in Messages /\ e.type = "tx_abort" /\ e.reason = reason
               /\ s \in Seq(Messages) /\ p \in Seq(Messages) /\ More(p, Pipe(Other(n)), 1, e)
               /\ Chans(ch[n], ch[Other(n)], p, Pipe(n))
<1>. DEFINE e == TxAbort(reason)
            t == net[Other(n)]
            h == held[Other(n)]
            s == Append(t, e)
            p == h \o s
<1>1. e \in Messages /\ e.type = "tx_abort" /\ e.reason = reason
  BY DEF TxAbort, Messages
<1>2. /\ t \in Seq(Messages) /\ h \in Seq(Messages) /\ Pipe(n) \in Seq(Messages)
      /\ Pipe(Other(n)) \in Seq(Messages) /\ Pipe(Other(n)) = h \o t
      /\ ch[n] \in Channels /\ ch[Other(n)] \in Channels
      /\ Chans(ch[n], ch[Other(n)], Pipe(Other(n)), Pipe(n))
  <2>1. Typed /\ Other(n) \in Node
    BY OtherFacts DEF IInv
  <2>. QED  BY <2>1, ViewFacts DEF Pipe, IInv
<1>. HIDE DEF e, t, h
<1>3. s \in Seq(Messages) /\ More(s, t, 1, e)
  BY ONLY <1>1, <1>2, AppendMore
<1>. HIDE DEF s
<1>4. p \in Seq(Messages)
  BY ONLY <1>2, <1>3, ConcatFacts
<1>5. More(p, h \o t, 1, e)
  <2>1. 1 \in Nat
    OBVIOUS
  <2>. QED  BY <1>2, <1>3, <2>1, ConcatKeepsMore
<1>. HIDE DEF p
<1>6. Chans(ch[n], ch[Other(n)], p, Pipe(n))
  BY <1>1, <1>2, <1>4, <1>5, OtherInStep
<1>. QED  BY <1>1, <1>2, <1>3, <1>4, <1>5, <1>6 DEF p, s, e, t, h

\* Quiesced
LEMMA QuiescedKeeps ==
    ASSUME IInv, NEW n \in Node, Quiesced(n)
    PROVE  IInv'
<1>. DEFINE k == [q[n] EXCEPT !.req = "none"]
<1>1. q[n] \in Quiescers /\ mach[n] \in Machines
  <2>1. Typed
    BY DEF IInv
  <2>. QED  BY <2>1, ViewFacts
<1>2. /\ k \in Quiescers /\ k.req = "none" /\ k.localInit = q[n].localInit
      /\ k.remoteInit = q[n].remoteInit /\ k.sent = q[n].sent /\ k.received = q[n].received
  BY <1>1 DEF Quiescers
<1>3. /\ q' = [q EXCEPT ![n] = k] /\ UNCHANGED <<ch, mail, work, held, replay, txSigs>>
      /\ conn' = "up"
  BY DEF Quiesced
<1>. HIDE DEF k
<1>4. CASE q[n].req = "Local"
  <2>. DEFINE m == [mach[n] EXCEPT !.abortSent = TRUE, !.resuming = TRUE]
              e == TxAbort(TRUE)
              s == Append(net[Other(n)], e)
              p == held[Other(n)] \o s
              x == View(n)
              x2 == Turned(n, k, m)
  <2>1. /\ m \in Machines /\ m.inbox = mach[n].inbox /\ m.abortSent /\ m.resuming
    BY <1>1 DEF Machines
  <2>2. net' = [net EXCEPT ![Other(n)] = s] /\ mach' = [mach EXCEPT ![n] = m]
    BY <1>4 DEF Quiesced
  <2>. HIDE DEF m
  <2>3. /\ x2 \in Views /\ x2.id = x.id /\ x2.c = x.c /\ x2.tx = x.tx /\ x2.k = k /\ x2.m = m
        /\ x \in Views /\ View(Other(n)) \in Views /\ x.id # View(Other(n)).id
        /\ x.k = q[n] /\ x.m = mach[n] /\ Pipe(n) \in Seq(Messages)
        /\ Pipe(Other(n)) \in Seq(Messages)
        /\ Sides(x, View(Other(n)), Pipe(Other(n)), Pipe(n))
    <3>1. Typed /\ k \in Quiescers /\ m \in Machines
      BY <1>2, <2>1 DEF IInv
    <3>2. Turned(n, k, m) \in Views /\ Turned(n, k, m).id = View(n).id
          /\ Turned(n, k, m).c = View(n).c /\ Turned(n, k, m).tx = View(n).tx
          /\ Turned(n, k, m).k = k /\ Turned(n, k, m).m = m
      BY ONLY <3>1, n \in Node, TurnFacts
    <3>. QED  BY <3>2, BeforeTurn
  <2>l. x2.late = x.late
    BY TurnFacts, <1>2, <2>1 DEF IInv
  <2>q. x.m.inbox = <<>> /\ ~x.m.resuming
    <3>1. x.m = mach[n]
      BY <2>3
    <3>2. mach[n].inbox = <<>> /\ ~mach[n].resuming
      BY <1>4 DEF Quiesced
    <3>. HIDE DEF x
    <3>. QED  BY <3>1, <3>2
  <2>4. /\ e \in Messages /\ e.type = "tx_abort" /\ e.reason = TRUE
        /\ s \in Seq(Messages) /\ p \in Seq(Messages) /\ More(p, Pipe(Other(n)), 1, e)
        /\ Chans(ch[n], ch[Other(n)], p, Pipe(n))
    BY AbortAppended
  <2>. HIDE DEF e, s, p, x, x2
  <2>5. /\ x.k.req = "Local" /\ x2.m.inbox = x.m.inbox /\ x2.m.abortSent /\ x2.m.resuming
        /\ x2.k.req = "none" /\ x2.k.localInit = x.k.localInit
        /\ x2.k.remoteInit = x.k.remoteInit /\ x2.k.sent = x.k.sent
        /\ x2.k.received = x.k.received /\ e.reason
    BY <1>2, <1>4, <2>1, <2>3, <2>4
  <2>6. Sides(x2, View(Other(n)), p, Pipe(n))
    BY <2>3, <2>l, <2>q, <2>4, <2>5, EndKeeps
  <2>. QED  BY <1>2, <1>3, <2>1, <2>2, <2>4, <2>6, MachineStep DEF p, x2
<1>5. CASE q[n].req # "Local"
  <2>. DEFINE m == mach[n]
              s == net[Other(n)]
              x == View(n)
              x2 == Turned(n, k, m)
  <2>1. /\ x2 \in Views /\ x2.id = x.id /\ x2.c = x.c /\ x2.tx = x.tx /\ x2.k = k /\ x2.m = x.m
        /\ x \in Views /\ View(Other(n)) \in Views /\ x.k = q[n]
        /\ Pipe(n) \in Seq(Messages) /\ Pipe(Other(n)) \in Seq(Messages)
        /\ Sides(x, View(Other(n)), Pipe(Other(n)), Pipe(n)) /\ s \in Seq(Messages)
        /\ Pipe(Other(n)) = held[Other(n)] \o s
        /\ Chans(ch[n], ch[Other(n)], Pipe(Other(n)), Pipe(n))
        /\ mach = [mach EXCEPT ![n] = m] /\ net = [net EXCEPT ![Other(n)] = s]
    <3>1. Typed /\ k \in Quiescers /\ m \in Machines
      BY <1>1, <1>2 DEF IInv
    <3>2. Turned(n, k, m) \in Views /\ Turned(n, k, m).id = View(n).id
          /\ Turned(n, k, m).c = View(n).c /\ Turned(n, k, m).tx = View(n).tx
          /\ Turned(n, k, m).k = k /\ Turned(n, k, m).m = m
      BY ONLY <3>1, n \in Node, TurnFacts
    <3>. QED  BY <3>2, BeforeTurn
  <2>l. x2.late = x.late
    BY TurnFacts, <1>1, <1>2 DEF IInv
  <2>2. mach' = [mach EXCEPT ![n] = m] /\ net' = [net EXCEPT ![Other(n)] = s]
    BY <1>5, <2>1 DEF Quiesced
  <2>. HIDE DEF x, x2
  <2>3. Sides(x2, View(Other(n)), Pipe(Other(n)), Pipe(n))
    <3>1. /\ x2.k.localInit = x.k.localInit /\ x2.k.req \in {"none", x.k.req}
          /\ x2.k.remoteInit = x.k.remoteInit /\ x2.k.sent = x.k.sent
          /\ x2.k.received = x.k.received
      BY <1>2, <2>1
    <3>. QED  BY <2>1, <2>l, <3>1, WithdrawKeeps
  <2>4. /\ Sides(Turned(n, k, m), View(Other(n)), held[Other(n)] \o s, Pipe(n))
        /\ Chans(ch[n], ch[Other(n)], held[Other(n)] \o s, Pipe(n))
    BY <2>1, <2>3 DEF x2
  <2>. QED  BY <1>1, <1>2, <1>3, <2>1, <2>2, <2>4, MachineStep
<1>. QED  BY <1>4, <1>5

\* MachineHandleTxAbort
LEMMA MachineHandleTxAbortKeeps ==
    ASSUME IInv, NEW n \in Node, MachineHandleTxAbort(n)
    PROVE  IInv'
<1>. DEFINE x == View(n)
            y == View(Other(n))
            k == q[n]
<1>1. /\ x \in Views /\ y \in Views /\ x.k = k /\ x.m = mach[n]
      /\ k \in Quiescers /\ mach[n] \in Machines
      /\ Pipe(n) \in Seq(Messages) /\ Pipe(Other(n)) \in Seq(Messages)
      /\ Sides(x, y, Pipe(Other(n)), Pipe(n)) /\ q = [q EXCEPT ![n] = k]
  BY BeforeTurn
<1>2. /\ ~mach[n].resuming /\ mach[n].inbox # <<>>
      /\ UNCHANGED <<ch, q, mail, work, held, replay, txSigs>> /\ conn' = "up"
  BY DEF MachineHandleTxAbort
<1>3. mach[n].inbox \in Seq([type : {"tx_abort"}, reason : BOOLEAN])
  BY <1>1 DEF Machines
<1>4. Tail(mach[n].inbox) \in Seq([type : {"tx_abort"}, reason : BOOLEAN])
  BY <1>2, <1>3, TailLess
<1>5. CASE mach[n].abortSent
  <2>. DEFINE box == Tail(mach[n].inbox)
              m == [mach[n] EXCEPT !.abortSent = FALSE, !.inbox = box]
              s == net[Other(n)]
              x2 == Turned(n, k, m)
  <2>1. mach' = [mach EXCEPT ![n] = m] /\ UNCHANGED net
    BY <1>5 DEF MachineHandleTxAbort
  <2>2. /\ m \in Machines /\ ~m.abortSent /\ ~m.resuming /\ m.inbox = Tail(mach[n].inbox)
    <3>1. box \in Seq([type : {"tx_abort"}, reason : BOOLEAN])
      BY <1>4
    <3>. HIDE DEF box
    <3>2. /\ m \in Machines /\ ~m.abortSent /\ ~m.resuming /\ m.inbox = box
      BY <1>1, <1>2, <3>1 DEF Machines
    <3>. QED  BY <3>2 DEF box
  <2>. HIDE DEF m
  <2>3. /\ x2 \in Views /\ x2.id = x.id /\ x2.c = x.c /\ x2.tx = x.tx /\ x2.k = k /\ x2.m = m
        /\ s \in Seq(Messages) /\ Pipe(Other(n)) = held[Other(n)] \o s
        /\ Chans(ch[n], ch[Other(n)], Pipe(Other(n)), Pipe(n))
        /\ net = [net EXCEPT ![Other(n)] = s]
    <3>1. Typed /\ k \in Quiescers /\ m \in Machines
      BY <1>1, <2>2 DEF IInv
    <3>2. Turned(n, k, m) \in Views /\ Turned(n, k, m).id = View(n).id
          /\ Turned(n, k, m).c = View(n).c /\ Turned(n, k, m).tx = View(n).tx
          /\ Turned(n, k, m).k = k /\ Turned(n, k, m).m = m
      BY ONLY <3>1, n \in Node, TurnFacts
    <3>. QED  BY <3>2, BeforeTurn
  <2>l. x2.late = x.late
    BY TurnFacts, <1>1, <2>2 DEF IInv
  <2>4. net' = [net EXCEPT ![Other(n)] = s] /\ q' = [q EXCEPT ![n] = k]
    BY <1>1, <1>2, <2>1, <2>3
  <2>. HIDE DEF x, x2, y
  <2>5. Sides(x2, y, Pipe(Other(n)), Pipe(n))
    <3>1. /\ x.m.abortSent /\ ~x.m.resuming /\ x.m.inbox # <<>> /\ x2.k = x.k
          /\ ~x2.m.abortSent /\ ~x2.m.resuming /\ x2.m.inbox = Tail(x.m.inbox)
      BY <1>1, <1>2, <1>5, <2>2, <2>3
    <3>. QED  BY <1>1, <2>3, <2>l, <3>1, EchoKeeps
  <2>6. /\ Sides(Turned(n, k, m), View(Other(n)), held[Other(n)] \o s, Pipe(n))
        /\ Chans(ch[n], ch[Other(n)], held[Other(n)] \o s, Pipe(n))
    BY <2>3, <2>5 DEF x2, y
  <2>. QED  BY <1>1, <1>2, <2>1, <2>2, <2>3, <2>4, <2>6, MachineStep
<1>6. CASE ~mach[n].abortSent
  <2>. DEFINE box == Tail(mach[n].inbox)
              m == [mach[n] EXCEPT !.resuming = TRUE, !.inbox = box]
              e == TxAbort(FALSE)
              s == Append(net[Other(n)], e)
              p == held[Other(n)] \o s
              x2 == Turned(n, k, m)
  <2>1. Head(mach[n].inbox).reason
    <3>. HIDE DEF x, y
    <3>1. Rounds(x, y, Pipe(Other(n)), Pipe(n))
      BY <1>1 DEF Sides
    <3>2. x.m.inbox # <<>> /\ ~x.m.abortSent
      BY <1>1, <1>2, <1>6
    <3>3. Head(x.m.inbox).reason <=> ~x.m.abortSent
      BY <1>1, <3>1, <3>2, InboxExpected
    <3>4. x.m = mach[n]
      BY <1>1
    <3>. QED  BY <3>2, <3>3, <3>4
  <2>2. mach' = [mach EXCEPT ![n] = m] /\ net' = [net EXCEPT ![Other(n)] = s]
    BY <1>6, <2>1 DEF MachineHandleTxAbort
  <2>3. /\ m \in Machines /\ ~m.abortSent /\ m.resuming /\ m.inbox = Tail(mach[n].inbox)
    <3>1. box \in Seq([type : {"tx_abort"}, reason : BOOLEAN])
      BY <1>4
    <3>. HIDE DEF box
    <3>2. /\ m \in Machines /\ ~m.abortSent /\ m.resuming /\ m.inbox = box
      BY <1>1, <1>6, <3>1 DEF Machines
    <3>. QED  BY <3>2 DEF box
  <2>. HIDE DEF m
  <2>4. /\ x2 \in Views /\ x2.id = x.id /\ x2.c = x.c /\ x2.tx = x.tx /\ x2.k = k /\ x2.m = m
    <3>1. Typed /\ k \in Quiescers /\ m \in Machines
      BY <1>1, <2>3 DEF IInv
    <3>2. Turned(n, k, m) \in Views /\ Turned(n, k, m).id = View(n).id
          /\ Turned(n, k, m).c = View(n).c /\ Turned(n, k, m).tx = View(n).tx
          /\ Turned(n, k, m).k = k /\ Turned(n, k, m).m = m
      BY ONLY <3>1, n \in Node, TurnFacts
    <3>. QED  BY <3>2, BeforeTurn
  <2>l. x2.late = x.late
    BY TurnFacts, <1>1, <2>3 DEF IInv
  <2>5. /\ e \in Messages /\ e.type = "tx_abort" /\ e.reason = FALSE
        /\ s \in Seq(Messages) /\ p \in Seq(Messages) /\ More(p, Pipe(Other(n)), 1, e)
        /\ Chans(ch[n], ch[Other(n)], p, Pipe(n))
    BY AbortAppended
  <2>6. q' = [q EXCEPT ![n] = k]
    BY <1>1, <1>2
  <2>. HIDE DEF x, x2, y, e, s, p
  <2>7. Sides(x2, y, p, Pipe(n))
    <3>1. /\ ~x.m.abortSent /\ x.m.inbox # <<>> /\ x2.k = x.k /\ ~x.m.resuming /\ ~e.reason
          /\ ~x2.m.abortSent /\ x2.m.resuming /\ x2.m.inbox = Tail(x.m.inbox)
      BY <1>1, <1>2, <1>6, <2>3, <2>4, <2>5
    <3>. QED  BY <1>1, <2>4, <2>l, <2>5, <3>1, EchoedKeeps
  <2>. QED  BY <1>1, <1>2, <2>2, <2>3, <2>5, <2>6, <2>7, MachineStep DEF p, x2, y
<1>. QED  BY <1>5, <1>6

\* ShutdownReceived
LEMMA ShutdownReceivedKeeps ==
    ASSUME IInv, NEW n \in Node, ShutdownReceived(n)
    PROVE  IInv'
<1>. DEFINE x == View(n)
            y == View(Other(n))
            k == RefuseInit(q[n])
            m == mach[n]
            s == net[Other(n)]
            x2 == Turned(n, k, m)
<1>1. q[n] \in Quiescers /\ m \in Machines
  <2>1. Typed
    BY DEF IInv
  <2>. QED  BY <2>1, ViewFacts
<1>2. /\ k \in Quiescers /\ k.remoteInit = q[n].remoteInit /\ k.sent = q[n].sent
      /\ k.received = q[n].received
      /\ \/ /\ ~q[n].sent /\ ~k.localInit
            /\ k.req = IF q[n].req = "pending" THEN "refused" ELSE q[n].req
         \/ k.localInit = q[n].localInit /\ k.req = q[n].req
  <2>1. CASE q[n].localInit /\ ~q[n].sent
    <3>. DEFINE a == IF q[n].req = "pending" THEN "refused" ELSE q[n].req
    <3>1. k = [q[n] EXCEPT !.refuse = TRUE, !.localInit = FALSE, !.req = a]
      BY <2>1 DEF RefuseInit
    <3>2. a \in {"none", "pending", "Local", "Remote", "refused", "error"}
      BY <1>1 DEF Quiescers
    <3>. HIDE DEF a, k
    <3>3. /\ k \in Quiescers /\ k.remoteInit = q[n].remoteInit /\ k.sent = q[n].sent
          /\ k.received = q[n].received /\ ~k.localInit /\ k.req = a
      BY <1>1, <3>1, <3>2 DEF Quiescers
    <3>. QED  BY <2>1, <3>3 DEF a
  <2>2. CASE ~(q[n].localInit /\ ~q[n].sent)
    <3>1. k = [q[n] EXCEPT !.refuse = TRUE]
      BY <2>2 DEF RefuseInit
    <3>. HIDE DEF k
    <3>. QED  BY <1>1, <3>1 DEF Quiescers
  <2>. QED  BY <2>1, <2>2
<1>3. /\ q' = [q EXCEPT ![n] = k]
      /\ UNCHANGED <<ch, mail, work, held, replay, txSigs, mach, net>> /\ conn' = "up"
  BY DEF ShutdownReceived
<1>. HIDE DEF k
<1>4. /\ x2 \in Views /\ x2.id = x.id /\ x2.c = x.c /\ x2.tx = x.tx /\ x2.k = k /\ x2.m = x.m
      /\ x \in Views /\ y \in Views /\ x.k = q[n]
      /\ Pipe(n) \in Seq(Messages) /\ Pipe(Other(n)) \in Seq(Messages)
      /\ Sides(x, y, Pipe(Other(n)), Pipe(n)) /\ s \in Seq(Messages)
      /\ Pipe(Other(n)) = held[Other(n)] \o s
      /\ Chans(ch[n], ch[Other(n)], Pipe(Other(n)), Pipe(n))
      /\ mach = [mach EXCEPT ![n] = m] /\ net = [net EXCEPT ![Other(n)] = s]
  <2>1. Typed /\ k \in Quiescers /\ m \in Machines
    BY <1>1, <1>2 DEF IInv
  <2>2. Turned(n, k, m) \in Views /\ Turned(n, k, m).id = View(n).id
        /\ Turned(n, k, m).c = View(n).c /\ Turned(n, k, m).tx = View(n).tx
        /\ Turned(n, k, m).k = k /\ Turned(n, k, m).m = m
    BY ONLY <2>1, n \in Node, TurnFacts
  <2>. QED  BY <2>2, BeforeTurn
<1>l. x2.late = x.late
  BY TurnFacts, <1>1, <1>2 DEF IInv
<1>5. mach' = [mach EXCEPT ![n] = m] /\ net' = [net EXCEPT ![Other(n)] = s]
  BY <1>3, <1>4
<1>. HIDE DEF x, x2, y
<1>6. Sides(x2, y, Pipe(Other(n)), Pipe(n))
  <2>1. /\ x2.k.remoteInit = x.k.remoteInit /\ x2.k.sent = x.k.sent
        /\ x2.k.received = x.k.received
        /\ \/ /\ ~x.k.sent /\ ~x2.k.localInit
              /\ x2.k.req = IF x.k.req = "pending" THEN "refused" ELSE x.k.req
           \/ x2.k.localInit = x.k.localInit /\ x2.k.req \in {"none", x.k.req}
    BY <1>2, <1>4
  <2>. QED  BY <1>4, <1>l, <2>1, WithdrawKeeps
<1>7. /\ Sides(Turned(n, k, m), View(Other(n)), held[Other(n)] \o s, Pipe(n))
      /\ Chans(ch[n], ch[Other(n)], held[Other(n)] \o s, Pipe(n))
  BY <1>4, <1>6 DEF x2, y
<1>. QED  BY <1>1, <1>2, <1>3, <1>4, <1>5, <1>7, MachineStep

\* ResumeQuiescence
LEMMA ResumeQuiescenceKeeps ==
    ASSUME IInv, NEW n \in Node, ResumeQuiescence(n)
    PROVE  IInv'
<1>. DEFINE v == View(n)
            y == View(Other(n))
            p == Pipe(Other(n))
            in == Pipe(n)
            s == State(n)
            g == q[n].resumeQueue
            m2 == [mach[n] EXCEPT !.resuming = FALSE]
            v2 == [v EXCEPT !.tx = FALSE, !.m = m2]
            r == [s EXCEPT !.k = Reset(@), !.box = ResetPackets(@)]
<1>1. /\ Typed /\ v \in Views /\ y \in Views /\ p \in Seq(Messages) /\ in \in Seq(Messages)
      /\ s \in Results /\ s.k = q[n] /\ Link(v, y, p, in, s)
  BY StartFacts
<1>2. /\ v.id = n /\ v.tx = txSigs[n] /\ v.m = mach[n] /\ v.k = q[n] /\ mach[n] \in Machines
      /\ q[n] \in Quiescers /\ held[n] \in Seq(Messages) /\ net[n] \in Seq(Messages)
  BY <1>1, ViewFacts
<1>3. mach[n].resuming /\ mach' = [mach EXCEPT ![n] = m2] /\ replay' = [replay EXCEPT ![n] = TRUE]
      /\ conn' = "up"
  BY DEF ResumeQuiescence, LinkFree
<1>4. IsQuiescent(q[n])
  <2>1. Sides(v, y, p, in)
    BY DEF IInv
  <2>. HIDE DEF v, y, p, in
  <2>. QED  BY <1>2, <1>3, <2>1 DEF Sides, Rounds, FlagsOK
<1>5. txSigs' = [txSigs EXCEPT ![n] = FALSE]
  BY <1>4 DEF ResumeQuiescence
<1>6. PICK outcomes \in [1..g -> Outcomes] :
         Apply(n, SignIfOwed([ProcessRemoteAdds(s, outcomes) EXCEPT !.k = Reset(@),
                                                         !.box = ResetPackets(@)]),
               net[n], held[n])
  BY <1>4 DEF ResumeQuiescence
<1>7. g \in Nat
  BY <1>2 DEF Quiescers
<1>. HIDE DEF s, g
<1>8. [ProcessRemoteAdds(s, outcomes) EXCEPT !.k = Reset(@), !.box = ResetPackets(@)]
        = ProcessRemoteAdds(r, outcomes)
  BY <1>1, <1>7, ResetCommutes
<1>9. /\ m2 \in Machines /\ m2.abortSent = mach[n].abortSent /\ ~m2.resuming
      /\ m2.inbox = mach[n].inbox
  BY <1>2 DEF Machines
<1>. HIDE DEF m2
<1>10. v2 \in Views /\ v2.id = n /\ v2.tx = FALSE /\ v2.m = m2
  <2>. HIDE DEF v
  <2>. QED  BY <1>1, <1>2, <1>9 DEF Views
<1>. HIDE DEF v2, v, y, p, in
<1>11. Link(v2, y, p, in, r) /\ BoxFits(r) /\ CanSendUpdates(r.k)
  <2>1. /\ v.m.resuming /\ v2.id = v.id /\ ~v2.tx /\ v2.m.abortSent = v.m.abortSent
        /\ ~v2.m.resuming /\ v2.m.inbox = v.m.inbox
    BY <1>2, <1>3, <1>9, <1>10
  <2>. QED  BY <1>1, <1>10, <2>1, ResumeOK
<1>. HIDE DEF r
<1>. DEFINE e == ProcessRemoteAdds(r, outcomes)
            d == SignIfOwed(e)
<1>12. Apply(n, d, net[n], held[n])
  BY <1>6, <1>8
<1>13. Link(v2, y, p, in, e) /\ BoxFits(e)
  BY <1>1, <1>7, <1>10, <1>11, ProcessRemoteAddsOK
<1>. HIDE DEF e
<1>14. Link(v2, y, p, in, d) /\ BoxFits(d)
  BY <1>1, <1>10, <1>13, SignIfOwedOK
<1>. HIDE DEF d
<1>15. /\ txSigs' \in [Node -> BOOLEAN] /\ mach' \in [Node -> Machines]
       /\ replay' \in [Node -> BOOLEAN] /\ StfuRespected' /\ txSigs'[n] = FALSE
       /\ mach'[n] = m2 /\ replay'[n]
       /\ txSigs'[Other(n)] = txSigs[Other(n)] /\ mach'[Other(n)] = mach[Other(n)]
       /\ replay'[Other(n)] = replay[Other(n)]
  <2>1. StfuRespected'
    BY <1>3 DEF StfuRespected
  <2>. QED  BY <1>1, <1>3, <1>5, <1>9, <2>1, OtherFacts DEF Typed
<1>16. HeldOK(n)'
  <2>1. held'[n] = held[n]
    BY <1>1, <1>12 DEF Apply, Typed
  <2>2. ~Has(held[n], "tx_abort")
    BY DEF IInv, HeldOK
  <2>. QED  BY <1>15, <2>1, <2>2 DEF HeldOK
<1>17. Link(v2, View(Other(n)), Pipe(Other(n)), held[n] \o net[n], d)
  BY <1>14 DEF y, p, in, Pipe
<1>. QED  BY <1>2, <1>10, <1>12, <1>14, <1>15, <1>16, <1>17, ApplyKeeps

\* Steps that leave the nodes as they are: Shutdown, Timeout, stuttering.
LEMMA OtherStepKeeps ==
    ASSUME IInv, UNCHANGED <<ch, q, mail, work, held, replay, txSigs, mach, net>>,
           conn' \in {conn, "down"}
    PROVE  IInv'
<1>1. Typed' /\ StfuRespected'
  BY DEF IInv, Typed, StfuRespected
<1>2. ASSUME NEW n \in Node
      PROVE  /\ View(n)' = View(n) /\ Pipe(n)' = Pipe(n) /\ HeldOK(n)' = HeldOK(n)
             /\ State(n)' = State(n)
  BY DEF View, Pipe, State, HeldOK, HeldForResume, MustWait
<1>3. ASSUME NEW n \in Node
      PROVE  /\ Chans(ch[n], ch[Other(n)], Pipe(Other(n)), Pipe(n))'
             /\ Sides(View(n), View(Other(n)), Pipe(Other(n)), Pipe(n))'
             /\ HeldOK(n)' /\ BoxFits(State(n))'
  BY <1>2, OtherFacts DEF IInv
<1>. QED  BY <1>1, <1>3 DEF IInv

\* The invariant holds to begin with.
LEMMA InitIInv ==
    ASSUME Init PROVE IInv
<1>. DEFINE c == NewChannel
            k == NewQuiescer
            m == [inbox |-> <<>>, abortSent |-> FALSE, resuming |-> FALSE]
            x0 == [Local |-> 0, Remote |-> 0]
<1>1. /\ c \in Channels /\ c.log.Local = <<>> /\ c.log.Remote = <<>> /\ c.own = x0
      /\ c.peer = <<x0>> /\ x0 \in Indices
  <2>1. x0 \in Indices
    BY DEF Indices
  <2>2. [Local |-> <<>>, Remote |-> <<>>] \in Logs
    BY DEF Logs
  <2>. HIDE DEF x0
  <2>3. <<x0>> \in Seq(Indices)
    BY <2>1
  <2>4. c = [log |-> [Local |-> <<>>, Remote |-> <<>>], own |-> x0, peer |-> <<x0>>]
    BY DEF NewChannel, x0
  <2>. HIDE DEF c
  <2>. QED  BY <2>1, <2>2, <2>3, <2>4 DEF Channels
<1>2. /\ k \in Quiescers /\ ~k.sent /\ ~k.received /\ ~k.localInit /\ k.req = "none"
  BY DEF NewQuiescer, Quiescers
<1>3. m \in Machines /\ m.inbox = <<>> /\ ~m.abortSent /\ ~m.resuming
  BY DEF Machines
<1>4. <<>> \in Seq(Messages) /\ <<>> \in Seq(Packets) /\ Len(<<>>) = 0 /\ 1..0 = {}
  OBVIOUS
<1>. HIDE DEF c, k, m, x0
<1>5. ASSUME NEW n \in Node
      PROVE  /\ ch[n] = c /\ q[n] = k /\ mail[n] = <<>> /\ held[n] = <<>> /\ net[n] = <<>>
             /\ ~replay[n] /\ ~txSigs[n] /\ mach[n] = m
  BY DEF Init, c, k, m
<1>6. Typed
  <2>1. [forward |-> 0, hold |-> 0, added |-> 0, late |-> FALSE] \in Works
    BY DEF Works
  <2>2. /\ ch = [n \in Node |-> c] /\ q = [n \in Node |-> k] /\ mail = [n \in Node |-> <<>>]
        /\ work = [n \in Node |-> [forward |-> 0, hold |-> 0, added |-> 0, late |-> FALSE]]
        /\ held = [n \in Node |-> <<>>] /\ replay = [n \in Node |-> FALSE]
        /\ txSigs = [n \in Node |-> FALSE] /\ mach = [n \in Node |-> m]
        /\ net = [n \in Node |-> <<>>]
    BY DEF Init, c, k, m
  <2>. QED  BY <1>1, <1>2, <1>3, <1>4, <2>1, <2>2 DEF Typed
<1>7. StfuRespected
  BY DEF Init, StfuRespected
<1>8. ASSUME NEW n \in Node PROVE Pipe(n) = <<>>
  BY <1>5 DEF Pipe
<1>9. \A type : ~Has(<<>>, type) /\ Once(<<>>, type)
  BY <1>4 DEF Has, Once
<1>10. Chan(c, c, <<>>, <<>>)
  <2>1. Numbered(<<>>, <<>>, <<>>)
    <3>. DEFINE f == [i \in 0..0 |-> 0]
    <3>1. /\ f \in [0..Len(<<>>) -> Nat] /\ f[0] = Len(<<>>)
          /\ \A i, j \in 0..Len(<<>>) : i <= j => f[i] <= f[j]
      BY <1>4
    <3>. QED  BY <1>4, <3>1 DEF Numbered
  <2>2. Len(c.peer) = 1 /\ c.peer[1] = x0 /\ Last(c.peer) = x0
    BY <1>1 DEF Last
  <2>3. Grows(c)
    <3>1. x0.Local = 0 /\ x0.Remote = 0
      BY DEF x0
    <3>. QED  BY <1>1, <1>4, <2>2, <3>1 DEF Grows
  <2>4. InStep(c, c, <<>>, <<>>)
    <3>1. x0 = Flip(x0)
      BY DEF Flip, x0
    <3>2. 1 \in 1..2 /\ 1 # 2
      OBVIOUS
    <3>. QED  BY <1>1, <1>4, <1>9, <2>2, <3>1, <3>2 DEF InStep
  <2>. QED  BY <1>1, <2>1, <2>3, <2>4 DEF Chan
<1>a. ~HasAbort(<<>>) /\ ~HasEcho(<<>>) /\ Shape(<<>>)
  BY <1>4 DEF HasAbort, HasEcho, Shape
<1>b. ~HasFirst(<<>>) /\ ~HasNext(<<>>) /\ \A b : ~FirstStfu(<<>>, b) /\ ~NextStfu(<<>>, b)
  BY <1>4 DEF HasFirst, HasNext, FirstStfu, NextStfu
<1>11. ASSUME NEW n \in Node
       PROVE  Sides(View(n), View(Other(n)), <<>>, <<>>)
  <2>. DEFINE x == View(n)
              y == View(Other(n))
  <2>1. /\ x.k = k /\ y.k = k /\ ~x.tx /\ ~y.tx /\ x.m = m /\ y.m = m
    BY <1>5, OtherFacts DEF View
  <2>. HIDE DEF x, y
  <2>2. Quiet(x, y, <<>>) /\ Quiet(y, x, <<>>)
    BY <1>2, <1>4, <2>1 DEF Quiet, StfuOK, ReceivedOK
  <2>3. ~Told(x) /\ ~Told(y) /\ ~Echoed(x) /\ ~Echoed(y) /\ InboxOK(x) /\ InboxOK(y)
    BY <1>3, <1>4, <2>1 DEF Told, Echoed, InboxOK
  <2>4. FlagsOK(x) /\ FlagsOK(y)
    BY <1>2, <1>3, <2>1, <2>3 DEF FlagsOK, IsQuiescent
  <2>5. PipeOK(x, <<>>) /\ PipeOK(y, <<>>)
    BY <1>a DEF PipeOK
  <2>6. Token(x, y, <<>>, <<>>) /\ Token(y, x, <<>>, <<>>)
    BY <1>a, <1>3, <2>1, <2>3 DEF Token
  <2>7. Level(x, y, <<>>) /\ Level(y, x, <<>>)
    BY <1>a, <1>b, <1>2, <1>3, <2>1, <2>3 DEF Level
  <2>. QED  BY <2>2, <2>3, <2>4, <2>5, <2>6, <2>7 DEF Sides, Rounds, x, y
<1>12. ASSUME NEW n \in Node
       PROVE  /\ Chans(ch[n], ch[Other(n)], Pipe(Other(n)), Pipe(n))
              /\ Sides(View(n), View(Other(n)), Pipe(Other(n)), Pipe(n))
              /\ HeldOK(n) /\ BoxFits(State(n))
  <2>1. Other(n) \in Node /\ Other(Other(n)) = n
    BY OtherFacts
  <2>2. Chans(ch[n], ch[Other(n)], Pipe(Other(n)), Pipe(n))
    BY <1>5, <1>8, <1>10, <2>1 DEF Chans
  <2>3. Sides(View(n), View(Other(n)), Pipe(Other(n)), Pipe(n))
    BY <1>8, <1>11, <2>1
  <2>4. HeldOK(n)
    BY <1>5, <1>9 DEF HeldOK
  <2>5. BoxFits(State(n))
    <3>1. State(n).box = <<>>
      BY <1>5 DEF State
    <3>. QED  BY <1>4, <3>1 DEF BoxFits
  <2>. QED  BY <2>2, <2>3, <2>4, <2>5
<1>. QED  BY <1>6, <1>7, <1>12 DEF IInv

\* The invariant is kept by every step.
LEMMA NextIInv ==
    ASSUME IInv, [Next]_vars
    PROVE  IInv'
<1>1. CASE \E n \in Node : \E type \in {"Add", "Rmv"} : SwitchPacket(n, type)
  BY <1>1, SwitchPacketKeeps
<1>2. CASE \E n \in Node : HandleDownstreamPkt(n)
  BY <1>2, HandleDownstreamPktKeeps
<1>3. CASE \E n \in Node : BatchTick(n)
  BY <1>3, BatchTickKeeps
<1>4. CASE \E n \in Node : HandleHtlcResolution(n)
  BY <1>4, HandleHtlcResolutionKeeps
<1>5. CASE \E n \in Node : HandleQuiescenceReq(n)
  BY <1>5, HandleQuiescenceReqKeeps
<1>6. CASE \E n \in Node : HandleUpstreamMsg(n)
  BY <1>6, HandleUpstreamMsgKeeps
<1>7. CASE \E n \in Node : ReplayHeld(n)
  BY <1>7, ReplayHeldKeeps
<1>8. CASE \E n \in Node : Quiesced(n)
  BY <1>8, QuiescedKeeps
<1>9. CASE \E n \in Node : MachineHandleTxAbort(n)
  BY <1>9, MachineHandleTxAbortKeeps
<1>10. CASE \E n \in Node : ResumeQuiescence(n)
  BY <1>10, ResumeQuiescenceKeeps
<1>11. CASE \E n \in Node : Timeout(n)
  BY <1>11, OtherStepKeeps DEF Timeout, FailLink
<1>12. CASE \E n \in Node : Shutdown(n)
  BY <1>12, OtherStepKeeps DEF Shutdown
<1>13. CASE \E n \in Node : ShutdownReceived(n)
  BY <1>13, ShutdownReceivedKeeps
<1>14. CASE UNCHANGED vars
  BY <1>14, OtherStepKeeps DEF vars
<1>. QED
  BY <1>1, <1>2, <1>3, <1>4, <1>5, <1>6, <1>7, <1>8, <1>9, <1>10, <1>11, <1>12, <1>13, <1>14
     DEF Next

\* The inductive invariant holds of every behaviour of the two nodes.
THEOREM Invariant ==
    Spec => []IInv
<1>1. Init => IInv
  BY InitIInv
<1>2. IInv /\ [Next]_vars => IInv'
  BY NextIInv
<1>. QED  BY <1>1, <1>2, PTL DEF Spec

-----------------------------------------------------------------------------

\* What the invariant says of a message.
LEMMA MessagesOK ==
    ASSUME NEW s \in Seq(Messages)
    PROVE  \A i \in DOMAIN s : MessageOK(s[i]) /\ s[i] \in Messages
<1>. SUFFICES ASSUME NEW i \in DOMAIN s PROVE MessageOK(s[i]) /\ s[i] \in Messages
  OBVIOUS
<1>1. s[i] \in Messages
  OBVIOUS
<1>2. \A x \in Indices : x \in [Party -> Nat]
  BY DEF Indices, Party
<1>. QED  BY <1>1, <1>2 DEF Messages, MessageOK, Updates

\* TypeOK
LEMMA IInvTypeOK ==
    ASSUME IInv PROVE TypeOK
<1>. SUFFICES ASSUME NEW n \in Node
              PROVE  /\ Len(ch[n].peer) \in 1..2
                     /\ q[n].req \in {"none", "pending", "Local", "Remote", "refused"}
                     /\ \A i \in DOMAIN net[n] : MessageOK(net[n][i])
                     /\ \A i \in DOMAIN held[n] : MessageOK(held[n][i])
  BY DEF TypeOK
<1>1. Typed /\ Chans(ch[n], ch[Other(n)], Pipe(Other(n)), Pipe(n))
      /\ Sides(View(n), View(Other(n)), Pipe(Other(n)), Pipe(n))
  BY DEF IInv
<1>2. Len(ch[n].peer) \in 1..2
  BY <1>1 DEF Chans, Chan, InStep
<1>3. q[n].req \in {"none", "pending", "Local", "Remote", "refused"}
  BY <1>1 DEF Sides, Rounds, FlagsOK, View
<1>4. net[n] \in Seq(Messages) /\ held[n] \in Seq(Messages)
  BY <1>1, ViewFacts
<1>. QED  BY <1>2, <1>3, <1>4, MessagesOK

\* No update is under way: the receiver has them all.  The first message after
\* which it had more than to begin with would be an update.
LEMMA NumberedAll ==
    ASSUME NEW had \in Seq(Updates), NEW made \in Seq(Updates), NEW p \in Seq(Messages),
           Numbered(had, made, p), ~Has(p, "update")
    PROVE  had = made
<1>1. PICK f \in [0..Len(p) -> Nat] :
        /\ f[0] = Len(had) /\ f[Len(p)] = Len(made)
        /\ \A i \in 1..Len(had) : had[i] = made[i]
        /\ \A i \in 1..Len(p) :
              f[i] = IF p[i].type = "update" THEN f[i - 1] + 1 ELSE f[i - 1]
  BY DEF Numbered
<1>. DEFINE T == {i \in 0..Len(p) : f[i] # f[0]}
<1>2. Len(p) \in Nat
  OBVIOUS
<1>3. T = {}
  <2>. SUFFICES ASSUME T # {} PROVE FALSE
    OBVIOUS
  <2>1. T \subseteq Nat
    BY <1>2
  <2>2. PICK m \in T : \A k \in T : m <= k
    <3>. HIDE DEF T
    <3>. QED  BY <2>1, LeastNatural
  <2>3. m \in 1..Len(p) /\ m - 1 \in 0..Len(p) /\ m - 1 \notin T /\ f[m] # f[0]
    BY <1>2, <2>2
  <2>4. p[m].type # "update"
    BY <2>3 DEF Has
  <2>5. f[m] = f[m - 1]
    BY <1>1, <2>3, <2>4
  <2>6. f[m - 1] = f[0]
    BY <2>3
  <2>. QED  BY <2>3, <2>5, <2>6
<1>4. Len(had) = Len(made)
  <2>1. Len(p) \in 0..Len(p) /\ Len(p) \notin T
    BY <1>2, <1>3, SMT
  <2>2. f[Len(p)] = f[0]
    BY <2>1
  <2>. QED  BY <1>1, <2>2
<1>. QED  BY <1>1, <1>4

\* A node b that has read its peer's stfu, with no update on the way to it.
LEMMA QuietSettled ==
    ASSUME NEW a \in Channels, NEW b \in Channels, NEW p \in Seq(Messages), NEW r \in Seq(Messages),
           Chans(a, b, p, r), ~Has(p, "update"),
           NoDanglingUpdates(b, "Remote"), b.peer[1].Remote = Len(b.log.Remote)
    PROVE  a.log.Local = b.log.Remote /\ a.own.Local = Len(a.log.Local)
<1>1. InStep(b, a, r, p) /\ Numbered(b.log.Remote, a.log.Local, p)
  BY DEF Chans, Chan
<1>2. a.log.Local = b.log.Remote
  BY <1>1, NumberedAll, ChannelFacts
<1>3. Len(b.peer) \in 1..2
  BY <1>1 DEF InStep
<1>4. \/ a.own = Flip(b.peer[1])
      \/ a.own = Flip(b.peer[2]) /\ Len(b.peer) = 2
  BY <1>1, <1>3 DEF InStep
<1>5. Last(b.peer).Remote = Len(b.log.Remote) /\ (Len(b.peer) = 2 => Last(b.peer) = b.peer[2])
  BY PeerFacts DEF NoDanglingUpdates, LogIndex, Chans
<1>. QED  BY <1>2, <1>4, <1>5 DEF Flip

\* While both nodes are quiescent and no update is under way.
LEMMA BothSettled ==
    ASSUME IInv, BothQuiescent, \A m \in Node : ~Has(Pipe(m), "update"), NEW n \in Node
    PROVE  /\ ~HasUnackedCommitment(ch[n])
           /\ \A p \in Party : NoDanglingUpdates(ch[n], p)
           /\ ch[n].log.Local = ch[Other(n)].log.Remote
           /\ Len(ch[n].peer) = 1 /\ ~Has(Pipe(n), "stfu")
<1>. DEFINE o == Other(n)
            a == ch[n]
            b == ch[o]
            p == Pipe(o)
            r == Pipe(n)
            x == View(n)
            y == View(o)
<1>1. /\ Typed /\ o \in Node /\ Chans(a, b, p, r) /\ Sides(x, y, p, r)
      /\ ~Has(p, "update") /\ ~Has(r, "update")
  BY OtherFacts DEF IInv
<1>2. /\ a \in Channels /\ b \in Channels /\ p \in Seq(Messages) /\ r \in Seq(Messages)
      /\ x.c = a /\ y.c = b /\ x.k = q[n] /\ y.k = q[o]
  BY <1>1, ViewFacts
<1>3. x.k.sent /\ x.k.received /\ y.k.sent /\ y.k.received
  BY <1>1, <1>2 DEF BothQuiescent, IsQuiescent
<1>. HIDE DEF o, a, b, p, r, x, y
<1>4. /\ NoDanglingUpdates(a, "Remote") /\ a.peer[1].Remote = Len(a.log.Remote)
      /\ NoDanglingUpdates(b, "Remote") /\ b.peer[1].Remote = Len(b.log.Remote)
  BY <1>1, <1>2, <1>3 DEF Sides, Quiet, ReceivedOK
<1>5. a.log.Local = b.log.Remote /\ a.own.Local = Len(a.log.Local)
  BY <1>1, <1>2, <1>4, QuietSettled
<1>6. /\ \A i \in 1..Len(a.peer) : a.peer[i].Local = Len(a.log.Local)
      /\ NoDanglingUpdates(a, "Local")
  BY <1>1, <1>2, <1>5, SettledFacts
<1>9. ~Has(r, "stfu")
  <2>1. Level(y, x, r) /\ Shape(r)
    BY <1>1, <1>3 DEF Sides, Rounds, Ahead, PipeOK
  <2>2. ~HasFirst(r) /\ ~HasNext(r)
    BY <1>3, <2>1 DEF Level
  <2>. SUFFICES ASSUME NEW i \in 1..Len(r), r[i].type = "stfu" PROVE FALSE
    BY DEF Has
  <2>3. r[i] \in Messages
    BY <1>2
  <2>4. r[i].Initiator \in BOOLEAN
    BY <2>3 DEF Messages
  <2>5. IsStfu(r[i], TRUE) \/ IsStfu(r[i], FALSE)
    BY <2>4 DEF IsStfu
  <2>. QED  BY <2>2, <2>5 DEF HasFirst, HasNext, FirstStfu, NextStfu
<1>10. Len(a.peer) \in 1..2 /\ (Len(a.peer) = 2 => Last(a.peer) = a.peer[2] /\ a.peer[1] # a.peer[2])
  BY <1>1, <1>2, PeerFacts DEF InStep
<1>11. Len(a.peer) # 2
  <2>. SUFFICES ASSUME Len(a.peer) = 2 PROVE FALSE
    OBVIOUS
  <2>1. a.peer[1] # a.peer[2] /\ a.peer[2].Remote = Len(a.log.Remote)
    BY <1>4, <1>10 DEF NoDanglingUpdates, LogIndex
  <2>2. 1 \in 1..Len(a.peer) /\ 2 \in 1..Len(a.peer)
    OBVIOUS
  <2>3. a.peer[1].Local = a.peer[2].Local /\ a.peer[1] \in Indices /\ a.peer[2] \in Indices
    BY <1>2, <1>6, <2>2, ChannelFacts
  <2>. QED  BY <1>4, <2>1, <2>3, FlipFacts
<1>12. Len(a.peer) = 1
  BY <1>10, <1>11, OneOrTwo, Zenon
<1>13. ~HasUnackedCommitment(a)
  BY <1>12 DEF HasUnackedCommitment
<1>. QED  BY <1>4, <1>5, <1>6, <1>9, <1>12, <1>13 DEF a, b, o, r, Party

\* Both are quiescent, no machine has ended it, and no HTLC was settled in spite of
\* an stfu: no update is under way to y.
LEMMA NoneUnderWay ==
    ASSUME NEW x \in Views, NEW y \in Views, NEW p \in Seq(Messages), NEW r \in Seq(Messages),
           Sides(x, y, p, r), IsQuiescent(x.k), IsQuiescent(y.k),
           ~x.m.resuming, ~y.m.resuming, ~x.late
    PROVE  ~Has(p, "update")
<1>1. Rounds(x, y, p, r) /\ ReceivedOK(x, y, p)
  BY DEF Sides, Quiet
<1>2. x.k.received /\ y.k.received
  BY DEF IsQuiescent
<1>3. Level(x, y, p) /\ FlagsOK(y) /\ PipeOK(y, p)
  BY <1>1, <1>2 DEF Rounds, Ahead
<1>4. ~HasAbort(p) /\ ~Told(y)
  BY <1>3 DEF Level
<1>5. ~y.tx
  BY <1>3, <1>4 DEF FlagsOK
<1>6. ~HasEcho(p)
  BY <1>2, <1>3 DEF PipeOK
<1>7. ~Has(p, "tx_abort")
  BY <1>4, <1>6 DEF Has, HasAbort, HasEcho, IsAbort, IsEcho
<1>8. \A j \in 1..Len(p) : p[j].type = "update" => Prior(p, j, "tx_abort")
  BY <1>1, <1>2, <1>5 DEF ReceivedOK
<1>. QED  BY <1>7, <1>8 DEF Has, Prior

\* QuiescentIsSettled
LEMMA IInvUndisturbed ==
    ASSUME IInv, BothQuiescent, \A n \in Node : ~mach[n].resuming /\ ~work[n].late
    PROVE  NoUpdateUnderWay
<1>. SUFFICES ASSUME NEW n \in Node
              PROVE  \A i \in DOMAIN (held[n] \o net[n]) :
                        (held[n] \o net[n])[i].type # "update"
  BY DEF NoUpdateUnderWay
<1>. DEFINE x == View(Other(n))
            y == View(n)
            p == Pipe(n)
            r == Pipe(Other(n))
<1>1. Typed /\ Other(n) \in Node /\ Other(Other(n)) = n
  BY OtherFacts DEF IInv
<1>2. /\ x \in Views /\ y \in Views /\ p \in Seq(Messages) /\ r \in Seq(Messages)
      /\ x.k = q[Other(n)] /\ y.k = q[n] /\ x.m = mach[Other(n)] /\ y.m = mach[n]
  BY <1>1, ViewFacts
<1>3. x.late = work[Other(n)].late
  BY <1>1, ViewFacts
<1>4. Sides(x, y, p, r)
  BY <1>1 DEF IInv
<1>5. IsQuiescent(q[n]) /\ IsQuiescent(q[Other(n)])
  BY <1>1 DEF BothQuiescent
<1>. HIDE DEF x, y, p, r
<1>6. /\ ~x.m.resuming /\ ~y.m.resuming /\ IsQuiescent(x.k) /\ IsQuiescent(y.k)
  BY <1>1, <1>2, <1>5
<1>7. ~x.late
  BY <1>1, <1>3
<1>8. ~Has(p, "update")
  BY <1>2, <1>4, <1>6, <1>7, NoneUnderWay
<1>9. DOMAIN p = 1..Len(p) /\ p = held[n] \o net[n]
  BY <1>2 DEF p, Pipe
<1>. QED  BY <1>8, <1>9, Zenon DEF Has

LEMMA IInvSettled ==
    ASSUME IInv PROVE QuiescentIsSettled
<1>. SUFFICES ASSUME BothQuiescent, NoUpdateUnderWay, NEW n \in Node
              PROVE  /\ ~HasUnackedCommitment(ch[n])
                     /\ \A p \in Party : NoDanglingUpdates(ch[n], p)
                     /\ ch[n].log.Local = ch[Other(n)].log.Remote
                     /\ \A i \in DOMAIN net[n] : net[n][i].type = "tx_abort"
  BY IInvUndisturbed DEF QuiescentIsSettled
<1>. DEFINE h == held[n]
            t == net[n]
<1>1. Typed /\ Other(n) \in Node /\ Chans(ch[n], ch[Other(n)], Pipe(Other(n)), Pipe(n))
  BY OtherFacts DEF IInv
<1>0. ASSUME NEW m \in Node PROVE ~Has(Pipe(m), "update")
  <2>1. Pipe(m) \in Seq(Messages) /\ Pipe(m) = held[m] \o net[m]
    BY <1>1, ViewFacts DEF Pipe
  <2>2. \A i \in DOMAIN Pipe(m) : Pipe(m)[i].type # "update"
    BY <2>1 DEF NoUpdateUnderWay
  <2>3. DOMAIN Pipe(m) = 1..Len(Pipe(m))
    BY <2>1
  <2>. QED  BY <2>2, <2>3, Zenon DEF Has
<1>2. /\ ~HasUnackedCommitment(ch[n]) /\ \A p \in Party : NoDanglingUpdates(ch[n], p)
      /\ ch[n].log.Local = ch[Other(n)].log.Remote /\ Len(ch[n].peer) = 1
      /\ ~Has(Pipe(n), "stfu")
  BY <1>0, BothSettled
<1>3. Len(ch[Other(n)].peer) = 1
  BY <1>0, <1>1, BothSettled
<1>4. ~Has(Pipe(n), "commit_sig") /\ ~Has(Pipe(n), "revoke_and_ack")
  BY <1>1, <1>2, <1>3 DEF Chans, Chan, InStep
<1>5. h \in Seq(Messages) /\ t \in Seq(Messages) /\ Pipe(n) = h \o t
  BY <1>1, ViewFacts DEF Pipe
<1>. HIDE DEF h, t
<1>6. \A type : Has(t, type) => Has(Pipe(n), type)
  BY <1>5, HasConcat
<1>7. ASSUME NEW i \in DOMAIN t PROVE t[i].type = "tx_abort"
  <2>1. t[i] \in Messages /\ i \in 1..Len(t)
    BY <1>5
  <2>2. Has(t, t[i].type)
    BY <2>1 DEF Has
  <2>3. t[i].type \in {"update", "commit_sig", "revoke_and_ack", "stfu", "tx_abort"}
    BY <2>1 DEF Messages
  <2>. QED  BY <1>0, <1>2, <1>4, <1>6, <2>2, <2>3
<1>. QED  BY <1>2, <1>7 DEF t

\* InitiatorAgreed
LEMMA IInvInitiator ==
    ASSUME IInv PROVE InitiatorAgreed
<1>. SUFFICES ASSUME BothQuiescent
              PROVE  {QuiescenceInitiator(q[n], n) : n \in Node} = {"Local", "Remote"}
  BY DEF InitiatorAgreed
<1>. DEFINE n == Opener
            o == Acceptor
            x == View(n)
            y == View(o)
<1>1. Typed /\ n \in Node /\ o \in Node /\ n # o /\ Other(n) = o
  BY NodesDiffer DEF IInv, Node, Other
<1>2. Rounds(x, y, Pipe(o), Pipe(n))
  BY <1>1 DEF IInv, Sides
<1>3. x.k = q[n] /\ y.k = q[o] /\ q[n] \in Quiescers /\ q[o] \in Quiescers
  BY <1>1, ViewFacts
<1>4. q[n].sent /\ q[n].received /\ q[o].sent /\ q[o].received
  BY <1>1 DEF BothQuiescent, IsQuiescent
<1>. HIDE DEF x, y
<1>5. /\ q[o].remoteInit <=> q[n].localInit
      /\ q[n].remoteInit <=> q[o].localInit
      /\ q[n].localInit \/ q[o].localInit
  <2>1. Level(x, y, Pipe(o)) /\ Level(y, x, Pipe(n))
    BY <1>2, <1>3, <1>4 DEF Rounds, Ahead
  <2>2. /\ y.k.remoteInit <=> x.k.localInit
        /\ x.k.remoteInit <=> y.k.localInit
    BY <1>3, <1>4, <2>1 DEF Level
  <2>3. FlagsOK(x)
    BY <1>2 DEF Rounds
  <2>4. x.k.localInit \/ x.k.remoteInit
    BY <1>3, <1>4, <2>3 DEF FlagsOK
  <2>. QED  BY <1>3, <2>2, <2>4
<1>6. /\ q[n].localInit \in BOOLEAN /\ q[o].localInit \in BOOLEAN
  BY <1>3 DEF Quiescers
<1>7. {QuiescenceInitiator(q[m], m) : m \in Node}
        = {QuiescenceInitiator(q[n], n), QuiescenceInitiator(q[o], o)}
  BY DEF Node
<1>8. \/ /\ QuiescenceInitiator(q[n], n) = "Local" /\ QuiescenceInitiator(q[o], o) = "Remote"
      \/ /\ QuiescenceInitiator(q[n], n) = "Remote" /\ QuiescenceInitiator(q[o], o) = "Local"
  <2>1. CASE q[n].localInit /\ q[o].localInit
    BY <1>1, <1>5, <2>1 DEF QuiescenceInitiator
  <2>2. CASE q[n].localInit /\ ~q[o].localInit
    BY <1>1, <1>5, <2>2 DEF QuiescenceInitiator
  <2>3. CASE ~q[n].localInit /\ q[o].localInit
    BY <1>1, <1>5, <2>3 DEF QuiescenceInitiator
  <2>. QED  BY <1>5, <1>6, <2>1, <2>2, <2>3
<1>. QED  BY <1>7, <1>8

\* AppliedOnce
LEMMA IInvApplied ==
    ASSUME IInv PROVE AppliedOnce
<1>. SUFFICES ASSUME NEW n \in Node, IsQuiescent(q[n])
              PROVE  \A i \in DOMAIN mail[n] : mail[n][i].at # "applied"
  BY DEF AppliedOnce
<1>1. BoxFits(State(n)) /\ mail[n] \in Seq(Packets)
  BY ViewFacts DEF IInv
<1>2. State(n).k.sent /\ State(n).box = mail[n]
  BY DEF State, IsQuiescent
<1>. QED  BY <1>1, <1>2 DEF BoxFits

\* Only messages of the protocol are under way, and no commitment is signed before
\* the last one was revoked.
THEOREM TypeCorrect ==
    Spec => []TypeOK
<1>1. IInv => TypeOK
  BY IInvTypeOK
<1>. QED  BY <1>1, Invariant, PTL

\* Every signature finds the updates it covers (replayHeld keeps the order).  An stfu
\* is refused only by a node whose resume from the last round is still to come
\* (RecvStfu); it never comes with updates pending or as an answer to nothing.  An
\* update follows an stfu only as the settle of an HTLC on hold, which does not look
\* at the quiescer (handleHtlcResolution).
THEOREM NeverFails ==
    Spec => []StfuRespected
<1>1. IInv => StfuRespected
  BY DEF IInv
<1>. QED  BY <1>1, Invariant, PTL

\* Quiescent nodes have the same updates on all commitments, and no update, signature
\* or revocation under way (noDanglingUpdates), unless a machine has ended the splice
\* or an HTLC on hold was settled in spite of the stfu.
THEOREM Settled ==
    Spec => []QuiescentIsSettled
<1>1. IInv => QuiescentIsSettled
  BY IInvSettled
<1>. QED  BY <1>1, Invariant, PTL

\* Quiescent nodes agree on the initiator, ties included (quiescenceInitiator): exactly
\* one of them may send splice_init.
THEOREM OneInitiator ==
    Spec => []InitiatorAgreed
<1>1. IInv => InitiatorAgreed
  BY IInvInitiator
<1>. QED  BY <1>1, Invariant, PTL

\* No packet in the channel is delivered again when the mailbox is reset on resume
\* (ResetPackets): it was acked when it was signed for.
THEOREM NotAppliedAgain ==
    Spec => []AppliedOnce
<1>1. IInv => AppliedOnce
  BY IInvApplied
<1>. QED  BY <1>1, Invariant, PTL


-----------------------------------------------------------------------------
(* HTLCs deferred and packets dropped have a resume to come, unless the     *)
(* peer's shutdown was read: RefuseInit withdraws an stfu that is owed, and *)
(* with it the resume.                                                      *)

\* A quiescer and a result, what does not matter here left open.
Flagged(k) ==
    k \in [localInit : BOOLEAN, remoteInit : {k.remoteInit}, sent : BOOLEAN,
           received : {k.received}, refuse : {k.refuse}, timer : {k.timer},
           req : {k.req}, resumeQueue : {k.resumeQueue}]
Plain(r) ==
    /\ r \in [c : {r.c}, k : {r.k}, box : Seq(Packets), w : {r.w}, msgs : {r.msgs}]
    /\ Flagged(r.k)

Dropped(box) == \E i \in DOMAIN box : box[i].at = "dropped"
Deferred(k, box) == k.resumeQueue > 0 \/ Dropped(box) => ~CanSendUpdates(k)

\* Result d of a step with r defers nothing more, and lets no update be sent that
\* r does not.
Passes(r, d) ==
    /\ Plain(d) /\ d.k.resumeQueue = r.k.resumeQueue
    /\ Dropped(d.box) => Dropped(r.box)
    /\ CanSendUpdates(d.k) => CanSendUpdates(r.k)

\* Steps one after the other.
LEMMA PassesOn ==
    ASSUME NEW r, NEW d, NEW e, Passes(r, d), Passes(d, e)
    PROVE  Passes(r, e)
  BY DEF Passes

\* The channel, the HTLCs and the messages do not matter.
LEMMA FieldsPass ==
    ASSUME NEW r, Plain(r)
    PROVE  /\ Flagged(r.k) /\ r.box \in Seq(Packets)
           /\ \A c : Passes(r, [r EXCEPT !.c = c])
           /\ \A w : Passes(r, [r EXCEPT !.w = w])
           /\ \A ms : Passes(r, [r EXCEPT !.msgs = ms])
<1>1. Flagged(r.k) /\ r.box \in Seq(Packets)
  BY DEF Plain
<1>2. ASSUME NEW d, d.k = r.k, d.box = r.box, Plain(d)
      PROVE  Passes(r, d)
  BY <1>2 DEF Passes
<1>3. ASSUME NEW c PROVE Passes(r, [r EXCEPT !.c = c])
  BY <1>2 DEF Plain
<1>4. ASSUME NEW w PROVE Passes(r, [r EXCEPT !.w = w])
  BY <1>2 DEF Plain
<1>5. ASSUME NEW ms PROVE Passes(r, [r EXCEPT !.msgs = ms])
  BY <1>2 DEF Plain
<1>. QED  BY <1>1, <1>3, <1>4, <1>5

\* A message, or a new channel.
LEMMA SendPasses ==
    ASSUME NEW r, Plain(r), NEW c, NEW m
    PROVE  /\ Passes(r, Send(r, m)) /\ Passes(r, Send([r EXCEPT !.c = c], m))
<1>1. Passes(r, [r EXCEPT !.c = c])
  BY FieldsPass
<1>2. ASSUME NEW e, Plain(e) PROVE Passes(e, Send(e, m))
  <2>. DEFINE ms == Append(e.msgs, m)
  <2>1. Send(e, m) = [e EXCEPT !.msgs = ms]
    BY DEF Send
  <2>. HIDE DEF ms
  <2>2. Passes(e, [e EXCEPT !.msgs = ms])
    BY <1>2, FieldsPass
  <2>. QED  BY <2>1, <2>2
<1>3. Plain([r EXCEPT !.c = c])
  BY <1>1 DEF Passes
<1>. QED  BY <1>1, <1>2, <1>3, PassesOn

\* New updates.
LEMMA MakeUpdatesPasses ==
    ASSUME NEW r, Plain(r), NEW u, NEW m
    PROVE  Passes(r, MakeUpdates(r, u, m))
<1>. DEFINE c == AppendUpdates(r.c, "Local", [i \in 1..m |-> u])
            ms == r.msgs \o [i \in 1..m |-> [type |-> "update", kind |-> u]]
            e == [r EXCEPT !.c = c]
<1>1. MakeUpdates(r, u, m) = [r EXCEPT !.c = c, !.msgs = ms]
  BY DEF MakeUpdates
<1>. HIDE DEF c, ms
<1>2. Passes(r, e) /\ Plain(e)
  BY FieldsPass DEF Passes
<1>3. [r EXCEPT !.c = c, !.msgs = ms] = [e EXCEPT !.msgs = ms]
  BY DEF Plain
<1>. HIDE DEF e
<1>4. Passes(e, [e EXCEPT !.msgs = ms])
  BY <1>2, FieldsPass
<1>. QED  BY <1>1, <1>2, <1>3, <1>4, PassesOn

\* HTLCs processed.
LEMMA ProcessRemoteAddsPasses ==
    ASSUME NEW r, Plain(r), NEW outcomes
    PROVE  Passes(r, ProcessRemoteAdds(r, outcomes))
<1>. DEFINE number(what) == Cardinality({i \in DOMAIN outcomes : outcomes[i] = what})
            a == number("resolve")
            b == number("forward")
            g == number("hold")
            e == MakeUpdates(r, "Rmv", a)
            d == ProcessRemoteAdds(r, outcomes)
            w == [e.w EXCEPT !.forward = @ + b, !.hold = @ + g]
<1>1. d = [e EXCEPT !.w.forward = @ + b, !.w.hold = @ + g]
  BY DEF ProcessRemoteAdds
<1>2. Passes(r, e)
  BY MakeUpdatesPasses
<1>3. Plain(e)
  BY <1>2 DEF Passes
<1>. HIDE DEF a, b, g, e
<1>4. d = [e EXCEPT !.w = w]
  BY <1>1, <1>3 DEF Plain
<1>. HIDE DEF w, d
<1>6. Passes(e, d)
  BY <1>3, <1>4, FieldsPass
<1>. QED  BY <1>2, <1>6, PassesOn DEF d

\* Packets acked.
LEMMA SignPasses ==
    ASSUME NEW r, Plain(r)
    PROVE  Passes(r, UpdateCommitTx(r)) /\ Passes(r, SignIfOwed(r))
<1>1. Passes(r, r)
  BY DEF Passes
<1>2. CASE HasUnackedCommitment(r.c)
  BY <1>1, <1>2 DEF UpdateCommitTx, SignIfOwed
<1>3. CASE ~HasUnackedCommitment(r.c)
  <2>. DEFINE I == {i \in DOMAIN r.box : r.box[i].at # "applied"}
              bx == SubsequenceAt(r.box, I)
              c2 == SignNextCommitment(r.c)
              m == [type |-> "commit_sig",
                    indices |-> [Local |-> r.c.own.Remote, Remote |-> LogIndex(r.c, "Local")]]
              e == [r EXCEPT !.c = c2, !.box = bx]
  <2>1. UpdateCommitTx(r) = Send(e, m)
    BY <1>3 DEF UpdateCommitTx
  <2>2. bx \in Seq(Packets) /\ (Dropped(bx) => Dropped(r.box))
    <3>1. I \in SUBSET (DOMAIN r.box) /\ r.box \in Seq(Packets)
      BY FieldsPass
    <3>. HIDE DEF I
    <3>2. /\ bx \in Seq(Packets)
          /\ \A i \in DOMAIN bx : PlaceAt(I, i) \in I /\ bx[i] = r.box[PlaceAt(I, i)]
      BY <3>1, SubsequenceFacts
    <3>. HIDE DEF bx
    <3>. QED  BY <3>1, <3>2 DEF Dropped
  <2>. HIDE DEF bx, c2, m
  <2>3. Plain(e) /\ e.k = r.k /\ e.box = bx
    BY <2>2 DEF Plain
  <2>. HIDE DEF e
  <2>5. Passes(r, e)
    BY <2>2, <2>3 DEF Passes
  <2>6. Plain(e)
    BY <2>5 DEF Passes
  <2>7. Passes(r, Send(e, m))
    BY <2>5, <2>6, SendPasses, PassesOn
  <2>. QED  BY <1>1, <2>1, <2>7 DEF SignIfOwed
<1>. QED  BY <1>2, <1>3

\* An answered request defers nothing.
LEMMA ResolveKeepsQueue ==
    ASSUME NEW k, Flagged(k), NEW n
    PROVE  LET d == ResolveAndStartTimeout(k, n)
           IN  /\ Flagged(d) /\ d.sent = k.sent /\ d.localInit = k.localInit
               /\ d.resumeQueue = k.resumeQueue
<1>. DEFINE x == IF k.req = "pending" THEN QuiescenceInitiator(k, n) ELSE k.req
            d == ResolveAndStartTimeout(k, n)
<1>2. CASE ~IsQuiescent(k)
  BY <1>2 DEF ResolveAndStartTimeout
<1>3. CASE IsQuiescent(k)
  <2>1. d = [k EXCEPT !.timer = TRUE, !.req = x]
    BY <1>3 DEF ResolveAndStartTimeout
  <2>. HIDE DEF x, d
  <2>2. Flagged(d) /\ d.sent = k.sent /\ d.localInit = k.localInit
        /\ d.resumeQueue = k.resumeQueue
    BY <2>1 DEF Flagged
  <2>. QED  BY <2>2 DEF d
<1>. QED  BY <1>2, <1>3

\* The stfu owed.
LEMMA SendOwedPasses ==
    ASSUME NEW r, Plain(r), NEW n
    PROVE  Passes(r, SendOwedStfuIfClean(r, n))
<1>1. Passes(r, r)
  BY DEF Passes
<1>2. CASE SendOwedStfuIfClean(r, n) = r
  BY <1>1, <1>2
<1>3. CASE SendOwedStfuIfClean(r, n) # r
  <2>. DEFINE k1 == [r.k EXCEPT !.sent = TRUE]
              k2 == ResolveAndStartTimeout(k1, n)
              e == Send(r, Stfu(r.k.localInit))
              d == [e EXCEPT !.k = k2]
  <2>1. SendOwedStfuIfClean(r, n) = d
    BY <1>3 DEF SendOwedStfuIfClean, SendOwedStfu
  <2>2. Flagged(k1) /\ k1.sent /\ k1.resumeQueue = r.k.resumeQueue
    <3>1. Flagged(r.k)
      BY FieldsPass
    <3>. QED  BY <3>1 DEF Flagged
  <2>. HIDE DEF k1
  <2>3. Flagged(k2) /\ k2.sent /\ k2.resumeQueue = k1.resumeQueue
    BY <2>2, ResolveKeepsQueue
  <2>4. Plain(e) /\ Passes(r, e)
    BY SendPasses DEF Passes
  <2>. HIDE DEF k2, e
  <2>7. Plain(d) /\ d.k = k2 /\ d.box = e.box
    BY <2>3, <2>4 DEF Plain
  <2>. HIDE DEF d
  <2>. QED  BY <2>1, <2>2, <2>3, <2>4, <2>7 DEF Passes, CanSendUpdates
<1>. QED  BY <1>2, <1>3

\* Node n has read its peer's shutdown.
Excused(n) == shut[Other(n)] = "read"

\* DeferredHaveResume in these words, before and after a step.
LEMMA DeferredMeans ==
    DeferredHaveResume <=> \A n \in Node : Deferred(q[n], mail[n]) \/ Excused(n)
  BY DEF DeferredHaveResume, Deferred, Dropped, Excused

LEMMA DeferredAfter ==
    ASSUME shut' = shut, \A n \in Node : Deferred(q'[n], mail'[n]) \/ Excused(n)
    PROVE  DeferredHaveResume'
  BY DEF DeferredHaveResume, Deferred, Dropped, Excused

\* Result d, in the state that follows.
LEMMA DeferredApplied ==
    ASSUME Typed, DeferredHaveResume, shut' = shut, NEW n \in Node, NEW d, NEW inbox, NEW waiting,
           Apply(n, d, inbox, waiting), Deferred(d.k, d.box) \/ Excused(n)
    PROVE  DeferredHaveResume'
<1>1. /\ q'[n] = d.k /\ mail'[n] = d.box
      /\ \A m \in Node : m # n => q'[m] = q[m] /\ mail'[m] = mail[m]
  BY DEF Apply, Typed
<1>2. ASSUME NEW m \in Node PROVE Deferred(q'[m], mail'[m]) \/ Excused(m)
  BY <1>1, DeferredMeans
<1>. QED  BY <1>2, DeferredAfter

\* The same, of a step that passes.
LEMMA PassApplied ==
    ASSUME Typed, DeferredHaveResume, shut' = shut, NEW n \in Node, NEW d, NEW inbox, NEW waiting,
           Apply(n, d, inbox, waiting), Passes(State(n), d)
    PROVE  DeferredHaveResume'
<1>1. State(n).k = q[n] /\ State(n).box = mail[n]
  BY DEF State
<1>2. Deferred(q[n], mail[n]) \/ Excused(n)
  BY DeferredMeans
<1>3. Deferred(d.k, d.box) \/ Excused(n)
  BY <1>1, <1>2 DEF Passes, Deferred
<1>. QED  BY <1>3, DeferredApplied

\* Where a step starts.
LEMMA StatePlain ==
    ASSUME Typed, NEW n \in Node
    PROVE  /\ Plain(State(n)) /\ Passes(State(n), State(n)) /\ State(n).k = q[n]
           /\ State(n).box = mail[n] /\ Flagged(q[n]) /\ mail[n] \in Seq(Packets)
<1>1. Flagged(q[n]) /\ mail[n] \in Seq(Packets)
  BY DEF Typed, Quiescers, Flagged
<1>2. Plain(State(n))
  BY <1>1 DEF Plain, State
<1>. QED  BY <1>1, <1>2 DEF Passes, State

\* SwitchPacket
LEMMA SwitchPacketDefers ==
    ASSUME Typed, DeferredHaveResume, shut' = shut, NEW n \in Node, NEW type \in {"Add", "Rmv"},
           SwitchPacket(n, type)
    PROVE  DeferredHaveResume'
<1>. DEFINE e == [kind |-> type, at |-> "new"]
            b == Append(mail[n], e)
<1>1. mail[n] \in Seq(Packets) /\ e \in Packets /\ e.at = "new"
  BY StatePlain DEF Packets, Updates
<1>2. mail'[n] = b /\ q' = q /\ \A m \in Node : m # n => mail'[m] = mail[m]
  BY DEF SwitchPacket, Typed
<1>. HIDE DEF e
<1>3. Dropped(b) => Dropped(mail[n])
  BY <1>1 DEF Dropped
<1>. HIDE DEF b
<1>4. ASSUME NEW m \in Node PROVE Deferred(q[m], mail[m]) \/ Excused(m)
  BY DeferredMeans
<1>5. ASSUME NEW m \in Node PROVE Deferred(q'[m], mail'[m]) \/ Excused(m)
  BY <1>2, <1>3, <1>4 DEF Deferred
<1>. QED  BY <1>5, DeferredAfter

\* HandleDownstreamPkt
LEMMA HandleDownstreamPktDefers ==
    ASSUME Typed, DeferredHaveResume, shut' = shut, NEW n \in Node, HandleDownstreamPkt(n)
    PROVE  DeferredHaveResume'
<1>. DEFINE at(i, x) == [State(n) EXCEPT !.box[i].at = x]
            made(i) == MakeUpdates(at(i, "applied"), mail[n][i].kind, 1)
<1>1. PICK i \in DOMAIN mail[n] :
        /\ mail[n][i].at = "new"
        /\ Apply(n, CASE ~CanSendUpdates(q[n]) -> at(i, "dropped")
                      [] CanSendUpdates(q[n]) /\ mail[n][i].kind = "Add" -> made(i)
                      [] OTHER -> UpdateCommitTx(made(i)),
                 net[n], held[n])
  BY DEF HandleDownstreamPkt
<1>2. /\ Plain(State(n)) /\ State(n).k = q[n] /\ State(n).box = mail[n]
      /\ mail[n] \in Seq(Packets) /\ i \in 1..Len(mail[n])
  BY <1>1, StatePlain
<1>3. mail[n][i] \in Packets
  BY <1>2
<1>4. ASSUME NEW x \in {"applied", "dropped"}
      PROVE  /\ Plain(at(i, x)) /\ at(i, x).k = q[n]
             /\ x = "applied" => Passes(State(n), at(i, x))
  <2>. DEFINE e == [mail[n][i] EXCEPT !.at = x]
              b == [mail[n] EXCEPT ![i] = e]
              s == State(n)
              d == [s EXCEPT !.box = b]
  <2>1. e \in Packets /\ e.at = x
    BY <1>3 DEF Packets
  <2>2. at(i, x) = d
    BY <1>2
  <2>. HIDE DEF e
  <2>3. /\ b \in Seq(Packets) /\ Len(b) = Len(mail[n]) /\ b[i] = e
        /\ \A j \in 1..Len(mail[n]) : j # i => b[j] = mail[n][j]
    BY <1>2, <2>1
  <2>. HIDE DEF b
  <2>4. x = "applied" /\ Dropped(b) => Dropped(mail[n])
    BY <1>2, <2>1, <2>3 DEF Dropped
  <2>. HIDE DEF s
  <2>5. Plain(d) /\ d.k = s.k /\ d.box = b
    <3>1. Plain(s)
      BY <1>2 DEF s
    <3>. QED  BY <2>3, <3>1 DEF Plain
  <2>. HIDE DEF d
  <2>. QED  BY <1>2, <2>2, <2>4, <2>5 DEF Passes, s
<1>5. CASE ~CanSendUpdates(q[n])
  <2>1. Apply(n, at(i, "dropped"), net[n], held[n])
    BY <1>1, <1>5
  <2>. HIDE DEF at
  <2>2. Deferred(at(i, "dropped").k, at(i, "dropped").box)
    BY <1>4, <1>5 DEF Deferred
  <2>. QED  BY <2>1, <2>2, DeferredApplied
<1>6. CASE CanSendUpdates(q[n])
  <2>1. Apply(n, made(i), net[n], held[n]) \/ Apply(n, UpdateCommitTx(made(i)), net[n], held[n])
    <3>1. CASE mail[n][i].kind = "Add"
      BY <1>1, <1>6, <3>1
    <3>2. CASE mail[n][i].kind # "Add"
      BY <1>1, <1>6, <3>2
    <3>. QED  BY <3>1, <3>2
  <2>. HIDE DEF at
  <2>2. Plain(at(i, "applied")) /\ Passes(State(n), at(i, "applied"))
    BY <1>4
  <2>3. Passes(at(i, "applied"), made(i))
    BY <2>2, MakeUpdatesPasses
  <2>. HIDE DEF made
  <2>4. Passes(State(n), made(i)) /\ Plain(made(i))
    BY <2>2, <2>3, PassesOn DEF Passes
  <2>5. Passes(State(n), UpdateCommitTx(made(i)))
    BY <2>4, SignPasses, PassesOn
  <2>. QED  BY <2>1, <2>4, <2>5, PassApplied
<1>. QED  BY <1>5, <1>6

\* BatchTick
LEMMA BatchTickDefers ==
    ASSUME Typed, DeferredHaveResume, shut' = shut, NEW n \in Node, BatchTick(n)
    PROVE  DeferredHaveResume'
<1>1. Apply(n, UpdateCommitTx(State(n)), net[n], held[n])
  BY DEF BatchTick
<1>2. Passes(State(n), UpdateCommitTx(State(n)))
  BY StatePlain, SignPasses
<1>. QED  BY <1>1, <1>2, PassApplied

\* HandleHtlcResolution
LEMMA HandleHtlcResolutionDefers ==
    ASSUME Typed, DeferredHaveResume, shut' = shut, NEW n \in Node, HandleHtlcResolution(n)
    PROVE  DeferredHaveResume'
<1>. DEFINE s == State(n)
            w == [s.w EXCEPT !.hold = @ - 1, !.late = @ \/ ~CanSendUpdates(q[n])]
            r == [s EXCEPT !.w = w]
            e == MakeUpdates(r, "Rmv", 1)
<1>1. Plain(s)
  BY StatePlain
<1>2. [s EXCEPT !.w.hold = @ - 1, !.w.late = @ \/ ~CanSendUpdates(q[n])] = r
  BY <1>1 DEF Plain
<1>3. Apply(n, UpdateCommitTx(e), net[n], held[n])
  BY <1>2 DEF HandleHtlcResolution
<1>. HIDE DEF w, s
<1>4. Passes(s, r) /\ Plain(r)
  BY <1>1, FieldsPass DEF Passes
<1>. HIDE DEF r
<1>5. Passes(r, e)
  BY <1>4, MakeUpdatesPasses
<1>. HIDE DEF e
<1>6. Passes(s, e) /\ Plain(e)
  BY <1>4, <1>5, PassesOn DEF Passes
<1>7. Passes(s, UpdateCommitTx(e))
  BY <1>6, SignPasses, PassesOn
<1>. QED  BY <1>3, <1>7, PassApplied DEF s

\* A new quiescer that lets no more updates be sent.
LEMMA QuiescerPasses ==
    ASSUME NEW r, Plain(r), NEW k, Flagged(k), k.resumeQueue = r.k.resumeQueue,
           CanSendUpdates(k) => CanSendUpdates(r.k)
    PROVE  Passes(r, [r EXCEPT !.k = k])
<1>. DEFINE d == [r EXCEPT !.k = k]
<1>1. Plain(d) /\ d.k = k /\ d.box = r.box
  BY DEF Plain
<1>. HIDE DEF d
<1>2. Passes(r, d)
  BY <1>1 DEF Passes
<1>. QED  BY <1>2 DEF d

\* HandleQuiescenceReq
LEMMA HandleQuiescenceReqDefers ==
    ASSUME Typed, DeferredHaveResume, shut' = shut, NEW n \in Node, HandleQuiescenceReq(n)
    PROVE  DeferredHaveResume'
<1>. DEFINE s == State(n)
            k == InitStfu(q[n], n)
            r == [s EXCEPT !.k = k]
<1>1. Plain(s) /\ s.k = q[n] /\ Flagged(q[n])
  BY StatePlain
<1>2. Apply(n, SendOwedStfuIfClean(r, n), net[n], held[n])
  BY <1>1 DEF HandleQuiescenceReq
<1>3. /\ Flagged(k) /\ k.resumeQueue = q[n].resumeQueue
      /\ CanSendUpdates(k) => CanSendUpdates(q[n])
  <2>1. \/ \E x : k = [q[n] EXCEPT !.req = x]
        \/ k = [q[n] EXCEPT !.localInit = TRUE, !.req = "pending"]
    <3>1. CASE q[n].refuse \/ q[n].localInit
      BY <3>1 DEF InitStfu
    <3>2. CASE ~(q[n].refuse \/ q[n].localInit) /\ q[n].sent
      BY <3>2 DEF InitStfu
    <3>3. CASE ~(q[n].refuse \/ q[n].localInit) /\ ~q[n].sent
      BY <3>3 DEF InitStfu
    <3>. QED  BY <3>1, <3>2, <3>3
  <2>. HIDE DEF k
  <2>. QED  BY <1>1, <2>1 DEF Flagged, CanSendUpdates
<1>. HIDE DEF k, s
<1>4. Passes(s, r) /\ Plain(r)
  BY <1>1, <1>3, QuiescerPasses DEF Passes
<1>. HIDE DEF r
<1>5. Passes(s, SendOwedStfuIfClean(r, n))
  BY <1>4, SendOwedPasses, PassesOn
<1>. QED  BY <1>2, <1>5, PassApplied DEF s

\* Handle: a message of the peer.
LEMMA HandleDefers ==
    ASSUME Typed, DeferredHaveResume, shut' = shut, NEW n \in Node, NEW m, NEW inbox, NEW waiting,
           Handle(n, m, inbox, waiting)
    PROVE  DeferredHaveResume'
<1>. DEFINE s == State(n)
<1>1. Plain(s) /\ Passes(s, s) /\ s.k = q[n] /\ Flagged(q[n])
  BY StatePlain
<1>2. ASSUME NEW why, FailLink(why) PROVE DeferredHaveResume'
  BY <1>2 DEF FailLink, DeferredHaveResume
<1>3. CASE ReceiveUpdate(n, m, inbox, waiting)
  <2>1. CASE CanRecvUpdates(q[n])
    <3>. DEFINE c == AppendUpdates(s.c, "Remote", <<m.kind>>)
    <3>1. Apply(n, [s EXCEPT !.c = c], inbox, waiting)
      BY <1>3, <2>1 DEF ReceiveUpdate
    <3>. HIDE DEF c, s
    <3>2. Passes(s, [s EXCEPT !.c = c])
      BY <1>1, FieldsPass
    <3>. QED  BY <3>1, <3>2, PassApplied DEF s
  <2>2. CASE ~CanRecvUpdates(q[n])
    BY <1>2, <1>3, <2>2 DEF ReceiveUpdate
  <2>. QED  BY <2>1, <2>2
<1>4. CASE ReceiveCommitSig(n, m, inbox, waiting)
  <2>1. CASE m.indices = NextOwn(ch[n])
    <3>. DEFINE c == RevokeCurrentCommitment(s.c)
                a == [type |-> "revoke_and_ack"]
                e == Send([s EXCEPT !.c = c], a)
                f == SignIfOwed(e)
    <3>1. Apply(n, SendOwedStfuIfClean(f, n), inbox, waiting)
      BY <1>4, <2>1 DEF ReceiveCommitSig
    <3>. HIDE DEF c, a, s
    <3>2. Passes(s, e) /\ Plain(e)
      BY <1>1, SendPasses DEF Passes
    <3>. HIDE DEF e
    <3>3. Passes(s, f) /\ Plain(f)
      <4>1. Passes(e, f)
        BY <3>2, SignPasses
      <4>. HIDE DEF f
      <4>. QED  BY <3>2, <4>1, PassesOn DEF Passes
    <3>. HIDE DEF f
    <3>4. Passes(s, SendOwedStfuIfClean(f, n))
      BY <3>3, SendOwedPasses, PassesOn
    <3>. QED  BY <3>1, <3>4, PassApplied DEF s
  <2>2. CASE m.indices # NextOwn(ch[n])
    BY <1>2, <1>4, <2>2 DEF ReceiveCommitSig
  <2>. QED  BY <2>1, <2>2
<1>5. CASE ReceiveRevokeAndAck(n, m, inbox, waiting)
  <2>. DEFINE c == ReceiveRevocation(s.c)
              e == [s EXCEPT !.c = c]
              g == LockedInAdds(ch[n])
  <2>1. PICK outcomes \in [1..g -> Outcomes] :
           Apply(n, SignIfOwed(ProcessOrDefer(e, g, outcomes)), inbox, waiting)
    BY <1>5 DEF ReceiveRevokeAndAck
  <2>. DEFINE f == ProcessOrDefer(e, g, outcomes)
  <2>. HIDE DEF c, g
  <2>2. Passes(s, e) /\ Plain(e)
    <3>. HIDE DEF s
    <3>. QED  BY <1>1, FieldsPass DEF Passes
  <2>3. CASE CanSendUpdates(e.k)
    <3>1. f = ProcessRemoteAdds(e, outcomes)
      BY <2>3 DEF ProcessOrDefer
    <3>. HIDE DEF e, f, s
    <3>2. Passes(s, f) /\ Plain(f)
      <4>1. Passes(e, f)
        BY <2>2, <3>1, ProcessRemoteAddsPasses
      <4>. QED  BY <2>2, <4>1, PassesOn DEF Passes
    <3>3. Passes(s, SignIfOwed(f))
      BY <3>2, SignPasses, PassesOn
    <3>4. Apply(n, SignIfOwed(f), inbox, waiting)
      BY <2>1 DEF f
    <3>. QED  BY <3>3, <3>4, PassApplied DEF s
  <2>4. CASE ~CanSendUpdates(e.k)
    <3>. DEFINE x == e.k.resumeQueue + g
                k == [e.k EXCEPT !.resumeQueue = x]
    <3>1. f = [e EXCEPT !.k = k]
      BY <2>4 DEF ProcessOrDefer
    <3>. HIDE DEF e, f, s
    <3>. HIDE DEF x
    <3>5. Flagged(k) /\ k.sent = e.k.sent /\ k.localInit = e.k.localInit
      <4>1. Flagged(e.k)
        BY <2>2, FieldsPass
      <4>. QED  BY <4>1 DEF Flagged
    <3>. HIDE DEF k
    <3>6. Plain(f) /\ f.k = k
      BY <2>2, <3>1, <3>5 DEF Plain
    <3>7. ~CanSendUpdates(f.k)
      BY <2>4, <3>5, <3>6 DEF CanSendUpdates
    <3>8. Passes(f, SignIfOwed(f))
      BY <3>6, SignPasses
    <3>9. Deferred(SignIfOwed(f).k, SignIfOwed(f).box)
      BY <3>7, <3>8 DEF Passes, Deferred
    <3>10. Apply(n, SignIfOwed(f), inbox, waiting)
      BY <2>1 DEF f
    <3>. QED  BY <3>9, <3>10, DeferredApplied
  <2>. QED  BY <2>3, <2>4
<1>6. CASE HandleStfu(n, m, inbox, waiting)
  <2>1. CASE NoDanglingUpdates(ch[n], "Remote") /\ StfuValid(q[n], m.Initiator)
    <3>. DEFINE i == m.Initiator
                k1 == [q[n] EXCEPT !.received = TRUE, !.remoteInit = i]
                k == ResolveAndStartTimeout(k1, n)
                r == [s EXCEPT !.k = k]
    <3>1. Apply(n, SendOwedStfuIfClean(r, n), inbox, waiting)
      BY <1>1, <1>6, <2>1 DEF HandleStfu, RecvStfu
    <3>. HIDE DEF i
    <3>3. /\ Flagged(k1) /\ k1.resumeQueue = q[n].resumeQueue /\ k1.sent = q[n].sent
          /\ k1.localInit = q[n].localInit
      BY <1>1 DEF Flagged
    <3>. HIDE DEF k1
    <3>4. /\ Flagged(k) /\ k.resumeQueue = q[n].resumeQueue
          /\ CanSendUpdates(k) => CanSendUpdates(q[n])
      BY <3>3, ResolveKeepsQueue DEF CanSendUpdates
    <3>. HIDE DEF k, s
    <3>5. Passes(s, r) /\ Plain(r)
      BY <1>1, <3>4, QuiescerPasses DEF Passes
    <3>. HIDE DEF r
    <3>6. Passes(s, SendOwedStfuIfClean(r, n))
      BY <3>5, SendOwedPasses, PassesOn
    <3>. QED  BY <3>1, <3>6, PassApplied DEF s
  <2>2. CASE ~(NoDanglingUpdates(ch[n], "Remote") /\ StfuValid(q[n], m.Initiator))
    BY <1>2, <1>6, <2>2 DEF HandleStfu
  <2>. QED  BY <2>1, <2>2
<1>7. CASE HandleTxAbort(n, m, inbox, waiting)
  <2>1. Apply(n, s, inbox, waiting)
    BY <1>7 DEF HandleTxAbort
  <2>. QED  BY <1>1, <2>1, PassApplied
<1>. QED  BY <1>3, <1>4, <1>5, <1>6, <1>7 DEF Handle

\* HandleUpstreamMsg and ReplayHeld
LEMMA UpstreamDefers ==
    ASSUME Typed, DeferredHaveResume, shut' = shut, NEW n \in Node,
           HandleUpstreamMsg(n) \/ ReplayHeld(n)
    PROVE  DeferredHaveResume'
<1>1. CASE Apply(n, State(n), Tail(net[n]), Append(held[n], Head(net[n])))
  BY <1>1, StatePlain, PassApplied
<1>2. CASE UNCHANGED <<q, mail>>
  BY <1>2 DEF DeferredHaveResume
<1>3. CASE Handle(n, Head(net[n]), Tail(net[n]), held[n])
  BY <1>3, HandleDefers
<1>4. CASE Handle(n, Head(held[n]), net[n], Tail(held[n]))
  BY <1>4, HandleDefers
<1>. QED  BY <1>1, <1>2, <1>3, <1>4 DEF HandleUpstreamMsg, ReplayHeld

\* Quiesced
LEMMA QuiescedDefers ==
    ASSUME Typed, DeferredHaveResume, shut' = shut, NEW n \in Node, Quiesced(n)
    PROVE  DeferredHaveResume'
<1>. DEFINE k == [q[n] EXCEPT !.req = "none"]
<1>1. /\ mail' = mail /\ q'[n] = k /\ \A m \in Node : m # n => q'[m] = q[m]
  BY DEF Quiesced, Typed
<1>2. k.resumeQueue = q[n].resumeQueue /\ k.sent = q[n].sent /\ k.localInit = q[n].localInit
  BY StatePlain DEF Flagged
<1>. HIDE DEF k
<1>3. ASSUME NEW m \in Node PROVE Deferred(q[m], mail[m]) \/ Excused(m)
  BY DeferredMeans
<1>4. ASSUME NEW m \in Node PROVE Deferred(q'[m], mail'[m]) \/ Excused(m)
  <2>1. CASE m = n
    BY <1>1, <1>2, <1>3, <2>1 DEF Deferred, CanSendUpdates
  <2>2. CASE m # n
    BY <1>1, <1>3, <2>2
  <2>. QED  BY <2>1, <2>2
<1>. QED  BY <1>4, DeferredAfter

\* ResumeQuiescence: nothing is left to take up.
LEMMA ResumeQuiescenceDefers ==
    ASSUME Typed, DeferredHaveResume, shut' = shut, NEW n \in Node, ResumeQuiescence(n)
    PROVE  DeferredHaveResume'
<1>1. CASE ~IsQuiescent(q[n])
  BY <1>1 DEF ResumeQuiescence, DeferredHaveResume
<1>2. CASE IsQuiescent(q[n])
  <2>1. PICK outcomes \in [1..q[n].resumeQueue -> Outcomes] :
           Apply(n, SignIfOwed([ProcessRemoteAdds(State(n), outcomes)
                                   EXCEPT !.k = Reset(@), !.box = ResetPackets(@)]),
                 net[n], held[n])
    BY <1>2 DEF ResumeQuiescence
  <2>. DEFINE r == ProcessRemoteAdds(State(n), outcomes)
              k == Reset(r.k)
              b == ResetPackets(r.box)
              e == [r EXCEPT !.k = k, !.box = b]
              d == SignIfOwed(e)
  <2>2. Apply(n, d, net[n], held[n])
    BY <2>1
  <2>3. Plain(r)
    BY StatePlain, ProcessRemoteAddsPasses DEF Passes
  <2>. HIDE DEF r
  <2>4. Flagged(r.k) /\ r.box \in Seq(Packets)
    BY <2>3, FieldsPass
  <2>5. Flagged(k) /\ k.resumeQueue = 0
    BY <2>4 DEF Reset, Flagged
  <2>6. b \in Seq(Packets) /\ ~Dropped(b)
    <3>1. /\ DOMAIN r.box = 1..Len(r.box) /\ Len(r.box) \in Nat
          /\ \A i \in 1..Len(r.box) : r.box[i] \in Packets
      BY <2>4
    <3>2. \A i \in 1..Len(r.box) : [r.box[i] EXCEPT !.at = "new"] \in Packets
                                   /\ [r.box[i] EXCEPT !.at = "new"].at = "new"
      BY <3>1 DEF Packets
    <3>3. b = [i \in 1..Len(r.box) |-> [r.box[i] EXCEPT !.at = "new"]]
      BY <3>1 DEF ResetPackets
    <3>. HIDE DEF b
    <3>4. b \in Seq(Packets) /\ DOMAIN b = 1..Len(r.box)
          /\ \A i \in 1..Len(r.box) : b[i].at = "new"
      BY <3>1, <3>2, <3>3
    <3>. QED  BY <3>4 DEF Dropped
  <2>. HIDE DEF k, b
  <2>7. Plain(e) /\ e.k = k /\ e.box = b
    BY <2>3, <2>5, <2>6 DEF Plain
  <2>. HIDE DEF e
  <2>8. Passes(e, d)
    BY <2>7, SignPasses
  <2>9. Deferred(d.k, d.box)
    BY <2>5, <2>6, <2>7, <2>8 DEF Passes, Deferred
  <2>. QED  BY <2>2, <2>9, DeferredApplied
<1>. QED  BY <1>1, <1>2

\* Shutdown, and the peer's shutdown read.
LEMMA ShutdownDefers ==
    ASSUME Typed, DOMAIN shut = Node, DeferredHaveResume, NEW n \in Node,
           Shutdown(n) \/ ShutdownReceived(n)
    PROVE  DeferredHaveResume'
<1>1. /\ Other(n) # n /\ \A m \in Node : Other(m) \in Node /\ (m # n => Other(m) = n)
  BY OtherFacts DEF Node, Other
<1>2. CASE Shutdown(n)
  <2>1. q' = q /\ mail' = mail /\ \A m \in Node : ~Excused(m)
    BY <1>1, <1>2 DEF Shutdown, Excused
  <2>2. ASSUME NEW m \in Node PROVE Deferred(q[m], mail[m])
    BY <2>1, DeferredMeans
  <2>. QED  BY <2>1, <2>2 DEF DeferredHaveResume, Deferred, Dropped
<1>3. CASE ShutdownReceived(n)
  <2>. DEFINE k == RefuseInit(q[n])
  <2>1. /\ shut' = [shut EXCEPT ![Other(n)] = "read"] /\ mail' = mail /\ q' = [q EXCEPT ![n] = k]
        /\ shut[Other(n)] = "sent"
    BY <1>3 DEF ShutdownReceived
  <2>. HIDE DEF k
  <2>. SUFFICES ASSUME NEW m \in Node
                PROVE  Deferred(q'[m], mail'[m]) \/ shut'[Other(m)] = "read"
    BY DEF DeferredHaveResume, Deferred, Dropped
  <2>2. CASE m = n
    BY <1>1, <2>1, <2>2
  <2>3. CASE m # n
    <3>1. q'[m] = q[m] /\ mail'[m] = mail[m] /\ shut'[Other(m)] = shut[Other(m)]
      BY <1>1, <2>1, <2>3 DEF Typed
    <3>2. Deferred(q[m], mail[m]) \/ Excused(m)
      BY DeferredMeans
    <3>. QED  BY <3>1, <3>2 DEF Excused
  <2>. QED  BY <2>2, <2>3
<1>. QED  BY <1>2, <1>3

\* HTLCs whose processing was deferred, and packets that were dropped, have a resume
\* to come that takes them up, unless the peer's shutdown withdrew our stfu
\* (processRemoteRevokeAndAck, handleDownstreamPkt, resumeQuiescence, RefuseInit).
THEOREM DeferredAreResumed ==
    Spec => []DeferredHaveResume
<1>. DEFINE J == DOMAIN shut = Node /\ DeferredHaveResume
<1>1. Init => J
  <2>. SUFFICES ASSUME Init PROVE J
    OBVIOUS
  <2>1. DOMAIN shut = Node
    BY DEF Init
  <2>2. ASSUME NEW n \in Node PROVE q[n].resumeQueue = 0 /\ DOMAIN mail[n] = {}
    BY DEF Init, NewQuiescer
  <2>. QED  BY <2>1, <2>2 DEF DeferredHaveResume
<1>2. IInv /\ J /\ [Next]_vars => J'
  <2>. SUFFICES ASSUME Typed, DOMAIN shut = Node, DeferredHaveResume, [Next]_vars PROVE J'
    BY DEF IInv
  <2>1. (\E n \in Node : Shutdown(n) \/ ShutdownReceived(n)) \/ shut' = shut
    BY DEF Next, vars, SwitchPacket, HandleDownstreamPkt, BatchTick, HandleHtlcResolution,
           HandleQuiescenceReq, HandleUpstreamMsg, ReplayHeld, Quiesced, MachineHandleTxAbort,
           ResumeQuiescence, Timeout, Handle, ReceiveUpdate, ReceiveCommitSig,
           ReceiveRevokeAndAck, HandleStfu, HandleTxAbort, FailLink
  <2>2. (DOMAIN shut = Node)'
    BY <2>1 DEF Shutdown, ShutdownReceived
  <2>15. CASE \E n \in Node : Shutdown(n) \/ ShutdownReceived(n)
    BY <2>2, <2>15, ShutdownDefers
  <2>16. CASE shut' = shut
    <3>2. CASE \E n \in Node : \E type \in {"Add", "Rmv"} : SwitchPacket(n, type)
      BY <2>2, <2>16, <3>2, SwitchPacketDefers
    <3>3. CASE \E n \in Node : HandleDownstreamPkt(n)
      BY <2>2, <2>16, <3>3, HandleDownstreamPktDefers
    <3>4. CASE \E n \in Node : BatchTick(n)
      BY <2>2, <2>16, <3>4, BatchTickDefers
    <3>5. CASE \E n \in Node : HandleHtlcResolution(n)
      BY <2>2, <2>16, <3>5, HandleHtlcResolutionDefers
    <3>6. CASE \E n \in Node : HandleQuiescenceReq(n)
      BY <2>2, <2>16, <3>6, HandleQuiescenceReqDefers
    <3>7. CASE \E n \in Node : HandleUpstreamMsg(n) \/ ReplayHeld(n)
      BY <2>2, <2>16, <3>7, UpstreamDefers
    <3>9. CASE \E n \in Node : Quiesced(n)
      BY <2>2, <2>16, <3>9, QuiescedDefers
    <3>10. CASE \E n \in Node : ResumeQuiescence(n)
      BY <2>2, <2>16, <3>10, ResumeQuiescenceDefers
    <3>11. CASE UNCHANGED <<q, mail>>
      BY <2>2, <2>16, <3>11 DEF DeferredHaveResume
    <3>12. CASE \E n \in Node : MachineHandleTxAbort(n) \/ Timeout(n)
      BY <3>11, <3>12 DEF MachineHandleTxAbort, Timeout, FailLink
    <3>14. CASE UNCHANGED vars
      BY <3>11, <3>14 DEF vars
    <3>. QED
      BY <2>15, <3>2, <3>3, <3>4, <3>5, <3>6, <3>7, <3>9, <3>10, <3>12, <3>14 DEF Next
  <2>. QED  BY <2>1, <2>15, <2>16
<1>3. J => DeferredHaveResume
  OBVIOUS
<1>. QED  BY <1>1, <1>2, <1>3, Invariant, PTL DEF Spec
====
