------------------------- MODULE ChannelArbitratorProofs ----------------------
(* What the chain actions of ChannelArbitrator guarantee for any HTLCs,    *)
(* expiries, deltas and commitments, and what its state machine does in    *)
(* any behaviour, through any number of crashes.                           *)
EXTENDS ChannelArbitrator, FiniteSetTheorems, TLAPS

(* Each commitment says of each HTLC whether it is absent, dust or output. *)
CommitsTyped == \A k \in Commits : chan[k] \in [HTLC -> {"no", "dust", "out"}]

(* Actions that answer an outgoing HTLC now, or a resolver will later. *)
Answering == {"failDust", "failDangling", "settleDangling", "timeout",
              "watchOut"}

\* Before any commitment has confirmed, an HTLC is failed as dust only if
\* none of the commitments that could confirm gives it an output
\* (checkLocalChainActions with deferDustHTLCsLiveOnRemote).
THEOREM DustHasNoOutput ==
    ASSUME CommitsTyped, NEW at, NEW trigger, NEW h \in Out,
           checkLocalChainActions(at, trigger, FALSE)[h] = "failDust"
    PROVE  \A k \in Commits : chan[k][h] # "out"
<1>1. h \in HTLC
  BY DEF HTLC
<1>2. h \notin LiveOnRemote
  BY <1>1 DEF checkLocalChainActions, DeferDust
<1>3. chan.remote[h] # "out" /\ chan.pending[h] # "out"
  BY <1>2 DEF LiveOnRemote
<1>4. chan.local[h] # "out"
  <2>1. CASE h \in RemoteDangling
    BY <2>1, <1>1 DEF RemoteDangling, On
  <2>2. CASE h \notin RemoteDangling
    <3>1. checkCommitChainActions(chan.local, at, trigger)[h] = "failDust"
      BY <2>2, <1>1 DEF checkLocalChainActions, DeferDust
    <3>2. CommitAction(chan.local, h, at) = "failDust"
      BY <3>1, <1>1 DEF checkCommitChainActions, NoActions
    <3> QED
      BY <3>2, <1>1 DEF CommitAction
  <2> QED
    BY <2>1, <2>2
<1> QED
  BY <1>3, <1>4 DEF Commits

\* The action of an HTLC that a commitment holds, and of one it does not.
LEMMA CommitActionKinds ==
    ASSUME NEW c \in [HTLC -> {"no", "dust", "out"}], NEW at, NEW h \in Out,
           h \notin In
    PROVE  /\ c[h] = "no" => CommitAction(c, h, at) = "none"
           /\ c[h] = "dust" => CommitAction(c, h, at) = "failDust"
           /\ c[h] = "out" => CommitAction(c, h, at) \in {"timeout", "watchOut"}
<1>1. ASSUME c[h] = "no" PROVE CommitAction(c, h, at) = "none"
  BY <1>1, Zenon DEF CommitAction
<1>2. ASSUME c[h] = "dust" PROVE CommitAction(c, h, at) = "failDust"
  BY <1>2, Zenon DEF CommitAction
<1>3. ASSUME c[h] = "out"
      PROVE  CommitAction(c, h, at) \in {"timeout", "watchOut"}
  <2>1. CASE shouldGoOnChain(h, OutDelta, at)
    BY <1>3, <2>1, Zenon DEF CommitAction
  <2>2. CASE ~shouldGoOnChain(h, OutDelta, at)
    BY <1>3, <2>2, Zenon DEF CommitAction
  <2> QED
    BY <2>1, <2>2
<1> QED
  BY <1>1, <1>2, <1>3

\* The actions on the confirmed commitment itself, once one has confirmed.
LEMMA ConfirmedActions ==
    ASSUME NEW c \in [HTLC -> {"no", "dust", "out"}], NEW at, NEW trigger,
           trigger # "chain", NEW h \in Out, h \notin In
    PROVE  LET a == checkCommitChainActions(c, at, trigger)[h]
           IN /\ c[h] = "dust" => a = "failDust"
              /\ c[h] = "out" => a \in {"timeout", "watchOut"}
<1>1. h \in HTLC
  BY DEF HTLC
<1>2. checkCommitChainActions(c, at, trigger)[h] = CommitAction(c, h, at)
  BY <1>1 DEF checkCommitChainActions
<1> QED
  BY <1>2, CommitActionKinds

\* A dangling HTLC is settled if its preimage is known and failed otherwise.
LEMMA DanglingKinds ==
    ASSUME NEW at, NEW h \in Out
    PROVE  /\ h \in known => DanglingAction(h, at, TRUE) = "settleDangling"
           /\ h \notin known =>
                DanglingAction(h, at, TRUE) \in {"failDust", "failDangling"}
  BY DEF DanglingAction

(* An outgoing HTLC that the confirmed commitment leaves out. *)
LeftOut(k, h) ==
    /\ chan[k][h] = "no"
    /\ \E j \in Commits \ (IF k = "local" THEN {} ELSE {"local"}) :
          chan[j][h] # "no"

\* What constructChainActions decides for one outgoing HTLC when k confirms.
LEMMA ActionOnConfirm ==
    ASSUME CommitsTyped, NEW k \in Commits, NEW at, NEW trigger,
           trigger # "chain", NEW h \in Out, h \notin In
    PROVE  LET a == constructChainActions(k, at, trigger)[h]
           IN /\ chan[k][h] = "dust" => a = "failDust"
              /\ chan[k][h] = "out" => a \in {"timeout", "watchOut"}
              /\ LeftOut(k, h) /\ h \in known => a = "settleDangling"
              /\ LeftOut(k, h) /\ h \notin known =>
                    a \in {"failDust", "failDangling"}
<1> DEFINE a == constructChainActions(k, at, trigger)[h]
<1>1. h \in HTLC
  BY DEF HTLC
<1>2. chan[k] \in [HTLC -> {"no", "dust", "out"}]
  BY DEF CommitsTyped
<1>3. CASE k = "local"
  <2>1. a = checkLocalChainActions(at, trigger, TRUE)[h]
    BY <1>3, Zenon DEF constructChainActions
  <2>2. h \in RemoteDangling => a = DanglingAction(h, at, TRUE)
    BY <2>1, <1>1 DEF checkLocalChainActions, DeferDust
  <2>3. h \notin RemoteDangling =>
          a = checkCommitChainActions(chan.local, at, trigger)[h]
    BY <2>1, <1>1 DEF checkLocalChainActions, DeferDust
  <2>4. LeftOut(k, h) => h \in RemoteDangling
    BY <1>1, <1>3 DEF LeftOut, RemoteDangling, On, Commits
  <2>5. chan[k][h] # "no" => h \notin RemoteDangling
    BY <1>1, <1>3 DEF RemoteDangling, On
  <2>6. chan[k][h] # "no" =>
          a = checkCommitChainActions(chan[k], at, trigger)[h]
    BY <2>3, <2>5, <1>3
  <2>7. LeftOut(k, h) => a = DanglingAction(h, at, TRUE)
    BY <2>2, <2>4
  <2>8. /\ chan[k][h] = "dust" => a = "failDust"
        /\ chan[k][h] = "out" => a \in {"timeout", "watchOut"}
    BY <2>6, <1>2, ConfirmedActions
  <2> QED
    BY <2>7, <2>8, DanglingKinds
<1>4. ASSUME NEW c, NEW d, c = chan[k],
             LeftOut(k, h) => d[h] # "no",
             a = checkRemoteChainActions(c, d, at, trigger)[h]
      PROVE  /\ chan[k][h] = "dust" => a = "failDust"
             /\ chan[k][h] = "out" => a \in {"timeout", "watchOut"}
             /\ LeftOut(k, h) /\ h \in known => a = "settleDangling"
             /\ LeftOut(k, h) /\ h \notin known =>
                   a \in {"failDust", "failDangling"}
  <2>1. a = IF h \notin (On(d) \ On(c)) \cap Out
            THEN checkCommitChainActions(c, at, trigger)[h]
            ELSE IF h \in known THEN "settleDangling"
            ELSE IF d[h] = "dust" THEN "failDust" ELSE "failDangling"
    BY <1>1, <1>4 DEF checkRemoteChainActions
  <2>2. ASSUME chan[k][h] # "no"
        PROVE  a = checkCommitChainActions(c, at, trigger)[h]
    <3>1. h \in On(c)
      BY <1>1, <1>4, <2>2 DEF On
    <3>2. h \notin (On(d) \ On(c)) \cap Out
      BY <3>1
    <3> QED
      BY <2>1, <3>2
  <2>3. ASSUME LeftOut(k, h)
        PROVE  h \in (On(d) \ On(c)) \cap Out
    BY <1>1, <1>4, <2>3 DEF On, LeftOut
  <2>4. ASSUME LeftOut(k, h), h \in known
        PROVE  a = "settleDangling"
    BY <2>1, <2>3, <2>4
  <2>5. ASSUME LeftOut(k, h), h \notin known
        PROVE  a \in {"failDust", "failDangling"}
    BY <2>1, <2>3, <2>5
  <2>6. /\ chan[k][h] = "dust" => a = "failDust"
        /\ chan[k][h] = "out" => a \in {"timeout", "watchOut"}
    BY <2>2, <1>2, <1>4, ConfirmedActions
  <2> QED
    BY <2>4, <2>5, <2>6
<1>5. CASE k = "remote"
  <2>1. a = checkRemoteChainActions(chan.remote, chan.pending, at, trigger)[h]
    BY <1>5, Zenon DEF constructChainActions
  <2>2. LeftOut(k, h) => chan.pending[h] # "no"
    BY <1>5 DEF LeftOut, Commits
  <2> QED
    BY <1>4, <1>5, <2>1, <2>2
<1>6. CASE k = "pending"
  <2>1. a = checkRemoteChainActions(chan.pending, chan.remote, at, trigger)[h]
    BY <1>6, Zenon DEF constructChainActions
  <2>2. LeftOut(k, h) => chan.remote[h] # "no"
    BY <1>6 DEF LeftOut, Commits
  <2> QED
    BY <1>4, <1>6, <2>1, <2>2
<1> QED
  BY <1>3, <1>5, <1>6 DEF Commits

\* When a commitment confirms, no outgoing HTLC is forgotten: one on the
\* confirmed commitment, or on another the peer could have confirmed instead,
\* is answered at once or gets a resolver (constructChainActions).
THEOREM NoHtlcForgotten ==
    ASSUME CommitsTyped, NEW k \in Commits, NEW at, NEW trigger,
           trigger # "chain", NEW h \in Out, h \notin In,
           chan[k][h] # "no" \/ LeftOut(k, h)
    PROVE  constructChainActions(k, at, trigger)[h] \in Answering
<1>1. h \in HTLC /\ chan[k] \in [HTLC -> {"no", "dust", "out"}]
  BY DEF HTLC, CommitsTyped
<1>2. chan[k][h] \in {"no", "dust", "out"}
  BY <1>1
<1> QED
  BY <1>2, ActionOnConfirm DEF Answering

\* When a commitment confirms, an HTLC is failed upstream only if that
\* commitment has no output for it, and one it leaves out because the peer's
\* settle removed it (its preimage is known) is settled, not failed.
THEOREM ConfirmedFailsAreSafe ==
    ASSUME CommitsTyped, NEW k \in Commits, NEW at, NEW trigger,
           trigger # "chain", NEW h \in Out, h \notin In,
           chan[k][h] # "no" \/ LeftOut(k, h),
           constructChainActions(k, at, trigger)[h]
               \in {"failDust", "failDangling"}
    PROVE  chan[k][h] = "dust" \/ (chan[k][h] = "no" /\ h \notin known)
<1>1. h \in HTLC /\ chan[k] \in [HTLC -> {"no", "dust", "out"}]
  BY DEF HTLC, CommitsTyped
<1>2. chan[k][h] \in {"no", "dust", "out"}
  BY <1>1
<1> QED
  BY <1>2, ActionOnConfirm

----------------------------------------------------------------------------
(* The state machine.  Its inductive invariant says, in this order: what   *)
(* values the variables take; that an output exists only on the confirmed  *)
(* commitment; that log, memory and trigger name the spend that confirmed; *)
(* that an HTLC failed upstream is safe whatever may still happen; how many*)
(* contracts and signals there can be.                                     *)

Forms == {"no", "dust", "out"}
States == {"default", "broadcast", "broadcasted", "closed", "waiting",
           "resolved"}
CloseTriggers == {"local", "remote", "breach", "coop"}
Triggers == {"none", "chain", "user"} \cup CloseTriggers
OutKinds == {"timeout", "outContest"}
Kinds == OutKinds \cup {"sweep", "breach", "inContest", "success",
                        "incubating", "resolved"}
Keys == HTLC \cup {Self}
Maps(R) == UNION {[D -> R] : D \in SUBSET Keys}

ArbType ==
    [pc : {"idle", "step", "commit", "log", "set", "mark", "down"},
     state : States, next : States, trigger : Triggers, at : Nat,
     conf : Closes \cup {"none"}, boot : BOOLEAN]
DiskType ==
    [state : States \cup {"gone"}, res : Closes \cup {"none"},
     set : Closes \cup {"none"}, closed : CloseTriggers \cup {"none"},
     contracts : Maps(Kinds)]
ChainType ==
    [spent : Closes \cup {"none"}, at : Nat,
     out : [HTLC -> {"none", "open", "ours", "theirs"}]]

Typed ==
    /\ chan \in Scenarios
    /\ height \in 0..MaxHeight /\ beat \in BOOLEAN
    /\ chain \in ChainType /\ chain.at <= height
    /\ published \in BOOLEAN
    /\ swept \in SUBSET HTLC /\ known \in SUBSET HTLC
    /\ told \in [Out -> {"none", "settle", "fail"}]
    /\ disk \in DiskType /\ arb \in ArbType
    /\ active \in Maps({"run", "told"})
    /\ signals \in Nat

ChainOK ==
    /\ chan.settled \subseteq known
    /\ \A h \in HTLC : chain.out[h] # "none" =>
          chain.spent \in Commits /\ chan[chain.spent][h] = "out"

LogOK ==
    /\ disk.res \in {"none", chain.spent} /\ disk.set \in {"none", disk.res}
    /\ disk.closed # "none" =>
          /\ chain.spent # "none" /\ disk.closed = CloseTrigger(chain.spent)
          /\ disk.closed = "breach" => disk.res # "none"
    /\ disk.set # "coop" /\ arb.conf # "coop"
    /\ arb.pc \in {"log", "set"} => chain.spent # "coop"
    /\ arb.pc \in {"log", "set", "mark"} => chain.spent # "none"
    /\ arb.pc = "set" => disk.res = chain.spent
    /\ arb.pc = "mark" => chain.spent \in {"coop", disk.res}
    /\ arb.conf \in {"none", chain.spent}
    /\ arb.pc \in {"step", "commit"} => arb.trigger # "none"
    /\ arb.trigger \in CloseTriggers =>
          /\ chain.spent # "none" /\ arb.trigger = CloseTrigger(chain.spent)
          /\ arb.trigger = "breach" => disk.res # "none"
    /\ arb.pc # "down" =>
          \/ disk.state = arb.state
          \/ disk.state = "gone" /\ arb.state = "resolved" /\ arb.pc = "idle"
    /\ arb.pc = "down" => disk.state # "gone"

(* Nothing that may still confirm can pay the peer for h. *)
NeverPays(h) ==
    \A k \in Commits :
        chan[k][h] # "out" /\ (h \in chan.settled => chan[k][h] # "no")

FailOK ==
    \A h \in Out : told[h] = "fail" =>
        /\ ~PeerPaid(h) /\ chain.out[h] # "open"
        /\ chain.spent = "none" => NeverPays(h)

(* The resolvers of the log have been started, or were before a restart. *)
ResolversWritten ==
    \/ arb.state \in {"waiting", "resolved"}
    \/ arb.pc = "commit" /\ arb.next = "waiting"

CountOK ==
    /\ DOMAIN active \subseteq DOMAIN disk.contracts
    /\ ~ResolversWritten \/ arb.pc = "down" => DOMAIN active = {} /\ signals = 0
    /\ arb.pc = "commit" /\ arb.state \in {"waiting", "resolved"} =>
          arb.next = "resolved"
    /\ signals + Cardinality(DOMAIN disk.contracts) <= Cardinality(HTLC) + 1

IInv == Typed /\ ChainOK /\ LogOK /\ FailOK /\ CountOK

(* Of the answers owed, while no crash falls in StateContractClosed. *)
OnSome(h) == \E k \in Commits : h \in On(chan[k])

(* A contract of the log stands for an answer to come, or one given. *)
KindsOK ==
    /\ \A h \in Out \cap DOMAIN disk.contracts :
          \/ disk.contracts[h] \in OutKinds
          \/ disk.contracts[h] \in {"incubating", "resolved"}
             /\ told[h] # "none"
    /\ \A h \in Out \cap DOMAIN active : active[h] = "told" => told[h] # "none"

OwedOK ==
    /\ disk.state = "waiting" \/ (arb.pc = "commit" /\ arb.next = "waiting") =>
          \A h \in Out : OnSome(h) =>
             told[h] # "none" \/ h \in DOMAIN disk.contracts
    /\ disk.state \in {"resolved", "gone"}
       \/ (arb.pc = "commit" /\ arb.next = "resolved") =>
          \/ chain.spent = "coop"
          \/ \A h \in Out : OnSome(h) => told[h] # "none"

TriggerOK ==
    /\ arb.pc = "down" => disk.state # "closed"
    /\ arb.pc = "step" /\ arb.state = "closed" /\ arb.conf # "none" =>
          arb.trigger \in CloseTriggers
    /\ arb.pc = "commit" /\ arb.next = "closed" => arb.trigger \in CloseTriggers

AInv == KindsOK /\ OwedOK /\ TriggerOK

----------------------------------------------------------------------------
(* Facts about the maps of the log and about the operators of the steps. *)

\* A map of the log is a function on some of the keys.
LEMMA MapsFacts ==
    ASSUME NEW R, NEW f
    PROVE  f \in Maps(R) <=> DOMAIN f \subseteq Keys /\ f \in [DOMAIN f -> R]
  BY DEF Maps

\* Dropping keys, writing under a key that is there, the empty map.
LEMMA MapsChange ==
    ASSUME NEW R, NEW f \in Maps(R), NEW S \in SUBSET DOMAIN f,
           NEW x \in DOMAIN f, NEW v \in R
    PROVE  /\ Restrict(f, S) \in Maps(R) /\ DOMAIN Restrict(f, S) = S
           /\ \A y \in S : Restrict(f, S)[y] = f[y]
           /\ [f EXCEPT ![x] = v] \in Maps(R)
           /\ DOMAIN [f EXCEPT ![x] = v] = DOMAIN f
  BY MapsFacts DEF Restrict

\* The empty map.
LEMMA EmptyMap ==
    ASSUME NEW R
    PROVE  <<>> \in Maps(R) /\ DOMAIN <<>> = {}
<1>1. <<>> \in [{} -> R] /\ {} \in SUBSET Keys
  OBVIOUS
<1> QED
  BY <1>1 DEF Maps

\* The resolvers a close creates are of the kinds the log knows.
LEMMA PreparedFacts ==
    ASSUME Typed, NEW k, NEW acts
    PROVE  prepContractResolutions(k, acts) \in Maps(Kinds)
<1> DEFINE hs == Doing(acts, DOMAIN ResolverOf)
           D == hs \cup (IF chan.self THEN {Self} ELSE {})
           rs == [x \in D |-> IF x = Self THEN "sweep" ELSE ResolverOf[acts[x]]]
<1>1. DOMAIN ResolverOf = {"timeout", "watchOut", "watchIn"}
      /\ \A a \in DOMAIN ResolverOf : ResolverOf[a] \in Kinds
  BY DEF ResolverOf, Kinds, OutKinds
<1>2. \A x \in hs : x \in HTLC /\ acts[x] \in DOMAIN ResolverOf
  BY DEF Doing
<1>3. rs \in [D -> Kinds]
  BY <1>1, <1>2 DEF Kinds
<1>4. D \subseteq Keys
  BY <1>2 DEF Keys
<1>5. rs \in Maps(Kinds)
  BY <1>3, <1>4 DEF Maps
<1>6. [x \in {Self} |-> "breach"] \in [{Self} -> Kinds] /\ {Self} \subseteq Keys
  BY DEF Kinds, Keys
<1>7. [x \in {Self} |-> "breach"] \in Maps(Kinds)
  BY <1>6 DEF Maps
<1> QED
  BY <1>5, <1>7 DEF prepContractResolutions

\* New resolvers are written over, or beside, what the log holds.
LEMMA InsertedFacts ==
    ASSUME NEW R, NEW f \in Maps(R), NEW g \in Maps(R)
    PROVE  /\ InsertUnresolvedContracts(f, g) \in Maps(R)
           /\ DOMAIN InsertUnresolvedContracts(f, g) = DOMAIN f \cup DOMAIN g
           /\ \A x \in DOMAIN f : InsertUnresolvedContracts(f, g)[x] = f[x]
           /\ \A x \in DOMAIN g \ DOMAIN f :
                 InsertUnresolvedContracts(f, g)[x] = g[x]
  BY MapsFacts DEF InsertUnresolvedContracts

\* The switch keeps what it was told first.
LEMMA DeliverFacts ==
    ASSUME told \in [Out -> {"none", "settle", "fail"}], NEW fails, NEW settles
    PROVE  /\ Deliver(fails, settles) \in [Out -> {"none", "settle", "fail"}]
           /\ \A h \in Out :
                /\ told[h] # "none" => Deliver(fails, settles)[h] = told[h]
                /\ Deliver(fails, settles)[h] = "fail" =>
                      told[h] = "fail" \/ h \in fails
                /\ h \in fails \cup settles => Deliver(fails, settles)[h] # "none"
  BY DEF Deliver

\* What a stateStep leaves of the attendant.
LEMMA ReturnFacts ==
    ASSUME arb \in ArbType, NEW next \in States, Return(next)
    PROVE  /\ arb' \in ArbType
           /\ next = arb.state =>
                 /\ arb'.pc = "idle" /\ arb'.state = next /\ arb'.conf = "none"
                 /\ arb'.trigger = "none"
           /\ next # arb.state =>
                 /\ arb'.pc = "commit" /\ arb'.state = arb.state
                 /\ arb'.next = next /\ arb'.conf = arb.conf
                 /\ arb'.trigger = arb.trigger
<1>1. CASE next = arb.state
  BY <1>1 DEF Return, AtRest, ArbType, States, Triggers
<1>2. CASE next # arb.state
  BY <1>2 DEF Return, ArbType
<1> QED
  BY <1>1, <1>2

\* What an event leaves of the attendant.
LEMMA AdvanceFacts ==
    ASSUME arb \in ArbType, NEW t \in Triggers, NEW at \in Nat,
           NEW conf \in Closes \cup {"none"}, NEW boot \in BOOLEAN,
           Advance(t, at, conf, boot)
    PROVE  /\ arb' \in ArbType
           /\ arb'.pc = "step" /\ arb'.state = arb.state /\ arb'.conf = conf
           /\ arb'.trigger = t
  BY DEF Advance, ArbType

\* Every close has a trigger.
LEMMA CloseTriggerFacts ==
    ASSUME NEW k \in Closes
    PROVE  CloseTrigger(k) \in CloseTriggers
  BY DEF Closes, CloseTriggers, CloseTrigger

\* A close trigger leads to StateContractClosed, or past it when there is
\* nothing to resolve.
LEMMA AfterCloseFacts ==
    ASSUME arb.trigger \in CloseTriggers
    PROVE  /\ AfterClose \in {"closed", "resolved"}
           /\ AfterClose = "resolved" =>
                 \/ arb.trigger = "coop"
                 \/ arb.trigger = "breach" /\ disk.res = "none"
<1>1. CASE arb.trigger = "coop"
  BY <1>1, Zenon DEF AfterClose
<1>2. CASE arb.trigger \in {"local", "remote"}
  <2>1. arb.trigger # "coop" /\ arb.trigger # "breach"
    BY <1>2
  <2>2. AfterClose = "closed"
    BY <1>2, <2>1, Zenon DEF AfterClose
  <2> QED
    BY <2>2
<1>3. CASE arb.trigger = "breach"
  <2>1. arb.trigger # "coop" /\ arb.trigger \notin {"local", "remote"}
    BY <1>3
  <2>2. AfterClose = IF disk.res = "none" THEN "resolved" ELSE "closed"
    BY <1>3, <2>1, Zenon DEF AfterClose
  <2> QED
    BY <1>3, <2>2
<1> QED
  BY <1>1, <1>2, <1>3 DEF CloseTriggers

\* A stateStep that is not initiating follows a close trigger.
LEMMA InitiatingFacts ==
    ASSUME Typed, LogOK, arb.pc = "step", ~Initiating
    PROVE  arb.trigger \in CloseTriggers
  BY DEF Typed, LogOK, ArbType, Triggers, Initiating

\* Launching only hands HTLCs to the sweeper.
LEMMA LaunchedHtlcs ==
    ASSUME NEW rs
    PROVE  Launched(rs) \in SUBSET HTLC
  BY DEF Launched

\* A checkpoint writes one contract that is there.
LEMMA CheckpointFacts ==
    ASSUME disk \in DiskType, NEW x \in DOMAIN disk.contracts,
           NEW kind \in Kinds, Checkpoint(x, kind)
    PROVE  /\ disk' \in DiskType
           /\ disk'.state = disk.state /\ disk'.res = disk.res
           /\ disk'.set = disk.set /\ disk'.closed = disk.closed
           /\ DOMAIN disk'.contracts = DOMAIN disk.contracts
           /\ disk'.contracts[x] = kind
           /\ \A y \in DOMAIN disk.contracts \ {x} :
                 disk'.contracts[y] = disk.contracts[y]
<1> DEFINE cs == disk.contracts
           new == [cs EXCEPT ![x] = kind]
<1>1. cs \in Maps(Kinds)
  BY DEF DiskType
<1>2. new \in Maps(Kinds) /\ DOMAIN new = DOMAIN cs
  BY <1>1, MapsChange
<1>3. disk' = [disk EXCEPT !.contracts = new]
  BY DEF Checkpoint
<1>4. new[x] = kind /\ \A y \in DOMAIN cs \ {x} : new[y] = cs[y]
  BY <1>1, MapsFacts
<1> HIDE DEF new
<1> QED
  BY <1>2, <1>3, <1>4 DEF DiskType

----------------------------------------------------------------------------
(* Type correctness, action by action. *)

\* The initial values are of their types.
LEMMA TypedInit ==
    ASSUME Init
    PROVE  Typed
<1>1. chan \in Scenarios /\ chan.settled \in SUBSET HTLC
  BY ScenariosAssumption DEF Init
<1>2. arb \in ArbType
  BY DEF Init, ArbType, AtRest, States, Triggers
<1>3. disk \in DiskType
  BY EmptyMap DEF Init, DiskType, States
<1>4. chain \in ChainType /\ chain.at <= height /\ height \in 0..MaxHeight
  BY DeltasAreHeights DEF Init, ChainType
<1>5. active \in Maps({"run", "told"})
  BY EmptyMap DEF Init
<1> QED
  BY <1>1, <1>2, <1>3, <1>4, <1>5 DEF Init, Typed

\* The attendant's steps keep the types.
LEMMA TypedArbitrating ==
    ASSUME Typed, LogOK, Arbitrating
    PROVE  Typed'
<1> USE DEF Typed
<1>0. height \in Nat /\ chain.at \in Nat /\ chain.spent \in Closes \cup {"none"}
  BY DeltasAreHeights DEF ChainType
<1>1. CASE CommitState
  BY <1>1 DEF CommitState, DiskType, ArbType
<1>2. CASE HandleBlockbeat
  <2>1. swept' \in SUBSET HTLC
    BY <1>2, LaunchedHtlcs DEF HandleBlockbeat
  <2>2. arb' \in ArbType
    BY <1>0, <1>2, AdvanceFacts DEF HandleBlockbeat, Triggers
  <2> QED
    BY <1>2, <2>1, <2>2 DEF HandleBlockbeat
<1>3. CASE HandleClose
  BY <1>3 DEF HandleClose, ArbType
<1>4. CASE LogContractResolutions
  BY <1>0, <1>4 DEF LogContractResolutions, ArbType, DiskType
<1>5. CASE InsertConfirmedCommitSet
  BY <1>0, <1>5 DEF InsertConfirmedCommitSet, ArbType, DiskType
<1>6. CASE MarkChannelClosed
  <2>1. chain.spent \in Closes
    BY <1>0, <1>6 DEF MarkChannelClosed, LogOK
  <2>2. CloseTrigger(chain.spent) \in CloseTriggers \cap Triggers
    BY <2>1, CloseTriggerFacts DEF Triggers
  <2>3. arb' \in ArbType
    BY <1>0, <1>6, <2>1, <2>2, AdvanceFacts DEF MarkChannelClosed
  <2>4. disk' \in DiskType
    BY <1>6, <2>2 DEF MarkChannelClosed, DiskType
  <2> QED
    BY <1>6, <2>3, <2>4 DEF MarkChannelClosed
<1>7. CASE StepDefault
  <2>1. ~Initiating => AfterClose \in States
    BY <1>7, InitiatingFacts, AfterCloseFacts DEF StepDefault, Step, States
  <2>2. PICK next \in States : Return(next)
    BY <1>7, <2>1 DEF StepDefault, States
  <2>3. arb' \in ArbType
    BY <2>2, ReturnFacts
  <2>4. told' \in [Out -> {"none", "settle", "fail"}]
    <3>1. told' = told \/ \E fails : told' = Deliver(fails, {})
      BY <1>7, Zenon DEF StepDefault
    <3> QED
      BY <3>1, DeliverFacts
  <2> QED
    BY <1>7, <2>3, <2>4 DEF StepDefault
<1>8. CASE StepBroadcastCommit
  <2>1. ~Initiating => AfterClose \in States
    BY <1>8, InitiatingFacts, AfterCloseFacts DEF StepBroadcastCommit, Step, States
  <2>2. PICK next \in States : Return(next)
    BY <1>8, <2>1 DEF StepBroadcastCommit, States
  <2>3. arb' \in ArbType
    BY <2>2, ReturnFacts
  <2> QED
    BY <1>8, <2>3 DEF StepBroadcastCommit
<1>9. CASE StepCommitmentBroadcasted
  <2>1. ~Initiating => AfterClose \in States
    BY <1>9, InitiatingFacts, AfterCloseFacts
       DEF StepCommitmentBroadcasted, Step, States
  <2>2. PICK next \in States : Return(next)
    BY <1>9, <2>1 DEF StepCommitmentBroadcasted, States
  <2>3. arb' \in ArbType
    BY <2>2, ReturnFacts
  <2> QED
    BY <1>9, <2>3 DEF StepCommitmentBroadcasted
<1>10. CASE StepContractClosed
  <2> DEFINE acts == constructChainActions(arb.conf, arb.at, arb.trigger)
             rs == prepContractResolutions(arb.conf, acts)
  <2>1. rs \in Maps(Kinds)
    BY PreparedFacts
  <2> HIDE DEF acts
  <2>2. PICK next \in States : Return(next)
    BY <1>10 DEF StepContractClosed, States
  <2>3. arb' \in ArbType
    BY <2>2, ReturnFacts
  <2>4. told' \in [Out -> {"none", "settle", "fail"}]
    BY <1>10, DeliverFacts DEF StepContractClosed
  <2>5. \/ UNCHANGED <<disk, active, swept>>
        \/ /\ disk' = [disk EXCEPT !.contracts =
                          InsertUnresolvedContracts(rs, disk.contracts)]
           /\ active' = [x \in DOMAIN rs |-> "run"]
           /\ swept' = swept \cup Launched(rs)
    BY <1>10 DEF StepContractClosed, acts
  <2> HIDE DEF rs
  <2>6. disk.contracts \in Maps(Kinds)
    BY DEF DiskType
  <2>7. InsertUnresolvedContracts(rs, disk.contracts) \in Maps(Kinds)
    BY <2>1, <2>6, InsertedFacts
  <2>8. disk' \in DiskType
    BY <2>5, <2>7 DEF DiskType
  <2>9. [x \in DOMAIN rs |-> "run"] \in Maps({"run", "told"})
    BY <2>1, MapsFacts
  <2>10. active' \in Maps({"run", "told"}) /\ swept' \in SUBSET HTLC
    BY <2>5, <2>9, LaunchedHtlcs
  <2> QED
    BY <1>10, <2>3, <2>4, <2>8, <2>10 DEF StepContractClosed
<1>11. CASE StepWaitingFullResolution
  <2>1. PICK next \in States : Return(next)
    BY <1>11 DEF StepWaitingFullResolution, States
  <2>2. arb' \in ArbType
    BY <2>1, ReturnFacts
  <2>3. disk.contracts \in Maps(Kinds)
    BY DEF DiskType
  <2>4. [x \in Unresolved(disk.contracts) |-> "run"] \in Maps({"run", "told"})
    BY <2>3, MapsFacts DEF Unresolved
  <2>5. active' \in Maps({"run", "told"}) /\ swept' \in SUBSET HTLC
    BY <1>11, <2>4, LaunchedHtlcs DEF StepWaitingFullResolution
  <2> QED
    BY <1>11, <2>2, <2>5 DEF StepWaitingFullResolution
<1>12. CASE StepFullyResolved
  <2>1. arb' \in ArbType
    BY <1>12, ReturnFacts DEF StepFullyResolved, States
  <2>2. disk' \in DiskType
    BY <1>12 DEF StepFullyResolved, DiskType
  <2> QED
    BY <1>12, <2>1, <2>2 DEF StepFullyResolved
<1>13. CASE ResolutionSignal
  <2>1. arb' \in ArbType
    BY <1>0, <1>13, AdvanceFacts DEF ResolutionSignal, Triggers
  <2> QED
    BY <1>13, <2>1 DEF ResolutionSignal
<1> QED
  BY <1>1, <1>2, <1>3, <1>4, <1>5, <1>6, <1>7, <1>8, <1>9, <1>10, <1>11,
     <1>12, <1>13 DEF Arbitrating

\* What a resolver of contract x finds when it runs.
LEMMA RunningFacts ==
    ASSUME Typed, CountOK, NEW x, x \in DOMAIN active
    PROVE  /\ x \in DOMAIN disk.contracts /\ x \in Keys
           /\ disk.contracts \in Maps(Kinds)
           /\ disk.contracts[x] \in Kinds /\ active[x] \in {"run", "told"}
  BY MapsFacts DEF Typed, CountOK, DiskType

\* The resolvers' steps keep the types.
LEMMA TypedResolving ==
    ASSUME Typed, CountOK,
           \/ \E h \in Out : ResolvingOut(h)
           \/ \E h \in In : ResolvingIn(h)
           \/ \E x \in Keys : Resolving(x)
    PROVE  Typed'
<1> USE DEF Typed
<1>0. /\ disk.contracts \in Maps(Kinds)
      /\ \A h : AfterSpend(h) \in Kinds
      /\ "timeout" \in Kinds /\ "success" \in Kinds /\ "resolved" \in Kinds
  BY DEF DiskType, AfterSpend, Kinds, OutKinds
<1>1. ASSUME NEW h \in Out, ContestExpires(h)
      PROVE  Typed'
  <2>1. h \in DOMAIN disk.contracts
    BY <1>1, RunningFacts DEF ContestExpires, Running
  <2>2. disk' \in DiskType
    BY <1>0, <1>1, <2>1, CheckpointFacts DEF ContestExpires
  <2> QED
    BY <1>1, <2>2 DEF ContestExpires, HTLC
<1>2. ASSUME NEW h \in Out, ClaimCleanUp(h)
      PROVE  Typed'
  <2>1. [active EXCEPT ![h] = "told"] \in Maps({"run", "told"})
    BY <1>2, MapsChange DEF ClaimCleanUp, Running
  <2>2. told' \in [Out -> {"none", "settle", "fail"}]
    BY <1>2, DeliverFacts DEF ClaimCleanUp
  <2> QED
    BY <1>2, <2>1, <2>2 DEF ClaimCleanUp, HTLC
<1>3. ASSUME NEW h \in Out, ContestMistaken(h)
      PROVE  Typed'
  <2>1. Restrict(active, DOMAIN active \ {h}) \in Maps({"run", "told"})
    BY <1>3, MapsChange DEF ContestMistaken, Running
  <2> QED
    BY <1>3, <2>1 DEF ContestMistaken
<1>4. ASSUME NEW h \in Out, TimeoutFails(h)
      PROVE  Typed'
  <2>1. [active EXCEPT ![h] = "told"] \in Maps({"run", "told"})
    BY <1>4, MapsChange DEF TimeoutFails, Running
  <2>2. told' \in [Out -> {"none", "settle", "fail"}]
    BY <1>4, DeliverFacts DEF TimeoutFails
  <2> QED
    BY <1>4, <2>1, <2>2 DEF TimeoutFails
<1>5. ASSUME NEW h \in Out, CheckpointAnswered(h)
      PROVE  Typed'
  <2>1. [active EXCEPT ![h] = "run"] \in Maps({"run", "told"})
    BY <1>5, MapsChange DEF CheckpointAnswered
  <2>2. disk' \in DiskType
    BY <1>0, <1>5, RunningFacts, CheckpointFacts DEF CheckpointAnswered
  <2> QED
    BY <1>5, <2>1, <2>2 DEF CheckpointAnswered
<1>6. ASSUME NEW h \in In, ContestClaims(h)
      PROVE  Typed'
  <2>1. disk' \in DiskType
    BY <1>0, <1>6, RunningFacts, CheckpointFacts DEF ContestClaims, Running
  <2> QED
    BY <1>6, <2>1 DEF ContestClaims, HTLC
<1>7. ASSUME NEW h \in In, ContestAbandons(h)
      PROVE  Typed'
  <2>1. disk' \in DiskType
    BY <1>0, <1>7, RunningFacts, CheckpointFacts DEF ContestAbandons, Running
  <2> QED
    BY <1>7, <2>1 DEF ContestAbandons
<1>8. ASSUME NEW h \in In, SuccessSpent(h)
      PROVE  Typed'
  <2>1. disk' \in DiskType
    BY <1>0, <1>8, RunningFacts, CheckpointFacts DEF SuccessSpent, Running
  <2> QED
    BY <1>8, <2>1 DEF SuccessSpent
<1>9. ASSUME NEW x \in Keys, SweepConfirms(x)
      PROVE  Typed'
  <2>1. disk' \in DiskType
    BY <1>0, <1>9, RunningFacts, CheckpointFacts DEF SweepConfirms, Running
  <2> QED
    BY <1>9, <2>1 DEF SweepConfirms
<1>10. ASSUME NEW x \in Keys, ResolveContract(x)
       PROVE  Typed'
  <2>1. x \in DOMAIN active /\ x \in DOMAIN disk.contracts
    BY <1>10, RunningFacts DEF ResolveContract, Running
  <2>2. Restrict(active, DOMAIN active \ {x}) \in Maps({"run", "told"})
    BY <2>1, MapsChange
  <2>3. Restrict(disk.contracts, DOMAIN disk.contracts \ {x}) \in Maps(Kinds)
    BY <1>0, <2>1, MapsChange
  <2>4. disk' \in DiskType
    BY <1>10, <2>3 DEF ResolveContract, DiskType
  <2> QED
    BY <1>10, <2>2, <2>4 DEF ResolveContract
<1> QED
  BY <1>1, <1>2, <1>3, <1>4, <1>5, <1>6, <1>7, <1>8, <1>9, <1>10
     DEF ResolvingOut, ResolvingIn, Resolving

\* The network, the user, crash and restart keep the types.
LEMMA TypedOthers ==
    ASSUME Typed, LogOK, Network \/ UserForceClose \/ Crash \/ Restart
    PROVE  Typed'
<1> USE DEF Typed
<1>0. height \in Nat /\ chain.at \in Nat /\ MaxHeight \in Nat
  BY DeltasAreHeights DEF ChainType
<1>1. CASE NewBlock
  BY <1>0, <1>1 DEF NewBlock
<1>2. ASSUME NEW k \in Closes, Confirm(k)
      PROVE  Typed'
  <2>1. chain' \in ChainType /\ chain'.at <= height
    BY <1>0, <1>2 DEF Confirm, ChainType
  <2> QED
    BY <1>2, <2>1 DEF Confirm
<1>3. ASSUME NEW h \in HTLC, NEW by \in {"ours", "theirs"}, Spend(h, by)
      PROVE  Typed'
  <2>1. chain' \in ChainType /\ chain'.at = chain.at
    BY <1>3 DEF Spend, ChainType
  <2> QED
    BY <1>3, <2>1 DEF Spend
<1>4. ASSUME NEW h \in In, LearnPreimage(h)
      PROVE  Typed'
  BY <1>4 DEF LearnPreimage, HTLC
<1>5. CASE UserForceClose
  <2>1. arb' \in ArbType
    BY <1>0, <1>5, AdvanceFacts DEF UserForceClose, Triggers
  <2> QED
    BY <1>5, <2>1 DEF UserForceClose
<1>6. CASE Crash
  <2>1. arb' \in ArbType
    BY <1>6 DEF Crash, ArbType, AtRest, States, Triggers
  <2>2. active' \in Maps({"run", "told"})
    BY <1>6, EmptyMap DEF Crash
  <2> QED
    BY <1>6, <2>1, <2>2 DEF Crash
<1>7. CASE Restart
  <2>1. /\ disk.state \in States /\ disk.set \in Closes \cup {"none"}
        /\ disk.closed \in CloseTriggers \cup {"none"}
    BY <1>7 DEF Restart, LogOK, DiskType
  <2>2. RestartTrigger \in Triggers
    BY <2>1 DEF RestartTrigger, Triggers
  <2>3. arb' \in ArbType
    BY <1>0, <1>7, <2>1, <2>2 DEF Restart, ArbType
  <2> QED
    BY <1>7, <2>3 DEF Restart
<1> QED
  BY <1>1, <1>2, <1>3, <1>4, <1>5, <1>6, <1>7
     DEF Network, PeerSpends, WeSpend

----------------------------------------------------------------------------
(* What confirmed, what is logged of it and what is failed because of it. *)

\* Every step but the confirmation and the spends leaves the chain alone,
\* and no preimage is ever forgotten.
LEMMA ChainFrame ==
    ASSUME \/ Arbitrating \/ UserForceClose \/ Crash \/ Restart \/ NewBlock
           \/ \E h \in Out : ResolvingOut(h)
           \/ \E h \in In : ResolvingIn(h) \/ LearnPreimage(h)
           \/ \E x \in Keys : Resolving(x)
    PROVE  chan' = chan /\ chain' = chain /\ known \subseteq known'
<1>1. CASE Arbitrating
  BY <1>1 DEF Arbitrating, CommitState, HandleBlockbeat, HandleClose,
     LogContractResolutions, InsertConfirmedCommitSet, MarkChannelClosed,
     StepDefault, StepBroadcastCommit, StepCommitmentBroadcasted,
     StepContractClosed, StepWaitingFullResolution, StepFullyResolved,
     ResolutionSignal
<1>2. CASE UserForceClose \/ Crash \/ Restart \/ NewBlock
  BY <1>2 DEF UserForceClose, Crash, Restart, NewBlock
<1>3. CASE \E h \in Out : ResolvingOut(h)
  BY <1>3 DEF ResolvingOut, ContestExpires, ClaimCleanUp, ContestMistaken,
     TimeoutFails, CheckpointAnswered
<1>4. CASE \E h \in In : ResolvingIn(h) \/ LearnPreimage(h)
  BY <1>4 DEF ResolvingIn, ContestClaims, ContestAbandons, SuccessSpent,
     LearnPreimage
<1>5. CASE \E x \in Keys : Resolving(x)
  BY <1>5 DEF Resolving, SweepConfirms, ResolveContract
<1> QED
  BY <1>1, <1>2, <1>3, <1>4, <1>5

\* The steps of the invariant, in the groups the proofs go through.
LEMMA NextCases ==
    ASSUME [Next]_vars
    PROVE  \/ Arbitrating
           \/ \E h \in Out : ResolvingOut(h)
           \/ \E h \in In : ResolvingIn(h)
           \/ \E x \in Keys : Resolving(x)
           \/ NewBlock
           \/ \E k \in Closes : Confirm(k)
           \/ \E h \in HTLC, by \in {"ours", "theirs"} : Spend(h, by)
           \/ \E h \in In : LearnPreimage(h)
           \/ UserForceClose \/ Crash \/ Restart
           \/ UNCHANGED vars
  BY DEF Next, Network, PeerSpends, WeSpend, Keys

\* Outputs appear with the commitment that confirms and are then spent.
LEMMA ChainStep ==
    ASSUME Typed, ChainOK, [Next]_vars
    PROVE  ChainOK'
<1>1. ASSUME chan' = chan, chain' = chain, known \subseteq known'
      PROVE  ChainOK'
  BY <1>1 DEF ChainOK
<1>2. ASSUME NEW k \in Closes, Confirm(k)
      PROVE  ChainOK'
  <2>1. /\ chain'.spent = k /\ chan' = chan /\ known' = known
        /\ \A h \in HTLC : chain'.out[h] =
              IF k \in Commits /\ chan[k][h] = "out" THEN "open" ELSE "none"
    BY <1>2 DEF Confirm
  <2> QED
    BY <2>1 DEF ChainOK
<1>3. ASSUME NEW h \in HTLC, NEW by \in {"ours", "theirs"}, Spend(h, by)
      PROVE  ChainOK'
  <2>1. /\ chain'.spent = chain.spent /\ chan' = chan /\ known' = known
        /\ \A g \in HTLC \ {h} : chain'.out[g] = chain.out[g]
    BY <1>3 DEF Spend, Typed, ChainType
  <2> QED
    BY <1>3, <2>1 DEF ChainOK, Spend
<1>4. CASE UNCHANGED vars
  BY <1>1, <1>4 DEF vars
<1> QED
  BY <1>1, <1>2, <1>3, <1>4, ChainFrame, NextCases

\* A resolver changes neither the attendant nor what the log says of the
\* close.
LEMMA ResolvingFrame ==
    ASSUME Typed, CountOK,
           \/ \E h \in Out : ResolvingOut(h)
           \/ \E h \in In : ResolvingIn(h)
           \/ \E x \in Keys : Resolving(x)
    PROVE  /\ arb' = arb /\ disk'.state = disk.state /\ disk'.res = disk.res
           /\ disk'.set = disk.set /\ disk'.closed = disk.closed
<1> USE DEF Typed
<1>1. ASSUME NEW h \in Out, ResolvingOut(h)
      PROVE  arb' = arb /\ \/ disk' = disk
                           \/ \E x, kind : Checkpoint(x, kind)
  BY <1>1 DEF ResolvingOut, ContestExpires, ClaimCleanUp, ContestMistaken,
     TimeoutFails, CheckpointAnswered
<1>2. ASSUME NEW h \in In, ResolvingIn(h)
      PROVE  arb' = arb /\ \E x, kind : Checkpoint(x, kind)
  BY <1>2 DEF ResolvingIn, ContestClaims, ContestAbandons, SuccessSpent
<1>3. ASSUME NEW x \in Keys, Resolving(x)
      PROVE  arb' = arb /\ \E cs : disk' = [disk EXCEPT !.contracts = cs]
  BY <1>3 DEF Resolving, SweepConfirms, ResolveContract, Checkpoint
<1>4. ASSUME NEW x, NEW kind, Checkpoint(x, kind)
      PROVE  \E cs : disk' = [disk EXCEPT !.contracts = cs]
  BY <1>4 DEF Checkpoint
<1>5. ASSUME NEW cs, disk' = [disk EXCEPT !.contracts = cs]
      PROVE  /\ disk'.state = disk.state /\ disk'.res = disk.res
             /\ disk'.set = disk.set /\ disk'.closed = disk.closed
  BY <1>5 DEF DiskType
<1> QED
  BY <1>1, <1>2, <1>3, <1>4, <1>5

\* The log and the attendant always name the spend that confirmed.
LEMMA LogStep ==
    ASSUME Typed, LogOK, CountOK, [Next]_vars
    PROVE  LogOK'
<1>0. /\ chain.spent \in Closes \cup {"none"} /\ disk \in DiskType
      /\ arb \in ArbType
  BY DEF Typed, ChainType
<1> USE DEF LogOK
<1>1. ASSUME chain' = chain \/ chain'.spent = chain.spent, arb' = arb,
             disk'.state = disk.state, disk'.res = disk.res,
             disk'.set = disk.set, disk'.closed = disk.closed
      PROVE  LogOK'
  BY <1>1 DEF CloseTrigger
<1>2. CASE Arbitrating
  <2>0. chain' = chain
    BY <1>2, ChainFrame
  <2>1. CASE CommitState
    BY <1>0, <2>0, <2>1 DEF CommitState, DiskType, ArbType, CloseTrigger, States
  <2>2. CASE HandleBlockbeat
    <3>1. arb' = arb \/ Advance("chain", height, "none", FALSE)
      BY <2>2 DEF HandleBlockbeat
    <3>2. CASE Advance("chain", height, "none", FALSE)
      <4>1. /\ arb'.pc = "step" /\ arb'.state = arb.state
            /\ arb'.conf = "none" /\ arb'.trigger = "chain"
        BY <1>0, <3>2 DEF Advance, ArbType
      <4>2. disk' = disk /\ Idle
        BY <2>2 DEF HandleBlockbeat
      <4> QED
        BY <2>0, <4>1, <4>2 DEF CloseTrigger, CloseTriggers, Idle
    <3> QED
      BY <1>1, <2>0, <2>2, <3>1, <3>2 DEF HandleBlockbeat
  <2>3. CASE HandleClose
    <3>1. /\ arb'.pc \in {"mark", "log"} /\ arb'.state = arb.state
          /\ arb'.conf = arb.conf /\ arb'.trigger = arb.trigger
          /\ arb'.pc = "mark" => chain.spent = "coop"
      BY <1>0, <2>3 DEF HandleClose, ArbType
    <3> QED
      BY <2>0, <2>3, <3>1 DEF HandleClose, Idle, CloseTrigger
  <2>4. CASE LogContractResolutions
    <3>1. /\ arb'.pc = "set" /\ arb'.state = arb.state
          /\ arb'.conf = arb.conf /\ arb'.trigger = arb.trigger
      BY <1>0, <2>4 DEF LogContractResolutions, ArbType
    <3>2. /\ disk'.state = disk.state /\ disk'.res = chain.spent
          /\ disk'.set = disk.set /\ disk'.closed = disk.closed
      BY <1>0, <2>4 DEF LogContractResolutions, DiskType
    <3> QED
      BY <2>0, <2>4, <3>1, <3>2 DEF LogContractResolutions, CloseTrigger
  <2>5. CASE InsertConfirmedCommitSet
    <3>1. /\ arb'.pc = "mark" /\ arb'.state = arb.state
          /\ arb'.conf = arb.conf /\ arb'.trigger = arb.trigger
      BY <1>0, <2>5 DEF InsertConfirmedCommitSet, ArbType
    <3>2. /\ disk'.state = disk.state /\ disk'.res = disk.res
          /\ disk'.set = chain.spent /\ disk'.closed = disk.closed
      BY <1>0, <2>5 DEF InsertConfirmedCommitSet, DiskType
    <3> QED
      BY <2>0, <2>5, <3>1, <3>2 DEF InsertConfirmedCommitSet, CloseTrigger
  <2>6. CASE MarkChannelClosed
    <3>1. /\ arb'.pc = "step" /\ arb'.state = arb.state
          /\ arb'.conf \in {"none", chain.spent} /\ arb'.conf # "coop"
          /\ arb'.trigger = CloseTrigger(chain.spent)
      BY <1>0, <2>6 DEF MarkChannelClosed, Advance, ArbType
    <3>2. /\ disk'.state = disk.state /\ disk'.res = disk.res
          /\ disk'.set = disk.set /\ disk'.closed = CloseTrigger(chain.spent)
      BY <1>0, <2>6 DEF MarkChannelClosed, DiskType
    <3>3. chain.spent # "none" /\ CloseTrigger(chain.spent) # "none"
          /\ (CloseTrigger(chain.spent) = "breach" => disk.res # "none")
      BY <1>0, <2>6 DEF MarkChannelClosed, CloseTrigger, Closes
    <3> QED
      BY <2>0, <2>6, <3>1, <3>2, <3>3 DEF MarkChannelClosed, CloseTrigger
  <2>7. ASSUME arb.pc = "step", NEW next \in States, Return(next),
               disk'.state \in {disk.state, "gone"},
               disk'.state = "gone" /\ disk.state # "gone" =>
                  next = "resolved" /\ arb.state = "resolved",
               disk'.res = disk.res, disk'.set = disk.set,
               disk'.closed = disk.closed
        PROVE  LogOK'
    <3>1. CASE next = arb.state
      <4>1. /\ arb'.pc = "idle" /\ arb'.state = next /\ arb'.conf = "none"
            /\ arb'.trigger = "none"
        BY <1>0, <2>7, <3>1, ReturnFacts
      <4> QED
        BY <2>0, <2>7, <3>1, <4>1 DEF CloseTrigger, CloseTriggers
    <3>2. CASE next # arb.state
      <4>1. /\ arb'.pc = "commit" /\ arb'.state = arb.state
            /\ arb'.conf = arb.conf /\ arb'.trigger = arb.trigger
        BY <1>0, <2>7, <3>2, ReturnFacts
      <4> QED
        BY <2>0, <2>7, <3>2, <4>1 DEF CloseTrigger
    <3> QED
      BY <3>1, <3>2
  <2>8. CASE StepDefault \/ StepBroadcastCommit \/ StepCommitmentBroadcasted
    <3>1. arb.pc = "step" /\ disk' = disk
      BY <2>8 DEF StepDefault, StepBroadcastCommit, StepCommitmentBroadcasted,
         Step
    <3>2. ~Initiating => AfterClose \in States
      BY <3>1, InitiatingFacts, AfterCloseFacts DEF States
    <3>3. PICK next \in States : Return(next)
      BY <2>8, <3>2 DEF StepDefault, StepBroadcastCommit,
         StepCommitmentBroadcasted, States
    <3> QED
      BY <2>7, <3>1, <3>3
  <2>9. CASE StepContractClosed
    <3>1. PICK next \in States : Return(next)
      BY <2>9 DEF StepContractClosed, States
    <3>2. arb.pc = "step"
          /\ (disk' = disk \/ \E cs : disk' = [disk EXCEPT !.contracts = cs])
      BY <2>9 DEF StepContractClosed, Step
    <3>3. /\ disk'.state = disk.state /\ disk'.res = disk.res
          /\ disk'.set = disk.set /\ disk'.closed = disk.closed
      BY <1>0, <3>2 DEF DiskType
    <3> QED
      BY <2>7, <3>1, <3>2, <3>3
  <2>10. CASE StepWaitingFullResolution
    <3>1. PICK next \in States : Return(next)
      BY <2>10 DEF StepWaitingFullResolution, States
    <3>2. arb.pc = "step" /\ disk' = disk
      BY <2>10 DEF StepWaitingFullResolution, Step
    <3> QED
      BY <2>7, <3>1, <3>2
  <2>11. CASE StepFullyResolved
    <3>1. /\ disk'.state = "gone" /\ disk'.res = disk.res
          /\ disk'.set = disk.set /\ disk'.closed = disk.closed
      BY <1>0, <2>11 DEF StepFullyResolved, DiskType
    <3>2. arb.pc = "step" /\ arb.state = "resolved" /\ Return("resolved")
      BY <2>11 DEF StepFullyResolved, Step
    <3> QED
      BY <2>7, <3>1, <3>2 DEF States
  <2>12. CASE ResolutionSignal
    <3>1. /\ arb'.pc = "step" /\ arb'.state = arb.state
          /\ arb'.conf = "none" /\ arb'.trigger = "chain"
      BY <1>0, <2>12 DEF ResolutionSignal, Advance, ArbType
    <3> QED
      BY <2>0, <2>12, <3>1
         DEF ResolutionSignal, Idle, CloseTrigger, CloseTriggers
  <2> QED
    BY <1>2, <2>1, <2>2, <2>3, <2>4, <2>5, <2>6, <2>8, <2>9, <2>10, <2>11,
       <2>12 DEF Arbitrating
<1>3. CASE \/ \E h \in Out : ResolvingOut(h)
           \/ \E h \in In : ResolvingIn(h)
           \/ \E x \in Keys : Resolving(x)
  BY <1>1, <1>3, ResolvingFrame, ChainFrame
<1>4. ASSUME NEW k \in Closes, Confirm(k)
      PROVE  LogOK'
  <2>1. chain'.spent = k /\ chain.spent = "none" /\ arb' = arb /\ disk' = disk
    BY <1>4 DEF Confirm
  <2> QED
    BY <2>1 DEF CloseTrigger
<1>5. CASE UserForceClose
  <2>1. /\ arb'.pc = "step" /\ arb'.state = arb.state
        /\ arb'.conf = "none" /\ arb'.trigger = "user"
    BY <1>0, <1>5 DEF UserForceClose, Advance, ArbType
  <2> QED
    BY <1>5, <2>1 DEF UserForceClose, Idle, CloseTrigger, CloseTriggers
<1>6. CASE Crash
  <2>1. arb'.pc = "down" /\ arb'.conf = "none" /\ arb'.trigger = "none"
    BY <1>6 DEF Crash, AtRest
  <2> QED
    BY <1>6, <2>1 DEF Crash, CloseTrigger, CloseTriggers
<1>7. CASE Restart
  <2>1. /\ arb'.pc = "step" /\ arb'.state = disk.state
        /\ arb'.conf = disk.set /\ arb'.trigger = RestartTrigger
    BY <1>7 DEF Restart
  <2>2. RestartTrigger = "chain"
        \/ (disk.closed # "none" /\ RestartTrigger = disk.closed)
    BY DEF RestartTrigger
  <2> QED
    BY <1>0, <1>7, <2>1, <2>2 DEF Restart, CloseTrigger, CloseTriggers
<1>8. ASSUME \/ NewBlock
             \/ \E h \in HTLC, by \in {"ours", "theirs"} : Spend(h, by)
             \/ \E h \in In : LearnPreimage(h)
             \/ UNCHANGED vars
      PROVE  LogOK'
  <2>1. arb' = arb /\ disk' = disk /\ chain'.spent = chain.spent
    BY <1>8 DEF NewBlock, Spend, LearnPreimage, vars, Typed, ChainType
  <2> QED
    BY <1>1, <2>1
<1> QED
  BY <1>2, <1>3, <1>4, <1>5, <1>6, <1>7, <1>8, NextCases

\* The commitments of a scenario, seen from the invariant.
LEMMA ScenarioFacts ==
    ASSUME Typed
    PROVE  /\ CommitsTyped
           /\ \A h \in Out : chan.local[h] # "no" =>
                 /\ chan.remote[h] # "no" \/ chan.pending[h] # "no"
                 /\ h \in chan.settled =>
                       chan.remote[h] # "no" /\ chan.pending[h] # "no"
<1>1. /\ chan.local \in [HTLC -> {"no", "dust", "out"}]
      /\ chan.remote \in [HTLC -> {"no", "dust", "out"}]
      /\ chan.pending \in [HTLC -> {"no", "dust", "out"}]
  BY ScenariosAssumption DEF Typed
<1>2. CommitsTyped
  BY <1>1 DEF CommitsTyped, Commits
<1> QED
  BY <1>2, ScenariosAssumption DEF Typed

\* A commitment's own action fails an HTLC only as its dust.
LEMMA OwnFailIsDust ==
    ASSUME NEW c \in [HTLC -> {"no", "dust", "out"}], NEW at, NEW trigger,
           NEW h \in Out,
           checkCommitChainActions(c, at, trigger)[h]
               \in {"failDust", "failDangling"}
    PROVE  c[h] = "dust"
<1>1. h \in HTLC /\ h \notin In
  BY DeltasAreHeights DEF HTLC
<1>2. checkCommitChainActions(c, at, trigger)[h]
        \in {"none", CommitAction(c, h, at)}
  BY <1>1 DEF checkCommitChainActions, NoActions
<1>3. CommitAction(c, h, at) \in {"failDust", "failDangling"}
  BY <1>2
<1>4. c[h] \in {"no", "dust", "out"}
  BY <1>1
<1> QED
  BY <1>1, <1>3, <1>4, CommitActionKinds

\* Whatever the trigger, an HTLC that is failed once k confirmed is dust on
\* it, or is not on it and nobody showed its preimage.
LEMMA ConfirmedFails ==
    ASSUME Typed, NEW k \in Commits, NEW at, NEW trigger, NEW h \in Out,
           constructChainActions(k, at, trigger)[h]
               \in {"failDust", "failDangling"}
    PROVE  chan[k][h] = "dust" \/ (chan[k][h] = "no" /\ h \notin known)
<1> DEFINE a == constructChainActions(k, at, trigger)[h]
<1>1. h \in HTLC /\ chan[k] \in [HTLC -> {"no", "dust", "out"}]
  BY ScenarioFacts DEF HTLC, CommitsTyped
<1>2. CASE k = "local"
  <2>1. a = checkLocalChainActions(at, trigger, TRUE)[h]
    BY <1>2, Zenon DEF constructChainActions
  <2>2. CASE h \in RemoteDangling
    <3>1. a = DanglingAction(h, at, TRUE)
      BY <2>1, <2>2, <1>1 DEF checkLocalChainActions, DeferDust
    <3>2. h \notin known
      BY <3>1, DanglingKinds
    <3> QED
      BY <1>1, <1>2, <2>2, <3>2 DEF RemoteDangling, On
  <2>3. CASE h \notin RemoteDangling
    <3>1. a = checkCommitChainActions(chan.local, at, trigger)[h]
      BY <2>1, <2>3, <1>1 DEF checkLocalChainActions, DeferDust
    <3> QED
      BY <1>1, <1>2, <3>1, OwnFailIsDust
  <2> QED
    BY <2>2, <2>3
<1>3. ASSUME NEW d, a = checkRemoteChainActions(chan[k], d, at, trigger)[h]
      PROVE  chan[k][h] = "dust" \/ (chan[k][h] = "no" /\ h \notin known)
  <2>1. a = IF h \notin (On(d) \ On(chan[k])) \cap Out
            THEN checkCommitChainActions(chan[k], at, trigger)[h]
            ELSE IF h \in known THEN "settleDangling"
            ELSE IF d[h] = "dust" THEN "failDust" ELSE "failDangling"
    BY <1>1, <1>3 DEF checkRemoteChainActions
  <2>2. CASE h \notin (On(d) \ On(chan[k])) \cap Out
    BY <1>1, <2>1, <2>2, OwnFailIsDust
  <2>3. CASE h \in (On(d) \ On(chan[k])) \cap Out
    <3>1. h \notin known
      BY <2>1, <2>3
    <3> QED
      BY <1>1, <2>3, <3>1 DEF On
  <2> QED
    BY <2>2, <2>3
<1>4. CASE k = "remote"
  <2>1. a = checkRemoteChainActions(chan.remote, chan.pending, at, trigger)[h]
    BY <1>4, Zenon DEF constructChainActions
  <2> QED
    BY <1>3, <1>4, <2>1
<1>5. CASE k = "pending"
  <2>1. a = checkRemoteChainActions(chan.pending, chan.remote, at, trigger)[h]
    BY <1>5, Zenon DEF constructChainActions
  <2> QED
    BY <1>3, <1>5, <2>1
<1> QED
  BY <1>2, <1>4, <1>5 DEF Commits

\* What is failed as dust before anything confirmed is safe to fail.
LEMMA EarlyFails ==
    ASSUME Typed, ChainOK, NEW at, NEW trigger, NEW h \in Out,
           checkLocalChainActions(at, trigger, FALSE)[h] = "failDust"
    PROVE  NeverPays(h)
<1>1. CommitsTyped /\ h \in HTLC
  BY ScenarioFacts DEF HTLC
<1>2. \A k \in Commits : chan[k][h] # "out"
  BY <1>1, DustHasNoOutput
<1>3. ASSUME h \in chan.settled
      PROVE  \A k \in Commits : chan[k][h] # "no"
  <2>1. h \in known
    BY <1>3 DEF ChainOK
  <2>2. h \notin RemoteDangling
    BY <1>1, <2>1 DEF checkLocalChainActions, DanglingAction, DeferDust
  <2>3. checkCommitChainActions(chan.local, at, trigger)[h] = "failDust"
    BY <1>1, <2>2 DEF checkLocalChainActions, DeferDust
  <2>4. chan.local \in [HTLC -> {"no", "dust", "out"}]
    BY <1>1 DEF CommitsTyped, Commits
  <2>5. chan.local[h] = "dust"
    BY <2>3, <2>4, OwnFailIsDust
  <2> QED
    BY <1>3, <2>5, ScenarioFacts DEF Commits
<1> QED
  BY <1>2, <1>3 DEF NeverPays

\* An HTLC nothing can pay for is safe in every state of the chain, and so is
\* one that the confirmed commitment does not pay for.
LEMMA SafeFails ==
    ASSUME Typed, ChainOK, LogOK, NEW h \in Out,
           \/ NeverPays(h)
           \/ /\ chain.spent \in Commits
              /\ \/ chan[chain.spent][h] = "dust"
                 \/ chan[chain.spent][h] = "no" /\ h \notin known
           \/ chain.spent \in {"breach", "coop"}
    PROVE  /\ ~PeerPaid(h) /\ chain.out[h] # "open"
           /\ chain.spent = "none" => NeverPays(h)
<1>1. /\ h \in HTLC
      /\ chain.out[h] # "none" =>
            chain.spent \in Commits /\ chan[chain.spent][h] = "out"
  BY DEF HTLC, ChainOK
<1>2. CASE NeverPays(h)
  <2>1. chain.out[h] = "none"
    BY <1>1, <1>2 DEF NeverPays
  <2> QED
    BY <1>2, <2>1 DEF NeverPays, PeerPaid
<1>3. CASE chain.spent \in Commits
           /\ \/ chan[chain.spent][h] = "dust"
              \/ chan[chain.spent][h] = "no" /\ h \notin known
  <2>1. chain.out[h] = "none" /\ chain.spent # "none"
    BY <1>1, <1>3 DEF Commits
  <2> QED
    BY <1>3, <2>1 DEF PeerPaid, ChainOK
<1>4. CASE chain.spent \in {"breach", "coop"}
  BY <1>1, <1>4 DEF PeerPaid, Commits
<1> QED
  BY <1>2, <1>3, <1>4

\* What StepDefault and StepContractClosed fail is safe to fail.
LEMMA StepFails ==
    ASSUME Typed, ChainOK, LogOK, StepDefault \/ StepContractClosed,
           NEW h \in Out, told'[h] = "fail", told[h] # "fail"
    PROVE  /\ ~PeerPaid(h) /\ chain.out[h] # "open"
           /\ chain.spent = "none" => NeverPays(h)
<1>0. told \in [Out -> {"none", "settle", "fail"}]
  BY DEF Typed
<1>1. /\ chain.spent \in Closes \cup {"none"} /\ arb.conf \in {"none", chain.spent}
      /\ arb.conf \in Closes \cup {"none"}
  BY DEF Typed, ChainType, LogOK, ArbType
<1>2. ASSUME arb.conf # "none",
             arb.conf = "breach"
             \/ constructChainActions(arb.conf, arb.at, arb.trigger)[h]
                    \in {"failDust", "failDangling"}
      PROVE  /\ ~PeerPaid(h) /\ chain.out[h] # "open"
             /\ chain.spent = "none" => NeverPays(h)
  <2>1. CASE arb.conf \in {"breach", "coop"}
    BY <1>1, <2>1, SafeFails
  <2>2. CASE arb.conf \notin {"breach", "coop"}
    <3>1. arb.conf \in Commits /\ arb.conf = chain.spent
      BY <1>1, <1>2, <2>2 DEF Closes, Commits
    <3>2. chan[arb.conf][h] = "dust"
          \/ (chan[arb.conf][h] = "no" /\ h \notin known)
      BY <1>2, <2>2, <3>1, ConfirmedFails
    <3> QED
      BY <3>1, <3>2, SafeFails
  <2> QED
    BY <2>1, <2>2
<1>3. CASE StepDefault
  <2> DEFINE acts == IF arb.conf = "none"
                     THEN checkLocalChainActions(arb.at, arb.trigger, FALSE)
                     ELSE constructChainActions(arb.conf, arb.at, arb.trigger)
  <2>1. told' = told \/ told' = Deliver(Doing(acts, {"failDust"}), {})
    BY <1>3, Zenon DEF StepDefault
  <2> HIDE DEF acts
  <2>2. acts[h] = "failDust"
    BY <1>0, <2>1, DeliverFacts DEF Doing
  <2>3. CASE arb.conf = "none"
    <3>1. checkLocalChainActions(arb.at, arb.trigger, FALSE)[h] = "failDust"
      BY <2>2, <2>3 DEF acts
    <3> QED
      BY <3>1, EarlyFails, SafeFails
  <2>4. CASE arb.conf # "none"
    BY <1>2, <2>2, <2>4 DEF acts
  <2> QED
    BY <2>3, <2>4
<1>4. CASE StepContractClosed
  <2> DEFINE acts == constructChainActions(arb.conf, arb.at, arb.trigger)
  <2>1. arb.conf # "none"
        /\ \/ arb.conf = "breach"
           \/ told' = Deliver(Doing(acts, {"failDangling", "failDust"}),
                              Doing(acts, {"settleDangling"}))
    BY <1>4 DEF StepContractClosed
  <2>2. arb.conf = "breach" \/ acts[h] \in {"failDust", "failDangling"}
    BY <1>0, <2>1, DeliverFacts DEF Doing
  <2> QED
    BY <1>2, <2>1, <2>2
<1> QED
  BY <1>3, <1>4

\* An HTLC that was failed upstream stays safe, and no other is failed.
LEMMA FailStep ==
    ASSUME Typed, ChainOK, LogOK, FailOK, [Next]_vars
    PROVE  FailOK'
<1>0. told \in [Out -> {"none", "settle", "fail"}]
  BY DEF Typed
<1>1. ASSUME chan' = chan, chain' = chain,
             \A h \in Out : told'[h] = "fail" /\ told[h] # "fail" =>
                /\ ~PeerPaid(h) /\ chain.out[h] # "open"
                /\ chain.spent = "none" => NeverPays(h)
      PROVE  FailOK'
  <2>1. \A h \in Out : PeerPaid(h)' <=> PeerPaid(h)
    BY <1>1 DEF PeerPaid
  <2>2. \A h \in Out : NeverPays(h)' <=> NeverPays(h)
    BY <1>1 DEF NeverPays
  <2> QED
    BY <1>1, <2>1, <2>2 DEF FailOK
<1>2. CASE Arbitrating
  <2>1. chan' = chan /\ chain' = chain
    BY <1>2, ChainFrame
  <2>2. StepDefault \/ StepContractClosed \/ told' = told
    BY <1>2 DEF Arbitrating, CommitState, HandleBlockbeat, HandleClose,
       LogContractResolutions, InsertConfirmedCommitSet, MarkChannelClosed,
       StepBroadcastCommit, StepCommitmentBroadcasted,
       StepWaitingFullResolution, StepFullyResolved, ResolutionSignal
  <2> QED
    BY <1>1, <2>1, <2>2, StepFails
<1>3. ASSUME NEW h \in Out, ResolvingOut(h)
      PROVE  FailOK'
  <2>1. chan' = chan /\ chain' = chain
    BY <1>3, ChainFrame
  <2>2. \/ told' = told
        \/ told' = Deliver({}, {h})
        \/ told' = Deliver({h}, {}) /\ chain.out[h] = "ours"
    BY <1>3 DEF ResolvingOut, ContestExpires, ClaimCleanUp, ContestMistaken,
       TimeoutFails, CheckpointAnswered
  <2>3. ASSUME NEW g \in Out, told'[g] = "fail", told[g] # "fail"
        PROVE  g = h /\ chain.out[h] = "ours"
    <3>1. CASE told' = told
      BY <2>3, <3>1
    <3>2. CASE told' = Deliver({}, {h})
      BY <1>0, <2>3, <3>2, DeliverFacts
    <3>3. CASE told' = Deliver({h}, {}) /\ chain.out[h] = "ours"
      BY <1>0, <2>3, <3>3, DeliverFacts
    <3> QED
      BY <2>2, <3>1, <3>2, <3>3
  <2>4. chain.out[h] = "ours" =>
          /\ ~PeerPaid(h) /\ chain.out[h] # "open" /\ chain.spent # "none"
    BY DEF ChainOK, PeerPaid, HTLC, Commits
  <2> QED
    BY <1>1, <2>1, <2>3, <2>4
<1>4. ASSUME NEW k \in Closes, Confirm(k)
      PROVE  FailOK'
  <2>1. /\ chain'.spent = k /\ chan' = chan /\ told' = told
        /\ chain.spent = "none" /\ k # "none"
        /\ \A h \in HTLC : chain'.out[h] =
              IF k \in Commits /\ chan[k][h] = "out" THEN "open" ELSE "none"
    BY <1>4 DEF Confirm, Closes
  <2>2. ASSUME NEW h \in Out, told'[h] = "fail"
        PROVE  ~PeerPaid(h)' /\ chain'.out[h] # "open"
    <3>1. NeverPays(h) /\ h \in HTLC
      BY <2>1, <2>2 DEF FailOK, HTLC
    <3>2. chain'.out[h] = "none"
      BY <2>1, <3>1 DEF NeverPays
    <3> QED
      BY <2>1, <3>1, <3>2 DEF NeverPays, PeerPaid
  <2> QED
    BY <2>1, <2>2 DEF FailOK
<1>5. ASSUME NEW h \in HTLC, NEW by \in {"ours", "theirs"}, Spend(h, by)
      PROVE  FailOK'
  <2>1. /\ chain'.spent = chain.spent /\ chan' = chan /\ told' = told
        /\ chain.out[h] = "open" /\ chain.spent # "none"
        /\ \A g \in HTLC \ {h} : chain'.out[g] = chain.out[g]
    BY <1>5 DEF Spend, Typed, ChainType, ChainOK, Commits
  <2>2. ASSUME NEW g \in Out, told'[g] = "fail"
        PROVE  ~PeerPaid(g)' /\ chain'.out[g] # "open"
    <3>1. g # h /\ g \in HTLC
      BY <2>1, <2>2 DEF FailOK, HTLC
    <3> QED
      BY <2>1, <2>2, <3>1 DEF FailOK, PeerPaid
  <2> QED
    BY <2>1, <2>2 DEF FailOK
<1>6. ASSUME \/ UserForceClose \/ Crash \/ Restart \/ NewBlock
             \/ \E h \in In : ResolvingIn(h) \/ LearnPreimage(h)
             \/ \E x \in Keys : Resolving(x)
      PROVE  FailOK'
  <2>1. told' = told
    BY <1>6 DEF UserForceClose, Crash, Restart, NewBlock, ResolvingIn,
       ContestClaims, ContestAbandons, SuccessSpent, LearnPreimage, Resolving,
       SweepConfirms, ResolveContract
  <2> QED
    BY <1>1, <1>6, <2>1, ChainFrame
<1>7. CASE UNCHANGED vars
  BY <1>1, <1>7 DEF vars
<1> QED
  BY <1>2, <1>3, <1>4, <1>5, <1>6, <1>7, NextCases

----------------------------------------------------------------------------
(* How many contracts and signals there are. *)

\* There are no more keys than HTLCs and our own output.
LEMMA KeysCounted ==
    ASSUME NEW S \in SUBSET Keys
    PROVE  /\ IsFiniteSet(S) /\ Cardinality(S) \in Nat
           /\ Cardinality(S) <= Cardinality(HTLC) + 1
           /\ Cardinality(HTLC) \in Nat
<1>1. IsFiniteSet(HTLC) /\ Self \notin HTLC
  BY DeltasAreHeights
<1>2. IsFiniteSet(Keys) /\ Cardinality(Keys) = Cardinality(HTLC) + 1
  BY <1>1, FS_AddElement DEF Keys
<1>3. IsFiniteSet(S) /\ Cardinality(S) <= Cardinality(Keys)
  BY <1>2, FS_Subset
<1> QED
  BY <1>1, <1>2, <1>3, FS_CardinalityType

\* A step that leaves goroutines and contracts alone and takes no step back.
LEMMA CountFrame ==
    ASSUME Typed, CountOK, DOMAIN active' = DOMAIN active,
           DOMAIN disk'.contracts = DOMAIN disk.contracts,
           signals' \in Nat, signals' <= signals,
           ResolversWritten => ResolversWritten',
           arb.pc # "down" => arb'.pc # "down",
           arb'.pc = "commit" /\ arb'.state \in {"waiting", "resolved"} =>
              arb'.next = "resolved"
    PROVE  CountOK'
<1>1. disk.contracts \in Maps(Kinds)
  BY DEF Typed, DiskType
<1>2. Cardinality(DOMAIN disk.contracts) \in Nat /\ Cardinality(HTLC) \in Nat
  BY <1>1, MapsFacts, KeysCounted
<1>3. signals \in Nat
  BY DEF Typed
<1>4. signals = 0 => signals' = 0
  BY <1>3
<1>5. ~ResolversWritten' \/ arb'.pc = "down" =>
        ~ResolversWritten \/ arb.pc = "down"
  OBVIOUS
<1> QED
  BY <1>2, <1>3, <1>4, <1>5 DEF CountOK

\* The attendant's steps start goroutines only for contracts of the log.
LEMMA CountArbitrating ==
    ASSUME Typed, LogOK, CountOK, Arbitrating
    PROVE  CountOK'
<1>0. disk \in DiskType /\ arb \in ArbType /\ signals \in Nat
      /\ disk.contracts \in Maps(Kinds)
  BY DEF Typed, DiskType
<1>1. CASE CommitState
  <2>1. /\ arb'.pc = "step" /\ arb'.state = arb.next /\ arb.pc = "commit"
        /\ disk'.contracts = disk.contracts /\ active' = active
        /\ signals' = signals
    BY <1>0, <1>1 DEF CommitState, ArbType, DiskType
  <2>2. ResolversWritten => ResolversWritten'
    BY <2>1 DEF ResolversWritten, CountOK
  <2> QED
    BY <1>0, <2>1, <2>2, CountFrame
<1>2. CASE HandleBlockbeat \/ HandleClose \/ LogContractResolutions
           \/ InsertConfirmedCommitSet \/ MarkChannelClosed \/ ResolutionSignal
  <2>1. /\ disk'.contracts = disk.contracts /\ active' = active
        /\ signals' \in Nat /\ signals' <= signals
    <3>1. CASE HandleBlockbeat \/ HandleClose
      <4>1. disk' = disk /\ active' = active /\ signals' = signals
        BY <3>1 DEF HandleBlockbeat, HandleClose
      <4> QED
        BY <1>0, <4>1
    <3>2. CASE LogContractResolutions \/ InsertConfirmedCommitSet
               \/ MarkChannelClosed
      <4>1. disk'.contracts = disk.contracts
        BY <1>0, <3>2 DEF LogContractResolutions, InsertConfirmedCommitSet,
           MarkChannelClosed, DiskType
      <4>2. active' = active /\ signals' = signals
        BY <3>2 DEF LogContractResolutions, InsertConfirmedCommitSet,
           MarkChannelClosed
      <4> QED
        BY <1>0, <4>1, <4>2
    <3>3. CASE ResolutionSignal
      <4>1. signals > 0 /\ signals' = signals - 1
        BY <3>3 DEF ResolutionSignal
      <4>2. signals' \in Nat /\ signals' <= signals
        BY <1>0, <4>1
      <4> QED
        BY <3>3, <4>2 DEF ResolutionSignal
    <3> QED
      BY <1>2, <3>1, <3>2, <3>3
  <2>2. arb' = arb
        \/ \E t, at, conf, boot : Advance(t, at, conf, boot)
        \/ \E pc \in {"log", "set", "mark"} : arb' = [arb EXCEPT !.pc = pc]
    BY <1>2 DEF HandleBlockbeat, HandleClose, LogContractResolutions,
       InsertConfirmedCommitSet, MarkChannelClosed, ResolutionSignal
  <2>3. arb.pc # "commit" /\ arb.pc # "down"
    BY <1>2 DEF HandleBlockbeat, HandleClose, LogContractResolutions,
       InsertConfirmedCommitSet, MarkChannelClosed, ResolutionSignal, Idle
  <2>4. /\ arb'.state = arb.state /\ arb'.pc # "commit" /\ arb'.pc # "down"
    <3>1. ASSUME NEW t, NEW at, NEW conf, NEW boot, Advance(t, at, conf, boot)
          PROVE  arb'.state = arb.state /\ arb'.pc = "step"
      BY <1>0, <3>1 DEF Advance, ArbType
    <3>2. ASSUME NEW pc \in {"log", "set", "mark"}, arb' = [arb EXCEPT !.pc = pc]
          PROVE  arb'.state = arb.state /\ arb'.pc = pc
      BY <1>0, <3>2 DEF ArbType
    <3> QED
      BY <2>2, <2>3, <3>1, <3>2
  <2>5. ResolversWritten => ResolversWritten'
    BY <2>3, <2>4 DEF ResolversWritten
  <2> QED
    BY <2>1, <2>4, <2>5, CountFrame
<1>3. ASSUME arb.pc = "step", NEW next \in States, Return(next),
             arb.state \in {"waiting", "resolved"} =>
                next \in {arb.state, "resolved"},
             disk'.contracts = disk.contracts, active' = active,
             signals' = signals
      PROVE  CountOK'
  <2>1. /\ next = arb.state => arb'.pc = "idle" /\ arb'.state = next
        /\ next # arb.state => arb'.pc = "commit" /\ arb'.state = arb.state
                               /\ arb'.next = next
    BY <1>0, <1>3, ReturnFacts
  <2>2. ResolversWritten => ResolversWritten'
    BY <1>3, <2>1 DEF ResolversWritten
  <2> QED
    BY <1>0, <1>3, <2>1, <2>2, CountFrame
<1>4. CASE StepDefault \/ StepBroadcastCommit \/ StepCommitmentBroadcasted
  <2>1. /\ arb.pc = "step" /\ disk' = disk /\ active' = active
        /\ signals' = signals /\ arb.state \notin {"waiting", "resolved"}
    BY <1>4 DEF StepDefault, StepBroadcastCommit, StepCommitmentBroadcasted,
       Step
  <2>2. ~Initiating => AfterClose \in States
    BY <2>1, InitiatingFacts, AfterCloseFacts DEF States
  <2>3. PICK next \in States : Return(next)
    BY <1>4, <2>2 DEF StepDefault, StepBroadcastCommit,
       StepCommitmentBroadcasted, States
  <2> QED
    BY <1>3, <2>1, <2>3
<1>5. CASE StepContractClosed
  <2> DEFINE acts == constructChainActions(arb.conf, arb.at, arb.trigger)
             rs == prepContractResolutions(arb.conf, acts)
             cs == InsertUnresolvedContracts(rs, disk.contracts)
  <2>1. rs \in Maps(Kinds)
    BY PreparedFacts
  <2> HIDE DEF acts
  <2>2. arb.pc = "step" /\ arb.state = "closed" /\ signals' = signals
    BY <1>5 DEF StepContractClosed, Step
  <2>3. \/ /\ UNCHANGED <<disk, active>>
           /\ \E next \in States : Return(next)
        \/ /\ disk' = [disk EXCEPT !.contracts = cs]
           /\ active' = [x \in DOMAIN rs |-> "run"]
           /\ Return("waiting")
    BY <1>5 DEF StepContractClosed, States, acts
  <2> HIDE DEF rs
  <2>4. cs \in Maps(Kinds) /\ DOMAIN rs \subseteq DOMAIN cs
    <3>1. cs \in Maps(Kinds)
      BY <1>0, <2>1, InsertedFacts
    <3>2. DOMAIN cs = DOMAIN rs \cup DOMAIN disk.contracts
      BY DEF InsertUnresolvedContracts
    <3> QED
      BY <3>1, <3>2
  <2> HIDE DEF cs
  <2>5. CASE UNCHANGED <<disk, active>> /\ \E next \in States : Return(next)
    BY <1>3, <2>2, <2>5
  <2>6. CASE /\ disk' = [disk EXCEPT !.contracts = cs]
             /\ active' = [x \in DOMAIN rs |-> "run"]
             /\ Return("waiting")
    <3>1. arb'.pc = "commit" /\ arb'.next = "waiting" /\ arb'.state = "closed"
      BY <1>0, <2>2, <2>6, ReturnFacts DEF States
    <3>2. signals = 0
      BY <2>2 DEF CountOK, ResolversWritten
    <3>3. disk'.contracts = cs
      BY <1>0, <2>6 DEF DiskType
    <3>4. /\ Cardinality(DOMAIN cs) <= Cardinality(HTLC) + 1
          /\ Cardinality(DOMAIN cs) \in Nat
      BY <2>4, MapsFacts, KeysCounted
    <3> QED
      BY <2>2, <2>4, <2>6, <3>1, <3>2, <3>3, <3>4 DEF CountOK, ResolversWritten
  <2> QED
    BY <2>3, <2>5, <2>6
<1>6. CASE StepWaitingFullResolution
  <2>1. /\ arb.pc = "step" /\ arb.state = "waiting" /\ signals' = signals
        /\ disk' = disk
    BY <1>6 DEF StepWaitingFullResolution, Step
  <2>2. CASE active' = active
    <3>1. PICK next \in {"waiting", "resolved"} : Return(next)
      BY <1>6 DEF StepWaitingFullResolution
    <3> QED
      BY <1>3, <2>1, <2>2, <3>1 DEF States
  <2>3. CASE active' # active
    <3>1. /\ Return("waiting")
          /\ active' = [x \in Unresolved(disk.contracts) |-> "run"]
      BY <1>6, <2>3 DEF StepWaitingFullResolution
    <3>2. arb'.pc = "idle" /\ arb'.state = "waiting"
      BY <1>0, <2>1, <3>1, ReturnFacts DEF States
    <3>3. DOMAIN active' \subseteq DOMAIN disk.contracts
      BY <3>1 DEF Unresolved
    <3> QED
      BY <2>1, <3>2, <3>3 DEF CountOK, ResolversWritten
  <2> QED
    BY <2>2, <2>3
<1>7. CASE StepFullyResolved
  <2>1. /\ arb.pc = "step" /\ arb.state = "resolved" /\ Return("resolved")
        /\ disk'.contracts = disk.contracts /\ active' = active
        /\ signals' = signals
    BY <1>0, <1>7 DEF StepFullyResolved, Step, DiskType
  <2> QED
    BY <1>3, <2>1 DEF States
<1> QED
  BY <1>1, <1>2, <1>4, <1>5, <1>6, <1>7 DEF Arbitrating

\* A contract that leaves the log takes its goroutine with it and signals.
LEMMA CountResolving ==
    ASSUME Typed, CountOK,
           \/ \E h \in Out : ResolvingOut(h)
           \/ \E h \in In : ResolvingIn(h)
           \/ \E x \in Keys : Resolving(x)
    PROVE  CountOK'
<1>0. disk \in DiskType /\ arb \in ArbType /\ signals \in Nat
      /\ disk.contracts \in Maps(Kinds) /\ active \in Maps({"run", "told"})
  BY DEF Typed, DiskType
<1>1. arb' = arb
  BY ResolvingFrame
<1>2. ResolversWritten' <=> ResolversWritten
  BY <1>1 DEF ResolversWritten
<1>3. ASSUME DOMAIN disk'.contracts = DOMAIN disk.contracts,
             DOMAIN active' = DOMAIN active, signals' = signals
      PROVE  CountOK'
  BY <1>0, <1>1, <1>2, <1>3, CountFrame DEF CountOK
<1>4. \A x, kind : Checkpoint(x, kind) =>
         DOMAIN disk'.contracts = DOMAIN disk.contracts
  <2> TAKE x, kind
  <2> DEFINE new == [disk.contracts EXCEPT ![x] = kind]
  <2>1. DOMAIN new = DOMAIN disk.contracts
    BY <1>0, MapsFacts
  <2> HIDE DEF new
  <2> QED
    BY <1>0, <2>1 DEF Checkpoint, DiskType, new
<1>5. \A h, v : DOMAIN [active EXCEPT ![h] = v] = DOMAIN active
  BY <1>0, MapsFacts
<1>6. ASSUME NEW h \in Out, ResolvingOut(h), ~ContestMistaken(h)
      PROVE  CountOK'
  <2>1. disk' = disk \/ \E kind : Checkpoint(h, kind)
    BY <1>6 DEF ResolvingOut, ContestExpires, ClaimCleanUp, TimeoutFails,
       CheckpointAnswered
  <2>2. signals' = signals
        /\ (active' = active \/ \E v : active' = [active EXCEPT ![h] = v])
    BY <1>6 DEF ResolvingOut, ContestExpires, ClaimCleanUp, TimeoutFails,
       CheckpointAnswered
  <2> QED
    BY <1>3, <1>4, <1>5, <2>1, <2>2
<1>7. ASSUME NEW h \in Out, ContestMistaken(h)
      PROVE  CountOK'
  <2>1. DOMAIN active' = DOMAIN active \ {h} /\ h \in DOMAIN active
    BY <1>7 DEF ContestMistaken, Running, Restrict
  <2>2. disk' = disk /\ signals' = signals
    BY <1>7 DEF ContestMistaken
  <2> QED
    BY <1>1, <1>2, <2>1, <2>2 DEF CountOK
<1>8. ASSUME NEW h \in In, ResolvingIn(h)
      PROVE  CountOK'
  <2>1. active' = active /\ signals' = signals /\ \E kind : Checkpoint(h, kind)
    BY <1>8 DEF ResolvingIn, ContestClaims, ContestAbandons, SuccessSpent
  <2> QED
    BY <1>3, <1>4, <2>1
<1>9. ASSUME NEW x \in Keys, SweepConfirms(x)
      PROVE  CountOK'
  <2>1. active' = active /\ signals' = signals /\ Checkpoint(x, "resolved")
    BY <1>9 DEF SweepConfirms
  <2> QED
    BY <1>3, <1>4, <2>1
<1>10. ASSUME NEW x \in Keys, ResolveContract(x)
       PROVE  CountOK'
  <2> DEFINE D == DOMAIN disk.contracts
  <2>1. x \in DOMAIN active /\ x \in D
    BY <1>10 DEF ResolveContract, Running, CountOK
  <2>2. DOMAIN active' = DOMAIN active \ {x}
    BY <1>10 DEF ResolveContract, Restrict
  <2>3. DOMAIN disk'.contracts = D \ {x}
    <3> DEFINE cs == Restrict(disk.contracts, D \ {x})
    <3>1. DOMAIN cs = D \ {x}
      BY DEF Restrict
    <3>2. disk' = [disk EXCEPT !.contracts = cs]
      BY <1>10 DEF ResolveContract
    <3> HIDE DEF cs
    <3> QED
      BY <1>0, <3>1, <3>2 DEF DiskType
  <2>4. IsFiniteSet(D) /\ Cardinality(D) \in Nat /\ Cardinality(HTLC) \in Nat
    BY <1>0, MapsFacts, KeysCounted
  <2>5. Cardinality(D \ {x}) = Cardinality(D) - 1
    BY <2>1, <2>4, FS_RemoveElement
  <2>6. signals' = signals + 1
    BY <1>10 DEF ResolveContract
  <2>7. signals' + Cardinality(DOMAIN disk'.contracts) <= Cardinality(HTLC) + 1
    BY <1>0, <2>3, <2>4, <2>5, <2>6 DEF CountOK
  <2>8. ResolversWritten /\ arb.pc # "down"
    BY <2>1 DEF CountOK
  <2> QED
    BY <1>1, <1>2, <2>2, <2>3, <2>7, <2>8 DEF CountOK
<1> QED
  BY <1>6, <1>7, <1>8, <1>9, <1>10 DEF Resolving

\* The network, the user and a restart start no goroutine; a crash ends all.
LEMMA CountOthers ==
    ASSUME Typed, LogOK, CountOK,
           \/ NewBlock
           \/ \E k \in Closes : Confirm(k)
           \/ \E h \in HTLC, by \in {"ours", "theirs"} : Spend(h, by)
           \/ \E h \in In : LearnPreimage(h)
           \/ UserForceClose \/ Crash \/ Restart
           \/ UNCHANGED vars
    PROVE  CountOK'
<1>0. disk \in DiskType /\ arb \in ArbType /\ signals \in Nat
      /\ disk.contracts \in Maps(Kinds) /\ active \in Maps({"run", "told"})
  BY DEF Typed, DiskType
<1>1. CASE \/ NewBlock
           \/ \E k \in Closes : Confirm(k)
           \/ \E h \in HTLC, by \in {"ours", "theirs"} : Spend(h, by)
           \/ \E h \in In : LearnPreimage(h)
           \/ UNCHANGED vars
  <2>1. arb' = arb /\ disk' = disk /\ active' = active /\ signals' = signals
    BY <1>1 DEF NewBlock, Confirm, Spend, LearnPreimage, vars
  <2> QED
    BY <2>1 DEF CountOK, ResolversWritten
<1>2. CASE UserForceClose
  <2>1. /\ arb'.pc = "step" /\ arb'.state = arb.state /\ arb.state = "default"
        /\ disk' = disk /\ active' = active /\ signals' = signals
        /\ arb.pc = "idle"
    BY <1>0, <1>2 DEF UserForceClose, Advance, ArbType, Idle
  <2> QED
    BY <2>1 DEF CountOK, ResolversWritten
<1>3. CASE Crash
  <2>1. /\ arb'.pc = "down" /\ DOMAIN active' = {} /\ signals' = 0
        /\ disk' = disk
    BY <1>3, EmptyMap DEF Crash, AtRest
  <2>2. /\ Cardinality(DOMAIN disk.contracts) <= Cardinality(HTLC) + 1
        /\ Cardinality(DOMAIN disk.contracts) \in Nat
    BY <1>0, MapsFacts, KeysCounted
  <2> QED
    BY <2>1, <2>2 DEF CountOK
<1>4. CASE Restart
  <2>1. /\ arb'.pc = "step" /\ arb.pc = "down"
        /\ disk' = disk /\ active' = active /\ signals' = signals
    BY <1>4 DEF Restart
  <2> QED
    BY <2>1 DEF CountOK
<1> QED
  BY <1>1, <1>2, <1>3, <1>4

----------------------------------------------------------------------------
(* The theorems about the state machine. *)

\* The invariant holds before anything happened.
LEMMA IInvInit ==
    ASSUME Init
    PROVE  IInv
<1>1. Typed
  BY TypedInit
<1>2. /\ arb.pc = "idle" /\ arb.state = "default" /\ arb.conf = "none"
      /\ arb.trigger = "none" /\ disk.state = "default" /\ disk.res = "none"
      /\ disk.set = "none" /\ disk.closed = "none" /\ chain.spent = "none"
      /\ DOMAIN disk.contracts = {} /\ DOMAIN active = {} /\ signals = 0
      /\ known = chan.settled /\ \A h \in HTLC : chain.out[h] = "none"
      /\ \A h \in Out : told[h] = "none"
  BY EmptyMap DEF Init, AtRest
<1>3. ChainOK /\ FailOK
  BY <1>2 DEF ChainOK, FailOK
<1>4. LogOK
  BY <1>2 DEF LogOK, CloseTriggers
<1>5. CountOK
  <2>1. Cardinality({}) = 0 /\ Cardinality(HTLC) \in Nat
    BY FS_EmptySet, KeysCounted
  <2> QED
    BY <1>2, <2>1 DEF CountOK, ResolversWritten
<1> QED
  BY <1>1, <1>3, <1>4, <1>5 DEF IInv

\* Every step keeps it.
LEMMA IInvStep ==
    ASSUME IInv, [Next]_vars
    PROVE  IInv'
<1> USE DEF IInv
<1>1. Typed'
  <2>1. CASE UNCHANGED vars
    BY <2>1 DEF Typed, vars
  <2> QED
    BY <2>1, TypedArbitrating, TypedResolving, TypedOthers DEF Next, Keys
<1>2. ChainOK'
  BY ChainStep
<1>3. LogOK'
  BY LogStep
<1>4. FailOK'
  BY FailStep
<1>5. CountOK'
  BY CountArbitrating, CountResolving, CountOthers, NextCases
<1> QED
  BY <1>1, <1>2, <1>3, <1>4, <1>5

\* It holds in every reachable state.
LEMMA IInvAlways == Spec => []IInv
<1>1. Init => IInv
  BY IInvInit
<1>2. IInv /\ [Next]_vars => IInv'
  BY IInvStep
<1> QED
  BY <1>1, <1>2, PTL DEF Spec

\* Type correctness: through any crashes the log holds at most one close and
\* the commit set of that close, goroutines run only for contracts in the
\* log, and no more goroutines wait to signal than there were contracts.
THEOREM TypeCorrect == Spec => []TypeOK
<1>1. IInv => TypeOK
  <2> SUFFICES ASSUME IInv PROVE TypeOK
    OBVIOUS
  <2> USE DEF IInv
  <2>1. /\ height \in 0..MaxHeight /\ chain.at \in 0..height
        /\ chain.out \in [HTLC -> {"none", "open", "ours", "theirs"}]
        /\ swept \subseteq HTLC /\ known \subseteq HTLC
        /\ told \in [Out -> {"none", "settle", "fail"}]
    BY DeltasAreHeights DEF Typed, ChainType
  <2>2. /\ disk.state \in States \cup {"gone"}
        /\ disk.res \in Closes \cup {"none"} /\ disk.set \in {"none", disk.res}
    BY DEF Typed, DiskType, LogOK
  <2>3. disk.contracts \in Maps(Kinds)
    BY DEF Typed, DiskType
  <2>4. /\ Cardinality(DOMAIN disk.contracts) \in Nat
        /\ Cardinality(HTLC) \in Nat
    BY <2>3, MapsFacts, KeysCounted
  <2>5. signals \in 0..Cardinality(HTLC) + 1
    BY <2>4 DEF Typed, CountOK
  <2> QED
    BY <2>1, <2>2, <2>5 DEF TypeOK, States, CountOK
<1> QED
  BY <1>1, IInvAlways, PTL

\* For any HTLCs, expiries and commitments, and any number of crashes: an
\* HTLC is failed upstream only when the peer can no longer be paid for it.
THEOREM FailsAreSafe == Spec => []FailedWhenSafe
<1>1. IInv => FailedWhenSafe
  BY DEF IInv, FailOK, FailedWhenSafe, NeverPays
<1> QED
  BY <1>1, IInvAlways, PTL

----------------------------------------------------------------------------
(* Every HTLC is answered, unless a crash fell in StateContractClosed. *)

\* No action concerns an outgoing HTLC as an incoming one.
LEMMA OutActions ==
    ASSUME Typed, NEW k \in Commits, NEW at, NEW trigger, NEW h \in Out
    PROVE  constructChainActions(k, at, trigger)[h] # "watchIn"
<1> DEFINE a == constructChainActions(k, at, trigger)[h]
<1>1. h \in HTLC /\ h \notin In
  BY DeltasAreHeights DEF HTLC
<1>2. ASSUME NEW c \in [HTLC -> {"no", "dust", "out"}]
      PROVE  checkCommitChainActions(c, at, trigger)[h] # "watchIn"
  <2>1. checkCommitChainActions(c, at, trigger)[h]
          \in {"none", CommitAction(c, h, at)}
    BY <1>1 DEF checkCommitChainActions, NoActions
  <2>2. c[h] \in {"no", "dust", "out"}
    BY <1>1
  <2> QED
    BY <1>1, <2>1, <2>2, CommitActionKinds
<1>3. /\ chan.local \in [HTLC -> {"no", "dust", "out"}]
      /\ chan.remote \in [HTLC -> {"no", "dust", "out"}]
      /\ chan.pending \in [HTLC -> {"no", "dust", "out"}]
  BY ScenarioFacts DEF CommitsTyped, Commits
<1>4. ASSUME NEW c \in [HTLC -> {"no", "dust", "out"}], NEW d
      PROVE  checkRemoteChainActions(c, d, at, trigger)[h] # "watchIn"
  BY <1>1, <1>2 DEF checkRemoteChainActions
<1>5. CASE k = "local"
  <2>1. a = checkLocalChainActions(at, trigger, TRUE)[h]
    BY <1>5, Zenon DEF constructChainActions
  <2> QED
    BY <1>1, <1>2, <1>3, <2>1, DanglingKinds
       DEF checkLocalChainActions, DeferDust
<1>6. CASE k = "remote"
  <2>1. a = checkRemoteChainActions(chan.remote, chan.pending, at, trigger)[h]
    BY <1>6, Zenon DEF constructChainActions
  <2> QED
    BY <1>3, <1>4, <2>1
<1>7. CASE k = "pending"
  <2>1. a = checkRemoteChainActions(chan.pending, chan.remote, at, trigger)[h]
    BY <1>7, Zenon DEF constructChainActions
  <2> QED
    BY <1>3, <1>4, <2>1
<1> QED
  BY <1>5, <1>6, <1>7 DEF Commits

\* The resolvers of outgoing HTLCs, and who gets one.
LEMMA PreparedForOut ==
    ASSUME Typed, NEW k \in Commits \cup {"breach"}, NEW at, NEW trigger,
           NEW h \in Out
    PROVE  LET acts == constructChainActions(k, at, trigger)
               rs == prepContractResolutions(k, acts)
           IN /\ h \in DOMAIN rs => rs[h] \in OutKinds
              /\ k \in Commits /\ acts[h] \in {"timeout", "watchOut"} =>
                    h \in DOMAIN rs
<1> DEFINE acts == constructChainActions(k, at, trigger)
           rs == prepContractResolutions(k, acts)
<1>1. h \in HTLC /\ h # Self
  BY DeltasAreHeights DEF HTLC
<1>2. CASE k = "breach"
  <2>1. rs = [x \in {Self} |-> "breach"]
    BY <1>2 DEF prepContractResolutions
  <2> QED
    BY <1>1, <1>2, <2>1 DEF Commits
<1>3. CASE k \in Commits
  <2>1. acts[h] # "watchIn"
    BY <1>3, OutActions
  <2> HIDE DEF acts
  <2> DEFINE hs == Doing(acts, DOMAIN ResolverOf)
  <2>2. rs = [x \in hs \cup (IF chan.self THEN {Self} ELSE {}) |->
                IF x = Self THEN "sweep" ELSE ResolverOf[acts[x]]]
    BY <1>3 DEF prepContractResolutions, Commits
  <2>3. h \in DOMAIN rs <=> h \in hs
    BY <1>1, <2>2
  <2>4. h \in hs <=> acts[h] \in {"timeout", "watchOut", "watchIn"}
    BY <1>1 DEF Doing, ResolverOf
  <2>5. h \in hs => rs[h] = ResolverOf[acts[h]]
    BY <1>1, <2>2
  <2>6. ResolverOf.timeout \in OutKinds /\ ResolverOf.watchOut \in OutKinds
    BY DEF ResolverOf, OutKinds
  <2>7. /\ h \in DOMAIN rs => rs[h] \in OutKinds
        /\ acts[h] \in {"timeout", "watchOut"} => h \in DOMAIN rs
    BY <2>1, <2>3, <2>4, <2>5, <2>6
  <2> QED
    BY <2>7 DEF acts
<1> QED
  BY <1>2, <1>3

\* Once a close is known, StateContractClosed forgets no outgoing HTLC.
LEMMA ClosedAnswers ==
    ASSUME Typed, NEW k \in Commits \cup {"breach"}, NEW at, NEW trigger,
           trigger # "chain", NEW h \in Out, OnSome(h),
           NEW told2,
           told2 = LET acts == constructChainActions(k, at, trigger)
                   IN IF k = "breach"
                      THEN Deliver(Out \cap (On(chan.remote)
                                             \cup On(chan.pending)), {})
                      ELSE Deliver(Doing(acts, {"failDangling", "failDust"}),
                                   Doing(acts, {"settleDangling"}))
    PROVE  \/ told2[h] # "none"
           \/ h \in DOMAIN prepContractResolutions(k,
                              constructChainActions(k, at, trigger))
<1> DEFINE acts == constructChainActions(k, at, trigger)
<1>0. told \in [Out -> {"none", "settle", "fail"}]
  BY DEF Typed
<1>1. h \in HTLC /\ h \notin In /\ CommitsTyped
  BY DeltasAreHeights, ScenarioFacts DEF HTLC
<1>2. chan.remote[h] # "no" \/ chan.pending[h] # "no"
  BY ScenarioFacts DEF OnSome, On, Commits
<1>3. CASE k = "breach"
  <2>1. h \in Out \cap (On(chan.remote) \cup On(chan.pending))
    BY <1>1, <1>2 DEF On
  <2> QED
    BY <1>0, <1>3, <2>1, DeliverFacts
<1>4. CASE k \in Commits
  <2>1. k # "breach"
    BY <1>4 DEF Commits
  <2>2. chan[k][h] # "no" \/ LeftOut(k, h)
    BY <1>2, <1>4 DEF LeftOut, Commits
  <2>3. acts[h] \in Answering
    BY <1>1, <1>4, <2>2, NoHtlcForgotten
  <2>4. acts[h] \in {"timeout", "watchOut"} =>
          h \in DOMAIN prepContractResolutions(k, acts)
    BY <1>4, PreparedForOut
  <2>5. told2 = Deliver(Doing(acts, {"failDangling", "failDust"}),
                        Doing(acts, {"settleDangling"}))
    BY <2>1
  <2> HIDE DEF acts
  <2>6. acts[h] \in {"failDangling", "failDust", "settleDangling"} =>
          told2[h] # "none"
    BY <1>0, <1>1, <2>5, DeliverFacts DEF Doing
  <2> QED
    BY <2>3, <2>4, <2>6 DEF Answering, acts
<1> QED
  BY <1>3, <1>4

\* The switch never takes an answer back.
LEMMA ToldKept ==
    ASSUME Typed, [Next]_vars, NEW h \in Out, told[h] # "none"
    PROVE  told'[h] # "none"
<1>0. told \in [Out -> {"none", "settle", "fail"}]
  BY DEF Typed
<1>1. told' = told \/ \E fails, settles : told' = Deliver(fails, settles)
  <2>1. CASE Arbitrating
    <3>1. CASE StepDefault
      <4>1. told' = told \/ \E fails : told' = Deliver(fails, {})
        BY <3>1, Zenon DEF StepDefault
      <4> QED
        BY <4>1
    <3>2. CASE StepContractClosed
      BY <3>2 DEF StepContractClosed
    <3> QED
      BY <2>1, <3>1, <3>2 DEF Arbitrating, CommitState, HandleBlockbeat,
         HandleClose, LogContractResolutions, InsertConfirmedCommitSet,
         MarkChannelClosed, StepBroadcastCommit, StepCommitmentBroadcasted,
         StepWaitingFullResolution, StepFullyResolved, ResolutionSignal
  <2>2. CASE \E g \in Out : ResolvingOut(g)
    BY <2>2 DEF ResolvingOut, ContestExpires, ClaimCleanUp, ContestMistaken,
       TimeoutFails, CheckpointAnswered
  <2>3. CASE \/ \E g \in In : ResolvingIn(g)
             \/ \E x \in Keys : Resolving(x)
    BY <2>3 DEF ResolvingIn, ContestClaims, ContestAbandons, SuccessSpent,
       Resolving, SweepConfirms, ResolveContract
  <2>4. CASE \/ NewBlock
             \/ \E k \in Closes : Confirm(k)
             \/ \E g \in HTLC, by \in {"ours", "theirs"} : Spend(g, by)
             \/ \E g \in In : LearnPreimage(g)
             \/ UserForceClose \/ Crash \/ Restart
             \/ UNCHANGED vars
    BY <2>4 DEF NewBlock, Confirm, Spend, LearnPreimage, UserForceClose,
       Crash, Restart, vars
  <2> QED
    BY <2>1, <2>2, <2>3, <2>4, NextCases
<1> QED
  BY <1>0, <1>1, DeliverFacts

\* A resolver that is through with its contract has answered its HTLC.
LEMMA KindsStep ==
    ASSUME IInv, KindsOK, [Next]_vars
    PROVE  KindsOK'
<1> USE DEF IInv
<1>0. /\ disk \in DiskType /\ disk.contracts \in Maps(Kinds)
      /\ active \in Maps({"run", "told"})
      /\ told \in [Out -> {"none", "settle", "fail"}]
  BY DEF Typed, DiskType
<1>1. \A h \in Out : told[h] # "none" => told'[h] # "none"
  BY ToldKept
<1>2. ASSUME disk'.contracts = disk.contracts,
             \A h \in Out \cap DOMAIN active' : active'[h] = "told" =>
                (h \in DOMAIN active /\ active[h] = "told") \/ told'[h] # "none"
      PROVE  KindsOK'
  BY <1>1, <1>2 DEF KindsOK
<1>3. ASSUME NEW x \in DOMAIN disk.contracts, NEW kind \in Kinds,
             Checkpoint(x, kind),
             x \in Out => \/ kind \in OutKinds
                          \/ kind \in {"incubating", "resolved"}
                             /\ told'[x] # "none",
             \A h \in Out \cap DOMAIN active' : active'[h] = "told" =>
                (h \in DOMAIN active /\ active[h] = "told") \/ told'[h] # "none"
      PROVE  KindsOK'
  <2>1. /\ DOMAIN disk'.contracts = DOMAIN disk.contracts
        /\ disk'.contracts[x] = kind
        /\ \A y \in DOMAIN disk.contracts \ {x} :
              disk'.contracts[y] = disk.contracts[y]
    BY <1>0, <1>3, CheckpointFacts
  <2> QED
    BY <1>1, <1>3, <2>1 DEF KindsOK
<1>4. \A x \in DOMAIN active : x \in DOMAIN disk.contracts
  BY DEF CountOK
<1>5. /\ \A h : AfterSpend(h) \in {"incubating", "resolved"}
      /\ {"incubating", "resolved", "timeout", "success"} \subseteq Kinds
      /\ "timeout" \in OutKinds
  BY DEF AfterSpend, Kinds, OutKinds
<1>6. ASSUME NEW h \in Out, ResolvingOut(h)
      PROVE  KindsOK'
  <2>1. CASE ContestExpires(h)
    <3>1. h \in DOMAIN disk.contracts
      BY <1>4, <2>1 DEF ContestExpires, Running
    <3> QED
      BY <1>3, <1>5, <2>1, <3>1 DEF ContestExpires
  <2>2. ASSUME active' = [active EXCEPT ![h] = "told"], disk' = disk,
               told' = Deliver({h}, {}) \/ told' = Deliver({}, {h})
        PROVE  KindsOK'
    <3>1. told'[h] # "none"
      BY <1>0, <2>2, DeliverFacts
    <3>2. \A g \in DOMAIN active' \ {h} :
             g \in DOMAIN active /\ active'[g] = active[g]
      BY <1>0, <2>2, MapsFacts
    <3> QED
      BY <1>2, <2>2, <3>1, <3>2
  <2>3. CASE ClaimCleanUp(h) \/ TimeoutFails(h)
    BY <2>2, <2>3 DEF ClaimCleanUp, TimeoutFails
  <2>4. CASE ContestMistaken(h)
    <3>1. disk' = disk /\ \A g \in DOMAIN active' :
                              g \in DOMAIN active /\ active'[g] = active[g]
      BY <2>4 DEF ContestMistaken, Restrict
    <3> QED
      BY <1>2, <3>1
  <2>5. CASE CheckpointAnswered(h)
    <3>1. /\ h \in DOMAIN disk.contracts /\ Checkpoint(h, AfterSpend(h))
          /\ told'[h] # "none"
      BY <1>1, <1>4, <2>5 DEF CheckpointAnswered, KindsOK
    <3>2. \A g \in DOMAIN active' \ {h} :
             g \in DOMAIN active /\ active'[g] = active[g]
      BY <1>0, <2>5, MapsFacts DEF CheckpointAnswered
    <3> QED
      BY <1>3, <1>5, <3>1, <3>2
  <2> QED
    BY <1>6, <2>1, <2>3, <2>4, <2>5 DEF ResolvingOut
<1>7. ASSUME NEW h \in In, ResolvingIn(h)
      PROVE  KindsOK'
  <2>1. h \notin Out
    BY DeltasAreHeights
  <2>2. PICK kind \in Kinds : Checkpoint(h, kind)
    BY <1>5, <1>7 DEF ResolvingIn, ContestClaims, ContestAbandons, SuccessSpent
  <2>3. h \in DOMAIN active /\ active' = active
    BY <1>7 DEF ResolvingIn, ContestClaims, ContestAbandons, SuccessSpent,
       Running
  <2> QED
    BY <1>3, <1>4, <2>1, <2>2, <2>3
<1>8. ASSUME NEW x \in Keys, SweepConfirms(x)
      PROVE  KindsOK'
  <2>1. /\ x \in DOMAIN disk.contracts /\ Checkpoint(x, "resolved")
        /\ active' = active
        /\ disk.contracts[x] \in {"incubating", "sweep", "breach"}
    BY <1>4, <1>8 DEF SweepConfirms, Running
  <2>2. x \in Out => told'[x] # "none"
    BY <1>1, <2>1 DEF KindsOK, OutKinds
  <2> QED
    BY <1>3, <1>5, <2>1, <2>2
<1>9. ASSUME NEW x \in Keys, ResolveContract(x)
      PROVE  KindsOK'
  <2> DEFINE D == DOMAIN disk.contracts \ {x}
             cs == Restrict(disk.contracts, D)
  <2>1. DOMAIN cs = D /\ \A y \in D : cs[y] = disk.contracts[y]
    BY DEF Restrict
  <2>2. disk' = [disk EXCEPT !.contracts = cs]
    BY <1>9 DEF ResolveContract
  <2>3. \A g \in DOMAIN active' : g \in DOMAIN active /\ active'[g] = active[g]
    BY <1>9 DEF ResolveContract, Restrict
  <2> HIDE DEF cs
  <2>4. disk'.contracts = cs
    BY <1>0, <2>2 DEF DiskType
  <2> QED
    BY <1>1, <2>1, <2>3, <2>4 DEF KindsOK
<1>10. CASE Arbitrating
  <2>1. CASE StepContractClosed
    <3> DEFINE acts == constructChainActions(arb.conf, arb.at, arb.trigger)
               rs == prepContractResolutions(arb.conf, acts)
               cs == InsertUnresolvedContracts(rs, disk.contracts)
    <3>1. \/ UNCHANGED <<disk, active>>
          \/ /\ disk' = [disk EXCEPT !.contracts = cs]
             /\ active' = [x \in DOMAIN rs |-> "run"]
             /\ arb.conf # "none"
      BY <2>1, Zenon DEF StepContractClosed
    <3>2. CASE UNCHANGED <<disk, active>>
      BY <1>2, <3>2
    <3>3. CASE /\ disk' = [disk EXCEPT !.contracts = cs]
               /\ active' = [x \in DOMAIN rs |-> "run"]
               /\ arb.conf # "none"
      <4>1. arb.conf \in Closes
        BY <3>3 DEF Typed, ArbType
      <4>2. \A h \in Out \cap DOMAIN rs : rs[h] \in OutKinds
        <5>1. arb.conf \in Commits \cup {"breach"}
          BY <4>1 DEF LogOK, Closes, Commits
        <5> QED
          BY <5>1, PreparedForOut
      <4>3. rs \in Maps(Kinds)
        BY PreparedFacts
      <4> HIDE DEF rs
      <4>4. /\ DOMAIN cs = DOMAIN rs \cup DOMAIN disk.contracts
            /\ \A x \in DOMAIN rs : cs[x] = rs[x]
            /\ \A x \in DOMAIN disk.contracts \ DOMAIN rs :
                  cs[x] = disk.contracts[x]
        BY DEF InsertUnresolvedContracts
      <4> HIDE DEF cs
      <4>5. disk'.contracts = cs
        BY <1>0, <3>3 DEF DiskType
      <4>6. \A h \in DOMAIN active' : active'[h] = "run"
        BY <3>3
      <4> QED
        BY <1>1, <4>2, <4>4, <4>5, <4>6 DEF KindsOK
    <3> QED
      BY <3>1, <3>2, <3>3
  <2>2. CASE StepWaitingFullResolution
    <3>1. disk' = disk /\ (active' = active \/ \A h \in DOMAIN active' :
                                                  active'[h] = "run")
      BY <2>2 DEF StepWaitingFullResolution
    <3> QED
      BY <1>2, <3>1
  <2>3. CASE ~StepContractClosed /\ ~StepWaitingFullResolution
    <3>1. disk'.contracts = disk.contracts
      BY <1>0, <1>10, <2>3 DEF Arbitrating, CommitState, HandleBlockbeat,
         HandleClose, LogContractResolutions, InsertConfirmedCommitSet,
         MarkChannelClosed, StepDefault, StepBroadcastCommit,
         StepCommitmentBroadcasted, StepFullyResolved, ResolutionSignal,
         DiskType
    <3>2. active' = active
      BY <1>10, <2>3 DEF Arbitrating, CommitState, HandleBlockbeat,
         HandleClose, LogContractResolutions, InsertConfirmedCommitSet,
         MarkChannelClosed, StepDefault, StepBroadcastCommit,
         StepCommitmentBroadcasted, StepFullyResolved, ResolutionSignal
    <3> QED
      BY <1>2, <3>1, <3>2
  <2> QED
    BY <2>1, <2>2, <2>3
<1>11. CASE Crash
  <2>1. disk' = disk /\ DOMAIN active' = {}
    BY <1>11, EmptyMap DEF Crash
  <2> QED
    BY <1>2, <2>1
<1>12. CASE \/ NewBlock
            \/ \E k \in Closes : Confirm(k)
            \/ \E h \in HTLC, by \in {"ours", "theirs"} : Spend(h, by)
            \/ \E h \in In : LearnPreimage(h)
            \/ UserForceClose \/ Restart
            \/ UNCHANGED vars
  <2>1. disk' = disk /\ active' = active
    BY <1>12 DEF NewBlock, Confirm, Spend, LearnPreimage, UserForceClose,
       Restart, vars
  <2> QED
    BY <1>2, <2>1
<1> QED
  BY <1>6, <1>7, <1>8, <1>9, <1>10, <1>11, <1>12, NextCases DEF Resolving

\* A close trigger is what brought the attendant into StateContractClosed.
LEMMA TriggerStep ==
    ASSUME IInv, TriggerOK, "closed" \notin CrashWindows, [Next]_vars
    PROVE  TriggerOK'
<1> USE DEF IInv
<1>0. disk \in DiskType /\ arb \in ArbType
  BY DEF Typed
<1>1. ASSUME arb' = arb, disk'.state = disk.state
      PROVE  TriggerOK'
  BY <1>1 DEF TriggerOK
<1>2. CASE Arbitrating
  <2>1. CASE CommitState
    <3>1. /\ arb'.pc = "step" /\ arb'.state = arb.next /\ arb.pc = "commit"
          /\ arb'.trigger = arb.trigger
      BY <1>0, <2>1 DEF CommitState, ArbType
    <3> QED
      BY <3>1 DEF TriggerOK
  <2>2. ASSUME NEW t, NEW at, NEW conf, NEW boot, Advance(t, at, conf, boot),
               conf = "none" \/ t \in CloseTriggers
        PROVE  TriggerOK'
    <3>1. arb'.pc = "step" /\ arb'.conf = conf /\ arb'.trigger = t
      BY <1>0, <2>2 DEF Advance, ArbType
    <3> QED
      BY <2>2, <3>1 DEF TriggerOK
  <2>3. CASE HandleBlockbeat \/ ResolutionSignal
    <3>1. Advance("chain", height, "none", FALSE) \/ (arb' = arb /\ disk' = disk)
      BY <2>3 DEF HandleBlockbeat, ResolutionSignal
    <3> QED
      BY <1>1, <2>2, <3>1
  <2>4. CASE MarkChannelClosed
    <3>1. chain.spent \in Closes
      BY <2>4 DEF MarkChannelClosed, LogOK, Typed, ChainType
    <3>2. CloseTrigger(chain.spent) \in CloseTriggers
      BY <3>1, CloseTriggerFacts
    <3> QED
      BY <2>2, <2>4, <3>2 DEF MarkChannelClosed
  <2>5. CASE HandleClose \/ LogContractResolutions \/ InsertConfirmedCommitSet
    <3>1. arb'.pc \in {"log", "set", "mark"}
      BY <1>0, <2>5 DEF HandleClose, LogContractResolutions,
         InsertConfirmedCommitSet, ArbType
    <3> QED
      BY <3>1 DEF TriggerOK
  <2>6. ASSUME NEW next \in States, Return(next),
               next = "closed" => arb.state = "closed"
                                  \/ arb.trigger \in CloseTriggers
        PROVE  TriggerOK'
    <3>1. /\ next = arb.state => arb'.pc = "idle"
          /\ next # arb.state => arb'.pc = "commit" /\ arb'.next = next
                                 /\ arb'.trigger = arb.trigger
      BY <1>0, <2>6, ReturnFacts
    <3> QED
      BY <2>6, <3>1 DEF TriggerOK
  <2>7. CASE StepDefault \/ StepBroadcastCommit \/ StepCommitmentBroadcasted
    <3>1. arb.pc = "step"
      BY <2>7 DEF StepDefault, StepBroadcastCommit, StepCommitmentBroadcasted,
         Step
    <3>2. ~Initiating =>
            AfterClose \in States /\ arb.trigger \in CloseTriggers
      BY <3>1, InitiatingFacts, AfterCloseFacts DEF States
    <3>3. \/ \E next \in {"default", "broadcast", "broadcasted"} : Return(next)
          \/ ~Initiating /\ Return(AfterClose)
      BY <2>7 DEF StepDefault, StepBroadcastCommit, StepCommitmentBroadcasted
    <3> QED
      BY <2>6, <3>2, <3>3 DEF States
  <2>8. CASE StepContractClosed \/ StepWaitingFullResolution
             \/ StepFullyResolved
    <3>1. \/ \E next \in {"waiting", "resolved"} : Return(next)
          \/ arb.state = "closed" /\ Return("closed")
      BY <2>8 DEF StepContractClosed, StepWaitingFullResolution,
         StepFullyResolved, Step
    <3> QED
      BY <2>6, <3>1 DEF States
  <2> QED
    BY <1>2, <2>1, <2>3, <2>4, <2>5, <2>7, <2>8 DEF Arbitrating
<1>3. CASE \/ \E h \in Out : ResolvingOut(h)
           \/ \E h \in In : ResolvingIn(h)
           \/ \E x \in Keys : Resolving(x)
  BY <1>1, <1>3, ResolvingFrame
<1>4. CASE \/ NewBlock
           \/ \E k \in Closes : Confirm(k)
           \/ \E h \in HTLC, by \in {"ours", "theirs"} : Spend(h, by)
           \/ \E h \in In : LearnPreimage(h)
           \/ UNCHANGED vars
  <2>1. arb' = arb /\ disk' = disk
    BY <1>4 DEF NewBlock, Confirm, Spend, LearnPreimage, vars
  <2> QED
    BY <1>1, <2>1
<1>5. CASE UserForceClose
  <2>1. arb'.pc = "step" /\ arb'.conf = "none"
    BY <1>0, <1>5 DEF UserForceClose, Advance, ArbType
  <2> QED
    BY <2>1 DEF TriggerOK
<1>6. CASE Crash
  <2>1. disk.state # "closed"
    BY <1>6 DEF Crash, Delicate
  <2>2. arb'.pc = "down" /\ disk' = disk
    BY <1>6 DEF Crash, AtRest
  <2> QED
    BY <2>1, <2>2 DEF TriggerOK
<1>7. CASE Restart
  <2>1. arb'.pc = "step" /\ arb'.state = disk.state /\ arb.pc = "down"
    BY <1>7 DEF Restart
  <2> QED
    BY <2>1 DEF TriggerOK
<1> QED
  BY <1>2, <1>3, <1>4, <1>5, <1>6, <1>7, NextCases

\* What StateContractClosed leaves to do is done by the resolvers it writes.
LEMMA ClosedOwes ==
    ASSUME IInv, TriggerOK, StepContractClosed
    PROVE  \/ arb.conf = "none" /\ Return("closed") /\ disk' = disk
           \/ /\ Return("resolved") /\ disk' = disk
              /\ \A h \in Out : ~OnSome(h)
           \/ /\ Return("waiting") /\ disk'.state = disk.state
              /\ \A h \in Out : OnSome(h) =>
                    told'[h] # "none" \/ h \in DOMAIN disk'.contracts
<1> USE DEF IInv
<1>0. disk \in DiskType /\ arb.pc = "step" /\ arb.state = "closed"
  BY DEF Typed, StepContractClosed, Step
<1>1. CASE arb.conf = "none"
  BY <1>1 DEF StepContractClosed
<1>2. CASE arb.conf # "none" /\ NothingToResolve
  <2>1. Return("resolved") /\ disk' = disk
    BY <1>2 DEF StepContractClosed
  <2>2. \A h \in Out : ~OnSome(h)
    BY <1>2 DEF NothingToResolve, OnSome
  <2> QED
    BY <2>1, <2>2
<1>3. CASE arb.conf # "none" /\ ~NothingToResolve
  <2> DEFINE acts == constructChainActions(arb.conf, arb.at, arb.trigger)
             rs == prepContractResolutions(arb.conf, acts)
             cs == InsertUnresolvedContracts(rs, disk.contracts)
  <2>1. /\ told' = IF arb.conf = "breach"
                   THEN Deliver(Out \cap (On(chan.remote)
                                          \cup On(chan.pending)), {})
                   ELSE Deliver(Doing(acts, {"failDangling", "failDust"}),
                                Doing(acts, {"settleDangling"}))
        /\ disk' = [disk EXCEPT !.contracts = cs]
        /\ Return("waiting")
    BY <1>3, Zenon DEF StepContractClosed
  <2>2. arb.trigger # "chain" /\ arb.conf \in Commits \cup {"breach"}
    BY <1>0, <1>3 DEF TriggerOK, LogOK, Typed, ArbType, Closes, Commits,
       CloseTriggers
  <2>3. \A h \in Out : OnSome(h) => told'[h] # "none" \/ h \in DOMAIN rs
    BY <2>1, <2>2, ClosedAnswers
  <2>4. DOMAIN rs \subseteq DOMAIN cs
    BY DEF InsertUnresolvedContracts
  <2> HIDE DEF rs, cs
  <2>5. disk'.contracts = cs /\ disk'.state = disk.state
    BY <1>0, <2>1 DEF DiskType
  <2> QED
    BY <2>1, <2>3, <2>4, <2>5
<1> QED
  BY <1>1, <1>2, <1>3

\* Answers owed are with resolvers, and none are left at the end.
LEMMA OwedStep ==
    ASSUME IInv, AInv, [Next]_vars
    PROVE  OwedOK'
<1> USE DEF IInv, AInv
<1>0. disk \in DiskType /\ arb \in ArbType
  BY DEF Typed
<1>1. \A h \in Out : told[h] # "none" => told'[h] # "none"
  BY ToldKept
<1>2. /\ chan' = chan /\ (chain.spent = "coop" => chain'.spent = "coop")
  <2>1. ASSUME NEW k \in Closes, Confirm(k)
        PROVE  chan' = chan /\ chain.spent # "coop"
    BY <2>1 DEF Confirm
  <2>2. ASSUME NEW h \in HTLC, NEW by \in {"ours", "theirs"}, Spend(h, by)
        PROVE  chan' = chan /\ chain'.spent = chain.spent
    BY <2>2 DEF Spend, Typed, ChainType
  <2>3. CASE UNCHANGED vars
    BY <2>3 DEF vars
  <2> QED
    BY <2>1, <2>2, <2>3, ChainFrame, NextCases
<1>3. \A h : OnSome(h)' <=> OnSome(h)
  BY <1>2 DEF OnSome, On
<1> DEFINE W == disk.state = "waiting" \/ (arb.pc = "commit" /\ arb.next = "waiting")
           D == disk.state \in {"resolved", "gone"}
                \/ (arb.pc = "commit" /\ arb.next = "resolved")
           Owed == \A h \in Out : OnSome(h) =>
                      told[h] # "none" \/ h \in DOMAIN disk.contracts
           Done == chain.spent = "coop"
                   \/ \A h \in Out : OnSome(h) => told[h] # "none"
<1>4. (W => Owed) /\ (D => Done)
  BY DEF OwedOK
<1>5. Done => Done'
  BY <1>1, <1>2, <1>3
<1>6. OwedOK' <=> (W' => Owed') /\ (D' => Done')
  BY DEF OwedOK
<1>7. ASSUME DOMAIN disk.contracts \subseteq DOMAIN disk'.contracts
      PROVE  Owed => Owed'
  BY <1>1, <1>3, <1>7
<1> HIDE DEF W, D, Owed, Done
<1>8. ASSUME DOMAIN disk.contracts \subseteq DOMAIN disk'.contracts,
             W' => W \/ Owed', D' => D \/ Done \/ Done'
      PROVE  OwedOK'
  BY <1>4, <1>5, <1>6, <1>7, <1>8
<1>9. CASE Arbitrating
  <2>1. CASE CommitState
    <3>1. /\ disk'.state = arb.next /\ arb.pc = "commit" /\ arb'.pc = "step"
          /\ disk'.contracts = disk.contracts /\ arb.next \in States
      BY <1>0, <2>1 DEF CommitState, ArbType, DiskType
    <3> QED
      BY <1>8, <3>1 DEF W, D, States
  <2>2. CASE HandleBlockbeat \/ HandleClose \/ LogContractResolutions
             \/ InsertConfirmedCommitSet \/ MarkChannelClosed \/ ResolutionSignal
    <3>1. disk'.contracts = disk.contracts /\ disk'.state = disk.state
      BY <1>0, <2>2 DEF HandleBlockbeat, HandleClose, LogContractResolutions,
         InsertConfirmedCommitSet, MarkChannelClosed, ResolutionSignal, DiskType
    <3>2. arb' = arb
          \/ \E t, at, conf, boot : Advance(t, at, conf, boot)
          \/ \E pc \in {"log", "set", "mark"} : arb' = [arb EXCEPT !.pc = pc]
      BY <2>2 DEF HandleBlockbeat, HandleClose, LogContractResolutions,
         InsertConfirmedCommitSet, MarkChannelClosed, ResolutionSignal
    <3>3. arb' = arb \/ arb'.pc \in {"step", "log", "set", "mark"}
      BY <1>0, <3>2 DEF Advance, ArbType
    <3> QED
      BY <1>8, <3>1, <3>3 DEF W, D
  <2>3. ASSUME arb.pc = "step", NEW next \in States, Return(next)
        PROVE  /\ next = arb.state => arb'.pc = "idle"
               /\ next # arb.state => arb'.pc = "commit" /\ arb'.next = next
               /\ disk.state = arb.state
    BY <1>0, <2>3, ReturnFacts DEF LogOK
  <2>4. CASE StepDefault \/ StepBroadcastCommit \/ StepCommitmentBroadcasted
    <3>1. arb.pc = "step" /\ disk' = disk
      BY <2>4 DEF StepDefault, StepBroadcastCommit, StepCommitmentBroadcasted,
         Step
    <3>2. \/ \E next \in {"default", "broadcast", "broadcasted"} : Return(next)
          \/ ~Initiating /\ Return(AfterClose)
      BY <2>4 DEF StepDefault, StepBroadcastCommit, StepCommitmentBroadcasted
    <3>3. CASE \E next \in {"default", "broadcast", "broadcasted"} : Return(next)
      <4>1. PICK next \in {"default", "broadcast", "broadcasted"} : Return(next)
        BY <3>3
      <4>2. arb'.pc = "idle" \/ (arb'.pc = "commit" /\ arb'.next = next)
        BY <2>3, <3>1, <4>1 DEF States
      <4> QED
        BY <1>8, <3>1, <4>1, <4>2 DEF W, D
    <3>4. CASE ~Initiating /\ Return(AfterClose)
      <4>1. arb.trigger \in CloseTriggers
        BY <3>1, <3>4, InitiatingFacts
      <4>2. AfterClose \in {"closed", "resolved"}
            /\ (AfterClose = "resolved" => arb.trigger = "coop"
                   \/ (arb.trigger = "breach" /\ disk.res = "none"))
        BY <4>1, AfterCloseFacts
      <4>3. AfterClose = "resolved" => chain.spent = "coop"
        BY <4>1, <4>2 DEF LogOK, CloseTrigger
      <4>4. arb'.pc = "idle" \/ (arb'.pc = "commit" /\ arb'.next = AfterClose)
        BY <2>3, <3>1, <3>4, <4>2 DEF States
      <4>5. D' => D \/ Done
        BY <3>1, <4>2, <4>3, <4>4 DEF D, Done
      <4>6. W' => W
        BY <3>1, <4>2, <4>4 DEF W
      <4> QED
        BY <1>8, <3>1, <4>5, <4>6
    <3> QED
      BY <3>2, <3>3, <3>4
  <2>5. CASE StepContractClosed
    <3>0. arb.pc = "step" /\ arb.state = "closed"
      BY <2>5 DEF StepContractClosed, Step
    <3>1. CASE Return("closed") /\ disk' = disk
      <4>1. arb'.pc = "idle"
        BY <2>3, <3>0, <3>1 DEF States
      <4> QED
        BY <1>8, <3>1, <4>1 DEF W, D
    <3>2. CASE /\ Return("resolved") /\ disk' = disk
               /\ \A h \in Out : ~OnSome(h)
      <4>1. arb'.pc = "commit" /\ arb'.next = "resolved"
        BY <2>3, <3>0, <3>2 DEF States
      <4>2. Done
        BY <3>2 DEF Done
      <4> QED
        BY <1>8, <3>2, <4>1, <4>2 DEF W, D
    <3>3. CASE /\ Return("waiting") /\ disk'.state = disk.state
               /\ \A h \in Out : OnSome(h) =>
                     told'[h] # "none" \/ h \in DOMAIN disk'.contracts
      <4>1. arb'.pc = "commit" /\ arb'.next = "waiting"
            /\ disk.state = "closed"
        BY <2>3, <3>0, <3>3 DEF States
      <4>2. Owed'
        BY <1>3, <3>3 DEF Owed
      <4> QED
        BY <1>6, <3>3, <4>1, <4>2 DEF W, D
    <3> QED
      BY <2>5, <3>1, <3>2, <3>3, ClosedOwes
  <2>6. CASE StepWaitingFullResolution
    <3>0. arb.pc = "step" /\ arb.state = "waiting" /\ disk' = disk
      BY <2>6 DEF StepWaitingFullResolution, Step
    <3>1. CASE DOMAIN disk.contracts = {}
      <4>1. Return("resolved")
        BY <2>6, <3>1 DEF StepWaitingFullResolution
      <4>2. arb'.pc = "commit" /\ arb'.next = "resolved"
            /\ disk.state = "waiting"
        BY <2>3, <3>0, <4>1 DEF States
      <4>3. Done
        BY <1>4, <3>1, <4>2 DEF W, Owed, Done
      <4> QED
        BY <1>8, <3>0, <4>2, <4>3 DEF W, D
    <3>2. CASE DOMAIN disk.contracts # {}
      <4>1. Return("waiting")
        BY <2>6, <3>2 DEF StepWaitingFullResolution
      <4>2. arb'.pc = "idle"
        BY <2>3, <3>0, <4>1 DEF States
      <4> QED
        BY <1>8, <3>0, <4>2 DEF W, D
    <3> QED
      BY <3>1, <3>2
  <2>7. CASE StepFullyResolved
    <3>1. /\ arb.pc = "step" /\ arb.state = "resolved" /\ Return("resolved")
          /\ disk'.contracts = disk.contracts /\ disk'.state = "gone"
      BY <1>0, <2>7 DEF StepFullyResolved, Step, DiskType
    <3>2. arb'.pc = "idle" /\ disk.state = "resolved"
      BY <2>3, <3>1 DEF States
    <3> QED
      BY <1>8, <3>1, <3>2 DEF W, D
  <2> QED
    BY <1>9, <2>1, <2>2, <2>4, <2>5, <2>6, <2>7 DEF Arbitrating
<1>10. ASSUME arb' = arb, disk'.state = disk.state,
              DOMAIN disk'.contracts = DOMAIN disk.contracts
       PROVE  OwedOK'
  BY <1>8, <1>10 DEF W, D
<1>11. CASE \/ \E h \in Out : ResolvingOut(h)
            \/ \E h \in In : ResolvingIn(h)
            \/ \E x \in Keys : SweepConfirms(x)
  <2>1. arb' = arb /\ disk'.state = disk.state
    BY <1>11, ResolvingFrame DEF Resolving
  <2>2. disk' = disk \/ \E x, kind : Checkpoint(x, kind)
    BY <1>11 DEF ResolvingOut, ContestExpires, ClaimCleanUp, ContestMistaken,
       TimeoutFails, CheckpointAnswered, ResolvingIn, ContestClaims,
       ContestAbandons, SuccessSpent, SweepConfirms
  <2>3. ASSUME NEW x, NEW kind, Checkpoint(x, kind)
        PROVE  DOMAIN disk'.contracts = DOMAIN disk.contracts
    <3> DEFINE cs == [disk.contracts EXCEPT ![x] = kind]
    <3>1. disk.contracts \in Maps(Kinds)
      BY <1>0 DEF DiskType
    <3>2. DOMAIN cs = DOMAIN disk.contracts
      BY <3>1, MapsFacts
    <3>3. disk' = [disk EXCEPT !.contracts = cs]
      BY <2>3 DEF Checkpoint
    <3> HIDE DEF cs
    <3> QED
      BY <1>0, <3>2, <3>3 DEF DiskType
  <2> QED
    BY <1>10, <2>1, <2>2, <2>3
<1>12. ASSUME NEW x \in Keys, ResolveContract(x)
       PROVE  OwedOK'
  <2>1. arb' = arb /\ disk'.state = disk.state /\ told' = told
    BY <1>12, ResolvingFrame DEF Resolving, ResolveContract
  <2>2. DOMAIN disk'.contracts = DOMAIN disk.contracts \ {x}
    <3> DEFINE cs == Restrict(disk.contracts, DOMAIN disk.contracts \ {x})
    <3>1. DOMAIN cs = DOMAIN disk.contracts \ {x}
      BY DEF Restrict
    <3>2. disk' = [disk EXCEPT !.contracts = cs]
      BY <1>12 DEF ResolveContract
    <3> HIDE DEF cs
    <3> QED
      BY <1>0, <3>1, <3>2 DEF DiskType
  <2>3. x \in Out => told[x] # "none"
    BY <1>12 DEF ResolveContract, Running, KindsOK, OutKinds, CountOK
  <2>4. Owed => Owed'
    BY <1>3, <2>1, <2>2, <2>3 DEF Owed
  <2> QED
    BY <1>4, <1>5, <1>6, <2>1, <2>4 DEF W, D
<1>13. CASE \/ NewBlock
            \/ \E k \in Closes : Confirm(k)
            \/ \E h \in HTLC, by \in {"ours", "theirs"} : Spend(h, by)
            \/ \E h \in In : LearnPreimage(h)
            \/ UNCHANGED vars
  <2>1. arb' = arb /\ disk' = disk
    BY <1>13 DEF NewBlock, Confirm, Spend, LearnPreimage, vars
  <2> QED
    BY <1>10, <2>1
<1>14. CASE UserForceClose \/ Crash \/ Restart
  <2>1. disk' = disk
    BY <1>14 DEF UserForceClose, Crash, Restart
  <2>2. arb'.pc \in {"step", "down"}
    <3>1. CASE UserForceClose
      BY <1>0, <3>1 DEF UserForceClose, Advance, ArbType
    <3>2. CASE Crash
      BY <3>2 DEF Crash, AtRest
    <3>3. CASE Restart
      BY <3>3 DEF Restart
    <3> QED
      BY <1>14, <3>1, <3>2, <3>3
  <2> QED
    BY <1>8, <2>1, <2>2 DEF W, D
<1> QED
  BY <1>9, <1>11, <1>12, <1>13, <1>14, NextCases DEF Resolving

\* For any HTLCs, expiries and commitments: so long as no crash falls while
\* StateContractClosed is on disk (RestartWhileClosed shows what one does), a
\* channel is declared resolved, and its log wiped, only when every outgoing
\* HTLC of any of its commitments has been answered upstream.
THEOREM EveryoneAnswered ==
    ASSUME "closed" \notin CrashWindows
    PROVE  Spec => []UpstreamAnswered
<1>1. Init => AInv
  <2> SUFFICES ASSUME Init PROVE AInv
    OBVIOUS
  <2>1. /\ arb.pc = "idle" /\ disk.state = "default"
        /\ DOMAIN disk.contracts = {} /\ DOMAIN active = {}
    BY EmptyMap DEF Init, AtRest
  <2> QED
    BY <2>1 DEF AInv, KindsOK, OwedOK, TriggerOK
<1>2. IInv /\ AInv /\ [Next]_vars => AInv'
  BY KindsStep, OwedStep, TriggerStep DEF AInv
<1>3. IInv /\ AInv => UpstreamAnswered
  BY DEF AInv, OwedOK, UpstreamAnswered, OnSome
<1> QED
  BY <1>1, <1>2, <1>3, IInvAlways, PTL DEF Spec

=============================================================================
