-------------------------- MODULE ChannelArbitrator --------------------------
(***************************************************************************)
(* contractcourt/channel_arbitrator.go: what becomes of one channel once   *)
(* its funding output is about to be, or has been, spent on chain.  The    *)
(* arbitrator decides to broadcast, logs which commitment confirmed,       *)
(* answers upstream for HTLCs that have no output to resolve, creates a    *)
(* resolver for each output, and declares the channel resolved when the    *)
(* last resolver has left its log.  Every durable write is an action of    *)
(* its own, so a crash may fall between any two of them; only the answers  *)
(* StateContractClosed gives to the switch go with the write of its        *)
(* resolvers.                                                              *)
(*                                                                         *)
(* The commitments do not change here: a behaviour starts from one of      *)
(* Scenarios, the states the link leaves the three commitments in.  Dust   *)
(* and output are kept apart, amounts, scripts, fees and anchors are not   *)
(* modelled, and every outgoing HTLC counts as forwarded.                  *)
(***************************************************************************)
EXTENDS Integers, FiniteSets, Functions

CONSTANTS
    Out,            \* outgoing HTLCs
    In,             \* incoming HTLCs
    Expiry,         \* [Out \cup In -> Nat], RefundTimeout
    OutDelta,       \* OutgoingBroadcastDelta
    InDelta,        \* IncomingBroadcastDelta
    Scenarios,      \* the channel states a behaviour may start from
    MaxHeight,      \* bound on the block height
    MaxCrashes,     \* bound on the number of crashes
    CrashWindows    \* the delicate moments at which a crash may fall too

HTLC == Out \cup In

Self == "self"      \* the resolver of our own output, or of a breach

ASSUME DeltasAreHeights ==
    /\ OutDelta \in Nat /\ InDelta \in Nat
    /\ Expiry \in [HTLC -> Nat]
    /\ Self \notin HTLC /\ Out \cap In = {}
    /\ CrashWindows \subseteq {"closed", "resolved", "launched"}
    /\ IsFiniteSet(HTLC) /\ MaxHeight \in Nat

(* What the exchange of updates leaves in the commitments.  An outgoing    *)
(* HTLC is put on the peer's commitment before ours and taken off ours     *)
(* first; a settle of the peer takes it off ours before it leaves theirs.  *)
ASSUME ScenariosAssumption ==
    \A c \in Scenarios :
        /\ c \in [local : [HTLC -> {"no", "dust", "out"}],
                 remote : [HTLC -> {"no", "dust", "out"}],
                 pending : [HTLC -> {"no", "dust", "out"}],
                 settled : SUBSET HTLC, self : BOOLEAN,
                 closes : SUBSET {"local", "remote", "pending", "breach",
                                  "coop"}]
        /\ \A h \in Out : c.local[h] # "no" =>
              /\ c.remote[h] # "no" \/ c.pending[h] # "no"
              /\ h \in c.settled => c.remote[h] # "no" /\ c.pending[h] # "no"

VARIABLES
    chan,       \* the scenario: commitments, settled HTLCs, possible spends
    height,     \* the best block
    beat,       \* a blockbeat the arbitrator has not processed
    chain,      \* the confirmed spend, its height, the fate of HTLC outputs
    published,  \* our commitment has been handed to the network
    swept,      \* HTLCs whose claiming transaction is with the sweeper
    known,      \* PreimageDB
    told,       \* the answer the switch has recorded for an outgoing HTLC
    disk,       \* the arbitrator log and the channel's close summary
    arb,        \* channelAttendant: what it is in the middle of
    active,     \* goroutines running resolveContract
    signals,    \* goroutines blocked on resolutionSignal
    crashes     \* how many, and the delicate moments they fell in

vars == <<chan, height, beat, chain, published, swept, known, told, disk, arb,
          active, signals, crashes>>

Closes == {"local", "remote", "pending", "breach", "coop"}
Commits == {"local", "remote", "pending"}

----------------------------------------------------------------------------
(* The chain actions                                                       *)

(* HTLCs present on a commitment. *)
On(c) == {h \in HTLC : c[h] # "no"}

(* The confirmed commitment: a breach is filed under RemoteHtlcSet. *)
ConfCommit(k) == IF k = "breach" THEN chan.remote ELSE chan[k]

shouldGoOnChain(h, delta, at) == at >= Expiry[h] - delta

HaveChainActions(c, at) ==
    \/ \E h \in On(c) \cap Out : shouldGoOnChain(h, OutDelta, at)
    \/ \E h \in On(c) \cap In \cap known : shouldGoOnChain(h, InDelta, at)

NoActions == [h \in HTLC |-> "none"]

CommitAction(c, h, at) ==
    CASE c[h] = "no" -> "none"
      [] c[h] = "dust" /\ h \in Out -> "failDust"
      [] c[h] = "dust" /\ h \in In -> "inDust"
      [] c[h] = "out" /\ h \in In -> "watchIn"
      [] c[h] = "out" /\ h \in Out ->
            IF shouldGoOnChain(h, OutDelta, at) THEN "timeout"
            ELSE "watchOut"

checkCommitChainActions(c, at, trigger) ==
    IF ~HaveChainActions(c, at) /\ trigger = "chain"
    THEN NoActions
    ELSE [h \in HTLC |-> CommitAction(c, h, at)]

LiveOnRemote ==
    {h \in Out : chan.remote[h] = "out" \/ chan.pending[h] = "out"}

(* Dangling HTLCs left alone until their broadcast cutoff. *)
DanglingOnlyWhenDue(h, at, confirmed) ==
    IF ~shouldGoOnChain(h, OutDelta, at) THEN "none"
    ELSE IF h \in known
         THEN (IF confirmed THEN "settleDangling" ELSE "none")
         ELSE (IF h \in LiveOnRemote THEN "failDangling" ELSE "failDust")

(* What to do with an outgoing HTLC only a remote commitment has. *)
DanglingAction(h, at, confirmed) ==
    IF ~confirmed /\ ~shouldGoOnChain(h, OutDelta, at) THEN "none"
    ELSE IF h \in known
         THEN (IF confirmed THEN "settleDangling" ELSE "none")
         ELSE (IF h \in LiveOnRemote THEN "failDangling" ELSE "failDust")

RemoteDangling ==
    ((On(chan.remote) \cup On(chan.pending)) \ On(chan.local)) \cap Out

(* Dust is failed whether or not another commitment gives it an output. *)
FailDustAtOnce(action, h, confirmed) == action

(* Before a commitment confirms, dust that has an output on a remote       *)
(* commitment is not failed.                                               *)
DeferDust(action, h, confirmed) ==
    IF action = "failDust" /\ ~confirmed /\ h \in LiveOnRemote
    THEN "failDangling" ELSE action

checkLocalChainActions(at, trigger, confirmed) ==
    LET local == checkCommitChainActions(chan.local, at, trigger)
    IN [h \in HTLC |->
          DeferDust(IF h \in RemoteDangling
                    THEN DanglingAction(h, at, confirmed)
                    ELSE local[h], h, confirmed)]

checkRemoteChainActions(conf, dangling, at, trigger) ==
    LET acts == checkCommitChainActions(conf, at, trigger)
    IN [h \in HTLC |->
          IF h \notin (On(dangling) \ On(conf)) \cap Out THEN acts[h]
          ELSE IF h \in known THEN "settleDangling"
          ELSE IF dangling[h] = "dust" THEN "failDust" ELSE "failDangling"]

constructChainActions(k, at, trigger) ==
    CASE k = "local" -> checkLocalChainActions(at, trigger, TRUE)
      [] k \in {"remote", "breach"} ->
            checkRemoteChainActions(chan.remote, chan.pending, at, trigger)
      [] k = "pending" ->
            checkRemoteChainActions(chan.pending, chan.remote, at, trigger)

Doing(acts, kinds) == {h \in HTLC : acts[h] \in kinds}

----------------------------------------------------------------------------
(* Resolvers                                                               *)

ResolverOf == [timeout |-> "timeout", watchOut |-> "outContest",
               watchIn |-> "inContest"]

(* prepContractResolutions: an HTLC resolver for each action that has one, *)
(* and one for our own balance if the commitment pays it to an output.     *)
prepContractResolutions(k, acts) ==
    IF k = "breach" THEN [x \in {Self} |-> "breach"]
    ELSE LET hs == Doing(acts, DOMAIN ResolverOf)
         IN [x \in hs \cup (IF chan.self THEN {Self} ELSE {}) |->
                IF x = Self THEN "sweep" ELSE ResolverOf[acts[x]]]

(* A resolver is written under its contract's key, whatever is there. *)
InsertUnresolvedContracts(rs, contracts) ==
    [x \in DOMAIN rs \cup DOMAIN contracts |->
        IF x \in DOMAIN rs THEN rs[x] ELSE contracts[x]]

(* Launch of the resolvers rs: those that may claim hand their transaction *)
(* to the sweeper, which holds it until its lock time has passed.          *)
Launched(rs) ==
    {h \in HTLC \cap DOMAIN rs :
        \/ rs[h] \in {"timeout", "success"}
        \/ rs[h] = "outContest" /\ height >= Expiry[h]
        \/ rs[h] = "inContest" /\ h \in known}

(* The switch keeps the first answer it is given for an HTLC. *)
Deliver(fails, settles) ==
    [h \in Out |-> IF told[h] # "none" THEN told[h]
                   ELSE IF h \in settles THEN "settle"
                   ELSE IF h \in fails THEN "fail" ELSE "none"]

----------------------------------------------------------------------------
(* The attendant between two events, or the node when it is down. *)
AtRest(pc, state) ==
    [pc |-> pc, state |-> state, next |-> state, trigger |-> "none", at |-> 0,
     conf |-> "none", boot |-> FALSE]

Init ==
    /\ chan \in Scenarios
    /\ height = 0 /\ beat = FALSE
    /\ chain = [spent |-> "none", at |-> 0, out |-> [h \in HTLC |-> "none"]]
    /\ published = FALSE
    /\ swept = {}
    /\ known = chan.settled
    /\ told = [h \in Out |-> "none"]
    /\ disk = [state |-> "default", res |-> "none", set |-> "none",
               closed |-> "none", contracts |-> <<>>]
    /\ arb = AtRest("idle", "default")
    /\ active = <<>>
    /\ signals = 0
    /\ crashes = [n |-> 0, at |-> {}]

Idle == arb.pc = "idle" /\ disk.state # "gone"

(* advanceState begins: stateStep runs next. *)
Advance(trigger, at, conf, boot) ==
    arb' = [arb EXCEPT !.pc = "step", !.trigger = trigger, !.at = at,
                       !.conf = conf, !.boot = boot]

(* A stateStep returned next: a redundant transition ends advanceState,    *)
(* another is committed before the next step.                              *)
Return(next) ==
    arb' = IF next = arb.state THEN AtRest("idle", next)
           ELSE [arb EXCEPT !.pc = "commit", !.next = next]

CommitState ==
    /\ arb.pc = "commit"
    /\ disk' = [disk EXCEPT !.state = arb.next]
    /\ arb' = [arb EXCEPT !.pc = "step", !.state = arb.next]
    /\ UNCHANGED <<chan, height, beat, chain, published, swept, known, told,
                   active, signals, crashes>>

(* A force close request of the user, refused unless in StateDefault. *)
UserForceClose ==
    /\ Idle /\ arb.state = "default"
    /\ Advance("user", height, "none", FALSE)
    /\ UNCHANGED <<chan, height, beat, chain, published, swept, known, told,
                   disk, active, signals, crashes>>

(* handleBlockbeat.  A close event that is ready is processed first, which *)
(* is HandleClose; the chain watcher may also report it only later.        *)
HandleBlockbeat ==
    /\ Idle /\ beat
    /\ beat' = FALSE
    /\ \/ /\ arb.state \in {"closed", "waiting", "resolved"}
          /\ swept' = swept \cup Launched(Restrict(disk.contracts,
                                                   DOMAIN active))
          /\ UNCHANGED arb
       \/ /\ arb.state \in {"default", "broadcast", "broadcasted"}
          /\ IF arb.state = "default"
             THEN Advance("chain", height, "none", FALSE)
             ELSE UNCHANGED arb
          /\ UNCHANGED swept
    /\ UNCHANGED <<chan, height, chain, published, known, told, disk, active,
                   signals, crashes>>

(* The chain watcher of an open channel reports the spend: resolutions,    *)
(* commit set and close summary are written one after the other.           *)
HandleClose ==
    /\ Idle /\ chain.spent # "none" /\ disk.closed = "none"
    /\ arb' = [arb EXCEPT !.pc = IF chain.spent = "coop" THEN "mark"
                                 ELSE "log"]
    /\ UNCHANGED <<chan, height, beat, chain, published, swept, known, told,
                   disk, active, signals, crashes>>

(* The resolutions kept in memory only. *)
ResolutionsNotLogged ==
    /\ arb.pc = "log"
    /\ arb' = [arb EXCEPT !.pc = "set"]
    /\ UNCHANGED <<chan, height, beat, chain, published, swept, known, told,
                   disk, active, signals, crashes>>

LogContractResolutions ==
    /\ arb.pc = "log"
    /\ disk' = [disk EXCEPT !.res = chain.spent]
    /\ arb' = [arb EXCEPT !.pc = "set"]
    /\ UNCHANGED <<chan, height, beat, chain, published, swept, known, told,
                   active, signals, crashes>>

InsertConfirmedCommitSet ==
    /\ arb.pc = "set"
    /\ disk' = [disk EXCEPT !.set = chain.spent]
    /\ arb' = [arb EXCEPT !.pc = "mark"]
    /\ UNCHANGED <<chan, height, beat, chain, published, swept, known, told,
                   active, signals, crashes>>

CloseTrigger(k) == IF k = "pending" THEN "remote" ELSE k

MarkChannelClosed ==
    /\ arb.pc = "mark"
    /\ disk' = [disk EXCEPT !.closed = CloseTrigger(chain.spent)]
    /\ Advance(CloseTrigger(chain.spent), chain.at,
               IF chain.spent = "coop" THEN "none" ELSE chain.spent, FALSE)
    /\ UNCHANGED <<chan, height, beat, chain, published, swept, known, told,
                   active, signals, crashes>>

----------------------------------------------------------------------------
(* stateStep, state by state                                               *)

Step(state) == arb.pc = "step" /\ arb.state = state

(* Where a close trigger leads; checkLegacyBreach asks for resolutions. *)
AfterClose ==
    CASE arb.trigger = "coop" -> "resolved"
      [] arb.trigger \in {"local", "remote"} -> "closed"
      [] arb.trigger = "breach" ->
            IF disk.res = "none" THEN "resolved" ELSE "closed"

Initiating == arb.trigger \in {"chain", "user"}

StepDefault ==
    /\ Step("default")
    /\ LET acts == IF arb.conf = "none"
                   THEN checkLocalChainActions(arb.at, arb.trigger, FALSE)
                   ELSE constructChainActions(arb.conf, arb.at, arb.trigger)
       IN IF acts = NoActions /\ arb.trigger = "chain"
          THEN Return("default") /\ UNCHANGED told
          ELSE /\ told' = Deliver(Doing(acts, {"failDust"}), {})
               /\ Return(IF Initiating THEN "broadcast" ELSE AfterClose)
    /\ UNCHANGED <<chan, height, beat, chain, published, swept, known, disk,
                   active, signals, crashes>>

(* ForceCloseChan may refuse (data loss, a spend this version does not     *)
(* know): the arbitrator then waits for what confirms.                     *)
StepBroadcastCommit ==
    /\ Step("broadcast")
    /\ \/ ~Initiating /\ Return(AfterClose) /\ UNCHANGED published
       \/ Initiating /\ Return("broadcasted") /\ published' = TRUE
       \/ Initiating /\ Return("broadcast") /\ UNCHANGED published
    /\ UNCHANGED <<chan, height, beat, chain, swept, known, told, disk, active,
                   signals, crashes>>

StepCommitmentBroadcasted ==
    /\ Step("broadcasted")
    /\ Return(IF Initiating THEN "broadcasted" ELSE AfterClose)
    /\ UNCHANGED <<chan, height, beat, chain, published, swept, known, told,
                   disk, active, signals, crashes>>

(* Neither an output of ours nor an HTLC on any commitment. *)
NothingToResolve ==
    /\ ~chan.self /\ arb.conf # "breach"
    /\ \A k \in Commits : On(chan[k]) = {}

(* StateContractClosed: answer for the HTLCs without an output on the      *)
(* confirmed commitment, write the resolvers and start them.  A crash      *)
(* between the answers and the write repeats the step, as one before both  *)
(* does (CrashWindows, "closed").  Without a commit set the step fails and *)
(* the arbitrator goes no further.                                         *)
StepContractClosed ==
    /\ Step("closed")
    /\ IF arb.conf = "none"
       THEN Return("closed") /\ UNCHANGED <<told, disk, active, swept>>
       ELSE IF NothingToResolve
       THEN Return("resolved") /\ UNCHANGED <<told, disk, active, swept>>
       ELSE LET acts == constructChainActions(arb.conf, arb.at, arb.trigger)
                rs == prepContractResolutions(arb.conf, acts)
            IN /\ told' = IF arb.conf = "breach"
                          THEN Deliver(Out \cap (On(chan.remote)
                                                 \cup On(chan.pending)), {})
                          ELSE Deliver(Doing(acts, {"failDangling", "failDust"}),
                                       Doing(acts, {"settleDangling"}))
               /\ disk' = [disk EXCEPT !.contracts =
                                InsertUnresolvedContracts(rs, @)]
               /\ active' = [x \in DOMAIN rs |-> "run"]
               /\ swept' = swept \cup Launched(rs)
               /\ Return("waiting")
    /\ UNCHANGED <<chan, height, beat, chain, published, known, signals,
                   crashes>>

(* relaunchResolvers: every contract in the log gets its goroutine back;   *)
(* that of a contract already resolved returns at once.                    *)
Unresolved(cs) == {x \in DOMAIN cs : cs[x] # "resolved"}

StepWaitingFullResolution ==
    /\ Step("waiting")
    /\ IF DOMAIN disk.contracts = {}
       THEN Return("resolved") /\ UNCHANGED <<active, swept>>
       ELSE /\ Return("waiting")
            /\ IF arb.boot
               THEN /\ active' = [x \in Unresolved(disk.contracts) |-> "run"]
                    /\ swept' = swept \cup Launched(disk.contracts)
               ELSE UNCHANGED <<active, swept>>
    /\ UNCHANGED <<chan, height, beat, chain, published, known, told, disk,
                   signals, crashes>>

(* NotifyChannelResolved: the chain arbitrator marks the channel fully     *)
(* closed, stops this arbitrator and wipes its log.                        *)
StepFullyResolved ==
    /\ Step("resolved")
    /\ disk' = [disk EXCEPT !.state = "gone"]
    /\ Return("resolved")
    /\ UNCHANGED <<chan, height, beat, chain, published, swept, known, told,
                   active, signals, crashes>>

(* A resolver has left the log. *)
ResolutionSignal ==
    /\ Idle /\ signals > 0
    /\ signals' = signals - 1
    /\ Advance("chain", height, "none", FALSE)
    /\ UNCHANGED <<chan, height, beat, chain, published, swept, known, told,
                   disk, active, crashes>>

----------------------------------------------------------------------------
(* resolveContract and the resolvers it runs                               *)

Running(x, kinds) ==
    x \in DOMAIN active /\ active[x] = "run" /\ disk.contracts[x] \in kinds

Checkpoint(x, kind) == disk' = [disk EXCEPT !.contracts[x] = kind]

(* The outgoing contest resolver turns into a timeout resolver one block   *)
(* before the expiry: SwapContract, then Launch.                           *)
ContestExpires(h) ==
    /\ Running(h, {"outContest"}) /\ height >= Expiry[h] - 1
    /\ Checkpoint(h, "timeout")
    /\ swept' = swept \cup {h}
    /\ UNCHANGED <<chan, height, beat, chain, published, known, told, arb,
                   active, signals, crashes>>

(* claimCleanUp: the peer has revealed the preimage on chain.  It enters   *)
(* the preimage cache and the upstream HTLC is settled.                    *)
ClaimCleanUp(h) ==
    /\ Running(h, {"outContest", "timeout"}) /\ chain.out[h] = "theirs"
    /\ known' = known \cup {h}
    /\ told' = Deliver({}, {h})
    /\ active' = [active EXCEPT ![h] = "told"]
    /\ UNCHANGED <<chan, height, beat, chain, published, swept, disk, arb,
                   signals, crashes>>

(* A contest resolver that finds the output spent by our own timeout looks *)
(* for a preimage in it: its goroutine ends with an error.                 *)
ContestMistaken(h) ==
    /\ Running(h, {"outContest"}) /\ chain.out[h] = "ours"
    /\ active' = Restrict(active, DOMAIN active \ {h})
    /\ UNCHANGED <<chan, height, beat, chain, published, swept, known, told,
                   disk, arb, signals, crashes>>

(* The timeout has confirmed: the upstream HTLC is failed. *)
TimeoutFails(h) ==
    /\ Running(h, {"timeout"}) /\ chain.out[h] = "ours"
    /\ told' = Deliver({h}, {})
    /\ active' = [active EXCEPT ![h] = "told"]
    /\ UNCHANGED <<chan, height, beat, chain, published, swept, known, disk,
                   arb, signals, crashes>>

(* What remains once the HTLC output is spent: on our commitment our claim *)
(* leaves a second-level output to sweep.                                  *)
AfterSpend(h) ==
    IF chain.out[h] = "ours" /\ chain.spent = "local" THEN "incubating"
    ELSE "resolved"

(* The answer is with the switch: checkpointStageOne, checkpointClaim. *)
CheckpointAnswered(h) ==
    /\ h \in DOMAIN active /\ active[h] = "told"
    /\ Checkpoint(h, AfterSpend(h))
    /\ active' = [active EXCEPT ![h] = "run"]
    /\ UNCHANGED <<chan, height, beat, chain, published, swept, known, told,
                   arb, signals, crashes>>

(* The incoming contest resolver learns the preimage.  An interceptor that *)
(* fails, which ends the goroutine until the next start, is left out.      *)
ContestClaims(h) ==
    /\ Running(h, {"inContest"}) /\ h \in known
    /\ Checkpoint(h, "success")
    /\ swept' = swept \cup {h}
    /\ UNCHANGED <<chan, height, beat, chain, published, known, told, arb,
                   active, signals, crashes>>

(* It gives up at the expiry, or when the invoice is canceled. *)
ContestAbandons(h) ==
    /\ Running(h, {"inContest"})
    /\ height >= Expiry[h] \/ h \notin known
    /\ Checkpoint(h, "resolved")
    /\ UNCHANGED <<chan, height, beat, chain, published, swept, known, told,
                   arb, active, signals, crashes>>

(* The success resolver, whoever spent the output. *)
SuccessSpent(h) ==
    /\ Running(h, {"success"}) /\ chain.out[h] # "open"
    /\ Checkpoint(h, AfterSpend(h))
    /\ UNCHANGED <<chan, height, beat, chain, published, swept, known, told,
                   arb, active, signals, crashes>>

(* The second-level output, our balance or the breached outputs are swept. *)
SweepConfirms(x) ==
    /\ Running(x, {"incubating", "sweep", "breach"})
    /\ Checkpoint(x, "resolved")
    /\ UNCHANGED <<chan, height, beat, chain, published, swept, known, told,
                   arb, active, signals, crashes>>

(* resolveContract removes a resolved contract and signals the attendant. *)
ResolveContract(x) ==
    /\ Running(x, {"resolved"})
    /\ disk' = [disk EXCEPT !.contracts =
                    Restrict(disk.contracts, DOMAIN disk.contracts \ {x})]
    /\ active' = Restrict(active, DOMAIN active \ {x})
    /\ signals' = signals + 1
    /\ UNCHANGED <<chan, height, beat, chain, published, swept, known, told,
                   arb, crashes>>

----------------------------------------------------------------------------
(* The chain and the peer                                                  *)

(* A resolver handles one block before the next: so long as a contest has  *)
(* a block to handle that ends it, no other arrives.  Nothing in the code  *)
(* makes a block wait; it is an assumption about time, that a goroutine    *)
(* takes less than the minutes between two blocks.                         *)
Lagging ==
    \E h \in Out : Running(h, {"outContest"}) /\ height >= Expiry[h] - 1

NewBlock ==
    /\ height < MaxHeight /\ ~beat
    /\ ~Lagging
    /\ height' = height + 1
    /\ beat' = (arb.pc # "down")
    /\ UNCHANGED <<chan, chain, published, swept, known, told, disk, arb,
                   active, signals, crashes>>

Confirm(k) ==
    /\ chain.spent = "none" /\ k \in chan.closes
    /\ k = "local" => published
    /\ chain' = [spent |-> k, at |-> height,
                 out |-> [h \in HTLC |->
                    IF k \in Commits /\ chan[k][h] = "out" THEN "open"
                    ELSE "none"]]
    /\ UNCHANGED <<chan, height, beat, published, swept, known, told, disk,
                   arb, active, signals, crashes>>

Spend(h, by) ==
    /\ chain.out[h] = "open"
    /\ chain' = [chain EXCEPT !.out[h] = by]
    /\ UNCHANGED <<chan, height, beat, published, swept, known, told, disk,
                   arb, active, signals, crashes>>

(* The peer claims with the preimage, or takes back at the expiry. *)
PeerSpends(h) ==
    /\ h \in Out \/ height >= Expiry[h]
    /\ Spend(h, "theirs")

WeSpend(h) ==
    /\ h \in swept
    /\ h \in Out => height >= Expiry[h]
    /\ ~Lagging
    /\ Spend(h, "ours")

(* An invoice or the downstream peer gives us an incoming HTLC's preimage. *)
LearnPreimage(h) ==
    /\ h \in On(chan.local) \cup On(chan.remote)
    /\ h \notin known
    /\ known' = known \cup {h}
    /\ UNCHANGED <<chan, height, beat, chain, published, swept, told, disk,
                   arb, active, signals, crashes>>

----------------------------------------------------------------------------
(* Crash and restart                                                       *)

(* The moments at which a restart loses track: StateContractClosed on      *)
(* disk; a contract resolved but still in the log; a contest whose claim   *)
(* is already with the network.                                            *)
Delicate ==
    (IF disk.state = "closed" THEN {"closed"} ELSE {})
    \cup (IF \E x \in DOMAIN disk.contracts : disk.contracts[x] = "resolved"
          THEN {"resolved"} ELSE {})
    \cup (IF \E h \in swept \cap DOMAIN disk.contracts :
                disk.contracts[h] \in {"outContest", "inContest"}
          THEN {"launched"} ELSE {})

Crash ==
    /\ arb.pc # "down" /\ disk.state # "gone"
    /\ crashes.n < MaxCrashes
    /\ Delicate \subseteq CrashWindows
    /\ crashes' = [n |-> crashes.n + 1, at |-> crashes.at \cup Delicate]
    /\ arb' = AtRest("down", "default")
    /\ active' = <<>>
    /\ signals' = 0
    /\ beat' = FALSE
    /\ UNCHANGED <<chan, height, chain, published, swept, known, told, disk>>

(* A restart that looks at the chain only. *)
RestartOnChainTrigger == "chain"

(* progressStateMachineAfterRestart: the trigger of a channel marked       *)
(* closed whose state machine has not reached StateContractClosed.         *)
RestartTrigger ==
    IF disk.state \in {"default", "broadcast", "broadcasted"}
       /\ disk.closed # "none"
    THEN disk.closed ELSE "chain"

Restart ==
    /\ arb.pc = "down"
    /\ arb' = [pc |-> "step", state |-> disk.state, next |-> disk.state,
               trigger |-> RestartTrigger,
               at |-> IF disk.closed # "none" THEN chain.at ELSE height,
               conf |-> disk.set, boot |-> (disk.state = "waiting")]
    /\ UNCHANGED <<chan, height, beat, chain, published, swept, known, told,
                   disk, active, signals, crashes>>

----------------------------------------------------------------------------
Arbitrating ==
    \/ CommitState \/ HandleBlockbeat \/ HandleClose
    \/ LogContractResolutions \/ InsertConfirmedCommitSet \/ MarkChannelClosed
    \/ StepDefault \/ StepBroadcastCommit \/ StepCommitmentBroadcasted
    \/ StepContractClosed \/ StepWaitingFullResolution \/ StepFullyResolved
    \/ ResolutionSignal

ResolvingOut(h) ==
    \/ ContestExpires(h) \/ ClaimCleanUp(h) \/ ContestMistaken(h)
    \/ TimeoutFails(h) \/ CheckpointAnswered(h)

ResolvingIn(h) ==
    \/ ContestClaims(h) \/ ContestAbandons(h) \/ SuccessSpent(h)

Resolving(x) == SweepConfirms(x) \/ ResolveContract(x)

Network ==
    \/ NewBlock
    \/ \E k \in Closes : Confirm(k)
    \/ \E h \in HTLC : PeerSpends(h) \/ WeSpend(h)
    \/ \E h \in In : LearnPreimage(h)

Next ==
    \/ Arbitrating
    \/ \E h \in Out : ResolvingOut(h)
    \/ \E h \in In : ResolvingIn(h)
    \/ \E x \in HTLC \cup {Self} : Resolving(x)
    \/ Network
    \/ UserForceClose \/ Crash \/ Restart

Spec == Init /\ [][Next]_vars

(* The attendant and the resolver goroutines are not starved, a node that  *)
(* went down comes back, blocks keep coming, and what the sweeper          *)
(* publishes confirms if nothing else spends the output first.             *)
FairSpec ==
    /\ Spec
    /\ WF_vars(Arbitrating) /\ WF_vars(Restart) /\ WF_vars(NewBlock)
    /\ \A h \in Out : WF_vars(ResolvingOut(h))
    /\ \A h \in In : WF_vars(ResolvingIn(h))
    /\ \A x \in HTLC \cup {Self} : WF_vars(Resolving(x))
    /\ \A h \in HTLC : WF_vars(WeSpend(h))

----------------------------------------------------------------------------
(* The log holds one close and its commit set, goroutines only run for     *)
(* contracts in the log, and no more signals than contracts are pending.   *)
TypeOK ==
    /\ height \in 0..MaxHeight /\ chain.at \in 0..height
    /\ chain.out \in [HTLC -> {"none", "open", "ours", "theirs"}]
    /\ swept \subseteq HTLC /\ known \subseteq HTLC
    /\ told \in [Out -> {"none", "settle", "fail"}]
    /\ disk.state \in {"default", "broadcast", "broadcasted", "closed",
                      "waiting", "resolved", "gone"}
    /\ disk.res \in Closes \cup {"none"} /\ disk.set \in {"none", disk.res}
    /\ DOMAIN active \subseteq DOMAIN disk.contracts
    /\ signals \in 0..Cardinality(HTLC) + 1

(* The peer has our money for h: it claimed the output with the preimage,  *)
(* or a commitment confirmed from which h was removed by its settle.       *)
PeerPaid(h) ==
    \/ chain.out[h] = "theirs"
    \/ chain.spent \in Commits /\ h \in chan.settled
       /\ chan[chain.spent][h] = "no"

(* An HTLC is failed upstream only when the peer can no longer be paid for *)
(* it: not while any commitment that could confirm, or has, gives it an    *)
(* output, nor once the peer was paid (abandonForwards and the timeout     *)
(* resolver, against deferDustHTLCsLiveOnRemote and the preimage checks).  *)
FailedWhenSafe ==
    \A h \in Out : told[h] = "fail" =>
        /\ ~PeerPaid(h) /\ chain.out[h] # "open"
        /\ chain.spent = "none" =>
             \A k \in Commits \cap chan.closes : chan[k][h] # "out"

(* A channel is declared resolved, and its log wiped, only when every      *)
(* outgoing HTLC of any of its commitments has been answered upstream      *)
(* (stateStep, ResolveContract of the chain arbitrator).                   *)
UpstreamAnswered ==
    disk.state = "gone" /\ chain.spent # "coop" =>
        \A h \in Out :
            (\E k \in Commits : h \in On(chan[k])) => told[h] # "none"

(* Once the funding output is spent the channel is fully resolved in the   *)
(* end, through crashes and restarts, unless one of them fell in a moment  *)
(* from which the arbitrator is known not to recover                       *)
(* (progressStateMachineAfterRestart, relaunchResolvers).                  *)
ChannelResolves ==
    chain.spent # "none" ~> disk.state = "gone" \/ crashes.at # {}
=============================================================================
