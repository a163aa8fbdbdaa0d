--------------------------- MODULE InvoiceRegistry ---------------------------
(***************************************************************************)
(* The invoice registry (invoices/invoiceregistry.go, update.go,           *)
(* update_invoice.go, invoice_expiry_watcher.go) and the exit-hop side of  *)
(* the links that ask it, for one payment hash: which HTLCs are held,      *)
(* settled and failed, by whom and in which order.                         *)
(*                                                                         *)
(* Five goroutines meet here: links notifying HTLCs (NotifyExitHopHtlc),   *)
(* the registry's event loop releasing HTLCs whose set did not arrive in   *)
(* time, the expiry watcher, the user, and the links taking resolutions    *)
(* off their queues.  All but the event loop hold the registry's mutex.    *)
(* Links restart and the daemon crashes; what a link had not committed is  *)
(* notified again.                                                         *)
(***************************************************************************)
EXTENDS Naturals, FiniteSets, FiniteSetsExt, Functions

CONSTANTS
    HTLCs,             \* the HTLCs that pay to the hash
    ChanOf,            \* HTLC -> the channel it arrived on
    Amt,               \* HTLC -> its amount
    Total,             \* HTLC -> the total of its set, 0 without an MPP record
    Expiry,            \* HTLC -> the height at which it times out
    Value,             \* the amount of the invoice
    HodlChoices,       \* whether the preimage of an invoice may be given later, or at once
    FinalCltvDelta,    \* blocks an HTLC must have left to be accepted
    BlockExpiryDelta,  \* blocks before an HTLC's timeout at which its invoice is canceled
    GcCanceled,        \* GcCanceledInvoicesOnTheFly and GcCanceledInvoicesOnStartup
    MayCancelSet,      \* whether a settlement interceptor ever cancels a set
    TimerRaces,        \* whether a release of an HTLC may overlap a call that notifies it
    MaxHeight, MaxInvoices, MaxFlaps, MaxCrashes   \* bounds

ASSUME HtlcsAssumption ==
    /\ IsFiniteSet(HTLCs)
    /\ Amt \in [HTLCs -> Nat] /\ Total \in [HTLCs -> Nat] /\ Expiry \in [HTLCs -> Nat]
    /\ DOMAIN ChanOf = HTLCs
    /\ Value \in Nat /\ FinalCltvDelta \in Nat /\ BlockExpiryDelta \in Nat

ASSUME SwitchesAssumption ==
    /\ HodlChoices \subseteq BOOLEAN
    /\ {GcCanceled, MayCancelSet, TimerRaces} \subseteq BOOLEAN
    /\ MaxHeight \in Nat \ {0} /\ MaxInvoices \in Nat /\ MaxFlaps \in Nat /\ MaxCrashes \in Nat

VARIABLES
    inv,      \* disk: the invoice under the hash, if any
    added,    \* disk: how many invoices were added under the hash
    htlc,     \* HTLC -> what its link did with it
    subs,     \* hodlSubscriptions: HTLCs whose link waits for a resolution
    queue,    \* the links' hodlQueues
    call,     \* the NotifyExitHopHtlc that holds the registry's mutex
    timers,   \* autoReleaseHeap
    release,  \* the HTLC the event loop has just canceled
    watch,    \* the expiry watcher's two queues
    height,   \* the chain's height
    faults    \* how often each fault has happened

vars == <<inv, added, htlc, subs, queue, call, timers, release, watch, height, faults>>

-----------------------------------------------------------------------------
(* The invoice and the updates of its record.                              *)

NoInvoice == [id |-> 0, hodl |-> FALSE, state |-> "None", htlcs |-> << >>, amtPaid |-> 0]

NewInvoice(id, hodl) == [NoInvoice EXCEPT !.id = id, !.hodl = hodl, !.state = "Open"]

\* HTLCSet: the HTLCs of an invoice in one state.
HTLCSet(i, state) == {h \in DOMAIN i.htlcs : i.htlcs[h].state = state}

SumAmt(S) == MapThenSumSet(LAMBDA h : Amt[h], S)

\* resolveHtlc on every accepted HTLC of hs.
ResolveHtlcs(i, hs, state) ==
    [i EXCEPT !.htlcs = [h \in DOMAIN @ |->
        IF h \in hs /\ @[h].state = "Accepted" THEN [@[h] EXCEPT !.state = state] ELSE @[h]]]

\* updateMpp, the checks that reject an HTLC with a set total.
ValidMpp(i, h) ==
    /\ i.state = "Open"
    /\ Total[h] >= Value
    /\ \A g \in HTLCSet(i, "Accepted") : Total[g] = Total[h]
    /\ Expiry[h] >= height + FinalCltvDelta

\* updateLegacy, the checks that reject an HTLC without one.
ValidLegacy(i, h) ==
    /\ i.state # "Canceled"
    /\ Amt[h] >= Value
    /\ \A g \in HTLCSet(i, "Accepted") : Total[g] = 0
    /\ Expiry[h] >= height + FinalCltvDelta

\* IsSetFailure: the HTLC is rejected for a total that its set can't have.
SetFailure(i, h) ==
    /\ Total[h] # 0 /\ i.state = "Open"
    /\ Total[h] < Value \/ \E g \in HTLCSet(i, "Accepted") : Total[g] # Total[h]

\* updateInvoice rejects the HTLC, or adds it.
Valid(i, h) == IF Total[h] = 0 THEN ValidLegacy(i, h) ELSE ValidMpp(i, h)

\* Mutant: a set is taken to be complete one HTLC early.
CompleteEarly(i, h) == 2 * (SumAmt(HTLCSet(i, "Accepted")) + Amt[h]) >= Total[h]

\* The HTLC completes its set.
SetComplete(i, h) == SumAmt(HTLCSet(i, "Accepted")) + Amt[h] >= Total[h]

\* The invoice's state once HTLC h was added to it.
StateWith(i, h) ==
    IF i.state # "Open" \/ ~SetComplete(i, h) THEN i.state
    ELSE IF i.hodl THEN "Accepted" ELSE "Settled"

\* Mutant: only the HTLC that completes the set is settled.
AddOneHTLC(i, h) ==
    LET state == StateWith(i, h)
    IN  [i EXCEPT !.state = state,
                  !.htlcs = [g \in DOMAIN @ \cup {h} |->
                     IF g # h THEN @[g]
                     ELSE [state |-> IF state = "Settled" THEN state ELSE "Accepted",
                           at |-> Cardinality(DOMAIN @) + 1]],
                  !.amtPaid = IF state = "Open" THEN 0 ELSE SumAmt(HTLCSet(i, "Accepted")) + Amt[h]]

(***************************************************************************)
(* addHTLCs records the HTLC as accepted; if that settles the invoice      *)
(* every accepted HTLC is settled.  The amount paid is added up afresh     *)
(* once the invoice is no longer open.                                     *)
(***************************************************************************)
AddHTLC(i, h) ==
    LET state == StateWith(i, h)
        add == [i EXCEPT !.state = state,
                         !.htlcs = [g \in DOMAIN @ \cup {h} |->
                            IF g # h THEN @[g]
                            ELSE [state |-> "Accepted", at |-> Cardinality(DOMAIN @) + 1]]]
        done == IF state = "Settled" THEN ResolveHtlcs(add, DOMAIN add.htlcs, "Settled") ELSE add
        paid == HTLCSet(done, "Accepted") \cup HTLCSet(done, "Settled")
    IN  [done EXCEPT !.amtPaid = IF state = "Open" THEN 0 ELSE SumAmt(paid)]

\* settleHodlInvoice.
SettleHodl(i) ==
    LET done == ResolveHtlcs(i, DOMAIN i.htlcs, "Settled")
    IN  [done EXCEPT !.state = "Settled", !.amtPaid = SumAmt(HTLCSet(i, "Accepted"))]

\* cancelInvoice, and the garbage collection on the fly.
CancelInvoice(i) ==
    IF GcCanceled THEN NoInvoice
    ELSE [ResolveHtlcs(i, DOMAIN i.htlcs, "Canceled") EXCEPT !.state = "Canceled"]

\* makeInvoiceExpiry for an accepted invoice: the first of its HTLCs to time out.
MinExpiry(i) == Min({Expiry[h] : h \in HTLCSet(i, "Accepted")})

-----------------------------------------------------------------------------
NoCall == [h |-> {}, res |-> "none", tell |-> {}, expire |-> 0, timer |-> FALSE]

Locked == call # NoCall

\* The link of channel c waits for its own call to return.
Busy(c) == \E h \in call.h : ChanOf[h] = c

Resolutions(hs, fate) == {[h |-> h, fate |-> fate] : h \in hs}

Init ==
    /\ inv = NoInvoice
    /\ added = 0
    /\ htlc = [h \in HTLCs |-> "offered"]
    /\ subs = {}
    /\ queue = {}
    /\ call = NoCall
    /\ timers = {}
    /\ release = {}
    /\ watch = [ts |-> {}, heights |-> {}]
    /\ height = 1
    /\ faults = [flap |-> 0, crash |-> 0]

\* notifyHodlSubscribers: subscribers are told and forgotten.
NotifyHodlSubscribers(rs) ==
    /\ queue' = queue \cup {r \in rs : r.h \in subs}
    /\ subs' = subs \ {r.h : r \in rs}

-----------------------------------------------------------------------------
(* NotifyExitHopHtlc, up to the database: with the mutex held, the invoice *)
(* is looked up, a replay is answered from the record, and anything else   *)
(* is one transaction.                                                     *)

\* The answer of the registry that a call returns with.
Call(h, res) == [NoCall EXCEPT !.h = {h}, !.res = res]

Calling(h) ==
    /\ htlc[h] = "offered" /\ ~Locked
    /\ TimerRaces \/ h \notin release

NotifyUnknown(h) ==
    /\ Calling(h)
    /\ inv.id = 0
    /\ call' = Call(h, "fail")
    /\ UNCHANGED <<inv, added, htlc, subs, queue, timers, release, watch, height, faults>>

\* Mutant: a replayed HTLC that is held is not timed again.
ReplayUntimed(h) ==
    /\ Calling(h)
    /\ h \in DOMAIN inv.htlcs
    /\ call' = CASE inv.htlcs[h].state = "Canceled" -> Call(h, "fail")
                 [] inv.htlcs[h].state = "Accepted" -> Call(h, "accept")
                 [] inv.htlcs[h].state = "Settled" -> Call(h, "settle")
    /\ UNCHANGED <<inv, added, htlc, subs, queue, timers, release, watch, height, faults>>

\* resolveReplayedHtlc.
NotifyReplay(h) ==
    /\ Calling(h)
    /\ h \in DOMAIN inv.htlcs
    /\ call' = CASE inv.htlcs[h].state = "Canceled" -> Call(h, "fail")
                 [] inv.htlcs[h].state = "Accepted" ->
                        [Call(h, "accept") EXCEPT !.timer = (inv.state = "Open")]
                 [] inv.htlcs[h].state = "Settled" ->
                        [Call(h, "settle") EXCEPT
                           !.tell = Resolutions(HTLCSet(inv, "Settled"), "settle")]
    /\ UNCHANGED <<inv, added, htlc, subs, queue, timers, release, watch, height, faults>>

\* The interceptor cancels the set: what was accepted of it, and this HTLC.
NotifyCancelSet(h) ==
    /\ Calling(h)
    /\ MayCancelSet
    /\ inv.id # 0 /\ h \notin DOMAIN inv.htlcs
    /\ IF inv.state = "Open"
       THEN /\ inv' = ResolveHtlcs(inv, DOMAIN inv.htlcs, "Canceled")
            /\ call' = [Call(h, "fail") EXCEPT
                          !.tell = Resolutions(HTLCSet(inv', "Canceled"), "fail")]
       ELSE /\ call' = Call(h, "fail")
            /\ UNCHANGED inv
    /\ UNCHANGED <<added, htlc, subs, queue, timers, release, watch, height, faults>>

\* updateInvoice.
NotifyUpdate(h) ==
    /\ Calling(h)
    /\ inv.id # 0 /\ h \notin DOMAIN inv.htlcs
    /\ IF Valid(inv, h)
       THEN /\ inv' = AddHTLC(inv, h)
            /\ call' = IF inv'.state = "Settled"
                       THEN [Call(h, "settle") EXCEPT
                               !.tell = Resolutions(HTLCSet(inv', "Settled"), "settle")]
                       ELSE [Call(h, "accept") EXCEPT
                               !.timer = (inv'.state = "Open"),
                               !.expire = IF inv.state = "Open" /\ inv'.state = "Accepted"
                                          THEN MinExpiry(inv') ELSE 0]
       ELSE /\ call' = [Call(h, "fail") EXCEPT
                          !.tell = Resolutions(
                             IF SetFailure(inv, h) THEN HTLCSet(inv, "Canceled") ELSE {}, "fail")]
            /\ UNCHANGED inv
    /\ UNCHANGED <<added, htlc, subs, queue, timers, release, watch, height, faults>>

(***************************************************************************)
(* The rest of NotifyExitHopHtlc: other HTLCs of the set are resolved, an  *)
(* HTLC that is held is subscribed, the mutex is given back, the expiry    *)
(* watcher and the release timer are told, and the link takes the answer.  *)
(***************************************************************************)
NotifyReturn ==
    /\ Locked
    /\ LET told == {r.h : r \in call.tell}
           held == IF call.res = "accept" THEN call.h ELSE {}
       IN  /\ queue' = queue \cup {r \in call.tell : r.h \in subs}
           /\ subs' = (subs \ told) \cup held
           /\ timers' = timers \cup IF call.timer
                                    THEN {[h |-> h, at |-> inv.htlcs[h].at] : h \in held} ELSE {}
           /\ watch' = IF call.expire = 0 THEN watch
                       ELSE [watch EXCEPT !.heights = @ \cup
                               {[id |-> inv.id, height |-> call.expire]}]
           /\ htlc' = [h \in HTLCs |->
                         IF h \notin call.h THEN htlc[h]
                         ELSE CASE call.res = "accept" -> "held"
                                [] call.res = "settle" -> "settling"
                                [] call.res = "fail" -> "failing"]
    /\ call' = NoCall
    /\ UNCHANGED <<inv, added, release, height, faults>>

-----------------------------------------------------------------------------
(* The registry's event loop.                                              *)

(***************************************************************************)
(* cancelSingleHtlc: the first HTLC to be released is canceled in the      *)
(* database, without the mutex, if its invoice is still open.              *)
(***************************************************************************)
CancelSingleHtlc(e) ==
    /\ e \in timers /\ release = {}
    /\ \A x \in timers : e.at <= x.at
    /\ TimerRaces \/ e.h \notin call.h
    /\ timers' = timers \ {e}
    /\ IF inv.state = "Open" /\ e.h \in HTLCSet(inv, "Accepted")
       THEN /\ inv' = ResolveHtlcs(inv, {e.h}, "Canceled")
            /\ release' = {e.h}
       ELSE UNCHANGED <<inv, release>>
    /\ UNCHANGED <<added, htlc, subs, queue, call, watch, height, faults>>

\* Mutant: the link of a released HTLC is not told.
ReleaseSilently ==
    /\ release # {}
    /\ release' = {}
    /\ UNCHANGED <<inv, added, htlc, subs, queue, call, timers, watch, height, faults>>

\* cancelSingleHtlc, second part: the link is told.
ReleaseHtlc ==
    /\ release # {}
    /\ NotifyHodlSubscribers(Resolutions(release, "fail"))
    /\ release' = {}
    /\ UNCHANGED <<inv, added, htlc, call, timers, watch, height, faults>>

-----------------------------------------------------------------------------
(* The user and the expiry watcher.                                        *)

AddInvoice ==
    /\ ~Locked
    /\ inv.id = 0 /\ added < MaxInvoices
    /\ added' = added + 1
    /\ \E hodl \in HodlChoices : inv' = NewInvoice(added + 1, hodl)
    /\ watch' = [watch EXCEPT !.ts = @ \cup {added + 1}]
    /\ UNCHANGED <<htlc, subs, queue, call, timers, release, height, faults>>

SettleHodlInvoice ==
    /\ ~Locked
    /\ inv.state = "Accepted"
    /\ inv' = SettleHodl(inv)
    /\ NotifyHodlSubscribers(Resolutions(HTLCSet(inv', "Settled"), "settle"))
    /\ UNCHANGED <<added, htlc, call, timers, release, watch, height, faults>>

\* cancelInvoiceImpl, where the invoice is canceled.
Cancel ==
    /\ inv' = CancelInvoice(inv)
    /\ NotifyHodlSubscribers(Resolutions(
          HTLCSet(inv, "Accepted") \cup HTLCSet(inv, "Canceled"), "fail"))

CancelByUser ==
    /\ ~Locked
    /\ inv.state \in {"Open", "Accepted"}
    /\ Cancel
    /\ UNCHANGED <<added, htlc, call, timers, release, watch, height, faults>>

\* DeleteCanceledInvoice, which does not ask the registry.
DeleteCanceledInvoice ==
    /\ inv.state = "Canceled"
    /\ inv' = NoInvoice
    /\ UNCHANGED <<added, htlc, subs, queue, call, timers, release, watch, height, faults>>

\* Mutant: an expiry entry cancels whatever invoice has the hash.
CancelAnyInvoice(id, force) ==
    IF inv.state = "Open" \/ (force /\ inv.state = "Accepted")
    THEN Cancel ELSE UNCHANGED <<inv, subs, queue>>

\* cancelInvoiceImpl for an entry of the watcher, which names its invoice.
CancelIfSame(id, force) ==
    IF id = inv.id /\ (inv.state = "Open" \/ (force /\ inv.state = "Accepted"))
    THEN Cancel ELSE UNCHANGED <<inv, subs, queue>>

\* cancelNextExpiredInvoice: an accepted invoice is left alone.
CancelNextExpiredInvoice(id) ==
    /\ id \in watch.ts /\ ~Locked
    /\ CancelIfSame(id, FALSE)
    /\ watch' = [watch EXCEPT !.ts = @ \ {id}]
    /\ UNCHANGED <<added, htlc, call, timers, release, height, faults>>

\* cancelNextHeightExpiredInvoice.
CancelNextHeightExpiredInvoice(e) ==
    /\ e \in watch.heights /\ ~Locked
    /\ \A x \in watch.heights : e.height <= x.height
    /\ height + BlockExpiryDelta >= e.height
    /\ CancelIfSame(e.id, TRUE)
    /\ watch' = [watch EXCEPT !.heights = @ \ {e}]
    /\ UNCHANGED <<added, htlc, call, timers, release, height, faults>>

NewBlock ==
    /\ height < MaxHeight
    /\ height' = height + 1
    /\ UNCHANGED <<inv, added, htlc, subs, queue, call, timers, release, watch, faults>>

-----------------------------------------------------------------------------
(* The links.                                                              *)

\* processHodlQueue.
ProcessHodlQueue(r) ==
    /\ r \in queue /\ ~Busy(ChanOf[r.h])
    /\ htlc[r.h] = "held"
    /\ htlc' = [htlc EXCEPT ![r.h] = IF r.fate = "settle" THEN "settling" ELSE "failing"]
    /\ queue' = queue \ {r}
    /\ UNCHANGED <<inv, added, subs, call, timers, release, watch, height, faults>>

\* The removal of the HTLC is signed for: it will not be notified again.
CommitRemoval(h) ==
    /\ htlc[h] \in {"settling", "failing"}
    /\ htlc' = [htlc EXCEPT ![h] = IF @ = "settling" THEN "settled" ELSE "failed"]
    /\ UNCHANGED <<inv, added, subs, queue, call, timers, release, watch, height, faults>>

\* What is not committed when a link stops is notified again when it starts.
Uncommitted(h) == htlc[h] \in {"held", "settling", "failing"}

\* Mutant: the link stops without unsubscribing.
FlapSubscribed(c) ==
    /\ faults.flap < MaxFlaps
    /\ ~Busy(c)
    /\ faults' = [faults EXCEPT !.flap = @ + 1]
    /\ htlc' = [h \in HTLCs |-> IF ChanOf[h] = c /\ Uncommitted(h) THEN "offered" ELSE htlc[h]]
    /\ queue' = {r \in queue : ChanOf[r.h] # c}
    /\ UNCHANGED <<inv, added, subs, call, timers, release, watch, height>>

\* Stop and Start: the link leaves the registry only once its own call returned.
LinkFlap(c) ==
    /\ faults.flap < MaxFlaps
    /\ ~Busy(c)
    /\ faults' = [faults EXCEPT !.flap = @ + 1]
    /\ htlc' = [h \in HTLCs |-> IF ChanOf[h] = c /\ Uncommitted(h) THEN "offered" ELSE htlc[h]]
    /\ subs' = {h \in subs : ChanOf[h] # c}
    /\ queue' = {r \in queue : ChanOf[r.h] # c}
    /\ UNCHANGED <<inv, added, call, timers, release, watch, height>>

\* Mutant: an invoice that is gone is watched too.
ScanEverything(i) == [ts |-> {i.id}, heights |-> {}]

\* scanInvoicesOnStart.
ScanInvoicesOnStart(i) ==
    [ts |-> IF i.state = "Open" THEN {i.id} ELSE {},
     heights |-> IF i.state = "Accepted" THEN {[id |-> i.id, height |-> MinExpiry(i)]} ELSE {}]

\* The daemon restarts: the watcher is filled again, canceled invoices are deleted.
Crash ==
    /\ faults.crash < MaxCrashes
    /\ faults' = [faults EXCEPT !.crash = @ + 1]
    /\ htlc' = [h \in HTLCs |-> IF Uncommitted(h) THEN "offered" ELSE htlc[h]]
    /\ subs' = {} /\ queue' = {} /\ call' = NoCall /\ timers' = {} /\ release' = {}
    /\ watch' = ScanInvoicesOnStart(inv)
    /\ inv' = IF GcCanceled /\ inv.state = "Canceled" THEN NoInvoice ELSE inv
    /\ UNCHANGED <<added, height>>

-----------------------------------------------------------------------------
Notify(h) == NotifyUnknown(h) \/ NotifyReplay(h) \/ NotifyCancelSet(h) \/ NotifyUpdate(h)

Links ==
    \/ \E h \in HTLCs : Notify(h) \/ CommitRemoval(h)
    \/ NotifyReturn
    \/ \E r \in queue : ProcessHodlQueue(r)

EventLoop == (\E e \in timers : CancelSingleHtlc(e)) \/ ReleaseHtlc

User == AddInvoice \/ SettleHodlInvoice \/ CancelByUser \/ DeleteCanceledInvoice

Watcher ==
    \/ \E id \in watch.ts : CancelNextExpiredInvoice(id)
    \/ \E e \in watch.heights : CancelNextHeightExpiredInvoice(e)
    \/ NewBlock

Faults == (\E c \in Range(ChanOf) : LinkFlap(c)) \/ Crash

Next == Links \/ EventLoop \/ User \/ Watcher \/ Faults

Spec == Init /\ [][Next]_vars
-----------------------------------------------------------------------------
(* Properties.                                                             *)

Recorded(h) == IF h \in DOMAIN inv.htlcs THEN inv.htlcs[h].state ELSE "None"

\* The record, the links and the registry's queues name HTLCs and invoices that exist.
TypeOK ==
    /\ inv.state \in {"None", "Open", "Accepted", "Settled", "Canceled"}
    /\ inv.id \in 0..added /\ added \in 0..MaxInvoices
    /\ inv.id = 0 <=> inv.state = "None"
    /\ DOMAIN inv.htlcs \subseteq HTLCs
    /\ \A h \in DOMAIN inv.htlcs : Recorded(h) \in {"Accepted", "Settled", "Canceled"}
    /\ htlc \in [HTLCs -> {"offered", "held", "settling", "failing", "settled", "failed"}]
    /\ subs \subseteq HTLCs /\ release \subseteq HTLCs /\ call.h \subseteq HTLCs
    /\ queue \subseteq [h : HTLCs, fate : {"settle", "fail"}]
    /\ timers \subseteq [h : HTLCs, at : 1..Cardinality(HTLCs)]
    /\ watch.ts \subseteq 1..added /\ watch.heights \subseteq [id : 1..added, height : Nat]
    /\ height \in 1..MaxHeight

(***************************************************************************)
(* The preimage is given away only for the full price: when a link settles *)
(* an HTLC the invoice is settled, the HTLC counts towards what was paid,  *)
(* nothing else does, and it covers the invoice (update.go, updateMpp;     *)
(* update_invoice.go, addHTLCs).                                           *)
(***************************************************************************)
PreimageOnlyWhenPaid ==
    \A h \in HTLCs : htlc[h] \in {"settling", "settled"} =>
        /\ inv.state = "Settled" /\ Recorded(h) = "Settled"
        /\ inv.amtPaid = SumAmt(HTLCSet(inv, "Settled"))
        /\ inv.amtPaid >= Value

(***************************************************************************)
(* What is recorded as paid is paid: no link fails, or is told to fail, an *)
(* HTLC that the record holds or has settled, and a settled invoice leaves *)
(* no HTLC of its set behind (invoiceregistry.go, notifyExitHopHtlcLocked  *)
(* and cancelSingleHtlc).                                                  *)
(***************************************************************************)
FailedIsNotPaid ==
    /\ \A h \in HTLCs :
          (htlc[h] \in {"failing", "failed"} \/ [h |-> h, fate |-> "fail"] \in queue) =>
              Recorded(h) \notin {"Accepted", "Settled"}
    /\ inv.state = "Settled" => HTLCSet(inv, "Accepted") = {}

(***************************************************************************)
(* No HTLC is forgotten: a link that holds one is subscribed while it is   *)
(* undecided, and otherwise its resolution is in the link's queue or about *)
(* to be put there (hodlSubscribe, notifyHodlSubscribers).                 *)
(***************************************************************************)
HeldHtlcsHearBack ==
    \A h \in HTLCs : htlc[h] = "held" =>
        \/ \E r \in queue : r.h = h
        \/ h \in subs /\ (Recorded(h) = "Accepted" \/ h \in release
                          \/ \E r \in call.tell : r.h = h)

\* A resolution finds its HTLC in the link's hodlMap, or the link would fail (processHodlQueue).
ResolutionsExpected ==
    \A r \in queue : htlc[r.h] = "held" /\ \A q \in queue : q.h = r.h => q = r

(***************************************************************************)
(* Nothing is held for good.  While its invoice is open, an HTLC that a    *)
(* link holds has a release timer (startHtlcTimer).  A complete set that   *)
(* waits for its preimage is watched: the expiry watcher has an entry for  *)
(* the invoice no later than the first HTLC to time out, after a crash too *)
(* (makeInvoiceExpiry, scanInvoicesOnStart).                               *)
(***************************************************************************)
HeldSetsAreTimed ==
    /\ \A h \in HTLCs :
          htlc[h] = "held" /\ inv.state = "Open" /\ Recorded(h) = "Accepted" =>
              \E e \in timers : e.h = h
    /\ inv.state = "Accepted" /\ ~Locked =>
          \A h \in HTLCSet(inv, "Accepted") :
              \E e \in watch.heights : e.id = inv.id /\ e.height <= Expiry[h]

(***************************************************************************)
(* An expiry entry made for one invoice spares the next one with the same  *)
(* payment hash (InvoiceIdentity).                                         *)
(***************************************************************************)
ExpirySparesOthers ==
    [][ \/ inv'.state \notin {"Canceled", "None"}
        \/ inv.state \notin {"Open", "Accepted"}
        \/ watch' = watch
        \/ watch.ts \ watch'.ts = {inv.id}
        \/ \E e \in watch.heights \ watch'.heights : e.id = inv.id ]_vars

(***************************************************************************)
(* Fairness: links, event loop and watcher run, timers and invoices expire *)
(* and blocks are found.  The user and the faults are free.                *)
(***************************************************************************)
Fairness ==
    /\ \A h \in HTLCs : WF_vars(Notify(h)) /\ WF_vars(CommitRemoval(h))
    /\ WF_vars(NotifyReturn)
    /\ WF_vars(\E r \in queue : ProcessHodlQueue(r))
    /\ WF_vars(\E e \in timers : CancelSingleHtlc(e)) /\ WF_vars(ReleaseHtlc)
    /\ WF_vars(Watcher)

FairSpec == Spec /\ Fairness

(***************************************************************************)
(* Every HTLC that reaches the registry is settled or failed in the end,   *)
(* whoever stops in between: sets that stay incomplete are released, and   *)
(* hold invoices nobody settles are canceled.                              *)
(***************************************************************************)
EveryHtlcResolved ==
    \A h \in HTLCs : <>(htlc[h] \in {"settled", "failed"})
=============================================================================
