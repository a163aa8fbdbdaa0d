------------------------ MODULE InvoiceRegistryProofs ------------------------
(***************************************************************************)
(* The safety properties of InvoiceRegistry for every set of HTLCs, every  *)
(* price and any number of invoices, restarts and link failures.           *)
(***************************************************************************)
EXTENDS InvoiceRegistry, SumTheorems

InvoiceStates == {"None", "Open", "Accepted", "Settled", "Canceled"}

Records == [state : {"Accepted", "Settled", "Canceled"}, at : 1..Cardinality(HTLCs)]

\* The state in which invoice i records HTLC h.
RecordedIn(i, h) == IF h \in DOMAIN i.htlcs THEN i.htlcs[h].state ELSE "None"

InvoiceType(i) ==
    /\ i \in [id : Nat, hodl : BOOLEAN, state : InvoiceStates, htlcs : {i.htlcs}, amtPaid : Nat]
    /\ i.htlcs \in [DOMAIN i.htlcs -> Records]
    /\ DOMAIN i.htlcs \subseteq HTLCs

(***************************************************************************)
(* What the record of an invoice says by itself: an invoice that waits for *)
(* its preimage, or has given it away, was paid for.                       *)
(***************************************************************************)
InvoiceOK(i) ==
    /\ InvoiceType(i)
    /\ i.id = 0 <=> i.state = "None"
    /\ i.state = "None" => DOMAIN i.htlcs = {}
    /\ i.state # "Settled" => HTLCSet(i, "Settled") = {}
    /\ i.state \notin {"Open", "Accepted"} => HTLCSet(i, "Accepted") = {}
    /\ i.state = "Accepted" => /\ HTLCSet(i, "Accepted") # {}
                               /\ SumAmt(HTLCSet(i, "Accepted")) >= Value
    /\ i.state = "Settled" => /\ i.amtPaid = SumAmt(HTLCSet(i, "Settled"))
                              /\ i.amtPaid >= Value

-----------------------------------------------------------------------------
(* The updates of the record.                                              *)

\* The amounts of a set of HTLCs have a sum, and an HTLC adds its own.
LEMMA SumAmtFacts ==
    ASSUME NEW S \in SUBSET HTLCs
    PROVE  /\ SumAmt(S) \in Nat
           /\ \A h \in HTLCs \ S : SumAmt(S \cup {h}) = SumAmt(S) + Amt[h]
<1>1. \A T : SumAmt(T) = SumOf(Amt, T)
  BY DEF SumAmt, SumOf
<1>2. IsFiniteSet(S) /\ \A x \in HTLCs : Amt[x] \in Nat
  BY HtlcsAssumption, FS_Subset
<1>3. SumOf(Amt, S) \in Nat
  BY <1>2, SumType
<1>4. ASSUME NEW h \in HTLCs \ S
      PROVE  SumOf(Amt, S \cup {h}) = SumOf(Amt, S) + Amt[h]
  BY <1>2, SumAdd
<1>. QED  BY <1>1, <1>3, <1>4

\* An HTLC is in exactly the set its record names.
LEMMA HtlcSetFacts ==
    ASSUME NEW i, InvoiceType(i), NEW s
    PROVE  /\ HTLCSet(i, s) \in SUBSET HTLCs
           /\ s # "None" => \A h : h \in HTLCSet(i, s) <=> RecordedIn(i, h) = s
BY DEF HTLCSet, RecordedIn, InvoiceType

\* NewInvoice and NoInvoice record no HTLC.
LEMMA EmptyInvoices ==
    /\ InvoiceOK(NoInvoice) /\ NoInvoice.id = 0 /\ NoInvoice.state = "None"
    /\ \A h : RecordedIn(NoInvoice, h) = "None"
    /\ \A id \in Nat \ {0}, hodl \in BOOLEAN :
          /\ InvoiceOK(NewInvoice(id, hodl))
          /\ NewInvoice(id, hodl).id = id /\ NewInvoice(id, hodl).state = "Open"
          /\ \A h : RecordedIn(NewInvoice(id, hodl), h) = "None"
<1>1. DOMAIN << >> = {} /\ << >> \in [{} -> Records]
  OBVIOUS
<1>. DEFINE Empty(i) == /\ i \in [id : Nat, hodl : BOOLEAN, state : {"None", "Open"},
                                 htlcs : {<< >>}, amtPaid : {0}]
                        /\ i.id = 0 <=> i.state = "None"
<1>2. ASSUME NEW i, Empty(i)
      PROVE  InvoiceOK(i) /\ \A h : RecordedIn(i, h) = "None"
  <2>1. i.htlcs = << >>
    BY <1>2
  <2>2. \A h : RecordedIn(i, h) = "None"
    BY <2>1, <1>1 DEF RecordedIn
  <2>3. InvoiceType(i) /\ DOMAIN i.htlcs = {}
    BY <2>1, <1>1, <1>2 DEF InvoiceType, InvoiceStates
  <2>4. \A s : HTLCSet(i, s) = {}
    BY <2>3 DEF HTLCSet
  <2>. QED  BY <1>2, <2>2, <2>3, <2>4 DEF InvoiceOK
<1>3. Empty(NoInvoice) /\ NoInvoice.id = 0 /\ NoInvoice.state = "None"
  BY DEF NoInvoice
<1>4. ASSUME NEW id \in Nat \ {0}, NEW hodl \in BOOLEAN
      PROVE  /\ Empty(NewInvoice(id, hodl)) /\ NewInvoice(id, hodl).id = id
             /\ NewInvoice(id, hodl).state = "Open"
  BY DEF NoInvoice, NewInvoice
<1>. HIDE DEF Empty
<1>. QED  BY <1>2, <1>3, <1>4

\* resolveHtlc changes the state of accepted HTLCs of hs, and nothing else.
LEMMA ResolveHtlcsFacts ==
    ASSUME NEW i, InvoiceType(i), NEW hs, NEW s \in {"Settled", "Canceled"}
    PROVE  LET j == ResolveHtlcs(i, hs, s)
           IN  /\ InvoiceType(j)
               /\ j.id = i.id /\ j.hodl = i.hodl /\ j.state = i.state /\ j.amtPaid = i.amtPaid
               /\ DOMAIN j.htlcs = DOMAIN i.htlcs
               /\ \A h : RecordedIn(j, h) =
                     IF h \in hs /\ RecordedIn(i, h) = "Accepted" THEN s ELSE RecordedIn(i, h)
BY DEF InvoiceType, Records, ResolveHtlcs, RecordedIn
\* updateInvoice on an HTLC that it accepts.
LEMMA AddHtlcFacts ==
    ASSUME NEW i, InvoiceOK(i), i.id # 0, NEW h \in HTLCs \ DOMAIN i.htlcs, Valid(i, h)
    PROVE  LET j == AddHTLC(i, h)
           IN  /\ InvoiceOK(j) /\ j.id = i.id /\ j.state # "Canceled"
               /\ i.state # "Open" => j.state = i.state
               /\ \A g : RecordedIn(j, g) =
                     IF g = h \/ RecordedIn(i, g) = "Accepted"
                     THEN IF j.state = "Settled" THEN "Settled" ELSE "Accepted"
                     ELSE RecordedIn(i, g)
<1>. DEFINE new == [state |-> "Accepted", at |-> Cardinality(DOMAIN i.htlcs) + 1]
            state == StateWith(i, h)
            add == [i EXCEPT !.state = state,
                             !.htlcs = [g \in DOMAIN i.htlcs \cup {h} |->
                                IF g # h THEN i.htlcs[g] ELSE new]]
            done == IF state = "Settled" THEN ResolveHtlcs(add, DOMAIN add.htlcs, "Settled")
                    ELSE add
            paid == HTLCSet(done, "Accepted") \cup HTLCSet(done, "Settled")
            amt == IF state = "Open" THEN 0 ELSE SumAmt(paid)
            j == [done EXCEPT !.amtPaid = amt]
<1>1. AddHTLC(i, h) = j
  BY DEF AddHTLC
<1>2. new \in Records
  <2>1. IsFiniteSet(DOMAIN i.htlcs) /\ IsFiniteSet(DOMAIN i.htlcs \cup {h})
    BY HtlcsAssumption, FS_Subset, FS_AddElement DEF InvoiceOK, InvoiceType
  <2>2. Cardinality(DOMAIN i.htlcs \cup {h}) = Cardinality(DOMAIN i.htlcs) + 1
    BY <2>1, FS_AddElement
  <2>3. Cardinality(DOMAIN i.htlcs \cup {h}) <= Cardinality(HTLCs)
    BY HtlcsAssumption, FS_Subset DEF InvoiceOK, InvoiceType
  <2>4. Cardinality(DOMAIN i.htlcs) \in Nat /\ Cardinality(HTLCs) \in Nat
    BY <2>1, HtlcsAssumption, FS_CardinalityType
  <2>. QED  BY <2>2, <2>3, <2>4 DEF Records
<1>3. /\ state \in {"Open", "Accepted", "Settled"} 
      /\ i.state # "Open" => state = i.state
      /\ i.state = "Open" /\ state # "Open" => SetComplete(i, h)
  BY DEF StateWith, Valid, ValidLegacy, ValidMpp, InvoiceOK, InvoiceType, InvoiceStates
<1>. HIDE DEF new, state
<1>4. /\ InvoiceType(add) /\ add.state = state /\ add.id = i.id
      /\ \A g : RecordedIn(add, g) = IF g = h THEN "Accepted" ELSE RecordedIn(i, g)
  BY <1>2, <1>3 DEF InvoiceOK, InvoiceType, InvoiceStates, RecordedIn, new
<1>. HIDE DEF add
<1>5. /\ InvoiceType(done) /\ done.state = state /\ done.id = i.id
      /\ \A g : RecordedIn(done, g) =
            IF g = h \/ RecordedIn(i, g) = "Accepted"
            THEN IF state = "Settled" THEN "Settled" ELSE "Accepted"
            ELSE RecordedIn(i, g)
  BY <1>4, ResolveHtlcsFacts DEF RecordedIn
<1>. HIDE DEF done
<1>. DEFINE before == HTLCSet(i, IF i.state = "Settled" THEN "Settled" ELSE "Accepted")
<1>6. /\ before \in SUBSET HTLCs /\ h \notin before
      /\ state # "Open" => paid = before \cup {h} /\ HTLCSet(done, state) = paid
      /\ state # "Settled" => HTLCSet(done, "Settled") = {}
      /\ state = "Settled" => HTLCSet(done, "Accepted") = {}
  <2>1. \A s : s # "None" => \A g :
           /\ g \in HTLCSet(i, s) <=> RecordedIn(i, g) = s
           /\ g \in HTLCSet(done, s) <=> RecordedIn(done, g) = s
    BY <1>5, HtlcSetFacts DEF InvoiceOK
  <2>2. RecordedIn(i, h) = "None"
    BY DEF RecordedIn
  <2>3. before \in SUBSET HTLCs /\ h \notin before
    BY <2>1, <2>2, HtlcSetFacts DEF InvoiceOK
  <2>4. \A g : /\ i.state # "Settled" => RecordedIn(i, g) # "Settled"
               /\ i.state = "Settled" => RecordedIn(i, g) # "Accepted"
    BY <2>1 DEF InvoiceOK
  <2>. QED  BY <1>3, <1>5, <2>1, <2>2, <2>3, <2>4
<1>7. SumAmt(before \cup {h}) \in Nat /\ (state # "Open" => SumAmt(before \cup {h}) >= Value)
  <2>1. /\ SumAmt(before) \in Nat /\ Amt[h] \in Nat /\ Total[h] \in Nat /\ Value \in Nat
        /\ SumAmt(before \cup {h}) = SumAmt(before) + Amt[h]
    BY <1>6, SumAmtFacts, HtlcsAssumption
  <2>2. CASE Total[h] = 0
    BY <2>1, <2>2 DEF Valid, ValidLegacy
  <2>3. CASE Total[h] # 0
    <3>1. i.state = "Open" /\ Total[h] >= Value
      BY <2>3 DEF Valid, ValidMpp
    <3>2. state # "Open" => SumAmt(before) + Amt[h] >= Total[h]
      BY <3>1, <1>3 DEF SetComplete
    <3>. QED  BY <2>1, <3>1, <3>2
  <2>. QED  BY <2>2, <2>3
<1>8. /\ amt \in Nat
      /\ state # "Open" => paid = HTLCSet(done, state) /\ amt = SumAmt(paid) /\ amt >= Value
      /\ state # "Open" => h \in paid
  BY <1>6, <1>7
<1>. HIDE DEF before, paid, amt
<1>9. /\ j.state = state /\ j.htlcs = done.htlcs /\ j.id = i.id /\ j.amtPaid = amt
      /\ InvoiceType(j)
      /\ \A s : HTLCSet(j, s) = HTLCSet(done, s)
      /\ \A g : RecordedIn(j, g) = RecordedIn(done, g)
  BY <1>5, <1>8 DEF InvoiceType, HTLCSet, RecordedIn
<1>. HIDE DEF j
<1>10. InvoiceOK(j)
  BY <1>3, <1>6, <1>8, <1>9 DEF InvoiceOK
<1>. QED  BY <1>1, <1>3, <1>5, <1>9, <1>10

\* settleHodlInvoice.
LEMMA SettleHodlFacts ==
    ASSUME NEW i, InvoiceOK(i), i.state = "Accepted"
    PROVE  LET j == SettleHodl(i)
           IN  /\ InvoiceOK(j) /\ j.id = i.id /\ j.state = "Settled"
               /\ \A g : RecordedIn(j, g) = IF RecordedIn(i, g) = "Accepted" THEN "Settled"
                                            ELSE RecordedIn(i, g)
<1>. DEFINE done == ResolveHtlcs(i, DOMAIN i.htlcs, "Settled")
            amt == SumAmt(HTLCSet(i, "Accepted"))
            j == [done EXCEPT !.state = "Settled", !.amtPaid = amt]
<1>1. /\ InvoiceType(done) /\ done.id = i.id
      /\ \A g : RecordedIn(done, g) = IF RecordedIn(i, g) = "Accepted" THEN "Settled"
                                      ELSE RecordedIn(i, g)
  BY ResolveHtlcsFacts DEF InvoiceOK, RecordedIn
<1>2. amt \in Nat /\ amt >= Value
  BY SumAmtFacts, HtlcSetFacts DEF InvoiceOK
<1>3. HTLCSet(done, "Settled") = HTLCSet(i, "Accepted") /\ HTLCSet(done, "Accepted") = {}
  <2>1. \A s : s # "None" => \A g :
           /\ g \in HTLCSet(i, s) <=> RecordedIn(i, g) = s
           /\ g \in HTLCSet(done, s) <=> RecordedIn(done, g) = s
    BY <1>1, HtlcSetFacts DEF InvoiceOK
  <2>2. HTLCSet(i, "Settled") = {}
    BY DEF InvoiceOK
  <2>. HIDE DEF done
  <2>. QED  BY <1>1, <2>1, <2>2
<1>4. SettleHodl(i) = j
  BY DEF SettleHodl
<1>. HIDE DEF done
<1>5. /\ j.state = "Settled" /\ j.id = i.id /\ j.amtPaid = amt /\ InvoiceType(j)
      /\ \A s : HTLCSet(j, s) = HTLCSet(done, s)
      /\ \A g : RecordedIn(j, g) = RecordedIn(done, g)
  BY <1>1, <1>2 DEF InvoiceType, InvoiceStates, HTLCSet, RecordedIn
<1>. HIDE DEF amt, j
<1>6. InvoiceOK(j)
  BY <1>2, <1>3, <1>5 DEF InvoiceOK, amt
<1>. QED  BY <1>1, <1>4, <1>5, <1>6

\* cancelInvoice leaves nothing accepted, and deletes the invoice when canceled ones are collected.
LEMMA CancelInvoiceFacts ==
    ASSUME NEW i, InvoiceOK(i), i.state \in {"Open", "Accepted"}
    PROVE  LET j == CancelInvoice(i)
           IN  /\ InvoiceOK(j) /\ j.id \in {0, i.id} /\ j.state \in {"None", "Canceled"}
               /\ \A g : RecordedIn(j, g) \in {"None", "Canceled"}
<1>. DEFINE done == ResolveHtlcs(i, DOMAIN i.htlcs, "Canceled")
            j == [done EXCEPT !.state = "Canceled"]
<1>1. /\ InvoiceType(done) /\ done.id = i.id
      /\ \A g : RecordedIn(done, g) = IF RecordedIn(i, g) = "Accepted" THEN "Canceled"
                                      ELSE RecordedIn(i, g)
  BY ResolveHtlcsFacts DEF InvoiceOK, RecordedIn
<1>2. \A g : RecordedIn(i, g) \in {"None", "Accepted", "Canceled"}
  BY HtlcSetFacts DEF InvoiceOK, InvoiceType, Records, RecordedIn
<1>3. CancelInvoice(i) = IF GcCanceled THEN NoInvoice ELSE j
  BY DEF CancelInvoice
<1>. HIDE DEF done
<1>4. /\ j.state = "Canceled" /\ j.id = i.id /\ InvoiceType(j)
      /\ \A g : RecordedIn(j, g) = RecordedIn(done, g)
  BY <1>1 DEF InvoiceType, InvoiceStates, RecordedIn
<1>. HIDE DEF j
<1>5. InvoiceOK(j)
  <2>1. HTLCSet(j, "Settled") = {} /\ HTLCSet(j, "Accepted") = {}
    BY <1>1, <1>2, <1>4, HtlcSetFacts
  <2>. QED  BY <1>4, <2>1 DEF InvoiceOK
<1>. QED  BY <1>1, <1>2, <1>3, <1>4, <1>5, EmptyInvoices

\* Canceling HTLCs of an open invoice leaves it open and the others as they are.
LEMMA CancelHtlcsFacts ==
    ASSUME NEW i, InvoiceOK(i), i.state = "Open", NEW hs
    PROVE  LET j == ResolveHtlcs(i, hs, "Canceled")
           IN  /\ InvoiceOK(j) /\ j.id = i.id /\ j.state = "Open"
               /\ \A g : RecordedIn(j, g) =
                     IF g \in hs /\ RecordedIn(i, g) = "Accepted" THEN "Canceled"
                     ELSE RecordedIn(i, g)
<1>. DEFINE j == ResolveHtlcs(i, hs, "Canceled")
<1>1. /\ InvoiceType(j) /\ j.id = i.id /\ j.state = "Open"
      /\ \A g : RecordedIn(j, g) =
            IF g \in hs /\ RecordedIn(i, g) = "Accepted" THEN "Canceled" ELSE RecordedIn(i, g)
  BY ResolveHtlcsFacts DEF InvoiceOK
<1>. HIDE DEF j
<1>2. HTLCSet(j, "Settled") = {}
  BY <1>1, HtlcSetFacts DEF InvoiceOK
<1>3. InvoiceOK(j)
  BY <1>1, <1>2 DEF InvoiceOK
<1>. QED  BY <1>1, <1>3 DEF j

\* makeInvoiceExpiry names the first accepted HTLC to time out.
LEMMA MinExpiryFacts ==
    ASSUME NEW i, InvoiceType(i), HTLCSet(i, "Accepted") # {}
    PROVE  /\ \E h \in HTLCSet(i, "Accepted") : MinExpiry(i) = Expiry[h]
           /\ MinExpiry(i) \in Nat
           /\ \A h \in HTLCSet(i, "Accepted") : MinExpiry(i) <= Expiry[h]
<1>. DEFINE T == {Expiry[h] : h \in HTLCSet(i, "Accepted")}
<1>1. T \subseteq Nat /\ T # {}
  BY HtlcsAssumption, HtlcSetFacts
<1>2. Min(T) \in T /\ \A k \in T : Min(T) <= k
  BY <1>1, MinIsLeast
<1>. QED  BY <1>1, <1>2 DEF MinExpiry
-----------------------------------------------------------------------------
(* The inductive invariant.                                                *)

LinkStates == {"offered", "held", "settling", "failing", "settled", "failed"}

Fates == [h : HTLCs, fate : {"settle", "fail"}]

Answers == [h : SUBSET HTLCs, res : {"none", "accept", "settle", "fail"},
            tell : SUBSET Fates, expire : Nat, timer : BOOLEAN]

StateOK ==
    /\ InvoiceOK(inv) /\ inv.id <= added /\ added \in 0..MaxInvoices
    /\ htlc \in [HTLCs -> LinkStates]
    /\ subs \subseteq HTLCs /\ release \subseteq HTLCs /\ queue \subseteq Fates
    /\ timers \subseteq [h : HTLCs, at : 1..Cardinality(HTLCs)]
    /\ watch \in [ts : SUBSET (1..added), heights : SUBSET [id : 1..added, height : Nat]]
    /\ height \in 1..MaxHeight

(***************************************************************************)
(* What the call that holds the mutex still relies on: its link waits, the *)
(* HTLC it accepted is on a live invoice, and what it will tell is of one  *)
(* kind.  Only the event loop and the deletion of a canceled invoice       *)
(* change the record meanwhile.                                            *)
(***************************************************************************)
CallOK ==
    /\ call \in Answers
    /\ call.res = "none" => call = NoCall
    /\ \A h \in call.h : htlc[h] = "offered"
    /\ call.res = "accept" =>
          inv.state \in {"Open", "Accepted"} /\ \A h \in call.h : h \in DOMAIN inv.htlcs
    /\ call.timer <=> call.res = "accept" /\ inv.state = "Open"
    /\ call.expire # 0 => inv.state = "Accepted"
    /\ \A r, q \in call.tell : r.fate = q.fate

\* A link waits for at most one answer: from its subscription, or in its queue.
QueueOK ==
    /\ \A h \in subs : htlc[h] = "held" /\ \A r \in queue : r.h # h
    /\ ResolutionsExpected

\* The preimage, once promised to a link, belongs to a settled HTLC.
SettledOK ==
    /\ \A h \in HTLCs : htlc[h] \in {"settling", "settled"} => RecordedIn(inv, h) = "Settled"
    /\ \A r \in queue \cup call.tell : r.fate = "settle" => RecordedIn(inv, r.h) = "Settled"
    /\ call.res = "settle" => \A h \in call.h : RecordedIn(inv, h) = "Settled"

IInv == StateOK /\ CallOK /\ QueueOK /\ SettledOK

\* The invariant holds initially.
LEMMA IInvInit == Init => IInv
<1>. SUFFICES ASSUME Init PROVE IInv
  OBVIOUS
<1>1. StateOK
  BY EmptyInvoices, SwitchesAssumption DEF Init, StateOK, LinkStates
<1>2. CallOK
  BY DEF Init, CallOK, NoCall, Fates, Answers
<1>3. QueueOK /\ SettledOK
  BY DEF Init, QueueOK, ResolutionsExpected, SettledOK, NoCall
<1>. QED  BY <1>1, <1>2, <1>3 DEF IInv

\* A call starts when no other holds the mutex.
LEMMA CallingFacts ==
    ASSUME NEW h, Calling(h), CallOK
    PROVE  call.h = {} /\ call.res = "none" /\ call.tell = {} /\ htlc[h] = "offered"
BY DEF Calling, Locked, NoCall, CallOK

(***************************************************************************)
(* What a call has done when the database has answered: the answer agrees  *)
(* with the record, and every other HTLC whose record changed will hear.   *)
(***************************************************************************)
Answered(h) ==
    /\ UNCHANGED <<added, htlc, subs, queue, timers, release, watch, height>>
    /\ call.h = {} /\ call.res = "none" /\ call.tell = {} /\ htlc[h] = "offered"
    /\ TimerRaces \/ h \notin release
    /\ InvoiceOK(inv') /\ inv'.id = inv.id
    /\ inv.state # "Open" => inv'.state = inv.state
    /\ \A g : RecordedIn(inv, g) = "Settled" => RecordedIn(inv', g) = "Settled"
    /\ \A g : g # h /\ RecordedIn(inv', g) = "Accepted" => RecordedIn(inv, g) = "Accepted"
    /\ \A g : g # h /\ RecordedIn(inv, g) \notin {"Accepted", "Settled"} =>
                RecordedIn(inv', g) \notin {"Accepted", "Settled"}
    /\ \A g : RecordedIn(inv, g) = "Accepted" =>
                RecordedIn(inv', g) = "Accepted" \/ \E r \in call'.tell : r.h = g
    /\ call' \in Answers /\ call'.h = {h} /\ call'.res # "none"
    /\ call'.res = "settle" => RecordedIn(inv', h) = "Settled"
    /\ call'.res = "accept" => /\ RecordedIn(inv', h) = "Accepted"
                               /\ inv'.state \in {"Open", "Accepted"}
    /\ call'.res = "fail" => RecordedIn(inv', h) \notin {"Accepted", "Settled"}
    /\ call'.timer <=> call'.res = "accept" /\ inv'.state = "Open"
    /\ call'.expire # 0 => inv'.state = "Accepted"
    /\ \A r, q \in call'.tell : r.fate = q.fate
    /\ \A r \in call'.tell : RecordedIn(inv', r.h) = IF r.fate = "settle" THEN "Settled"
                                                     ELSE "Canceled"

\* HTLCs of one record set are told one fate.
LEMMA ResolutionsFacts ==
    ASSUME NEW i, InvoiceType(i), NEW s \in {"Settled", "Canceled"}, NEW f \in {"settle", "fail"}
    PROVE  LET rs == Resolutions(HTLCSet(i, s), f)
           IN  /\ rs \in SUBSET Fates
               /\ \A r \in rs : r.fate = f /\ RecordedIn(i, r.h) = s
               /\ \A g : RecordedIn(i, g) = s => \E r \in rs : r.h = g
<1>1. HTLCSet(i, s) \in SUBSET HTLCs /\ \A h : h \in HTLCSet(i, s) <=> RecordedIn(i, h) = s
  BY HtlcSetFacts
<1>2. ASSUME NEW g, RecordedIn(i, g) = s
      PROVE  \E r \in Resolutions(HTLCSet(i, s), f) : r.h = g
  <2>1. [h |-> g, fate |-> f] \in Resolutions(HTLCSet(i, s), f)
    BY <1>1, <1>2 DEF Resolutions
  <2>. QED  BY <2>1
<1>. QED  BY <1>1, <1>2 DEF Resolutions, Fates

\* Every way a call can go leaves it answered.
LEMMA NotifyAnswered ==
    ASSUME IInv, NEW h \in HTLCs, Notify(h)
    PROVE  Answered(h)
<1>1. InvoiceOK(inv) /\ InvoiceType(inv) /\ CallOK
  BY DEF IInv, StateOK, InvoiceOK
<1>2. {} \in SUBSET Fates /\ {h} \in SUBSET HTLCs
  OBVIOUS
<1>3. CASE NotifyUnknown(h)
  <2>1. RecordedIn(inv, h) = "None"
    BY <1>1, <1>3 DEF NotifyUnknown, InvoiceOK, RecordedIn
  <2>. QED  BY <1>1, <1>2, <1>3, <2>1, CallingFacts
            DEF NotifyUnknown, Answered, Call, NoCall, Calling, Answers
<1>4. CASE NotifyReplay(h)
  <2>1. /\ inv' = inv /\ Calling(h) /\ h \in DOMAIN inv.htlcs
        /\ UNCHANGED <<added, htlc, subs, queue, timers, release, watch, height>>
    BY <1>4 DEF NotifyReplay
  <2>2. RecordedIn(inv, h) = inv.htlcs[h].state
    BY <2>1 DEF RecordedIn
  <2>3. CASE inv.htlcs[h].state = "Canceled"
    <3>1. call' = Call(h, "fail")
      BY <1>4, <2>3 DEF NotifyReplay
    <3>. QED  BY <1>1, <1>2, <2>1, <2>2, <2>3, <3>1, CallingFacts
              DEF Answered, Call, NoCall, Calling, Answers
  <2>4. CASE inv.htlcs[h].state = "Accepted"
    <3>1. call' = [Call(h, "accept") EXCEPT !.timer = (inv.state = "Open")]
      BY <1>4, <2>4 DEF NotifyReplay
    <3>2. inv.state \in {"Open", "Accepted"}
      BY <1>1, <2>2, <2>4, HtlcSetFacts DEF InvoiceOK
    <3>. QED  BY <1>1, <1>2, <2>1, <2>2, <2>4, <3>1, <3>2, CallingFacts
              DEF Answered, Call, NoCall, Calling, Answers
  <2>5. CASE inv.htlcs[h].state = "Settled"
    <3>. DEFINE rs == Resolutions(HTLCSet(inv, "Settled"), "settle")
    <3>1. call' = [Call(h, "settle") EXCEPT !.tell = rs]
      BY <1>4, <2>5 DEF NotifyReplay
    <3>2. rs \in SUBSET Fates /\ \A r \in rs : r.fate = "settle" /\ RecordedIn(inv, r.h) = "Settled"
      BY <1>1, ResolutionsFacts
    <3>. HIDE DEF rs
    <3>. QED  BY <1>1, <1>2, <2>1, <2>2, <2>5, <3>1, <3>2, CallingFacts
              DEF Answered, Call, NoCall, Calling, Answers
  <2>. QED  BY <1>1, <2>1, <2>3, <2>4, <2>5 DEF InvoiceType, Records
<1>5. CASE NotifyCancelSet(h)
  <2>1. /\ Calling(h) /\ h \notin DOMAIN inv.htlcs /\ RecordedIn(inv, h) = "None"
        /\ UNCHANGED <<added, htlc, subs, queue, timers, release, watch, height>>
    BY <1>5 DEF NotifyCancelSet, RecordedIn
  <2>2. CASE inv.state = "Open"
    <3>. DEFINE rs == Resolutions(HTLCSet(inv', "Canceled"), "fail")
    <3>1. /\ inv' = ResolveHtlcs(inv, DOMAIN inv.htlcs, "Canceled")
          /\ call' = [Call(h, "fail") EXCEPT !.tell = rs]
      BY <1>5, <2>2 DEF NotifyCancelSet
    <3>2. /\ InvoiceOK(inv') /\ inv'.id = inv.id /\ inv'.state = "Open"
          /\ \A g : RecordedIn(inv', g) =
                IF RecordedIn(inv, g) = "Accepted" THEN "Canceled" ELSE RecordedIn(inv, g)
      BY <1>1, <2>2, <3>1, CancelHtlcsFacts DEF RecordedIn
    <3>3. /\ rs \in SUBSET Fates
          /\ \A r \in rs : r.fate = "fail" /\ RecordedIn(inv', r.h) = "Canceled"
          /\ \A g : RecordedIn(inv', g) = "Canceled" => \E r \in rs : r.h = g
      BY <3>2, ResolutionsFacts DEF InvoiceOK
    <3>. HIDE DEF rs
    <3>4. /\ call'.h = {h} /\ call'.res = "fail" /\ call'.tell = rs /\ call'.expire = 0
          /\ call'.timer = FALSE /\ call' \in Answers
      BY <1>2, <3>1, <3>3 DEF Call, NoCall, Answers
    <3>. QED  BY <1>1, <2>1, <2>2, <3>2, <3>3, <3>4, CallingFacts DEF Answered, Calling
  <2>3. CASE inv.state # "Open"
    <3>1. inv' = inv /\ call' = Call(h, "fail")
      BY <1>5, <2>3 DEF NotifyCancelSet
    <3>. QED  BY <1>1, <1>2, <2>1, <2>3, <3>1, CallingFacts
              DEF Answered, Call, NoCall, Calling, Answers
  <2>. QED  BY <2>2, <2>3
<1>6. CASE NotifyUpdate(h)
  <2>1. /\ Calling(h) /\ inv.id # 0 /\ h \notin DOMAIN inv.htlcs /\ RecordedIn(inv, h) = "None"
        /\ UNCHANGED <<added, htlc, subs, queue, timers, release, watch, height>>
    BY <1>6 DEF NotifyUpdate, RecordedIn
  <2>2. CASE Valid(inv, h)
    <3>. DEFINE rs == Resolutions(HTLCSet(inv', "Settled"), "settle")
    <3>1. /\ inv' = AddHTLC(inv, h)
          /\ inv'.state = "Settled" => call' = [Call(h, "settle") EXCEPT !.tell = rs]
          /\ inv'.state # "Settled" =>
                call' = [Call(h, "accept") EXCEPT
                           !.timer = (inv'.state = "Open"),
                           !.expire = IF inv.state = "Open" /\ inv'.state = "Accepted"
                                      THEN MinExpiry(inv') ELSE 0]
      BY <1>6, <2>2 DEF NotifyUpdate
    <3>2. /\ InvoiceOK(inv') /\ inv'.id = inv.id /\ inv'.state # "Canceled"
          /\ inv.state # "Open" => inv'.state = inv.state
          /\ \A g : RecordedIn(inv', g) =
                IF g = h \/ RecordedIn(inv, g) = "Accepted"
                THEN IF inv'.state = "Settled" THEN "Settled" ELSE "Accepted"
                ELSE RecordedIn(inv, g)
      BY <1>1, <2>1, <2>2, <3>1, AddHtlcFacts
    <3>3. CASE inv'.state = "Settled"
      <4>1. /\ rs \in SUBSET Fates
            /\ \A r \in rs : r.fate = "settle" /\ RecordedIn(inv', r.h) = "Settled"
            /\ \A g : RecordedIn(inv', g) = "Settled" => \E r \in rs : r.h = g
        BY <3>2, ResolutionsFacts DEF InvoiceOK
      <4>2. call' = [Call(h, "settle") EXCEPT !.tell = rs]
        BY <3>1, <3>3
      <4>. HIDE DEF rs
      <4>3. /\ call'.h = {h} /\ call'.res = "settle" /\ call'.tell = rs /\ call'.expire = 0
            /\ call'.timer = FALSE /\ call' \in Answers
        BY <1>2, <4>1, <4>2 DEF Call, NoCall, Answers
      <4>. QED  BY <1>1, <2>1, <3>2, <3>3, <4>1, <4>3, CallingFacts DEF Answered, Calling
    <3>4. CASE inv'.state # "Settled"
      <4>. DEFINE x == IF inv.state = "Open" /\ inv'.state = "Accepted"
                       THEN MinExpiry(inv') ELSE 0
      <4>1. x \in Nat /\ (x # 0 => inv'.state = "Accepted")
        BY <3>2, MinExpiryFacts DEF InvoiceOK
      <4>2. inv'.state \in {"Open", "Accepted"}
        BY <2>1, <3>2, <3>4 DEF InvoiceOK, InvoiceType, InvoiceStates
      <4>3. call' = [Call(h, "accept") EXCEPT !.timer = (inv'.state = "Open"), !.expire = x]
        BY <3>1, <3>4
      <4>. HIDE DEF x
      <4>. QED  BY <1>1, <1>2, <2>1, <3>2, <3>4, <4>1, <4>2, <4>3, CallingFacts
                DEF Answered, Call, NoCall, Calling, Answers
    <3>. QED  BY <3>3, <3>4
  <2>3. CASE ~Valid(inv, h)
    <3>. DEFINE rs == Resolutions(IF SetFailure(inv, h) THEN HTLCSet(inv, "Canceled") ELSE {},
                                  "fail")
    <3>1. inv' = inv /\ call' = [Call(h, "fail") EXCEPT !.tell = rs]
      BY <1>6, <2>3 DEF NotifyUpdate
    <3>2. /\ rs \in SUBSET Fates
          /\ \A r \in rs : r.fate = "fail" /\ RecordedIn(inv, r.h) = "Canceled"
      <4>1. Resolutions({}, "fail") = {}
        BY DEF Resolutions
      <4>. QED  BY <1>1, <4>1, ResolutionsFacts
    <3>. HIDE DEF rs
    <3>. QED  BY <1>1, <1>2, <2>1, <3>1, <3>2, CallingFacts
              DEF Answered, Call, NoCall, Calling, Answers
  <2>. QED  BY <2>2, <2>3
<1>. QED  BY <1>3, <1>4, <1>5, <1>6 DEF Notify
\* notifyHodlSubscribers moves a link that waits from the subscriptions to its queue.
LEMMA SubscribersTold ==
    ASSUME NEW hs \in SUBSET HTLCs, NEW f \in {"settle", "fail"},
           subs \subseteq HTLCs, queue \subseteq Fates, QueueOK, htlc' = htlc,
           NotifyHodlSubscribers(Resolutions(hs, f))
    PROVE  /\ subs' = subs \ hs /\ subs' \subseteq HTLCs
           /\ queue' \subseteq Fates /\ QueueOK'
           /\ \A r \in queue' : r \in queue \/ (r.h \in hs \cap subs /\ r.fate = f)
           /\ \A h \in hs \cap subs : \E r \in queue' : r.h = h
           /\ queue \subseteq queue'
<1>1. subs' = subs \ hs
  <2>1. \A r \in Resolutions(hs, f) : r.h \in hs
    BY DEF Resolutions
  <2>2. ASSUME NEW h \in hs PROVE \E r \in Resolutions(hs, f) : r.h = h
    <3>1. [h |-> h, fate |-> f] \in Resolutions(hs, f)
      BY DEF Resolutions
    <3>. QED  BY <3>1
  <2>3. {r.h : r \in Resolutions(hs, f)} = hs
    BY <2>1, <2>2
  <2>. QED  BY <2>3 DEF NotifyHodlSubscribers
<1>2. /\ queue \subseteq queue' /\ queue' \subseteq Fates
      /\ \A r \in queue' : r \in queue \/ (r.h \in hs \cap subs /\ r.fate = f)
      /\ \A r \in Resolutions(hs, f) : r.h \in subs => r \in queue'
  BY DEF NotifyHodlSubscribers, Resolutions, Fates
<1>3. ASSUME NEW h \in hs \cap subs PROVE \E r \in queue' : r.h = h
  <2>1. [h |-> h, fate |-> f] \in Resolutions(hs, f)
    BY DEF Resolutions
  <2>. QED  BY <1>2, <2>1
<1>4. ResolutionsExpected'
  <2>1. \A r \in queue' : r.h \in subs => r \notin queue
    BY DEF QueueOK
  <2>2. \A r, q \in queue' : r.h = q.h => r = q
    BY <1>2, <2>1 DEF QueueOK, ResolutionsExpected, Fates
  <2>3. \A r \in queue' : htlc[r.h] = "held"
    BY <1>2 DEF QueueOK, ResolutionsExpected
  <2>. QED  BY <2>2, <2>3 DEF ResolutionsExpected
<1>5. QueueOK'
  BY <1>1, <1>2, <1>4 DEF QueueOK
<1>. QED  BY <1>1, <1>2, <1>3, <1>5

(***************************************************************************)
(* cancelInvoiceImpl: the links of accepted and of canceled HTLCs are told *)
(* to fail them.                                                           *)
(***************************************************************************)
LEMMA CancelFacts ==
    ASSUME IInv, ~Locked, inv.state \in {"Open", "Accepted"}, Cancel, htlc' = htlc
    PROVE  /\ InvoiceOK(inv') /\ inv'.id \in {0, inv.id} /\ inv'.state \in {"None", "Canceled"}
           /\ \A g : RecordedIn(inv', g) \in {"None", "Canceled"}
           /\ \A g : RecordedIn(inv, g) # "Settled"
           /\ subs' \subseteq subs /\ queue' \subseteq Fates /\ QueueOK'
           /\ \A r \in queue' : r \in queue \/ r.fate = "fail"
           /\ \A h \in subs : \/ \E r \in queue' : r.h = h
                              \/ h \in subs' /\ RecordedIn(inv, h) # "Accepted"
           /\ queue \subseteq queue'
<1>. DEFINE hs == HTLCSet(inv, "Accepted") \cup HTLCSet(inv, "Canceled")
<1>1. InvoiceOK(inv) /\ InvoiceType(inv) /\ subs \subseteq HTLCs /\ queue \subseteq Fates /\ QueueOK
  BY DEF IInv, StateOK, InvoiceOK
<1>2. /\ inv' = CancelInvoice(inv) /\ NotifyHodlSubscribers(Resolutions(hs, "fail"))
  BY DEF Cancel
<1>3. hs \in SUBSET HTLCs /\ \A g : RecordedIn(inv, g) = "Accepted" => g \in hs
  BY <1>1, HtlcSetFacts
<1>4. \A g : RecordedIn(inv, g) # "Settled"
  BY <1>1, HtlcSetFacts DEF InvoiceOK
<1>. HIDE DEF hs
<1>5. /\ subs' = subs \ hs /\ queue' \subseteq Fates /\ QueueOK' /\ queue \subseteq queue'
      /\ \A r \in queue' : r \in queue \/ (r.h \in hs \cap subs /\ r.fate = "fail")
      /\ \A h \in hs \cap subs : \E r \in queue' : r.h = h
  BY <1>1, <1>2, <1>3, SubscribersTold
<1>. QED  BY <1>1, <1>2, <1>3, <1>4, <1>5, CancelInvoiceFacts

\* settleHodlInvoice: the links of the set are told to settle it.
LEMMA SettleFacts ==
    ASSUME IInv, SettleHodlInvoice
    PROVE  /\ InvoiceOK(inv') /\ inv'.id = inv.id /\ inv'.state = "Settled"
           /\ \A g : RecordedIn(inv', g) =
                 IF RecordedIn(inv, g) = "Accepted" THEN "Settled" ELSE RecordedIn(inv, g)
           /\ subs' \subseteq subs /\ queue' \subseteq Fates /\ QueueOK' /\ queue \subseteq queue'
           /\ \A r \in queue' :
                 r \in queue \/ (r.fate = "settle" /\ RecordedIn(inv', r.h) = "Settled")
           /\ \A h \in subs : \/ \E r \in queue' : r.h = h
                              \/ h \in subs' /\ RecordedIn(inv', h) # "Settled"
<1>. DEFINE hs == HTLCSet(inv', "Settled")
<1>1. InvoiceOK(inv) /\ subs \subseteq HTLCs /\ queue \subseteq Fates /\ QueueOK
  BY DEF IInv, StateOK
<1>2. /\ inv' = SettleHodl(inv) /\ inv.state = "Accepted" /\ htlc' = htlc
      /\ NotifyHodlSubscribers(Resolutions(hs, "settle"))
  BY DEF SettleHodlInvoice
<1>3. /\ InvoiceOK(inv') /\ inv'.id = inv.id /\ inv'.state = "Settled"
      /\ \A g : RecordedIn(inv', g) =
            IF RecordedIn(inv, g) = "Accepted" THEN "Settled" ELSE RecordedIn(inv, g)
  BY <1>1, <1>2, SettleHodlFacts
<1>4. hs \in SUBSET HTLCs /\ \A g : g \in hs <=> RecordedIn(inv', g) = "Settled"
  BY <1>3, HtlcSetFacts DEF InvoiceOK
<1>. HIDE DEF hs
<1>5. /\ subs' = subs \ hs /\ queue' \subseteq Fates /\ QueueOK' /\ queue \subseteq queue'
      /\ \A r \in queue' : r \in queue \/ (r.h \in hs \cap subs /\ r.fate = "settle")
      /\ \A h \in hs \cap subs : \E r \in queue' : r.h = h
  BY <1>1, <1>2, <1>4, SubscribersTold
<1>. QED  BY <1>3, <1>4, <1>5

\* cancelSingleHtlc changes the record of one accepted HTLC, to canceled.
LEMMA CancelSingleFacts ==
    ASSUME IInv, NEW e \in timers, CancelSingleHtlc(e)
    PROVE  /\ InvoiceOK(inv') /\ inv'.id = inv.id /\ inv'.state = inv.state
           /\ DOMAIN inv'.htlcs = DOMAIN inv.htlcs
           /\ \A g : RecordedIn(inv', g) =
                 IF inv.state = "Open" /\ g = e.h /\ RecordedIn(inv, g) = "Accepted"
                 THEN "Canceled" ELSE RecordedIn(inv, g)
           /\ release' = IF inv.state = "Open" /\ RecordedIn(inv, e.h) = "Accepted"
                         THEN {e.h} ELSE release
           /\ release = {} /\ e.h \in HTLCs
<1>1. InvoiceOK(inv) /\ InvoiceType(inv) /\ e.h \in HTLCs
  BY DEF IInv, StateOK, InvoiceOK
<1>2. e.h \in HTLCSet(inv, "Accepted") <=> RecordedIn(inv, e.h) = "Accepted"
  BY <1>1, HtlcSetFacts
<1>3. CASE inv.state = "Open" /\ e.h \in HTLCSet(inv, "Accepted")
  <2>1. inv' = ResolveHtlcs(inv, {e.h}, "Canceled") /\ release' = {e.h} /\ release = {}
    BY <1>3 DEF CancelSingleHtlc
  <2>2. /\ InvoiceOK(inv') /\ inv'.id = inv.id /\ inv'.state = "Open"
        /\ \A g : RecordedIn(inv', g) =
              IF g \in {e.h} /\ RecordedIn(inv, g) = "Accepted" THEN "Canceled"
              ELSE RecordedIn(inv, g)
    BY <1>1, <1>3, <2>1, CancelHtlcsFacts
  <2>3. DOMAIN inv'.htlcs = DOMAIN inv.htlcs
    BY <1>1, <2>1, ResolveHtlcsFacts
  <2>. QED  BY <1>1, <1>2, <1>3, <2>1, <2>2, <2>3
<1>4. CASE ~(inv.state = "Open" /\ e.h \in HTLCSet(inv, "Accepted"))
  <2>1. inv' = inv /\ release' = release /\ release = {}
    BY <1>4 DEF CancelSingleHtlc
  <2>. QED  BY <1>1, <1>2, <1>4, <2>1
<1>. QED  BY <1>3, <1>4
-----------------------------------------------------------------------------
(* Every step preserves the invariant.                                     *)

\* A call that has been answered.
LEMMA IInvNotify ==
    ASSUME IInv, NEW h \in HTLCs, Notify(h)
    PROVE  IInv'
<1>. USE DEF IInv
<1>1. Answered(h)
  BY NotifyAnswered
<1>2. StateOK'
  BY <1>1 DEF Answered, StateOK
<1>3. CallOK'
  <2>1. h \in DOMAIN inv'.htlcs \/ RecordedIn(inv', h) = "None"
    BY DEF RecordedIn
  <2>. QED  BY <1>1, <2>1 DEF Answered, CallOK
<1>4. QueueOK'
  BY <1>1 DEF Answered, QueueOK, ResolutionsExpected
<1>5. SettledOK'
  BY <1>1 DEF Answered, SettledOK
<1>. QED  BY <1>2, <1>3, <1>4, <1>5

\* The rest of NotifyExitHopHtlc.
LEMMA IInvReturn ==
    ASSUME IInv, NotifyReturn
    PROVE  IInv'
<1>. DEFINE told == {r.h : r \in call.tell}
            held == IF call.res = "accept" THEN call.h ELSE {}
<1>1. /\ UNCHANGED <<inv, added, release, height>> /\ call' = NoCall
      /\ queue' = queue \cup {r \in call.tell : r.h \in subs}
      /\ subs' = (subs \ told) \cup held
      /\ watch' = IF call.expire = 0 THEN watch
                  ELSE [watch EXCEPT !.heights = @ \cup {[id |-> inv.id, height |-> call.expire]}]
      /\ timers' = timers \cup IF call.timer
                               THEN {[h |-> h, at |-> inv.htlcs[h].at] : h \in held} ELSE {}
  BY DEF NotifyReturn
<1>2. /\ htlc' \in [HTLCs -> LinkStates]
      /\ \A h \in HTLCs : h \notin call.h => htlc'[h] = htlc[h]
      /\ \A h \in call.h : /\ call.res = "accept" => htlc'[h] = "held"
                           /\ call.res = "settle" => htlc'[h] = "settling"
                           /\ call.res = "fail" => htlc'[h] = "failing"
  <2>1. call.res \in {"accept", "settle", "fail"} \/ call.h = {}
    BY DEF IInv, CallOK, Answers, NoCall
  <2>2. htlc' = [h \in HTLCs |->
                   IF h \notin call.h THEN htlc[h]
                   ELSE CASE call.res = "accept" -> "held"
                          [] call.res = "settle" -> "settling"
                          [] call.res = "fail" -> "failing"]
    BY DEF NotifyReturn
  <2>3. call.h \subseteq HTLCs /\ htlc \in [HTLCs -> LinkStates]
    BY DEF IInv, CallOK, Answers, StateOK
  <2>. QED  BY <2>1, <2>2, <2>3 DEF LinkStates
<1>3. /\ call \in Answers /\ held \subseteq HTLCs /\ held \subseteq call.h
      /\ \A h \in call.h : htlc[h] = "offered" /\ h \notin subs
      /\ \A r \in queue : r.h \notin call.h
      /\ call.res = "accept" => \A h \in call.h : h \in DOMAIN inv.htlcs
  BY DEF IInv, CallOK, Answers, QueueOK, ResolutionsExpected
<1>4. StateOK'
  <2>1. subs' \subseteq HTLCs /\ queue' \subseteq Fates
    BY <1>1, <1>3 DEF IInv, StateOK, Answers
  <2>2. timers' \subseteq [h : HTLCs, at : 1..Cardinality(HTLCs)]
    <3>1. \A h \in held : inv.htlcs[h].at \in 1..Cardinality(HTLCs)
      BY <1>3 DEF IInv, StateOK, InvoiceOK, InvoiceType, Records
    <3>. QED  BY <1>1, <1>3, <3>1 DEF IInv, StateOK
  <2>3. watch' \in [ts : SUBSET (1..added), heights : SUBSET [id : 1..added, height : Nat]]
    <3>1. call.expire # 0 => inv.id \in 1..added
      BY DEF IInv, CallOK, StateOK, InvoiceOK, InvoiceType
    <3>2. call.expire \in Nat
      BY <1>3 DEF Answers
    <3>3. watch \in [ts : SUBSET (1..added), heights : SUBSET [id : 1..added, height : Nat]]
      BY DEF IInv, StateOK
    <3>. QED  BY <1>1, <3>1, <3>2, <3>3
  <2>. QED  BY <1>1, <1>2, <2>1, <2>2, <2>3 DEF IInv, StateOK
<1>5. CallOK'
  BY <1>1 DEF CallOK, NoCall, Answers
<1>6. QueueOK'
  <2>1. \A h \in subs' : htlc'[h] = "held" /\ \A r \in queue' : r.h # h
    <3>1. ASSUME NEW h \in subs \ told
          PROVE  htlc'[h] = "held" /\ \A r \in queue' : r.h # h
      BY <1>1, <1>2, <1>3 DEF IInv, QueueOK, StateOK
    <3>2. ASSUME NEW h \in held
          PROVE  htlc'[h] = "held" /\ \A r \in queue' : r.h # h
      <4>1. call.res = "accept" /\ h \in call.h
        OBVIOUS
      <4>2. h \notin subs /\ \A r \in queue : r.h # h
        BY <1>3, <4>1
      <4>3. htlc'[h] = "held"
        BY <1>2, <4>1
      <4>. QED  BY <1>1, <4>2, <4>3
    <3>. HIDE DEF told, held
    <3>. QED  BY <1>1, <3>1, <3>2
  <2>2. \A r \in queue' : htlc'[r.h] = "held"
    BY <1>1, <1>2, <1>3 DEF IInv, QueueOK, ResolutionsExpected, StateOK, Fates, Answers
  <2>3. ASSUME NEW r \in queue', NEW q \in queue', r.h = q.h PROVE r = q
    <3>1. r \in queue /\ q \in queue => r = q
      BY <2>3 DEF IInv, QueueOK, ResolutionsExpected
    <3>2. r \in queue <=> q \in queue
      BY <1>1, <2>3 DEF IInv, QueueOK
    <3>3. r \in call.tell /\ q \in call.tell => r = q
      BY <2>3, <1>3 DEF IInv, CallOK, Answers, Fates
    <3>. QED  BY <1>1, <3>1, <3>2, <3>3
  <2>. QED  BY <2>1, <2>2, <2>3 DEF QueueOK, ResolutionsExpected
<1>7. SettledOK'
  <2>1. ASSUME NEW h \in HTLCs, htlc'[h] \in {"settling", "settled"}
        PROVE  RecordedIn(inv, h) = "Settled"
    <3>1. CASE h \in call.h
      <4>1. call.res = "settle"
        <5>1. call.res \in {"accept", "settle", "fail"}
          BY <3>1 DEF IInv, CallOK, Answers, NoCall
        <5>2. /\ call.res = "accept" => htlc'[h] = "held"
              /\ call.res = "fail" => htlc'[h] = "failing"
          BY <1>2, <3>1
        <5>. QED  BY <2>1, <5>1, <5>2
      <4>. QED  BY <3>1, <4>1 DEF IInv, SettledOK
    <3>2. CASE h \notin call.h
      BY <1>2, <2>1, <3>2 DEF IInv, SettledOK
    <3>. QED  BY <3>1, <3>2
  <2>2. \A r \in queue' \cup call'.tell : r.fate = "settle" => RecordedIn(inv, r.h) = "Settled"
    BY <1>1 DEF IInv, SettledOK, NoCall
  <2>3. call'.res # "settle"
    BY <1>1 DEF NoCall
  <2>. QED  BY <1>1, <2>1, <2>2, <2>3 DEF SettledOK
<1>. QED  BY <1>4, <1>5, <1>6, <1>7 DEF IInv
\* The registry's event loop.
LEMMA IInvEventLoop ==
    ASSUME IInv, EventLoop
    PROVE  IInv'
<1>1. ASSUME NEW e \in timers, CancelSingleHtlc(e) PROVE IInv'
  <2>1. /\ InvoiceOK(inv') /\ inv'.id = inv.id /\ inv'.state = inv.state
        /\ DOMAIN inv'.htlcs = DOMAIN inv.htlcs /\ release' \subseteq HTLCs
        /\ \A g : RecordedIn(inv, g) = "Settled" => RecordedIn(inv', g) = "Settled"
    BY <1>1, CancelSingleFacts DEF IInv, StateOK
  <2>2. timers' \subseteq timers /\ UNCHANGED <<added, htlc, subs, queue, call, watch, height>>
    BY <1>1 DEF CancelSingleHtlc
  <2>3. StateOK'
    BY <2>1, <2>2 DEF IInv, StateOK
  <2>4. CallOK'
    BY <2>1, <2>2 DEF IInv, CallOK
  <2>5. QueueOK' /\ SettledOK'
    BY <2>1, <2>2 DEF IInv, QueueOK, ResolutionsExpected, SettledOK
  <2>. QED  BY <2>3, <2>4, <2>5 DEF IInv
<1>2. ASSUME ReleaseHtlc PROVE IInv'
  <2>1. /\ NotifyHodlSubscribers(Resolutions(release, "fail")) /\ release' = {}
        /\ UNCHANGED <<inv, added, htlc, call, timers, watch, height>>
    BY <1>2 DEF ReleaseHtlc
  <2>2. /\ subs' \subseteq HTLCs /\ queue' \subseteq Fates /\ QueueOK'
        /\ \A r \in queue' : r \in queue \/ r.fate = "fail"
    BY <2>1, SubscribersTold DEF IInv, StateOK
  <2>3. StateOK'
    BY <2>1, <2>2 DEF IInv, StateOK
  <2>4. CallOK'
    BY <2>1 DEF IInv, CallOK
  <2>5. SettledOK'
    BY <2>1, <2>2 DEF IInv, SettledOK
  <2>. QED  BY <2>2, <2>3, <2>4, <2>5 DEF IInv
<1>. QED  BY <1>1, <1>2 DEF EventLoop

\* Canceling an invoice, by the user or by the expiry watcher.
LEMMA IInvCancel ==
    ASSUME IInv, ~Locked, inv.state \in {"Open", "Accepted"}, Cancel,
           UNCHANGED <<added, htlc, call, timers, release, height>>,
           watch' \in [ts : SUBSET watch.ts, heights : SUBSET watch.heights]
    PROVE  IInv'
<1>1. /\ InvoiceOK(inv') /\ inv'.id \in {0, inv.id} /\ inv'.state \in {"None", "Canceled"}
      /\ \A g : RecordedIn(inv, g) # "Settled"
      /\ subs' \subseteq subs /\ queue' \subseteq Fates /\ QueueOK'
      /\ \A r \in queue' : r \in queue \/ r.fate = "fail"
  BY CancelFacts
<1>2. call = NoCall
  BY DEF Locked
<1>3. StateOK'
  BY <1>1 DEF IInv, StateOK, InvoiceOK, InvoiceType
<1>4. CallOK'
  BY <1>2 DEF CallOK, NoCall, Answers
<1>5. SettledOK'
  BY <1>1, <1>2 DEF IInv, SettledOK, NoCall
<1>. QED  BY <1>1, <1>3, <1>4, <1>5 DEF IInv

\* The user.
LEMMA IInvUser ==
    ASSUME IInv, User
    PROVE  IInv'
<1>1. CASE AddInvoice
  <2>. PICK hodl \in BOOLEAN : inv' = NewInvoice(added + 1, hodl)
    BY <1>1, SwitchesAssumption DEF AddInvoice
  <2>1. /\ call = NoCall /\ added' = added + 1 /\ added < MaxInvoices /\ inv.id = 0
        /\ watch' = [watch EXCEPT !.ts = @ \cup {added + 1}]
        /\ UNCHANGED <<htlc, subs, queue, call, timers, release, height>>
    BY <1>1 DEF AddInvoice, Locked
  <2>2. /\ InvoiceOK(inv') /\ inv'.id = added + 1 /\ inv'.state = "Open"
        /\ added \in Nat /\ MaxInvoices \in Nat
    BY EmptyInvoices, SwitchesAssumption DEF IInv, StateOK
  <2>3. watch' \in [ts : SUBSET (1..added'), heights : SUBSET [id : 1..added', height : Nat]]
    <3>1. 1..added \subseteq 1..added' /\ added + 1 \in 1..added'
      BY <2>1, <2>2
    <3>2. watch.ts \subseteq 1..added'
      BY <3>1 DEF IInv, StateOK
    <3>3. watch.heights \subseteq [id : 1..added', height : Nat]
      BY <3>1 DEF IInv, StateOK
    <3>4. watch' = [ts |-> watch.ts \cup {added + 1}, heights |-> watch.heights]
      BY <2>1 DEF IInv, StateOK
    <3>. QED  BY <3>1, <3>2, <3>3, <3>4
  <2>4. StateOK'
    BY <2>1, <2>2, <2>3 DEF IInv, StateOK
  <2>5. CallOK'
    BY <2>1 DEF CallOK, NoCall, Answers
  <2>6. \A g : RecordedIn(inv, g) # "Settled"
    BY <2>1 DEF IInv, StateOK, InvoiceOK, RecordedIn
  <2>7. QueueOK' /\ SettledOK'
    BY <2>1, <2>6 DEF IInv, QueueOK, ResolutionsExpected, SettledOK, NoCall
  <2>. QED  BY <2>4, <2>5, <2>7 DEF IInv
<1>2. CASE SettleHodlInvoice
  <2>1. /\ InvoiceOK(inv') /\ inv'.id = inv.id
        /\ \A g : RecordedIn(inv, g) = "Settled" => RecordedIn(inv', g) = "Settled"
        /\ subs' \subseteq subs /\ queue' \subseteq Fates /\ QueueOK'
        /\ \A r \in queue' :
              r \in queue \/ (r.fate = "settle" /\ RecordedIn(inv', r.h) = "Settled")
    BY <1>2, SettleFacts
  <2>2. call = NoCall /\ UNCHANGED <<added, htlc, call, timers, release, watch, height>>
    BY <1>2 DEF SettleHodlInvoice, Locked
  <2>3. StateOK'
    BY <2>1, <2>2 DEF IInv, StateOK
  <2>4. CallOK'
    BY <2>2 DEF CallOK, NoCall, Answers
  <2>5. SettledOK'
    BY <2>1, <2>2 DEF IInv, SettledOK, NoCall
  <2>. QED  BY <2>1, <2>3, <2>4, <2>5 DEF IInv
<1>3. CASE CancelByUser
  BY <1>3, IInvCancel DEF CancelByUser, IInv, StateOK
<1>4. CASE DeleteCanceledInvoice
  <2>1. /\ inv.state = "Canceled" /\ inv' = NoInvoice
        /\ UNCHANGED <<added, htlc, subs, queue, call, timers, release, watch, height>>
    BY <1>4 DEF DeleteCanceledInvoice
  <2>2. \A g : RecordedIn(inv, g) # "Settled"
    BY <2>1, HtlcSetFacts DEF IInv, StateOK, InvoiceOK
  <2>3. StateOK'
    BY <2>1, EmptyInvoices, SwitchesAssumption DEF IInv, StateOK
  <2>4. CallOK'
    BY <2>1, EmptyInvoices DEF IInv, CallOK
  <2>5. QueueOK' /\ SettledOK'
    BY <2>1, <2>2 DEF IInv, QueueOK, ResolutionsExpected, SettledOK, CallOK, Answers, Fates, StateOK
  <2>. QED  BY <2>3, <2>4, <2>5 DEF IInv
<1>. QED  BY <1>1, <1>2, <1>3, <1>4 DEF User
\* The expiry watcher.
LEMMA IInvWatcher ==
    ASSUME IInv, Watcher
    PROVE  IInv'
<1>1. ASSUME NEW id, NEW force, CancelIfSame(id, force), ~Locked,
             UNCHANGED <<added, htlc, call, timers, release, height>>,
             watch' \in [ts : SUBSET watch.ts, heights : SUBSET watch.heights]
      PROVE  IInv'
  <2>1. CASE UNCHANGED <<inv, subs, queue>>
    <3>1. StateOK'
      BY <1>1, <2>1 DEF IInv, StateOK
    <3>2. CallOK' /\ QueueOK' /\ SettledOK'
      BY <1>1, <2>1 DEF IInv, CallOK, QueueOK, ResolutionsExpected, SettledOK
    <3>. QED  BY <3>1, <3>2 DEF IInv
  <2>2. CASE inv.state \in {"Open", "Accepted"} /\ Cancel
    BY <1>1, <2>2, IInvCancel
  <2>. QED  BY <1>1, <2>1, <2>2 DEF CancelIfSame
<1>2. watch \in [ts : SUBSET watch.ts, heights : SUBSET watch.heights]
  BY DEF IInv, StateOK
<1>3. ASSUME NEW id \in watch.ts, CancelNextExpiredInvoice(id) PROVE IInv'
  <2>1. watch' \in [ts : SUBSET watch.ts, heights : SUBSET watch.heights]
    BY <1>2, <1>3 DEF CancelNextExpiredInvoice
  <2>. QED  BY <1>1, <1>3, <2>1 DEF CancelNextExpiredInvoice
<1>4. ASSUME NEW e \in watch.heights, CancelNextHeightExpiredInvoice(e) PROVE IInv'
  <2>1. watch' \in [ts : SUBSET watch.ts, heights : SUBSET watch.heights]
    BY <1>2, <1>4 DEF CancelNextHeightExpiredInvoice
  <2>. QED  BY <1>1, <1>4, <2>1 DEF CancelNextHeightExpiredInvoice
<1>5. CASE NewBlock
  <2>1. UNCHANGED <<inv, added, htlc, subs, queue, call, timers, release, watch>>
    BY <1>5 DEF NewBlock
  <2>2. StateOK'
    BY <1>5, <2>1, SwitchesAssumption DEF NewBlock, IInv, StateOK
  <2>3. CallOK' /\ QueueOK' /\ SettledOK'
    BY <2>1 DEF IInv, CallOK, QueueOK, ResolutionsExpected, SettledOK
  <2>. QED  BY <2>2, <2>3 DEF IInv
<1>. QED  BY <1>3, <1>4, <1>5 DEF Watcher

\* The links take what is in their queues and sign for it.
LEMMA IInvQueues ==
    ASSUME IInv, \/ \E r \in queue : ProcessHodlQueue(r)
                 \/ \E h \in HTLCs : CommitRemoval(h)
    PROVE  IInv'
<1>1. ASSUME NEW r \in queue, ProcessHodlQueue(r) PROVE IInv'
  <2>1. /\ r \in Fates /\ htlc[r.h] = "held" /\ queue' = queue \ {r}
        /\ htlc' = [htlc EXCEPT ![r.h] = IF r.fate = "settle" THEN "settling" ELSE "failing"]
        /\ UNCHANGED <<inv, added, subs, call, timers, release, watch, height>>
    BY <1>1 DEF ProcessHodlQueue, IInv, StateOK
  <2>2. StateOK'
    BY <2>1 DEF IInv, StateOK, LinkStates, Fates
  <2>3. CallOK'
    BY <2>1 DEF IInv, CallOK, StateOK, Answers
  <2>4. QueueOK'
    BY <2>1 DEF IInv, QueueOK, ResolutionsExpected, StateOK, Fates
  <2>5. SettledOK'
    BY <2>1 DEF IInv, SettledOK, StateOK, Fates
  <2>. QED  BY <2>2, <2>3, <2>4, <2>5 DEF IInv
<1>2. ASSUME NEW h \in HTLCs, CommitRemoval(h) PROVE IInv'
  <2>1. /\ htlc[h] \in {"settling", "failing"}
        /\ htlc' = [htlc EXCEPT ![h] = IF htlc[h] = "settling" THEN "settled" ELSE "failed"]
        /\ UNCHANGED <<inv, added, subs, queue, call, timers, release, watch, height>>
    BY <1>2 DEF CommitRemoval
  <2>2. StateOK'
    BY <2>1 DEF IInv, StateOK, LinkStates
  <2>3. CallOK'
    BY <2>1 DEF IInv, CallOK, StateOK, Answers
  <2>4. QueueOK'
    BY <2>1 DEF IInv, QueueOK, ResolutionsExpected, StateOK, Fates
  <2>5. SettledOK'
    BY <2>1 DEF IInv, SettledOK, StateOK
  <2>. QED  BY <2>2, <2>3, <2>4, <2>5 DEF IInv
<1>. QED  BY <1>1, <1>2

\* A link stops and starts, or the daemon does.
LEMMA IInvFaults ==
    ASSUME IInv, Faults
    PROVE  IInv'
<1>1. ASSUME NEW c, LinkFlap(c) PROVE IInv'
  <2>1. /\ ~Busy(c)
        /\ htlc' = [h \in HTLCs |-> IF ChanOf[h] = c /\ Uncommitted(h) THEN "offered" ELSE htlc[h]]
        /\ subs' = {h \in subs : ChanOf[h] # c} /\ queue' = {r \in queue : ChanOf[r.h] # c}
        /\ UNCHANGED <<inv, added, call, timers, release, watch, height>>
    BY <1>1 DEF LinkFlap
  <2>2. StateOK'
    BY <2>1 DEF IInv, StateOK, LinkStates
  <2>3. CallOK'
    BY <2>1 DEF IInv, CallOK, StateOK, Answers, Busy
  <2>4. QueueOK'
    BY <2>1 DEF IInv, QueueOK, ResolutionsExpected, StateOK, Fates
  <2>5. SettledOK'
    BY <2>1 DEF IInv, SettledOK, StateOK
  <2>. QED  BY <2>2, <2>3, <2>4, <2>5 DEF IInv
<1>2. CASE Crash
  <2>1. /\ htlc' = [h \in HTLCs |-> IF Uncommitted(h) THEN "offered" ELSE htlc[h]]
        /\ subs' = {} /\ queue' = {} /\ call' = NoCall /\ timers' = {} /\ release' = {}
        /\ watch' = ScanInvoicesOnStart(inv)
        /\ inv' = IF GcCanceled /\ inv.state = "Canceled" THEN NoInvoice ELSE inv
        /\ UNCHANGED <<added, height>>
    BY <1>2 DEF Crash
  <2>2. StateOK'
    <3>1. ScanInvoicesOnStart(inv) \in
            [ts : SUBSET (1..added), heights : SUBSET [id : 1..added, height : Nat]]
      <4>1. inv.state \in {"Open", "Accepted"} => inv.id \in 1..added
        BY DEF IInv, StateOK, InvoiceOK, InvoiceType
      <4>2. inv.state = "Accepted" => MinExpiry(inv) \in Nat
        BY MinExpiryFacts DEF IInv, StateOK, InvoiceOK
      <4>. QED  BY <4>1, <4>2 DEF ScanInvoicesOnStart
    <3>2. InvoiceOK(inv') /\ inv'.id <= added
      BY <2>1, EmptyInvoices, SwitchesAssumption DEF IInv, StateOK
    <3>. QED  BY <2>1, <3>1, <3>2 DEF IInv, StateOK, LinkStates
  <2>3. CallOK' /\ QueueOK'
    BY <2>1 DEF CallOK, NoCall, Answers, QueueOK, ResolutionsExpected
  <2>4. SettledOK'
    <3>1. \A g : RecordedIn(inv, g) = "Settled" => inv' = inv
      BY <2>1, HtlcSetFacts DEF IInv, StateOK, InvoiceOK
    <3>. QED  BY <2>1, <3>1 DEF IInv, SettledOK, StateOK, NoCall, Uncommitted
  <2>. QED  BY <2>2, <2>3, <2>4 DEF IInv
<1>. QED  BY <1>1, <1>2 DEF Faults

\* The invariant is inductive.
LEMMA IInvNext == IInv /\ [Next]_vars => IInv'
<1>. SUFFICES ASSUME IInv, [Next]_vars PROVE IInv'
  OBVIOUS
<1>1. CASE UNCHANGED vars
  BY <1>1 DEF vars, IInv, StateOK, CallOK, QueueOK, ResolutionsExpected, SettledOK
<1>2. CASE Links
  BY <1>2, IInvNotify, IInvReturn, IInvQueues DEF Links
<1>. QED  BY <1>1, <1>2, IInvEventLoop, IInvUser, IInvWatcher, IInvFaults DEF Next

\* It holds in every reachable state.
LEMMA IInvAlways == Spec => []IInv
BY IInvInit, IInvNext, PTL DEF Spec

\* The record, the links and the queues name HTLCs and invoices that exist.
THEOREM TypeCorrect == Spec => []TypeOK
<1>1. IInv => TypeOK
  BY DEF IInv, StateOK, InvoiceOK, InvoiceType, InvoiceStates, Records, CallOK, Answers, Fates,
         LinkStates, TypeOK, Recorded
<1>. QED  BY <1>1, IInvAlways, PTL

(***************************************************************************)
(* Whatever links fail, calls overlap and invoices follow each other, no   *)
(* link gives away the preimage for less than the invoice asks, and what   *)
(* it is paid counts.                                                      *)
(***************************************************************************)
THEOREM PreimagePaidFor == Spec => []PreimageOnlyWhenPaid
<1>1. IInv => PreimageOnlyWhenPaid
  <2>. SUFFICES ASSUME IInv, NEW h \in HTLCs, htlc[h] \in {"settling", "settled"}
                PROVE  /\ inv.state = "Settled" /\ Recorded(h) = "Settled"
                       /\ inv.amtPaid = SumAmt(HTLCSet(inv, "Settled")) /\ inv.amtPaid >= Value
    BY DEF PreimageOnlyWhenPaid
  <2>1. RecordedIn(inv, h) = "Settled" /\ InvoiceOK(inv)
    BY DEF IInv, SettledOK, StateOK
  <2>2. inv.state = "Settled"
    BY <2>1, HtlcSetFacts DEF InvoiceOK
  <2>. QED  BY <2>1, <2>2 DEF InvoiceOK, Recorded, RecordedIn
<1>. QED  BY <1>1, IInvAlways, PTL

\* A link never finds a resolution in its queue that it does not wait for.
THEOREM ResolutionsAwaited == Spec => []ResolutionsExpected
<1>1. IInv => ResolutionsExpected
  BY DEF IInv, QueueOK
<1>. QED  BY <1>1, IInvAlways, PTL
\* An entry of the expiry watcher cancels the invoice it was made for, or none.
THEOREM ExpirySpares == Spec => ExpirySparesOthers
<1>. DEFINE A == \/ inv'.state \notin {"Canceled", "None"}
                 \/ inv.state \notin {"Open", "Accepted"}
                 \/ watch' = watch
                 \/ watch.ts \ watch'.ts = {inv.id}
                 \/ \E e \in watch.heights \ watch'.heights : e.id = inv.id
<1>1. ASSUME IInv, [Next]_vars PROVE [A]_vars
  <2>. SUFFICES ASSUME Next, inv'.state \in {"Canceled", "None"},
                       inv.state \in {"Open", "Accepted"}, watch' # watch
                PROVE  \/ watch.ts \ watch'.ts = {inv.id}
                       \/ \E e \in watch.heights \ watch'.heights : e.id = inv.id
    BY <1>1
  <2>1. inv' # inv
    OBVIOUS
  <2>2. inv.id # 0
    BY <1>1 DEF IInv, StateOK, InvoiceOK
  <2>3. ~Links
    <3>1. ASSUME NEW h \in HTLCs PROVE ~Notify(h)
      BY DEF Notify, NotifyUnknown, NotifyReplay, NotifyCancelSet, NotifyUpdate
    <3>. QED  BY <2>1, <3>1 DEF Links, CommitRemoval, NotifyReturn, ProcessHodlQueue
  <2>4. ~EventLoop
    BY DEF EventLoop, CancelSingleHtlc, ReleaseHtlc
  <2>5. ~User
    BY <2>2 DEF User, AddInvoice, SettleHodlInvoice, CancelByUser, DeleteCanceledInvoice
  <2>6. ~Faults
    BY <2>1 DEF Faults, LinkFlap, Crash
  <2>7. ASSUME NEW id \in watch.ts, CancelNextExpiredInvoice(id)
        PROVE  watch.ts \ watch'.ts = {inv.id}
    <3>1. id = inv.id
      BY <2>1, <2>7 DEF CancelNextExpiredInvoice, CancelIfSame
    <3>2. watch'.ts = watch.ts \ {id}
      BY <1>1, <2>7 DEF CancelNextExpiredInvoice, IInv, StateOK
    <3>. QED  BY <3>1, <3>2
  <2>8. ASSUME NEW e \in watch.heights, CancelNextHeightExpiredInvoice(e)
        PROVE  e \in watch.heights \ watch'.heights /\ e.id = inv.id
    <3>1. e.id = inv.id
      BY <2>1, <2>8 DEF CancelNextHeightExpiredInvoice, CancelIfSame
    <3>2. watch'.heights = watch.heights \ {e}
      BY <1>1, <2>8 DEF CancelNextHeightExpiredInvoice, IInv, StateOK
    <3>. QED  BY <3>1, <3>2
  <2>9. ~NewBlock
    BY DEF NewBlock
  <2>. QED  BY <2>3, <2>4, <2>5, <2>6, <2>7, <2>8, <2>9 DEF Next, Watcher
<1>. QED  BY <1>1, IInvAlways, PTL DEF Spec, ExpirySparesOthers

-----------------------------------------------------------------------------
(* Failures and waiting links, when no release overlaps a call for the     *)
(* same HTLC.                                                              *)

NotHeld(i, h) == RecordedIn(i, h) \notin {"Accepted", "Settled"}

(***************************************************************************)
(* A failure, once promised to a link, is of an HTLC that is not held: an  *)
(* HTLC becomes accepted only in a call of its own link, and while nothing *)
(* is promised for it.                                                     *)
(***************************************************************************)
FailedOK ==
    /\ \A h \in HTLCs : htlc[h] \in {"failing", "failed"} => NotHeld(inv, h)
    /\ \A h \in release : NotHeld(inv, h)
    /\ \A r \in queue \cup call.tell : r.fate = "fail" => NotHeld(inv, r.h)
    /\ call.res = "fail" => \A h \in call.h : NotHeld(inv, h)
    /\ call.res = "accept" => \A h \in call.h : RecordedIn(inv, h) = "Accepted"

\* HeldHtlcsHearBack, of one HTLC.
HearsBack(h) ==
    \/ \E r \in queue : r.h = h
    \/ h \in subs /\ \/ RecordedIn(inv, h) = "Accepted" \/ h \in release
                     \/ \E r \in call.tell : r.h = h

HeldOK == \A h \in HTLCs : htlc[h] = "held" => HearsBack(h)

\* Both hold initially.
LEMMA HeldInit == Init => FailedOK /\ HeldOK
BY DEF Init, FailedOK, HeldOK, NoCall

\* The links.
LEMMA HeldLinks ==
    ASSUME ~TimerRaces, IInv, FailedOK, HeldOK, Links
    PROVE  FailedOK' /\ HeldOK'
<1>1. ASSUME NEW h \in HTLCs, Notify(h) PROVE FailedOK' /\ HeldOK'
  <2>1. Answered(h)
    BY <1>1, NotifyAnswered
  <2>2. \A r \in queue : r.h # h
    BY <2>1 DEF Answered, IInv, QueueOK, ResolutionsExpected
  <2>3. FailedOK'
    BY <2>1, <2>2 DEF Answered, FailedOK, NotHeld
  <2>4. HeldOK'
    BY <2>1 DEF Answered, HeldOK, HearsBack
  <2>. QED  BY <2>3, <2>4
<1>2. CASE NotifyReturn
  <2>. DEFINE told == {r.h : r \in call.tell}
              held == IF call.res = "accept" THEN call.h ELSE {}
  <2>1. /\ UNCHANGED <<inv, release>> /\ call' = NoCall
        /\ queue' = queue \cup {r \in call.tell : r.h \in subs}
        /\ subs' = (subs \ told) \cup held
    BY <1>2 DEF NotifyReturn
  <2>2. ASSUME NEW h \in HTLCs
        PROVE  /\ h \notin call.h => htlc'[h] = htlc[h]
               /\ h \in call.h => htlc'[h] = CASE call.res = "accept" -> "held"
                                               [] call.res = "settle" -> "settling"
                                               [] call.res = "fail" -> "failing"
    BY <1>2 DEF NotifyReturn
  <2>3. call.res \in {"accept", "settle", "fail"} \/ call.h = {}
    BY DEF IInv, CallOK, Answers, NoCall
  <2>4. FailedOK'
    <3>1. ASSUME NEW h \in HTLCs, htlc'[h] \in {"failing", "failed"} PROVE NotHeld(inv, h)
      <4>1. CASE h \in call.h
        <5>1. call.res = "fail"
          BY <2>2, <2>3, <3>1, <4>1
        <5>. QED  BY <4>1, <5>1 DEF FailedOK
      <4>2. CASE h \notin call.h
        BY <2>2, <3>1, <4>2 DEF FailedOK
      <4>. QED  BY <4>1, <4>2
    <3>. QED  BY <2>1, <3>1 DEF FailedOK, NoCall
  <2>5. HeldOK'
    <3>. SUFFICES ASSUME NEW h \in HTLCs, htlc'[h] = "held" PROVE HearsBack(h)'
      BY DEF HeldOK
    <3>1. CASE h \in call.h
      <4>1. call.res = "accept"
        BY <2>2, <2>3, <3>1
      <4>. QED  BY <2>1, <3>1, <4>1 DEF FailedOK, HearsBack
    <3>2. CASE h \notin call.h
      <4>1. HearsBack(h)
        BY <2>2, <3>2 DEF HeldOK
      <4>2. CASE \E r \in queue : r.h = h
        BY <2>1, <4>2 DEF HearsBack
      <4>3. CASE h \in subs /\ h \in told
        BY <2>1, <4>3 DEF HearsBack
      <4>4. CASE h \in subs \ told
        <5>1. RecordedIn(inv, h) = "Accepted" \/ h \in release \/ \E r \in queue : r.h = h
          BY <4>1, <4>4 DEF HearsBack
        <5>. QED  BY <2>1, <4>4, <5>1 DEF HearsBack
      <4>. QED  BY <4>1, <4>2, <4>3, <4>4 DEF HearsBack
    <3>. QED  BY <3>1, <3>2
  <2>. QED  BY <2>4, <2>5
<1>3. ASSUME NEW r \in queue, ProcessHodlQueue(r) PROVE FailedOK' /\ HeldOK'
  <2>1. /\ r \in Fates /\ queue' = queue \ {r} /\ UNCHANGED <<inv, subs, call, release>>
        /\ htlc' = [htlc EXCEPT ![r.h] = IF r.fate = "settle" THEN "settling" ELSE "failing"]
    BY <1>3 DEF ProcessHodlQueue, IInv, StateOK
  <2>2. htlc \in [HTLCs -> LinkStates] /\ (r.fate = "settle" \/ NotHeld(inv, r.h))
    BY <2>1 DEF IInv, StateOK, FailedOK, Fates
  <2>3. FailedOK'
    BY <2>1, <2>2 DEF FailedOK
  <2>4. HeldOK'
    BY <2>1, <2>2 DEF HeldOK, HearsBack
  <2>. QED  BY <2>3, <2>4
<1>4. ASSUME NEW h \in HTLCs, CommitRemoval(h) PROVE FailedOK' /\ HeldOK'
  <2>1. /\ htlc[h] \in {"settling", "failing"} /\ UNCHANGED <<inv, queue, subs, call, release>>
        /\ htlc' = [htlc EXCEPT ![h] = IF htlc[h] = "settling" THEN "settled" ELSE "failed"]
        /\ htlc \in [HTLCs -> LinkStates]
    BY <1>4 DEF CommitRemoval, IInv, StateOK
  <2>2. FailedOK'
    BY <2>1 DEF FailedOK
  <2>3. HeldOK'
    BY <2>1 DEF HeldOK, HearsBack
  <2>. QED  BY <2>2, <2>3
<1>. QED  BY <1>1, <1>2, <1>3, <1>4 DEF Links
\* The registry's event loop.
LEMMA HeldEventLoop ==
    ASSUME ~TimerRaces, IInv, FailedOK, HeldOK, EventLoop
    PROVE  FailedOK' /\ HeldOK'
<1>1. ASSUME NEW e \in timers, CancelSingleHtlc(e) PROVE FailedOK' /\ HeldOK'
  <2>1. UNCHANGED <<htlc, subs, queue, call>> /\ e.h \notin call.h
    BY <1>1 DEF CancelSingleHtlc
  <2>2. /\ \A g : RecordedIn(inv', g) =
              IF inv.state = "Open" /\ g = e.h /\ RecordedIn(inv, g) = "Accepted"
              THEN "Canceled" ELSE RecordedIn(inv, g)
        /\ release' = IF inv.state = "Open" /\ RecordedIn(inv, e.h) = "Accepted"
                      THEN {e.h} ELSE release
        /\ release = {}
    BY <1>1, CancelSingleFacts
  <2>3. FailedOK'
    BY <2>1, <2>2 DEF FailedOK, NotHeld
  <2>4. HeldOK'
    BY <2>1, <2>2 DEF HeldOK, HearsBack
  <2>. QED  BY <2>3, <2>4
<1>2. ASSUME ReleaseHtlc PROVE FailedOK' /\ HeldOK'
  <2>1. /\ NotifyHodlSubscribers(Resolutions(release, "fail")) /\ release' = {}
        /\ UNCHANGED <<inv, htlc, call>>
    BY <1>2 DEF ReleaseHtlc
  <2>2. /\ subs' = subs \ release /\ queue \subseteq queue'
        /\ \A r \in queue' : r \in queue \/ r.h \in release
        /\ \A h \in release \cap subs : \E r \in queue' : r.h = h
    BY <2>1, SubscribersTold DEF IInv, StateOK
  <2>3. FailedOK'
    BY <2>1, <2>2 DEF FailedOK
  <2>4. HeldOK'
    <3>. SUFFICES ASSUME NEW h \in HTLCs, htlc[h] = "held" PROVE HearsBack(h)'
      BY <2>1 DEF HeldOK
    <3>1. HearsBack(h)
      BY DEF HeldOK
    <3>2. CASE \E r \in queue : r.h = h
      BY <2>2, <3>2 DEF HearsBack
    <3>3. CASE h \in subs \cap release
      BY <2>2, <3>3 DEF HearsBack
    <3>4. CASE h \in subs \ release
      BY <2>1, <2>2, <3>1, <3>4 DEF HearsBack
    <3>. QED  BY <3>1, <3>2, <3>3, <3>4 DEF HearsBack
  <2>. QED  BY <2>3, <2>4
<1>. QED  BY <1>1, <1>2 DEF EventLoop

\* Canceling an invoice.
LEMMA HeldCancel ==
    ASSUME IInv, FailedOK, HeldOK, ~Locked, inv.state \in {"Open", "Accepted"}, Cancel,
           UNCHANGED <<htlc, call, release>>
    PROVE  FailedOK' /\ HeldOK'
<1>1. /\ \A g : RecordedIn(inv', g) \in {"None", "Canceled"}
      /\ \A h \in subs : \/ \E r \in queue' : r.h = h
                         \/ h \in subs' /\ RecordedIn(inv, h) # "Accepted"
      /\ queue \subseteq queue'
  BY CancelFacts
<1>2. call.tell = {} /\ call.h = {} /\ call.res = "none"
  BY DEF Locked, NoCall
<1>3. FailedOK'
  BY <1>1, <1>2 DEF FailedOK, NotHeld
<1>4. HeldOK'
  <2>. SUFFICES ASSUME NEW h \in HTLCs, htlc[h] = "held" PROVE HearsBack(h)'
    BY DEF HeldOK
  <2>1. HearsBack(h)
    BY DEF HeldOK
  <2>2. CASE \E r \in queue' : r.h = h
    BY <2>2 DEF HearsBack
  <2>3. CASE h \in subs' /\ RecordedIn(inv, h) # "Accepted" /\ \A r \in queue : r.h # h
    BY <1>2, <2>1, <2>3 DEF HearsBack
  <2>. QED  BY <1>1, <2>1, <2>2, <2>3 DEF HearsBack
<1>. QED  BY <1>3, <1>4

\* The user.
LEMMA HeldUser ==
    ASSUME IInv, FailedOK, HeldOK, User
    PROVE  FailedOK' /\ HeldOK'
<1>1. CASE AddInvoice
  <2>. PICK hodl \in BOOLEAN : inv' = NewInvoice(added + 1, hodl)
    BY <1>1, SwitchesAssumption DEF AddInvoice
  <2>1. inv.id = 0 /\ added + 1 \in Nat \ {0} /\ UNCHANGED <<htlc, subs, queue, call, release>>
    BY <1>1 DEF AddInvoice, IInv, StateOK
  <2>2. \A g : RecordedIn(inv, g) = "None" /\ RecordedIn(inv', g) = "None"
    BY <2>1, EmptyInvoices DEF IInv, StateOK, InvoiceOK, RecordedIn
  <2>3. FailedOK'
    BY <2>1, <2>2 DEF FailedOK, NotHeld
  <2>4. HeldOK'
    BY <2>1, <2>2 DEF HeldOK, HearsBack
  <2>. QED  BY <2>3, <2>4
<1>2. CASE SettleHodlInvoice
  <2>1. /\ \A g : RecordedIn(inv', g) =
              IF RecordedIn(inv, g) = "Accepted" THEN "Settled" ELSE RecordedIn(inv, g)
        /\ queue \subseteq queue' /\ \A r \in queue' : r \in queue \/ r.fate = "settle"
        /\ \A h \in subs : \/ \E r \in queue' : r.h = h
                           \/ h \in subs' /\ RecordedIn(inv', h) # "Settled"
    BY <1>2, SettleFacts
  <2>2. call = NoCall /\ UNCHANGED <<htlc, call, release>>
    BY <1>2 DEF SettleHodlInvoice, Locked
  <2>3. FailedOK'
    BY <2>1, <2>2 DEF FailedOK, NotHeld, NoCall
  <2>4. HeldOK'
    <3>. SUFFICES ASSUME NEW h \in HTLCs, htlc[h] = "held" PROVE HearsBack(h)'
      BY <2>2 DEF HeldOK
    <3>1. HearsBack(h)
      BY DEF HeldOK
    <3>2. CASE \E r \in queue' : r.h = h
      BY <3>2 DEF HearsBack
    <3>3. CASE h \in subs' /\ RecordedIn(inv', h) # "Settled" /\ \A r \in queue : r.h # h
      BY <2>1, <2>2, <3>1, <3>3 DEF HearsBack
    <3>. QED  BY <2>1, <3>1, <3>2, <3>3 DEF HearsBack
  <2>. QED  BY <2>3, <2>4
<1>3. CASE CancelByUser
  BY <1>3, HeldCancel DEF CancelByUser
<1>4. CASE DeleteCanceledInvoice
  <2>1. /\ inv.state = "Canceled" /\ inv' = NoInvoice
        /\ UNCHANGED <<htlc, subs, queue, call, release>>
    BY <1>4 DEF DeleteCanceledInvoice
  <2>2. \A g : RecordedIn(inv, g) # "Accepted" /\ RecordedIn(inv', g) = "None"
    BY <2>1, EmptyInvoices, HtlcSetFacts DEF IInv, StateOK, InvoiceOK
  <2>3. FailedOK'
    BY <2>1, <2>2 DEF FailedOK, NotHeld, IInv, CallOK
  <2>4. HeldOK'
    BY <2>1, <2>2 DEF HeldOK, HearsBack
  <2>. QED  BY <2>3, <2>4
<1>. QED  BY <1>1, <1>2, <1>3, <1>4 DEF User

\* The expiry watcher.
LEMMA HeldWatcher ==
    ASSUME IInv, FailedOK, HeldOK, Watcher
    PROVE  FailedOK' /\ HeldOK'
<1>1. CASE UNCHANGED <<inv, subs, queue, htlc, call, release>>
  BY <1>1 DEF FailedOK, HeldOK, HearsBack
<1>2. CASE ~Locked /\ inv.state \in {"Open", "Accepted"} /\ Cancel /\ UNCHANGED <<htlc, call, release>>
  BY <1>2, HeldCancel
<1>. QED  BY <1>1, <1>2 DEF Watcher, NewBlock, CancelNextExpiredInvoice,
             CancelNextHeightExpiredInvoice, CancelIfSame

\* Faults.
LEMMA HeldFaults ==
    ASSUME IInv, FailedOK, HeldOK, Faults
    PROVE  FailedOK' /\ HeldOK'
<1>1. ASSUME NEW c, LinkFlap(c) PROVE FailedOK' /\ HeldOK'
  <2>1. /\ htlc' = [h \in HTLCs |-> IF ChanOf[h] = c /\ Uncommitted(h) THEN "offered" ELSE htlc[h]]
        /\ subs' = {h \in subs : ChanOf[h] # c} /\ queue' = {r \in queue : ChanOf[r.h] # c}
        /\ UNCHANGED <<inv, call, release>>
    BY <1>1 DEF LinkFlap
  <2>2. FailedOK'
    BY <2>1 DEF FailedOK
  <2>3. HeldOK'
    BY <2>1 DEF HeldOK, HearsBack, Uncommitted
  <2>. QED  BY <2>2, <2>3
<1>2. CASE Crash
  <2>1. /\ htlc' = [h \in HTLCs |-> IF Uncommitted(h) THEN "offered" ELSE htlc[h]]
        /\ queue' = {} /\ call' = NoCall /\ release' = {}
        /\ inv' = NoInvoice \/ inv' = inv
    BY <1>2 DEF Crash
  <2>2. \A g : NotHeld(inv, g) => NotHeld(inv', g)
    BY <2>1, EmptyInvoices DEF NotHeld
  <2>3. FailedOK'
    BY <2>1, <2>2 DEF FailedOK, NoCall
  <2>4. HeldOK'
    BY <2>1 DEF HeldOK, Uncommitted
  <2>. QED  BY <2>3, <2>4
<1>. QED  BY <1>1, <1>2 DEF Faults

\* Both always hold when no release overlaps a call for its HTLC.
LEMMA HeldAlways ==
    ASSUME ~TimerRaces
    PROVE  Spec => [](IInv /\ FailedOK /\ HeldOK)
<1>1. IInv /\ FailedOK /\ HeldOK /\ [Next]_vars => FailedOK' /\ HeldOK'
  <2>. SUFFICES ASSUME IInv, FailedOK, HeldOK, [Next]_vars PROVE FailedOK' /\ HeldOK'
    OBVIOUS
  <2>1. CASE UNCHANGED vars
    BY <2>1 DEF vars, FailedOK, HeldOK, HearsBack
  <2>. QED  BY <2>1, HeldLinks, HeldEventLoop, HeldUser, HeldWatcher, HeldFaults DEF Next
<1>. QED  BY <1>1, IInvAlways, HeldInit, PTL DEF Spec

(***************************************************************************)
(* What is recorded as paid is paid: outside the window between            *)
(* cancelSingleHtlc's two parts no link fails, or is told to fail, an HTLC *)
(* that the record holds or has settled.                                   *)
(***************************************************************************)
THEOREM FailuresAreUnpaid ==
    ASSUME ~TimerRaces
    PROVE  Spec => []FailedIsNotPaid
<1>1. IInv /\ FailedOK => FailedIsNotPaid
  <2>. SUFFICES ASSUME IInv, FailedOK PROVE FailedIsNotPaid
    OBVIOUS
  <2>1. ASSUME NEW h \in HTLCs,
               htlc[h] \in {"failing", "failed"} \/ [h |-> h, fate |-> "fail"] \in queue
        PROVE  Recorded(h) \notin {"Accepted", "Settled"}
    <3>1. NotHeld(inv, h)
      BY <2>1 DEF FailedOK
    <3>. QED  BY <3>1 DEF NotHeld, Recorded, RecordedIn
  <2>. QED  BY <2>1 DEF FailedIsNotPaid, IInv, StateOK, InvoiceOK
<1>. QED  BY <1>1, HeldAlways, PTL

(***************************************************************************)
(* Outside that window no HTLC is forgotten: a link that holds one hears   *)
(* what became of it.                                                      *)
(***************************************************************************)
THEOREM HeldHtlcsHear ==
    ASSUME ~TimerRaces
    PROVE  Spec => []HeldHtlcsHearBack
<1>1. HeldOK => HeldHtlcsHearBack
  BY DEF HeldOK, HearsBack, HeldHtlcsHearBack, Recorded, RecordedIn
<1>. QED  BY <1>1, HeldAlways, PTL
-----------------------------------------------------------------------------
(* Timers and the expiry watcher, when every HTLC names the total of its   *)
(* set.  An HTLC without one pays an invoice that is already accepted, and *)
(* the watcher is not told of it.                                          *)

\* An HTLC that is held while its invoice is open has a release timer.
TimedOK ==
    \A h \in HTLCs :
        htlc[h] = "held" /\ inv.state = "Open" /\ RecordedIn(inv, h) = "Accepted" =>
            \E e \in timers : e.h = h

\* The watcher will cancel invoice i before HTLC h times out.
Watched(i, h) == \E e \in watch.heights : e.id = i.id /\ e.height <= Expiry[h]

\* A complete set is watched, or the call that completed it will see to it.
WatchedOK ==
    /\ \A h \in HTLCs : RecordedIn(inv, h) = "Accepted" => Expiry[h] # 0
    /\ inv.state = "Accepted" =>
          \A h \in HTLCs : RecordedIn(inv, h) = "Accepted" =>
              Watched(inv, h) \/ (call.expire # 0 /\ call.expire <= Expiry[h])

\* Both hold initially.
LEMMA TimedInit == Init => TimedOK /\ WatchedOK
<1>. SUFFICES ASSUME Init PROVE TimedOK /\ WatchedOK
  OBVIOUS
<1>1. inv.state = "None" /\ \A h : RecordedIn(inv, h) = "None"
  BY EmptyInvoices DEF Init
<1>. QED  BY <1>1 DEF TimedOK, WatchedOK

\* An HTLC that completes a set has the call tell the watcher of the set's first timeout.
LEMMA NotifyWatched ==
    ASSUME \A g \in HTLCs : Total[g] # 0, IInv, WatchedOK, NEW h \in HTLCs, Notify(h)
    PROVE  WatchedOK'
<1>1. Answered(h) /\ InvoiceOK(inv) /\ InvoiceType(inv) /\ height \in Nat \ {0} /\ call = NoCall
  BY NotifyAnswered DEF IInv, StateOK, InvoiceOK, Answered, CallOK
<1>2. CASE inv' = inv
  BY <1>1, <1>2 DEF WatchedOK, Watched, Answered, NoCall
<1>3. CASE inv.state = "Open" /\ inv' = ResolveHtlcs(inv, DOMAIN inv.htlcs, "Canceled")
  <2>1. /\ inv'.state = "Open"
        /\ \A g : RecordedIn(inv', g) = "Accepted" => RecordedIn(inv, g) = "Accepted"
    BY <1>1, <1>3, CancelHtlcsFacts
  <2>. QED  BY <2>1 DEF WatchedOK
<1>4. CASE NotifyUpdate(h) /\ Valid(inv, h)
  <2>1. /\ inv.state = "Open" /\ Expiry[h] >= height + FinalCltvDelta
        /\ inv.id # 0 /\ h \notin DOMAIN inv.htlcs /\ inv' = AddHTLC(inv, h)
        /\ inv'.state = "Accepted" =>
              call' = [Call(h, "accept") EXCEPT !.timer = (inv'.state = "Open"),
                                                !.expire = MinExpiry(inv')]
    BY <1>4 DEF NotifyUpdate, Valid, ValidMpp
  <2>2. /\ InvoiceOK(inv') /\ InvoiceType(inv')
        /\ \A g : RecordedIn(inv', g) = "Accepted" => g = h \/ RecordedIn(inv, g) = "Accepted"
    BY <1>1, <1>4, <2>1, AddHtlcFacts DEF InvoiceOK
  <2>3. Expiry[h] # 0
    BY <1>1, <2>1, HtlcsAssumption
  <2>4. \A g \in HTLCs : RecordedIn(inv', g) = "Accepted" => Expiry[g] # 0
    BY <2>2, <2>3 DEF WatchedOK
  <2>5. ASSUME inv'.state = "Accepted"
        PROVE  /\ call'.expire # 0
               /\ \A g \in HTLCs : RecordedIn(inv', g) = "Accepted" => call'.expire <= Expiry[g]
    <3>1. call'.expire = MinExpiry(inv')
      BY <2>1, <2>5 DEF Call, NoCall
    <3>2. /\ HTLCSet(inv', "Accepted") # {} /\ HTLCSet(inv', "Accepted") \in SUBSET HTLCs
          /\ \A g : g \in HTLCSet(inv', "Accepted") <=> RecordedIn(inv', g) = "Accepted"
      BY <2>2, <2>5, HtlcSetFacts DEF InvoiceOK
    <3>3. /\ \E g \in HTLCSet(inv', "Accepted") : MinExpiry(inv') = Expiry[g]
          /\ \A g \in HTLCSet(inv', "Accepted") : MinExpiry(inv') <= Expiry[g]
      BY <2>2, <3>2, MinExpiryFacts
    <3>. QED  BY <2>4, <3>1, <3>2, <3>3
  <2>. QED  BY <2>4, <2>5 DEF WatchedOK
<1>. QED  BY <1>2, <1>3, <1>4
          DEF Notify, NotifyUnknown, NotifyReplay, NotifyCancelSet, NotifyUpdate

\* The links.
LEMMA TimedLinks ==
    ASSUME \A g \in HTLCs : Total[g] # 0, IInv, TimedOK, WatchedOK, Links
    PROVE  TimedOK' /\ WatchedOK'
<1>1. ASSUME NEW h \in HTLCs, Notify(h) PROVE TimedOK' /\ WatchedOK'
  <2>1. Answered(h)
    BY <1>1, NotifyAnswered
  <2>2. TimedOK'
    BY <2>1 DEF Answered, TimedOK
  <2>. QED  BY <1>1, <2>2, NotifyWatched
<1>2. CASE NotifyReturn
  <2>. DEFINE held == IF call.res = "accept" THEN call.h ELSE {}
  <2>1. /\ inv' = inv
        /\ watch' = IF call.expire = 0 THEN watch
                    ELSE [watch EXCEPT !.heights = @ \cup {[id |-> inv.id, height |-> call.expire]}]
        /\ timers' = timers \cup IF call.timer
                                 THEN {[h |-> h, at |-> inv.htlcs[h].at] : h \in held} ELSE {}
    BY <1>2 DEF NotifyReturn
  <2>2. ASSUME NEW h \in HTLCs
        PROVE  /\ h \notin call.h => htlc'[h] = htlc[h]
               /\ h \in call.h => htlc'[h] = CASE call.res = "accept" -> "held"
                                               [] call.res = "settle" -> "settling"
                                               [] call.res = "fail" -> "failing"
    BY <1>2 DEF NotifyReturn
  <2>3. call.res \in {"accept", "settle", "fail"} \/ call.h = {}
    BY DEF IInv, CallOK, Answers, NoCall
  <2>4. TimedOK'
    <3>. SUFFICES ASSUME NEW h \in HTLCs, htlc'[h] = "held", inv.state = "Open",
                         RecordedIn(inv, h) = "Accepted"
                  PROVE  \E e \in timers' : e.h = h
      BY <2>1 DEF TimedOK
    <3>1. CASE h \in call.h
      <4>1. call.res = "accept"
        BY <2>2, <2>3, <3>1
      <4>2. call.timer
        BY <4>1 DEF IInv, CallOK
      <4>3. [h |-> h, at |-> inv.htlcs[h].at] \in timers'
        BY <2>1, <3>1, <4>1, <4>2
      <4>. QED  BY <4>3
    <3>2. CASE h \notin call.h
      BY <2>1, <2>2, <3>2 DEF TimedOK
    <3>. QED  BY <3>1, <3>2
  <2>5. WatchedOK'
    <3>1. /\ watch.heights \subseteq watch'.heights
          /\ call.expire # 0 => [id |-> inv.id, height |-> call.expire] \in watch'.heights
      BY <2>1 DEF IInv, StateOK
    <3>2. ASSUME NEW h \in HTLCs,
                 Watched(inv, h) \/ (call.expire # 0 /\ call.expire <= Expiry[h])
          PROVE  Watched(inv, h)'
      BY <2>1, <3>1, <3>2 DEF Watched
    <3>. QED  BY <2>1, <3>2 DEF WatchedOK
  <2>. QED  BY <2>4, <2>5
<1>3. ASSUME NEW r \in queue, ProcessHodlQueue(r) PROVE TimedOK' /\ WatchedOK'
  <2>1. /\ UNCHANGED <<inv, call, timers, watch>>
        /\ \A h \in HTLCs : htlc'[h] = "held" => htlc[h] = "held"
    BY <1>3 DEF ProcessHodlQueue, IInv, StateOK
  <2>. QED  BY <2>1 DEF TimedOK, WatchedOK, Watched
<1>4. ASSUME NEW h \in HTLCs, CommitRemoval(h) PROVE TimedOK' /\ WatchedOK'
  <2>1. /\ UNCHANGED <<inv, call, timers, watch>>
        /\ \A g \in HTLCs : htlc'[g] = "held" => htlc[g] = "held"
    BY <1>4 DEF CommitRemoval, IInv, StateOK
  <2>. QED  BY <2>1 DEF TimedOK, WatchedOK, Watched
<1>. QED  BY <1>1, <1>2, <1>3, <1>4 DEF Links

\* The registry's event loop: a timer that is taken has its HTLC canceled.
LEMMA TimedEventLoop ==
    ASSUME IInv, TimedOK, WatchedOK, EventLoop
    PROVE  TimedOK' /\ WatchedOK'
<1>1. ASSUME NEW e \in timers, CancelSingleHtlc(e) PROVE TimedOK' /\ WatchedOK'
  <2>1. timers' = timers \ {e} /\ UNCHANGED <<htlc, call, watch>>
    BY <1>1 DEF CancelSingleHtlc
  <2>2. /\ \A g : RecordedIn(inv', g) =
              IF inv.state = "Open" /\ g = e.h /\ RecordedIn(inv, g) = "Accepted"
              THEN "Canceled" ELSE RecordedIn(inv, g)
        /\ inv'.state = inv.state /\ inv'.id = inv.id
    BY <1>1, CancelSingleFacts
  <2>3. TimedOK'
    BY <2>1, <2>2 DEF TimedOK
  <2>4. WatchedOK'
    BY <2>1, <2>2 DEF WatchedOK, Watched
  <2>. QED  BY <2>3, <2>4
<1>2. CASE ReleaseHtlc
  BY <1>2 DEF ReleaseHtlc, TimedOK, WatchedOK, Watched
<1>. QED  BY <1>1, <1>2 DEF EventLoop

\* An invoice that is neither open nor accepted, or records nothing, needs no timer.
LEMMA TimedClosed ==
    ASSUME TimedOK, WatchedOK, htlc' = htlc,
           \A g : RecordedIn(inv', g) # "Accepted"
    PROVE  TimedOK' /\ WatchedOK'
BY DEF TimedOK, WatchedOK

\* The user.
LEMMA TimedUser ==
    ASSUME IInv, TimedOK, WatchedOK, User
    PROVE  TimedOK' /\ WatchedOK'
<1>1. htlc' = htlc
  BY DEF User, AddInvoice, SettleHodlInvoice, CancelByUser, DeleteCanceledInvoice
<1>2. \A g : RecordedIn(inv', g) # "Accepted"
  <2>1. CASE AddInvoice
    <3>. PICK hodl \in BOOLEAN : inv' = NewInvoice(added + 1, hodl)
      BY <2>1, SwitchesAssumption DEF AddInvoice
    <3>. QED  BY EmptyInvoices DEF IInv, StateOK
  <2>2. CASE SettleHodlInvoice
    BY <2>2, SettleFacts
  <2>3. CASE CancelByUser
    BY <2>3, CancelFacts DEF CancelByUser
  <2>4. CASE DeleteCanceledInvoice
    BY <2>4, EmptyInvoices DEF DeleteCanceledInvoice
  <2>. QED  BY <2>1, <2>2, <2>3, <2>4 DEF User
<1>. QED  BY <1>1, <1>2, TimedClosed

\* The watcher drops an entry only with the invoice it is about.
LEMMA TimedWatcher ==
    ASSUME IInv, TimedOK, WatchedOK, Watcher
    PROVE  TimedOK' /\ WatchedOK'
<1>1. CASE ~Locked /\ inv.state \in {"Open", "Accepted"} /\ Cancel /\ htlc' = htlc
  BY <1>1, CancelFacts, TimedClosed
<1>2. ASSUME UNCHANGED <<inv, htlc, call, timers>>,
             inv.state = "Accepted" =>
                \A e \in watch.heights : e.id = inv.id => e \in watch'.heights
      PROVE  TimedOK' /\ WatchedOK'
  BY <1>2 DEF TimedOK, WatchedOK, Watched
<1>3. CASE NewBlock
  BY <1>2, <1>3 DEF NewBlock
<1>4. ASSUME NEW id \in watch.ts, CancelNextExpiredInvoice(id) PROVE TimedOK' /\ WatchedOK'
  <2>1. watch'.heights = watch.heights
    BY <1>4 DEF CancelNextExpiredInvoice, IInv, StateOK
  <2>. QED  BY <1>1, <1>2, <1>4, <2>1 DEF CancelNextExpiredInvoice, CancelIfSame
<1>5. ASSUME NEW e \in watch.heights, CancelNextHeightExpiredInvoice(e)
      PROVE  TimedOK' /\ WatchedOK'
  <2>1. watch'.heights = watch.heights \ {e}
    BY <1>5 DEF CancelNextHeightExpiredInvoice, IInv, StateOK
  <2>. QED  BY <1>1, <1>2, <1>5, <2>1 DEF CancelNextHeightExpiredInvoice, CancelIfSame
<1>. QED  BY <1>3, <1>4, <1>5 DEF Watcher

\* Faults: after a restart the watcher is filled from the record.
LEMMA TimedFaults ==
    ASSUME IInv, TimedOK, WatchedOK, Faults
    PROVE  TimedOK' /\ WatchedOK'
<1>1. ASSUME NEW c, LinkFlap(c) PROVE TimedOK' /\ WatchedOK'
  <2>1. /\ UNCHANGED <<inv, call, timers, watch>>
        /\ \A h \in HTLCs : htlc'[h] = "held" => htlc[h] = "held"
    BY <1>1 DEF LinkFlap
  <2>. QED  BY <2>1 DEF TimedOK, WatchedOK, Watched
<1>2. CASE Crash
  <2>1. /\ htlc' = [h \in HTLCs |-> IF Uncommitted(h) THEN "offered" ELSE htlc[h]]
        /\ watch' = ScanInvoicesOnStart(inv)
        /\ inv' = NoInvoice \/ inv' = inv
    BY <1>2 DEF Crash
  <2>2. TimedOK'
    BY <2>1 DEF TimedOK, Uncommitted
  <2>3. CASE inv' = NoInvoice
    <3>1. inv'.state = "None" /\ \A g : RecordedIn(inv', g) = "None"
      BY <2>3, EmptyInvoices
    <3>. QED  BY <2>2, <3>1 DEF WatchedOK
  <2>4. CASE inv' = inv
    <3>1. ASSUME inv.state = "Accepted", NEW h \in HTLCs, RecordedIn(inv, h) = "Accepted"
          PROVE  Watched(inv, h)'
      <4>1. InvoiceType(inv) /\ h \in HTLCSet(inv, "Accepted")
        BY <3>1, HtlcSetFacts DEF IInv, StateOK, InvoiceOK
      <4>2. MinExpiry(inv) <= Expiry[h]
        BY <4>1, MinExpiryFacts
      <4>3. watch'.heights = {[id |-> inv.id, height |-> MinExpiry(inv)]}
        BY <2>1, <3>1 DEF ScanInvoicesOnStart
      <4>. QED  BY <2>4, <4>2, <4>3 DEF Watched
    <3>. QED  BY <2>2, <2>4, <3>1 DEF WatchedOK
  <2>. QED  BY <2>1, <2>3, <2>4
<1>. QED  BY <1>1, <1>2 DEF Faults

(***************************************************************************)
(* Nothing is held for good: where every HTLC names the total of its set,  *)
(* a held HTLC of an open invoice has a release timer, and a complete set  *)
(* that waits for its preimage is watched, after a restart too.            *)
(***************************************************************************)
THEOREM HeldSetsTimed ==
    ASSUME \A g \in HTLCs : Total[g] # 0
    PROVE  Spec => []HeldSetsAreTimed
<1>1. IInv /\ TimedOK /\ WatchedOK /\ [Next]_vars => TimedOK' /\ WatchedOK'
  <2>. SUFFICES ASSUME IInv, TimedOK, WatchedOK, [Next]_vars PROVE TimedOK' /\ WatchedOK'
    OBVIOUS
  <2>1. CASE UNCHANGED vars
    BY <2>1 DEF vars, TimedOK, WatchedOK, Watched
  <2>. QED  BY <2>1, TimedLinks, TimedEventLoop, TimedUser, TimedWatcher, TimedFaults DEF Next
<1>2. IInv /\ TimedOK /\ WatchedOK => HeldSetsAreTimed
  <2>. SUFFICES ASSUME IInv, TimedOK, WatchedOK PROVE HeldSetsAreTimed
    OBVIOUS
  <2>1. \A h : Recorded(h) = RecordedIn(inv, h)
    BY DEF Recorded, RecordedIn
  <2>2. ASSUME inv.state = "Accepted", ~Locked, NEW h \in HTLCSet(inv, "Accepted")
        PROVE  \E e \in watch.heights : e.id = inv.id /\ e.height <= Expiry[h]
    <3>1. h \in HTLCs /\ RecordedIn(inv, h) = "Accepted" /\ call.expire = 0
      BY <2>2, HtlcSetFacts DEF IInv, StateOK, InvoiceOK, Locked, NoCall
    <3>. QED  BY <2>2, <3>1 DEF WatchedOK, Watched
  <2>. QED  BY <2>1, <2>2 DEF HeldSetsAreTimed, TimedOK
<1>. QED  BY <1>1, <1>2, IInvAlways, TimedInit, PTL DEF Spec
=============================================================================
