----------------------------- MODULE CircuitMap -----------------------------
(***************************************************************************)
(* The switch's circuit map (htlcswitch/circuit_map.go) for one outgoing   *)
(* channel: what every operation does to the circuits in memory and to the *)
(* two buckets on disk.  A circuit is named by the incoming HTLC it stands *)
(* for and a keystone by the outgoing HTLC index that opened it.           *)
(*                                                                         *)
(*   adds     disk: circuitAddKey, incoming HTLC -> its AddRef             *)
(*   keys     disk: circuitKeystoneKey, outgoing index -> incoming HTLC    *)
(*   pending  memory: incoming HTLC -> [out, disk, ref]; out = 0 is a      *)
(*            circuit without keystone, disk is LoadedFromDisk             *)
(*   opened   memory: outgoing index -> incoming HTLC                      *)
(*   closed   memory: circuits whose response is on its way back           *)
(***************************************************************************)
EXTENDS Subsequences, FiniteSetsExt, Functions

\* NewCircuitMap on an empty database.
EmptyCircuits ==
    [adds |-> << >>, keys |-> << >>, pending |-> << >>, opened |-> << >>, closed |-> {}]

Without(f, S) == Restrict(f, DOMAIN f \ S)

\* f updated and extended by g.
Overlay(f, g) ==
    [x \in DOMAIN f \cup DOMAIN g |-> IF x \in DOMAIN g THEN g[x] ELSE f[x]]

LookupCircuit(cm, h) == h \in DOMAIN cm.pending

HasKeystone(cm, h) == cm.pending[h].out # 0

(***************************************************************************)
(* CommitCircuits sorts a batch of circuits: one that is unknown is added  *)
(* in memory and on disk, one that has a keystone or that this process has *)
(* committed is dropped, and one that was loaded from disk without a       *)
(* keystone is failed back.  refs maps the batch's HTLCs to their AddRefs. *)
(***************************************************************************)
CircuitAdds(cm, refs) == {h \in DOMAIN refs : ~LookupCircuit(cm, h)}

\* Mutants: keystones, or circuits left half-open by a crash, are ignored.
FailsAnyLoaded(cm, refs) == {h \in DOMAIN refs : LookupCircuit(cm, h) /\ cm.pending[h].disk}

FailsNone(cm, refs) == {}

CircuitFails(cm, refs) ==
    {h \in DOMAIN refs :
        /\ LookupCircuit(cm, h)
        /\ ~HasKeystone(cm, h)
        /\ cm.pending[h].disk}

CommitCircuits(cm, refs) ==
    LET new == CircuitAdds(cm, refs)
    IN  [cm EXCEPT
          !.adds = Overlay(@, Restrict(refs, new)),
          !.pending =
              Overlay(@, [h \in new |-> [out |-> 0, disk |-> FALSE, ref |-> refs[h]]])]

(***************************************************************************)
(* OpenCircuits binds circuits to the outgoing indices their HTLCs were    *)
(* given; ks maps those indices to incoming HTLCs.  It refuses an index    *)
(* that is already open and a circuit it does not know.                    *)
(***************************************************************************)
DuplicateKeystone(cm, ks) == DOMAIN ks \cap DOMAIN cm.opened # {}

UnknownCircuit(cm, ks) == \E i \in DOMAIN ks : ~LookupCircuit(cm, ks[i])

OpenCircuits(cm, ks) ==
    [cm EXCEPT
      !.keys = Overlay(@, ks),
      !.opened = Overlay(@, ks),
      !.pending = [h \in DOMAIN @ |->
                     IF h \in Range(ks)
                     THEN [@[h] EXCEPT !.out = Max({i \in DOMAIN ks : ks[i] = h})]
                     ELSE @[h]]]

\* FailCircuit and CloseCircuit mark the circuit as closing.
CloseCircuit(cm, h) == [cm EXCEPT !.closed = @ \cup {h}]

\* DeleteCircuits removes circuits, and the keystone each one names.
DeleteCircuits(cm, hs) ==
    LET found == hs \cap DOMAIN cm.pending
        outs == {cm.pending[h].out : h \in found}
    IN  [adds |-> Without(cm.adds, found),
         keys |-> Without(cm.keys, outs),
         pending |-> Without(cm.pending, found),
         opened |-> Without(cm.opened, outs),
         closed |-> cm.closed \ found]

(***************************************************************************)
(* TrimOpenCircuits returns the circuits opened at start and above to the  *)
(* half-open state.  It scans upwards and stops at the first index that is *)
(* not open.                                                               *)
(***************************************************************************)
TrimmedFrom(cm, start) ==
    {i \in DOMAIN cm.opened : i >= start /\ start..i \subseteq DOMAIN cm.opened}

\* Mutant: the last committed HTLC is trimmed as well.
TrimOneTooMany(cm, start) ==
    [cm EXCEPT !.keys = Without(@, {i \in DOMAIN @ : i >= start - 1}),
               !.opened = Without(@, {i \in DOMAIN @ : i >= start - 1}),
               !.pending = [h \in DOMAIN @ |->
                              IF @[h].out >= start - 1 THEN [@[h] EXCEPT !.out = 0] ELSE @[h]]]

TrimOpenCircuits(cm, start) ==
    LET trimmed == TrimmedFrom(cm, start)
        reverted == {cm.opened[i] : i \in trimmed}
    IN  [cm EXCEPT
          !.keys = Without(@, trimmed),
          !.opened = Without(@, trimmed),
          !.pending = [h \in DOMAIN @ |->
                         IF h \in reverted THEN [@[h] EXCEPT !.out = 0] ELSE @[h]]]

(***************************************************************************)
(* restoreMemState rebuilds the memory from the two buckets: keystones are *)
(* read in key order, so the last one of a circuit wins, and keystones of  *)
(* forwarded HTLCs that name no circuit stay on disk.                      *)
(***************************************************************************)
RestoreMemState(cm) ==
    [cm EXCEPT
      !.pending = [h \in DOMAIN cm.adds |->
                     [out |-> Max({0} \cup {i \in DOMAIN cm.keys : cm.keys[i] = h}),
                      disk |-> TRUE,
                      ref |-> cm.adds[h]]],
      !.opened = Restrict(cm.keys, {i \in DOMAIN cm.keys : cm.keys[i] \in DOMAIN cm.adds}),
      !.closed = {}]

\* NewCircuitMap: restore, then trimAllOpenCircuits at the channel's next index.
NewCircuitMap(cm, nextIndex) == TrimOpenCircuits(RestoreMemState(cm), nextIndex)
=============================================================================
