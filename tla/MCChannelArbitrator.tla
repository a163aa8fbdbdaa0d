------------------------- MODULE MCChannelArbitrator -------------------------
(* Small instances of ChannelArbitrator. *)
EXTENDS ChannelArbitrator

(* One HTLC on the local, the remote and the pending remote commitment. *)
On3(l, r, p) == [local |-> l, remote |-> r, pending |-> p]

(* What the link may leave of an outgoing HTLC: locked in, as dust on one  *)
(* side or both; not yet on our commitment; or already off it.             *)
Added == {On3("out", "out", "out"), On3("dust", "out", "out"),
          On3("out", "dust", "dust"), On3("dust", "dust", "dust"),
          On3("no", "no", "out"), On3("no", "out", "dust")}
Removed == {On3("no", "out", "out"), On3("no", "out", "no"),
            On3("no", "dust", "no"), On3("no", "dust", "dust")}

(* An incoming HTLC: offered to us only, locked in, or dust. *)
Offered == {On3("out", "out", "out"), On3("dust", "out", "out")}

Channel(out, in, settled, self, closes) ==
    [local |-> [h \in HTLC |-> IF h \in Out THEN out.local ELSE in.local],
     remote |-> [h \in HTLC |-> IF h \in Out THEN out.remote ELSE in.remote],
     pending |-> [h \in HTLC |-> IF h \in Out THEN out.pending
                                ELSE in.pending],
     settled |-> settled, self |-> self, closes |-> closes]

Absent == On3("no", "no", "no")
Forced == Commits \cup {"breach"}

MCScenarios ==
    {Channel(o, Absent, {}, FALSE, Forced) : o \in Added \cup Removed}
    \cup {Channel(o, Absent, Out, FALSE, Commits) : o \in Removed}
    \cup {Channel(Absent, i, {}, FALSE, Commits) : i \in Offered}
    \cup {Channel(On3("out", "out", "out"), On3("out", "out", "out"), {},
                  FALSE, {"remote"})}
    \cup {Channel(Absent, Absent, {}, b, Closes) : b \in BOOLEAN}

(* Both HTLCs have outputs on every commitment. *)
LockedIn == {Channel(On3("out", "out", "out"), On3("out", "out", "out"), {},
                     TRUE, Commits)}

MCExpiry == [h \in HTLC |-> 2]
=============================================================================
