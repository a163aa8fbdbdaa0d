--------------------------- MODULE MCSwitchForward ---------------------------
(* Instances of SwitchForward for TLC. *)
EXTENDS SwitchForward

\* As below, and a third HTLC that comes with the second and is not forwarded.
WithInvalid == << <<1>>, <<2, 3>> >>

\* Two HTLCs locked in one after the other, each in a package of its own.
OneEach == << <<1>>, <<2>> >>

\* Two HTLCs locked in together.
Together == << <<1, 2>> >>
=============================================================================
