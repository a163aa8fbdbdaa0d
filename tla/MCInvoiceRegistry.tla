-------------------------- MODULE MCInvoiceRegistry --------------------------
(* Values for the constants of InvoiceRegistry that a cfg can't write.      *)
EXTENDS InvoiceRegistry

\* Two parts of a set on two channels, and a third HTLC beside the first.
MCChanOf == <<"a", "b", "a">>
MCAmt == <<1, 1, 1>>
MCExpiry == <<4, 3, 3>>

\* All three belong to one set of two, or the third asks for another total, or has none.
OneSet == <<2, 2, 2>>
TwoTotals == <<2, 2, 3>>
PaidTwice == <<0, 0, 0>>
=============================================================================
