---------------------------- MODULE Subsequences ----------------------------
(* Parts of a sequence, by position. *)
EXTENDS Naturals, Sequences, FiniteSets

\* The elements of sequence s at the places in I, in order.
SubsequenceAt(s, I) ==
    [k \in 1..Cardinality(I) |-> s[CHOOSE i \in I : Cardinality({j \in I : j <= i}) = k]]
=============================================================================
