------------------------------ MODULE Selecting ------------------------------
(***************************************************************************)
(* What stays of a sequence when only some of its places are wanted.       *)
(***************************************************************************)
EXTENDS Naturals, FiniteSets

\* The k-th of some places.
Nth(places, k) == CHOOSE i \in places : Cardinality({j \in places : j <= i}) = k

\* What stands there, in its order.
Selection(s, places) == [k \in 1..Cardinality(places) |-> s[Nth(places, k)]]
=============================================================================
