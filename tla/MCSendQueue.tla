---------------------------- MODULE MCSendQueue ----------------------------
(* Instances of SendQueue small enough for TLC. *)
EXTENDS SendQueue

\* The operator widens the burst from one message to two and back.
TwoLimits == {[window |-> 2, max |-> 1], [window |-> 3, max |-> 2]}
=============================================================================
