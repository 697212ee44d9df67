----------------------------- MODULE MCIrcHold -----------------------------
(* An instance of IrcHold small enough for TLC. *)
EXTENDS IrcHold

\* Held for two ticks or not at all.
OnOrOff == {0, 2}
=============================================================================
