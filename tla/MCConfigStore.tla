---------------------------- MODULE MCConfigStore ----------------------------
(* Instances of ConfigStore small enough for TLC. *)
EXTENDS ConfigStore

CONSTANTS irc, telegram, p1, p2

\* An empty list, and one pattern.
Short == {<<>>, <<p1>>}
=============================================================================
