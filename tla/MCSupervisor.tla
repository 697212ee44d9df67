---------------------------- MODULE MCSupervisor ----------------------------
(* Instances of Supervisor small enough for TLC. *)
EXTENDS Supervisor, TLC

CONSTANTS rtorrent, flood, p1, p2, p3, p4

\* The rTorrent image starts the client before Flood.
ClientFirst == <<rtorrent, flood>>

\* No pid differs from another.
AnyPid == Permutations(Pids)
=============================================================================
