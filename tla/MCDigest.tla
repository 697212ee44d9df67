------------------------------ MODULE MCDigest ------------------------------
(* An instance of Digest small enough for TLC. *)
EXTENDS Digest

\* Digest: repeats of two kinds, in one line or several, one that nobody asks
\* for but one backend, a test.
LOCAL Event(kind, about) == [kind |-> kind, about |-> about, long |-> kind = "config"]
LOCAL Long(e) == [e EXCEPT !.long = TRUE]
TheEvents ==
    {Event("added", "r1"), Event("failed", "r1"), Long(Event("failed", "r1")), Event("down", ""),
     Event("rejected", "p"), Event("config", "r"), Event("test", "")}
LOCAL Unset == [s \in Switches |-> "unset"]
TheOverrides ==
    {[b \in Backends |->
        CASE b = "ntfy" -> [Unset EXCEPT !["added"] = "on", !["failure"] = "off"]
          [] b = "irc"  -> [Unset EXCEPT !["warning"] = "on"]
          [] OTHER      -> Unset]}
TheEmails ==
    {[address |-> "known", password |-> TRUE, file |-> "none", environment |-> FALSE, host |-> FALSE],
     [address |-> "other", password |-> FALSE, file |-> "broken", environment |-> FALSE, host |-> TRUE]}
=============================================================================
