--------------------------- MODULE MCIdentityGate ---------------------------
(* An instance of IdentityGate small enough for TLC. *)
EXTENDS IdentityGate

CONSTANTS n1, n2

\* n1 owns the bot, checked or not, or not even listened to; or whoever knows
\* the password does, n2 as well.
Options(owner, enabled, identify) ==
    [owner |-> owner, enabled |-> enabled, identify |-> identify]

Switched ==
    {Options(n1, TRUE, TRUE), Options(n1, TRUE, FALSE), Options(n1, FALSE, TRUE),
     Options(Password, TRUE, TRUE)}
=============================================================================
