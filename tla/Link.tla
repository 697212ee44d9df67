-------------------------------- MODULE Link --------------------------------
(***************************************************************************)
(* Keeping the IRC connection (`start_listening`, `connect_irc`): attempts *)
(* that take time, a backoff that only a connection that held resets, and  *)
(* what the owner is told of an outage.                                    *)
(*                                                                         *)
(* One unit of time stands for the shortest delay, three seconds.  What a  *)
(* connection carries is in IdentityGate, SendQueue and IrcHold.           *)
(***************************************************************************)
EXTENDS Integers

CONSTANTS
    ReconnectMin,     \* RECONNECT_DELAY_MIN
    ReconnectMax,     \* RECONNECT_DELAY_MAX
    StableConnection, \* STABLE_CONNECTION
    AttemptMax,       \* bound: how long one attempt may take
    LinkHorizon       \* bound: where clocks and counters stop counting

ASSUME LinkAssumption ==
    /\ {ReconnectMin, ReconnectMax, StableConnection, LinkHorizon} \subseteq Nat \ {0}
    /\ ReconnectMin <= ReconnectMax
    /\ AttemptMax \in Nat

VARIABLES
    lkAt,         \* "attempt", "up", "down" (an attempt or connection ended), "sleep"
    lkBackoff,    \* backoff
    lkWait,       \* what is left of the sleep
    lkSpent,      \* how long the attempt under way has taken
    lkUptime,     \* connected_at.elapsed()
    lkDownFor,    \* down_since.elapsed(), or NoOutage
    lkReported,   \* reported_down
    lkOut,        \* history: how long there has been no connection
    lkSince,      \* history: the time since a connection last held
    lkTries,      \* history: the attempts made in it
    lkTold        \* history: the last thing the owner was told

lkLoop    == <<lkAt, lkBackoff, lkWait, lkSpent, lkUptime>>
lkOutage  == <<lkDownFor, lkReported>>
lkHistory == <<lkOut, lkSince, lkTries, lkTold>>
lkVars == <<lkLoop, lkOutage, lkHistory>>

NoOutage == -1

Least(a, b) == IF a < b THEN a ELSE b
Counted(n) == Least(n + 1, LinkHorizon)

LinkInit ==
    /\ lkAt = "attempt"
    /\ lkBackoff = ReconnectMin
    /\ lkWait = 0 /\ lkSpent = 0 /\ lkUptime = 0
    /\ lkDownFor = NoOutage /\ lkReported = FALSE
    /\ lkOut = 0 /\ lkSince = 0 /\ lkTries = 1
    /\ lkTold = "nothing"

-----------------------------------------------------------------------------
\* A unit of time passes: in an attempt, on a connection or in the sleep.
LinkTick ==
    /\ \/ lkAt = "attempt" /\ lkSpent < AttemptMax
       \/ lkAt = "up"
       \/ lkAt = "sleep" /\ lkWait > 0
    /\ lkSpent'   = IF lkAt = "attempt" THEN lkSpent + 1 ELSE lkSpent
    /\ lkUptime'  = IF lkAt = "up" THEN Least(lkUptime + 1, StableConnection) ELSE lkUptime
    /\ lkWait'    = IF lkAt = "sleep" THEN lkWait - 1 ELSE lkWait
    /\ lkDownFor' = IF lkDownFor = NoOutage THEN NoOutage ELSE Counted(lkDownFor)
    /\ lkOut'     = IF lkAt = "up" THEN lkOut ELSE Counted(lkOut)
    /\ lkSince'   = Counted(lkSince)
    /\ UNCHANGED <<lkAt, lkBackoff, lkReported, lkTries, lkTold>>

\* connect_irc: an outage the owner heard of is over for them as well.
ConnectLink ==
    /\ lkAt = "attempt" /\ lkAt' = "up"
    /\ lkUptime' = 0
    /\ lkTold' = IF lkReported THEN "back" ELSE lkTold
    /\ lkDownFor' = NoOutage /\ lkReported' = FALSE
    /\ lkOut' = 0
    /\ UNCHANGED <<lkBackoff, lkWait, lkSpent, lkSince, lkTries>>

AttemptFails ==
    /\ lkAt = "attempt" /\ lkAt' = "down"
    /\ UNCHANGED <<lkBackoff, lkWait, lkSpent, lkUptime, lkOutage, lkHistory>>

\* Only a connection that lasted counts as recovery.
Held(uptime) == uptime >= StableConnection

\* The stream ended, failed, or the server stopped answering pings.
LinkEnds ==
    /\ lkAt = "up" /\ lkAt' = "down"
    /\ lkBackoff' = IF Held(lkUptime) THEN ReconnectMin ELSE lkBackoff
    /\ lkSince'   = IF lkUptime = StableConnection THEN 0 ELSE lkSince
    /\ lkTries'   = IF lkUptime = StableConnection THEN 0 ELSE lkTries
    /\ UNCHANGED <<lkWait, lkSpent, lkUptime, lkOutage, lkOut, lkTold>>

\* Mutant of OutageSoFar: the start of the outage moves with every attempt.
OutageAfresh == 0

\* down_since.get_or_insert_with(now).elapsed()
OutageSoFar == IF lkDownFor = NoOutage THEN 0 ELSE lkDownFor

\* The end of a round: tell the owner of an outage that lasts, then sleep.
Backoff ==
    /\ lkAt = "down" /\ lkAt' = "sleep"
    /\ lkDownFor' = OutageSoFar
    /\ lkReported' = (lkReported \/ OutageSoFar >= ReconnectMax)
    /\ lkTold' = IF lkReported' /\ ~lkReported THEN "down" ELSE lkTold
    /\ lkWait' = lkBackoff
    /\ lkBackoff' = Least(2 * lkBackoff, ReconnectMax)
    /\ UNCHANGED <<lkSpent, lkUptime, lkOut, lkSince, lkTries>>

TryAgain ==
    /\ lkAt = "sleep" /\ lkWait = 0
    /\ lkAt' = "attempt" /\ lkSpent' = 0
    /\ lkTries' = Counted(lkTries)
    /\ UNCHANGED <<lkBackoff, lkWait, lkUptime, lkOutage, lkOut, lkSince, lkTold>>

\* The bot panics or stops, and is built anew; its greeting tells the owner
\* so, whatever was told before.
RestartLink ==
    /\ lkAt' = "attempt" /\ lkBackoff' = ReconnectMin
    /\ lkWait' = 0 /\ lkSpent' = 0 /\ lkUptime' = 0
    /\ lkDownFor' = NoOutage /\ lkReported' = FALSE
    /\ lkOut' = 0 /\ lkSince' = 0 /\ lkTries' = 1
    /\ lkTold' = "nothing"

Reconnecting ==
    \/ LinkTick
    \/ ConnectLink \/ AttemptFails \/ LinkEnds \/ Backoff \/ TryAgain

LinkNext == Reconnecting \/ RestartLink

LinkSpec == LinkInit /\ [][LinkNext]_lkVars

-----------------------------------------------------------------------------
\* Properties.

Stages == {"attempt", "up", "down", "sleep"}

\* Every variable stays in its type.
LinkTypeOK ==
    /\ lkAt \in Stages
    /\ lkBackoff \in ReconnectMin..ReconnectMax /\ lkWait \in 0..ReconnectMax
    /\ lkSpent \in 0..AttemptMax /\ lkUptime \in 0..StableConnection
    /\ lkDownFor \in {NoOutage} \cup 0..LinkHorizon /\ lkReported \in BOOLEAN
    /\ {lkOut, lkSince, lkTries} \subseteq 0..LinkHorizon
    /\ lkTold \in {"nothing", "down", "back"}

\* The first attempt of an outage may take time before the outage is noticed,
\* a round may end just too soon, and the next comes a sleep and an attempt
\* later.
ReportDue == AttemptMax + 2 * ReconnectMax + AttemptMax

\* An outage does not stay silent: by then the owner was told, and what they
\* were told last is what is true.
OutagesAreReported ==
    /\ lkOut >= ReportDue => lkTold = "down"
    /\ lkAt = "up" => lkTold # "down"

\* The delay after n others, were there no longest one.
Doubled[n \in 0..LinkHorizon] == IF n = 0 THEN ReconnectMin ELSE 2 * Doubled[n - 1]

\* How soon the n-th attempt may come after the connection last held.
Earliest[n \in 0..LinkHorizon] ==
    IF n <= 1 THEN 0
    ELSE Earliest[n - 1] + Least(Doubled[n - 2], ReconnectMax)

\* However often the server accepts the bot only to drop it, attempts come no
\* faster than the doubling delays allow.
FlappingSlowsDown == lkTries < LinkHorizon => Least(Earliest[lkTries], LinkHorizon) <= lkSince
=============================================================================
