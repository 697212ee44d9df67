---------------------------- MODULE IdentityGate ----------------------------
(***************************************************************************)
(* How IrcProcessor decides whether a command that arrived over IRC runs:  *)
(* the gate that costs nothing (auth.rs), the WHOIS round trip a command   *)
(* is parked behind, its timeout, the per-nick cooldown and the budget     *)
(* shared by every nick (irc_processor.rs).                                *)
(*                                                                         *)
(* One task runs every handler, so handlers do not interleave with each    *)
(* other; what moves around them is the server answering WHOISes in the    *)
(* order they were asked, time, the connection, and the watcher thread,    *)
(* which may replace the configuration between any two reads of it.        *)
(*                                                                         *)
(* Time is counted in ticks.  Instants are kept as ticks left or elapsed.  *)
(***************************************************************************)
EXTENDS Integers, Sequences, FiniteSets

CONSTANTS
    Nicks,         \* who may write to the bot; a nick also names an account
    Nobody,        \* no account: the sender is not identified
    Password,      \* in place of an owner: SecurityMode::Password
    Configs,       \* what command_options may hold: [owner, enabled, identify]
    WhoisTimeout,  \* WHOIS_TIMEOUT
    SweepInterval, \* AUTH_SWEEP_INTERVAL
    FailureLimit,  \* WHOIS_FAILURE_LIMIT
    Cooldown,      \* WHOIS_COOLDOWN
    Budget,        \* WHOIS_PER_MINUTE
    Minute,        \* the budget's window
    CommandLimit,  \* PENDING_COMMAND_LIMIT
    MaxAsked,      \* bound: WHOISes the server works on; more go unanswered
    RunsTakeTime   \* whether a command that runs may keep the loop waiting

ASSUME NamesAssumption ==
    /\ Nobody \notin Nicks /\ Password \notin Nicks
    /\ Configs \subseteq [owner : Nicks \cup {Password}, enabled : BOOLEAN, identify : BOOLEAN]

ASSUME BoundsAssumption ==
    /\ {WhoisTimeout, SweepInterval, FailureLimit, Cooldown, Budget, Minute, CommandLimit}
           \subseteq Nat \ {0}
    /\ MaxAsked \in Nat
    /\ RunsTakeTime \in BOOLEAN

VARIABLES
    config,     \* the options as the watcher last loaded them
    up,         \* the connection holds
    loop,       \* what the read loop is in the middle of
    pending,    \* pending_auth: commands parked behind a WHOIS, per nick
    cooldowns,  \* WhoisCooldowns: failures so far, ticks left to cool
    used,       \* WhoisBudget.used
    sinceRoll,  \* ticks since WhoisBudget.window_started, held at Minute
    phase,      \* ticks to the next sweep
    due,        \* a sweep is due
    asked,      \* WHOISes the server has not finished answering, oldest first
    asks,       \* history: ages of the WHOISes sent within a Minute
    streak      \* history: failed checks since a success or a cooldown

budgetVars == <<used, sinceRoll, asks>>
sweepVars  == <<phase, due>>
vars == <<config, up, loop, pending, cooldowns, budgetVars, sweepVars, asked, streak>>

\* A batch this old has outlived its deadline and the sweep after it.
Late == WhoisTimeout + SweepInterval

Accounts == Nicks \cup {Nobody}
NoBatch  == [cmds |-> 0, account |-> Nobody, age |-> 0]
Fresh    == [failures |-> 0, left |-> 0]
Idle     == [at |-> "idle"]

Parked(n)  == pending[n].cmds > 0
Cooling(n) == cooldowns[n].left > 0

-----------------------------------------------------------------------------
\* auth.rs.

\* gate_irc_command: what a command-shaped message could still achieve.
Gate(c, n, direct) ==
    IF c.owner = Password THEN IF c.enabled THEN "proceed" ELSE "ignore"
    ELSE IF c.owner # n \/ ~direct THEN "ignore"
    ELSE IF c.enabled THEN "proceed" ELSE "refuse"

\* authorize_command and check_irc_command, which decide when it runs.
Authorized(c, n, direct, password) ==
    /\ c.enabled
    /\ IF c.owner = Password THEN password ELSE direct /\ c.owner = n

-----------------------------------------------------------------------------
\* The bookkeeping of checks and their failures.

\* Mutant of Prune: forgets a nick that is part-way to a cooldown.
PruneAll(c) == [n \in Nicks |-> IF c[n].left > 0 THEN c[n] ELSE Fresh]

\* Entries that neither cool nor count towards a cooldown are dropped.
Prune(c) == [n \in Nicks |-> IF c[n].failures > 0 \/ c[n].left > 0 THEN c[n] ELSE Fresh]

\* note_failure.
Failed(entry) ==
    IF entry.failures + 1 < FailureLimit
    THEN [entry EXCEPT !.failures = @ + 1]
    ELSE [failures |-> 0, left |-> Cooldown]

NextStreak(n) == IF streak[n] + 1 = FailureLimit THEN 0 ELSE streak[n] + 1

\* Mutant of Rolled: starts a new minute one tick after the last.
RolledEarly == sinceRoll >= 1

\* WhoisBudget::take: a new minute starts with the first check after the old.
Rolled == sinceRoll >= Minute
Affordable == Rolled \/ used < Budget

Take ==
    /\ Affordable
    /\ used' = IF Rolled THEN 1 ELSE used + 1
    /\ sinceRoll' = IF Rolled THEN 0 ELSE sinceRoll
    /\ asks' = Append(asks, 0)

-----------------------------------------------------------------------------

Init ==
    /\ config \in Configs
    /\ up = TRUE /\ loop = Idle
    /\ pending = [n \in Nicks |-> NoBatch]
    /\ cooldowns = [n \in Nicks |-> Fresh]
    /\ used = 0 /\ sinceRoll = 0 /\ asks = <<>>
    /\ phase = SweepInterval /\ due = FALSE
    /\ asked = <<>>
    /\ streak = [n \in Nicks |-> 0]

\* command_msg_process up to the gate.  Refused and ignored messages change
\* nothing here: at most a reply goes out.
Arrive(n, direct) ==
    /\ up /\ loop = Idle
    /\ Gate(config, n, direct) = "proceed"
    /\ loop' = [at |-> "gated", nick |-> n]
    /\ UNCHANGED <<config, up, pending, cooldowns, budgetVars, sweepVars, asked,
                   streak>>

Gated(n) == loop = [at |-> "gated", nick |-> n]
Verify   == config.identify /\ config.owner # Password

\* No check applies: the command runs at once.
RunUnchecked(n) ==
    /\ Gated(n) /\ ~Verify
    /\ loop' = [at |-> "running", left |-> 1]
    /\ UNCHANGED <<config, up, pending, cooldowns, budgetVars, sweepVars, asked,
                   streak>>

\* Mutant of LeftAlone: a cooling nick is asked about all the same.
NeverLeftAlone(n) == FALSE

\* Whether commands from this nick are ignored for now.
LeftAlone(n) == Cooling(n)

\* The nick is cooling down, or it would need a check and none is left.
TurnAway(n) ==
    /\ Gated(n) /\ Verify
    /\ LeftAlone(n) \/ (~Parked(n) /\ ~Affordable)
    /\ loop' = Idle
    /\ UNCHANGED <<config, up, pending, cooldowns, budgetVars, sweepVars, asked,
                   streak>>

\* Mutant of Joined: each further command starts the wait over.
JoinedAfresh(batch) ==
    [batch EXCEPT !.cmds = IF @ < CommandLimit THEN @ + 1 ELSE @, !.age = 0]

\* The earliest commands are kept, the rest only counted.
Joined(batch) == [batch EXCEPT !.cmds = IF @ < CommandLimit THEN @ + 1 ELSE @]

\* A check is in flight: ride it.
ParkBehind(n) ==
    /\ Gated(n) /\ Verify /\ ~LeftAlone(n) /\ Parked(n)
    /\ pending' = [pending EXCEPT ![n] = Joined(@)]
    /\ loop' = Idle
    /\ UNCHANGED <<config, up, cooldowns, budgetVars, sweepVars, asked, streak>>

\* None is: spend one and ask the server.
ParkAndAsk(n) ==
    /\ Gated(n) /\ Verify /\ ~LeftAlone(n) /\ ~Parked(n)
    /\ Take
    /\ pending' = [pending EXCEPT ![n] = [cmds |-> 1, account |-> Nobody, age |-> 0]]
    /\ asked' = IF Len(asked) < MaxAsked THEN Append(asked, n) ELSE asked
    /\ loop' = Idle
    /\ UNCHANGED <<config, up, cooldowns, sweepVars, streak>>

\* run_command, once per command of a batch; it may await the torrent client.
RunNext ==
    /\ loop.at = "running"
    /\ loop' = IF loop.left > 1 THEN [loop EXCEPT !.left = @ - 1] ELSE Idle
    /\ UNCHANGED <<config, up, pending, cooldowns, budgetVars, sweepVars, asked,
                   streak>>

-----------------------------------------------------------------------------
\* The server's answers.

\* 330: the account of the nick the oldest WHOIS asks about.  Nothing in it
\* says which of two questions about the same nick it answers.
AccountReply(a) ==
    /\ up /\ loop = Idle /\ asked # <<>>
    /\ LET n == Head(asked)
       IN  /\ Parked(n)
           /\ pending' = [pending EXCEPT ![n].account = a]
    /\ UNCHANGED <<config, up, loop, cooldowns, budgetVars, sweepVars, asked, streak>>

\* refuse_pending: the batch is gone and its nick has failed once more.
Refuse(n) ==
    /\ cooldowns' = [cooldowns EXCEPT ![n] = Failed(@)]
    /\ streak' = [streak EXCEPT ![n] = NextStreak(n)]

\* 318 with nothing parked, or parked before the mode became a password:
\* nothing is run and nothing is said.
EndUnheeded(n) ==
    /\ ~Parked(n) \/ config.owner = Password
    /\ UNCHANGED <<loop, cooldowns, streak>>

EndVerified(n) ==
    /\ Parked(n) /\ config.owner # Password /\ pending[n].account = config.owner
    /\ loop' = [at |-> "running", left |-> pending[n].cmds]
    /\ cooldowns' = [cooldowns EXCEPT ![n] = Fresh]
    /\ streak' = [streak EXCEPT ![n] = 0]

EndRefused(n) ==
    /\ Parked(n) /\ config.owner # Password /\ pending[n].account # config.owner
    /\ Refuse(n)
    /\ UNCHANGED loop

\* resolve_pending_auth, on 318.
EndOfWhois ==
    /\ up /\ loop = Idle /\ asked # <<>>
    /\ asked' = Tail(asked)
    /\ LET n == Head(asked)
       IN  /\ EndUnheeded(n) \/ EndVerified(n) \/ EndRefused(n)
           /\ pending' = [pending EXCEPT ![n] = NoBatch]
    /\ UNCHANGED <<config, up, budgetVars, sweepVars>>

-----------------------------------------------------------------------------
\* Time and the connection.

Expired(n) == Parked(n) /\ pending[n].age >= WhoisTimeout

\* expire_pending_auth: an unanswered check is a failed one.
Sweep ==
    /\ up /\ loop = Idle /\ due
    /\ due' = FALSE
    /\ pending' = [n \in Nicks |-> IF Expired(n) THEN NoBatch ELSE pending[n]]
    /\ cooldowns' = Prune([n \in Nicks |->
                        IF Expired(n) THEN Failed(cooldowns[n]) ELSE cooldowns[n]])
    /\ streak' = [n \in Nicks |-> IF Expired(n) THEN NextStreak(n) ELSE streak[n]]
    /\ UNCHANGED <<config, up, loop, budgetVars, phase, asked>>

\* The sweep's ticker fires on its own schedule, whatever the loop is doing.
NextPhase == IF phase > 1 THEN phase - 1 ELSE SweepInterval

Older(age, bound) == IF age < bound THEN age + 1 ELSE bound

\* The first k of the WHOISes sent turn a Minute old.
Forgotten(k) ==
    /\ \A i \in 1..k : asks[i] + 1 >= Minute
    /\ \A i \in (k + 1)..Len(asks) : asks[i] + 1 < Minute

\* A loop with nothing to wait for serves a sweep before more time passes.
Tick ==
    /\ loop = Idle \/ (RunsTakeTime /\ loop.at = "running")
    /\ ~(up /\ loop = Idle /\ due)
    /\ pending' = [n \in Nicks |->
          IF Parked(n) THEN [pending[n] EXCEPT !.age = Older(@, Late)] ELSE NoBatch]
    /\ cooldowns' = [n \in Nicks |->
          [cooldowns[n] EXCEPT !.left = IF @ > 0 THEN @ - 1 ELSE 0]]
    /\ sinceRoll' = Older(sinceRoll, Minute)
    /\ \E k \in 0..Len(asks) :
          /\ Forgotten(k)
          /\ asks' = [i \in 1..(Len(asks) - k) |-> asks[i + k] + 1]
    /\ IF up THEN phase' = NextPhase /\ due' = (due \/ phase = 1)
             ELSE UNCHANGED sweepVars
    /\ UNCHANGED <<config, up, loop, used, asked, streak>>

\* The stream ends; drop_pending_auth.  Questions asked on it go unanswered.
Drop ==
    /\ up /\ loop = Idle
    /\ up' = FALSE
    /\ pending' = [n \in Nicks |-> NoBatch]
    /\ asked' = <<>>
    /\ UNCHANGED <<config, loop, cooldowns, budgetVars, sweepVars, streak>>

Reconnect ==
    /\ ~up
    /\ up' = TRUE
    /\ phase' = SweepInterval /\ due' = FALSE
    /\ UNCHANGED <<config, loop, pending, cooldowns, budgetVars, asked, streak>>

\* The watcher loads another options.toml, also in the middle of a handler.
EditConfig ==
    /\ config' \in Configs \ {config}
    /\ UNCHANGED <<up, loop, pending, cooldowns, budgetVars, sweepVars, asked,
                   streak>>

Command ==
    \/ \E n \in Nicks, direct \in BOOLEAN : Arrive(n, direct)
    \/ \E n \in Nicks : RunUnchecked(n) \/ TurnAway(n) \/ ParkBehind(n) \/ ParkAndAsk(n)
    \/ RunNext

Next ==
    \/ Command
    \/ \E a \in Accounts \ {Nobody} : AccountReply(a)
    \/ EndOfWhois
    \/ Sweep \/ Tick \/ Drop \/ Reconnect \/ EditConfig

Spec == Init /\ [][Next]_vars

\* A gate that has been asked decides, time passes, and a sweep that keeps
\* coming due is served: select! picks among its ready arms at random, so that
\* no flood of messages starves the timer for ever.  That a command returns is
\* nowhere assured: downloads and two of the clients wait without a timeout.
Fairness ==
    /\ WF_vars(\E n \in Nicks :
          RunUnchecked(n) \/ TurnAway(n) \/ ParkBehind(n) \/ ParkAndAsk(n))
    /\ SF_vars(Sweep)
    /\ SF_vars(Tick)

FairSpec == Spec /\ Fairness

-----------------------------------------------------------------------------
\* Properties.

Batch == [cmds : 0..CommandLimit, account : Accounts, age : 0..Late]

\* Every variable stays in its type; no batch outgrows its limit.
TypeOK ==
    /\ config \in Configs /\ up \in BOOLEAN
    /\ \/ loop = Idle
       \/ \E n \in Nicks : loop = [at |-> "gated", nick |-> n]
       \/ \E k \in 1..CommandLimit : loop = [at |-> "running", left |-> k]
    /\ pending \in [Nicks -> Batch]
    /\ cooldowns \in [Nicks -> [failures : 0..(FailureLimit - 1), left : 0..Cooldown]]
    /\ used \in 0..Budget /\ sinceRoll \in 0..Minute /\ asks \in Seq(0..(Minute - 1))
    /\ phase \in 1..SweepInterval /\ due \in BOOLEAN
    /\ asked \in Seq(Nicks)
    /\ streak \in [Nicks -> 0..(FailureLimit - 1)]

\* The gate may only decline what the real check would refuse: no command
\* that could be authorized is turned away before it is verified.
GateAgreesWithCheck ==
    \A n \in Nicks, direct, password \in BOOLEAN :
        Authorized(config, n, direct, password) => Gate(config, n, direct) = "proceed"

\* A nick being left alone costs nothing: no command of it is parked, so no
\* answer, timeout or sweep can make the bot write to it again.
CoolingIsSilent == \A n \in Nicks : Cooling(n) => ~Parked(n)

\* Failures count towards a cooldown across sweeps, reconnects and edits of
\* the configuration until a check succeeds or the cooldown starts.
FailuresAreRemembered == \A n \in Nicks : cooldowns[n].failures = streak[n]

\* Whatever the nicks do, no minute sees more than twice the budget: the
\* window is fixed, so two budgets can meet at its edge.
WhoisRateBounded == Len(asks) <= 2 * Budget

\* However many commands ride it, whatever the server answers or fails to
\* answer, and whoever holds up the loop, a parked batch is settled: unless one
\* command keeps the loop, and the sweep with it, for ever.
EveryBatchSettles ==
    []<>(loop.at # "running") => \A n \in Nicks : Parked(n) ~> ~Parked(n)
=============================================================================
