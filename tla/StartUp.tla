------------------------------ MODULE StartUp ------------------------------
(***************************************************************************)
(* From the start of the process to a running bot (`main`,                 *)
(* `Irc2Torrent::new`, `get_torrent_client`), and the sessions that        *)
(* qBittorrent and Flood ask for, then and later.                          *)
(*                                                                         *)
(* qBittorrent counts refused logins and bans the address after BanAfter   *)
(* of them.  The supervisor, or whoever else restarts the process, is      *)
(* there in StartAnew alone.                                               *)
(***************************************************************************)
EXTENDS Naturals

CONSTANTS
    ClientKinds,    \* the clients an instance may be configured with
    ClientMaxRetry, \* CLIENT_MAX_RETRY
    BanAfter        \* external: refused logins that qBittorrent allows

ASSUME StartUpAssumption ==
    /\ ClientKinds \subseteq {"rTorrent", "qBittorrent", "Flood"}
    /\ {ClientMaxRetry, BanAfter} \subseteq Nat \ {0}

VARIABLES
    suPhase,     \* "config", "connect", "pause", "wire", "running", "hung", "panicked"
    suAttempt,   \* attempt of get_torrent_client
    suKind,      \* the configured client
    suValid,     \* the configuration files can be loaded
    suServer,    \* "up", "down" or "silent": it accepts and never answers
    suGuarded,   \* it asks for a login
    suRight,     \* the configured credentials are its own
    suSession,   \* the session the bot holds is good
    suRefused,   \* external: the refused logins it has counted
    suCost       \* history: refused logins of this start-up

suWorld  == <<suKind, suValid, suServer, suGuarded, suRight>>
suLogins == <<suSession, suRefused, suCost>>
suVars == <<suPhase, suAttempt, suWorld, suLogins>>

StartUpInit ==
    /\ suPhase = "config" /\ suAttempt = 0
    /\ suKind \in ClientKinds
    /\ suValid \in BOOLEAN
    /\ suServer \in {"up", "down", "silent"}
    /\ suGuarded \in BOOLEAN /\ suRight \in BOOLEAN
    /\ suSession = FALSE /\ suRefused = 0 /\ suCost = 0

\* Somebody mends or breaks the files, the server or the password.
Outside ==
    /\ \/ suValid' = ~suValid /\ UNCHANGED <<suServer, suGuarded, suRight, suSession>>
       \/ /\ suServer' \in {"up", "down", "silent"} \ {suServer}
          /\ UNCHANGED <<suValid, suGuarded, suRight, suSession>>
       \/ /\ suRight' = ~suRight /\ suSession' = FALSE
          /\ UNCHANGED <<suValid, suServer, suGuarded>>
       \/ /\ suSession /\ suSession' = FALSE
          /\ UNCHANGED <<suValid, suServer, suGuarded, suRight>>
    /\ UNCHANGED <<suPhase, suAttempt, suKind, suRefused, suCost>>

-----------------------------------------------------------------------------
\* Irc2Torrent::new.

\* Config::new and the choice of the client; an error is a panic.
LoadConfig ==
    /\ suPhase = "config"
    /\ IF suValid THEN suPhase' = "connect" /\ suAttempt' = 1
                  ELSE suPhase' = "panicked" /\ UNCHANGED suAttempt
    /\ UNCHANGED <<suWorld, suLogins>>

\* Unrecoverable: a server that has said no.
IsFinal(error) == error \in {"refused", "banned"}

\* The last attempt of get_torrent_client.
GivesUp(attempt) == attempt >= ClientMaxRetry

AttemptEnds(error) ==
    /\ suPhase' = IF IsFinal(error) \/ GivesUp(suAttempt) THEN "panicked" ELSE "pause"

\* A login: qBittorrent refuses, and counts, or has banned the address.
Banned == suRefused >= BanAfter

SignIn(outcome) ==
    \/ /\ outcome = "ok" /\ suRight /\ ~Banned
       /\ suSession' = TRUE /\ suRefused' = 0 /\ UNCHANGED suCost
    \/ /\ outcome = "refused" /\ ~suRight /\ ~Banned
       /\ suRefused' = suRefused + 1 /\ suSession' = FALSE
       /\ suCost' = IF suPhase = "connect" THEN suCost + 1 ELSE suCost
    \/ /\ outcome = "banned" /\ Banned
       /\ UNCHANGED suLogins

\* send_authed: logs in only when the server says 403, and then once.
Request(outcome) ==
    \/ /\ suServer = "up" /\ (suSession \/ ~suGuarded)
       /\ outcome = "ok" /\ UNCHANGED suLogins
    \/ /\ suServer = "up" /\ suGuarded /\ ~suSession
       /\ SignIn(outcome)
    \/ /\ suServer # "up"
       /\ outcome = "unreachable" /\ UNCHANGED suLogins

\* QBittorrent::new: the version probe is the first request.
ConnectQBittorrent ==
    /\ suPhase = "connect" /\ suKind = "qBittorrent"
    /\ \E outcome \in {"ok", "refused", "banned", "unreachable"} :
          /\ Request(outcome)
          /\ IF outcome = "ok" THEN suPhase' = "wire" ELSE AttemptEnds(outcome)
    /\ UNCHANGED <<suAttempt, suWorld>>

\* rTorrent::new asks nothing.
ConnectRTorrent ==
    /\ suPhase = "connect" /\ suKind = "rTorrent"
    /\ suPhase' = "wire"
    /\ UNCHANGED <<suAttempt, suWorld, suLogins>>

\* Flood::new logs in, without a timeout; a refusal is an error like others.
ConnectFlood ==
    /\ suPhase = "connect" /\ suKind = "Flood"
    /\ IF suServer = "silent" THEN suPhase' = "hung"
       ELSE IF suServer = "up" /\ suRight THEN suPhase' = "wire"
       ELSE AttemptEnds("login failed")
    /\ suSession' = (suServer = "up" /\ suRight)
    /\ UNCHANGED <<suAttempt, suWorld, suRefused, suCost>>

\* A server that starts to answer after all.
FloodAnswers ==
    /\ suPhase = "hung" /\ suServer # "silent"
    /\ suPhase' = "connect"
    /\ UNCHANGED <<suAttempt, suWorld, suLogins>>

\* Mutant of Following: the attempt is not counted.
SameAttempt(attempt) == attempt

Following(attempt) == attempt + 1

\* Three seconds later.
NextAttempt ==
    /\ suPhase = "pause" /\ suPhase' = "connect"
    /\ suAttempt' = Following(suAttempt)
    /\ suSession' = FALSE
    /\ UNCHANGED <<suWorld, suRefused, suCost>>

\* The platform, the notifier, its greeting, the processors; then start().
Wire ==
    /\ suPhase = "wire" /\ suPhase' = "running"
    /\ UNCHANGED <<suAttempt, suWorld, suLogins>>

-----------------------------------------------------------------------------
\* The running bot.

\* torrents() and add: an expired session is renewed on the way.
UseQBittorrent ==
    /\ suPhase = "running" /\ suKind = "qBittorrent"
    /\ \E outcome \in {"ok", "refused", "banned", "unreachable"} : Request(outcome)
    /\ UNCHANGED <<suPhase, suAttempt, suWorld>>

\* The panic of any arm.
Panic ==
    /\ suPhase = "running" /\ suPhase' = "panicked"
    /\ UNCHANGED <<suAttempt, suWorld, suLogins>>

\* The supervisor's next turn, or another process.
StartAnew ==
    /\ suPhase = "panicked" /\ suPhase' = "config"
    /\ suAttempt' = 0 /\ suSession' = FALSE /\ suCost' = 0
    /\ UNCHANGED <<suWorld, suRefused>>

Starting ==
    \/ LoadConfig
    \/ ConnectQBittorrent \/ ConnectRTorrent \/ ConnectFlood \/ FloodAnswers
    \/ NextAttempt \/ Wire

StartUpNext == Outside \/ Starting \/ UseQBittorrent \/ Panic \/ StartAnew

StartUpSpec == StartUpInit /\ [][StartUpNext]_suVars

\* The task is polled.
StartUpFairness == WF_suVars(Starting)

-----------------------------------------------------------------------------
\* Properties.

\* Every variable stays in its type.
StartUpTypeOK ==
    /\ suPhase \in {"config", "connect", "pause", "wire", "running", "hung", "panicked"}
    /\ suAttempt \in 0..ClientMaxRetry /\ suKind \in ClientKinds
    /\ {suValid, suGuarded, suRight, suSession} \subseteq BOOLEAN
    /\ suServer \in {"up", "down", "silent"}
    /\ suRefused \in 0..BanAfter /\ suCost \in 0..BanAfter

\* A start-up with a wrong password costs one refused login, however often it
\* has been delayed by a server that was not up yet.
OneRefusedLoginPerStart == suCost <= 1

\* A start-up comes to an end: the bot runs or says why it cannot, unless
\* Flood accepted the connection and never answers.
StartUpSettles ==
    suPhase = "config" ~> (suPhase \in {"running", "panicked"}
                             \/ (suKind = "Flood" /\ suServer = "silent"))
=============================================================================
