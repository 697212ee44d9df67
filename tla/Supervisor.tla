----------------------------- MODULE Supervisor -----------------------------
(***************************************************************************)
(* supervisor.rs: irc2torrent as PID 1.  It starts the torrent client and  *)
(* Flood, restarts what exits, reaps whatever is re-parented to it, runs   *)
(* the bot beside them, and takes everything down on SIGTERM.              *)
(*                                                                         *)
(* The actors: the children and the kernel; the reaper thread, blocked in  *)
(* waitpid; the supervising task, which hears of an exit only through the  *)
(* channel the reaper fills; and whoever sends the signal.                 *)
(*                                                                         *)
(* A pid is not given out again before its exit has been read from that    *)
(* channel: the kernel goes round its whole pid space first.               *)
(***************************************************************************)
EXTENDS Integers, Sequences, FiniteSets

CONSTANTS
    Services,     \* what this image supervises
    Order,        \* the order in which they are started
    Locker,       \* rTorrent, which locks its session directory
    Orphan,       \* the owner of a process nobody here spawned
    Pids,
    NoPid,
    BackoffMin,   \* RESTART_BACKOFF_MIN
    BackoffMax,   \* RESTART_BACKOFF_MAX
    ShutdownGrace,
    SpawnsFail,   \* whether Command::spawn may fail
    ClearsFail    \* whether the lock may be unreadable, or not to be removed

\* No service is listed twice.
ASSUME NamesAssumption ==
    /\ Order \in Seq(Services)
    /\ \A i, j \in DOMAIN Order : Order[i] = Order[j] => i = j
    /\ Orphan \notin Services \cup {Locker} /\ NoPid \notin Pids

ASSUME BoundsAssumption ==
    /\ BackoffMin \in Nat \ {0} /\ BackoffMax \in Nat /\ BackoffMin <= BackoffMax
    /\ ShutdownGrace \in Nat
    /\ SpawnsFail \in BOOLEAN /\ ClearsFail \in BOOLEAN

VARIABLES
    phase,        \* "starting", "running", "stopping", "gone"
    started,      \* how many of Order have been started
    fate,         \* what the kernel knows of each pid
    owner,        \* whose process it is, or was
    reaped,       \* the reaper's channel
    byPid,        \* by_pid: which service a pid stands for
    child,        \* Service.child
    restartAt,    \* Service.restart_at, as ticks left; NotDue is None
    backoff,      \* Service.backoff
    signalled,    \* a SIGTERM or SIGINT waits for its branch of the select
    outstanding,  \* shutdown: children not yet known to be gone
    graceLeft,    \* shutdown: ticks to the deadline
    killed,       \* shutdown: pids sent SIGKILL
    lock,         \* rtorrent.lock: who holds the session directory
    bot,          \* run_bot_forever: [up, wait, backoff]
    pace          \* history: ticks since each service last started

kernelVars == <<fate, owner>>
tableVars  == <<byPid, child, restartAt, backoff, pace>>
stopVars   == <<outstanding, graceLeft, killed>>
vars == <<phase, started, kernelVars, reaped, tableVars, signalled, stopVars,
          lock, bot>>

NotDue   == -1
Unlocked == "unlocked"   \* no lock file
Stale    == "stale"      \* left behind by a dead process of this host
Tried    == "tried"      \* stale, and the attempt to remove it has failed
Foreign  == "foreign"    \* another host's

ASSUME LockAssumption == {Unlocked, Stale, Tried, Foreign} \cap Pids = {}

Owners == Services \cup {Orphan}
Smaller(a, b) == IF a < b THEN a ELSE b

Free == {p \in Pids : fate[p] = "free"}
Runs(p, s) == fate[p] = "runs" /\ owner[p] = s

-----------------------------------------------------------------------------

Init ==
    /\ phase = "starting" /\ started = 0
    /\ fate = [p \in Pids |-> "free"] /\ owner = [p \in Pids |-> Orphan]
    /\ reaped = <<>>
    /\ byPid = [p \in Pids |-> Orphan]
    /\ child = [s \in Services |-> NoPid]
    /\ restartAt = [s \in Services |-> NotDue]
    /\ backoff = [s \in Services |-> BackoffMin]
    /\ pace = [s \in Services |-> BackoffMax]
    /\ signalled = FALSE
    /\ outstanding = {} /\ graceLeft = ShutdownGrace /\ killed = {}
    \* run() clears a lock of our own, if it can, before it starts anything.
    /\ lock \in {Unlocked, Foreign} \cup (IF ClearsFail THEN {Tried} ELSE {})
    /\ bot = [up |-> TRUE, wait |-> 0, backoff |-> BackoffMin]

\* Mutant of Cleared: trusts whatever lock it finds.
NeverCleared(fails) == lock

\* clear_stale_session_lock: removes a lock that names this host, and leaves
\* it when it cannot be read or removed, or the host has no name.
Cleared(fails) ==
    IF lock \in {Unlocked, Foreign} THEN lock ELSE IF fails THEN Tried ELSE Unlocked

\* Mutant of LockAfter: every restart clears it, Flood's too.
ClearedByAll(due, fails) == Cleared(fails)

\* Before rTorrent, and only then, is started again.
LockAfter(due, fails) == IF Locker \in due THEN Cleared(fails) ELSE lock

\* Service::spawn for every service in `which`, each of which gets a pid of
\* its own or fails.  A failure is only logged.
Spawned(which, pid) ==
    LET ok == {s \in which : pid[s] # NoPid}
        of(p) == CHOOSE s \in ok : pid[s] = p
        new == {pid[s] : s \in ok}
    IN  /\ \A s \in which : pid[s] = NoPid => SpawnsFail
        /\ \A s, t \in ok : s # t => pid[s] # pid[t]
        /\ fate'  = [p \in Pids |-> IF p \in new THEN "runs" ELSE fate[p]]
        /\ owner' = [p \in Pids |-> IF p \in new THEN of(p) ELSE owner[p]]
        /\ byPid' = [p \in Pids |-> IF p \in new THEN of(p) ELSE byPid[p]]
        /\ child' = [s \in Services |-> IF s \in ok THEN pid[s] ELSE child[s]]
        /\ pace'  = [s \in Services |-> IF s \in ok THEN 0 ELSE pace[s]]

\* The first loop of run(): one service after the other.  Before Flood it
\* waits for the client's socket or gives up on it, so any time may pass.
StartNext ==
    /\ phase = "starting" /\ started < Len(Order)
    /\ started' = started + 1
    /\ LET s == Order[started + 1]
       IN  \E p \in Free \cup {NoPid} : Spawned({s}, [t \in {s} |-> p])
    /\ UNCHANGED <<phase, reaped, restartAt, backoff, signalled, stopVars, lock, bot>>

\* Only now do the handlers for SIGTERM and SIGINT exist.
InstallHandlers ==
    /\ phase = "starting" /\ started = Len(Order)
    /\ phase' = "running"
    /\ UNCHANGED <<started, kernelVars, reaped, tableVars, signalled, stopVars,
                   lock, bot>>

-----------------------------------------------------------------------------
\* The branches of the supervising loop.

Due == {s \in Services : restartAt[s] = 0}

\* Every restart that is due, in one go.
Restart ==
    /\ phase = "running" /\ Due # {}
    /\ restartAt' = [s \in Services |-> IF s \in Due THEN NotDue ELSE restartAt[s]]
    /\ \E fails \in {FALSE, ClearsFail} : lock' = LockAfter(Due, fails)
    /\ \E pid \in [Due -> Free \cup {NoPid}] : Spawned(Due, pid)
    /\ UNCHANGED <<phase, started, reaped, backoff, signalled, stopVars, bot>>

Doubled(b) == Smaller(2 * b, BackoffMax)

\* Mutant of Forgotten: the pid table keeps the entry of a child that is gone.
Kept(p) == byPid

Forgotten(p) == [byPid EXCEPT ![p] = Orphan]

\* Mutant of Delay: the restart is due at once.
NoDelay(s) == 0

\* Mutant of Delay: no restart is scheduled.
NeverDelay(s) == NotDue

Delay(s) == backoff[s]

\* Mutant of Whose: a pid that is not in the table is the first service's.
WhoseOrFirst(p) == IF byPid[p] = Orphan THEN Order[1] ELSE byPid[p]

Whose(p) == byPid[p]

\* An exit: a child's is turned into a restart to come, an orphan's is done.
ReadExit ==
    /\ phase = "running" /\ reaped # <<>>
    /\ LET p == Head(reaped)
           s == Whose(p)
       IN  /\ fate' = [fate EXCEPT ![p] = "free"]
           /\ IF s = Orphan
              THEN UNCHANGED <<byPid, child, restartAt, backoff>>
              ELSE /\ byPid' = Forgotten(p)
                   /\ child' = [child EXCEPT ![s] = NoPid]
                   /\ restartAt' = [restartAt EXCEPT ![s] = Delay(s)]
                   /\ backoff' = [backoff EXCEPT ![s] = Doubled(@)]
    /\ reaped' = Tail(reaped)
    /\ UNCHANGED <<phase, started, owner, pace, signalled, stopVars, lock, bot>>

\* The branch of either signal enters shutdown(), which signals every child.
BeginShutdown ==
    /\ phase = "running" /\ signalled
    /\ phase' = "stopping"
    /\ outstanding' = {child[s] : s \in Services} \ {NoPid}
    /\ graceLeft' = ShutdownGrace
    /\ UNCHANGED <<started, kernelVars, reaped, tableVars, signalled, killed, lock, bot>>

-----------------------------------------------------------------------------
\* run_bot_forever, polled on the same task.

BotWait == bot.backoff

BotStops ==
    /\ phase = "running" /\ bot.up
    /\ bot' = [bot EXCEPT !.up = FALSE, !.wait = BotWait]
    /\ UNCHANGED <<phase, started, kernelVars, reaped, tableVars, signalled,
                   stopVars, lock>>

BotReturns ==
    /\ phase = "running" /\ ~bot.up /\ bot.wait = 0
    /\ bot' = [up |-> TRUE, wait |-> 0, backoff |-> Doubled(bot.backoff)]
    /\ UNCHANGED <<phase, started, kernelVars, reaped, tableVars, signalled,
                   stopVars, lock>>

-----------------------------------------------------------------------------
\* shutdown().

ReadExitStopping ==
    /\ phase = "stopping" /\ outstanding # {} /\ graceLeft > 0 /\ reaped # <<>>
    /\ outstanding' = outstanding \ {Head(reaped)}
    /\ fate' = [fate EXCEPT ![Head(reaped)] = "free"]
    /\ reaped' = Tail(reaped)
    /\ UNCHANGED <<phase, started, owner, tableVars, signalled, graceLeft, killed,
                   lock, bot>>

\* Mutant of Survivors: kills by the table, whoever has exited since.
Everyone == {child[s] : s \in Services} \ {NoPid}

\* Children still not known to be gone.
Survivors == {child[s] : s \in Services} \cap outstanding

\* Mutant of Over: waits for the last child however long it takes.
AllGone == outstanding = {}

\* Nothing left to wait for, or no time left to wait.
Over == outstanding = {} \/ graceLeft = 0

EndShutdown ==
    /\ phase = "stopping" /\ Over
    /\ phase' = "gone"
    /\ killed' = Survivors
    /\ UNCHANGED <<started, kernelVars, reaped, tableVars, signalled, outstanding,
                   graceLeft, lock, bot>>

-----------------------------------------------------------------------------
\* The children, the kernel, the reaper thread and the outside.

\* rTorrent takes the lock, or finds it taken and can only exit.
TakeLock(p) ==
    /\ Runs(p, Locker) /\ lock = Unlocked
    /\ lock' = p
    /\ UNCHANGED <<phase, started, kernelVars, reaped, tableVars, signalled,
                   stopVars, bot>>

\* Cleanly, after which a lock is gone, or not, after which it is stale.  A
\* lock that could not be removed for this rTorrent waits for the next attempt.
Exit(p) ==
    /\ phase # "gone" /\ fate[p] = "runs"
    /\ fate' = [fate EXCEPT ![p] = "zombie"]
    /\ lock' \in IF lock = p THEN {Unlocked, Stale}
                 ELSE IF lock = Tried /\ owner[p] = Locker THEN {Stale} ELSE {lock}
    /\ UNCHANGED <<phase, started, owner, reaped, tableVars, signalled, stopVars, bot>>

\* Bound: orphans leave enough pids for every service.
OrphanArrives(p) ==
    /\ phase # "gone" /\ p \in Free /\ Cardinality(Free) > Cardinality(Services)
    /\ fate' = [fate EXCEPT ![p] = "runs"]
    /\ owner' = [owner EXCEPT ![p] = Orphan]
    /\ UNCHANGED <<phase, started, reaped, tableVars, signalled, stopVars, lock, bot>>

\* Mutant of Waited: waits for its own children only.
OwnChildren(p) == fate[p] = "zombie" /\ owner[p] # Orphan

\* waitpid(-1): any child, orphans included.
Waited(p) == fate[p] = "zombie"

\* waitpid and the send: nobody else looks at either in between.
Reap(p) ==
    /\ phase # "gone" /\ Waited(p)
    /\ fate' = [fate EXCEPT ![p] = "reaped"]
    /\ reaped' = Append(reaped, p)
    /\ UNCHANGED <<phase, started, owner, tableVars, signalled, stopVars, lock, bot>>

\* `docker stop`, once there are handlers: the kernel discards a signal that
\* comes while the services are being started, for which PID 1 has none yet.
Terminate ==
    /\ phase = "running" /\ ~signalled
    /\ signalled' = TRUE
    /\ UNCHANGED <<phase, started, kernelVars, reaped, tableVars, stopVars, lock, bot>>

\* Another container on the same volume comes or goes.
OtherHost ==
    /\ \/ lock = Foreign /\ lock' = Unlocked
       \/ lock = Unlocked /\ lock' = Foreign
    /\ UNCHANGED <<phase, started, kernelVars, reaped, tableVars, signalled,
                   stopVars, bot>>

\* Nothing in the loop awaits a delay: what is due is served before more time
\* passes.
Tick ==
    /\ phase # "gone"
    /\ phase = "running" => Due = {} /\ ~signalled /\ (bot.up \/ bot.wait > 0)
    /\ phase = "stopping" => graceLeft > 0
    /\ restartAt' = [s \in Services |-> IF restartAt[s] > 0 THEN restartAt[s] - 1
                                        ELSE restartAt[s]]
    /\ pace' = [s \in Services |-> Smaller(pace[s] + 1, BackoffMax)]
    /\ bot' = [bot EXCEPT !.wait = IF @ > 0 THEN @ - 1 ELSE 0]
    /\ graceLeft' = IF phase = "stopping" THEN graceLeft - 1 ELSE graceLeft
    /\ UNCHANGED <<phase, started, kernelVars, reaped, byPid, child, backoff, signalled,
                   outstanding, killed, lock>>

Loop == Restart \/ ReadExit \/ BeginShutdown \/ BotReturns \/ ReadExitStopping \/ EndShutdown

Next ==
    \/ StartNext \/ InstallHandlers
    \/ Loop
    \/ BotStops
    \/ \E p \in Pids : TakeLock(p) \/ Exit(p) \/ OrphanArrives(p) \/ Reap(p)
    \/ Terminate \/ OtherHost \/ Tick

Spec == Init /\ [][Next]_vars

\* The kernel runs the reaper thread, the runtime polls the task, select!
\* takes a ready branch at random, and time passes.
Fairness ==
    /\ WF_vars(StartNext) /\ WF_vars(InstallHandlers)
    /\ WF_vars(Restart) /\ WF_vars(ReadExit) /\ WF_vars(BotReturns)
    /\ SF_vars(BeginShutdown)
    /\ WF_vars(ReadExitStopping) /\ WF_vars(EndShutdown)
    /\ \A p \in Pids : WF_vars(Reap(p))
    /\ SF_vars(Tick)

FairSpec == Spec /\ Fairness

-----------------------------------------------------------------------------
\* Properties.

\* Every variable stays in its type; no delay ever leaves its bounds.
TypeOK ==
    /\ phase \in {"starting", "running", "stopping", "gone"} /\ started \in 0..Len(Order)
    /\ fate \in [Pids -> {"free", "runs", "zombie", "reaped"}] /\ owner \in [Pids -> Owners]
    /\ reaped \in Seq(Pids)
    /\ byPid \in [Pids -> Owners] /\ child \in [Services -> Pids \cup {NoPid}]
    /\ restartAt \in [Services -> NotDue..BackoffMax]
    /\ backoff \in [Services -> BackoffMin..BackoffMax] /\ pace \in [Services -> 0..BackoffMax]
    /\ signalled \in BOOLEAN
    /\ outstanding \subseteq Pids /\ graceLeft \in 0..ShutdownGrace /\ killed \subseteq Pids
    /\ lock \in Pids \cup {Unlocked, Stale, Tried, Foreign}
    /\ bot \in [up : BOOLEAN, wait : 0..BackoffMax, backoff : BackoffMin..BackoffMax]

\* The pid table names a pid's service from the spawn until its exit is read,
\* however many exits wait in the channel and in whatever order they came:
\* no exit is charged to another service or taken for an orphan's.
ExitsAreMatched ==
    phase \in {"starting", "running"} =>
        \A p \in Pids : fate[p] # "free" => byPid[p] = owner[p]

\* No service runs twice: one is started only when the last one is gone.
OneProcessPerService ==
    \A p, q \in Pids : \A s \in Services : Runs(p, s) /\ Runs(q, s) => p = q

\* rTorrent meets a lock that a dead rTorrent of this host left behind, which
\* keeps it from starting, only where the supervisor tried to remove the lock
\* before this very start and could not.
NoStaleLock == \A p \in Pids : Runs(p, Locker) => lock # Stale

\* The supervisor's clearing of locks never takes one from a live rTorrent:
\* a lock that is held is given up only by its holder's exit.
LockIsRespected ==
    [][\A p \in Pids : lock = p /\ lock' # p => (fate[p])' # "runs"]_vars

\* A crash loop slows down: from one start to the next a service, however it
\* dies, takes at least half of what its next delay will be.
CrashLoopsSlowDown ==
    [][\A s \in Services :
          (child[s])' \notin {child[s], NoPid} => 2 * pace[s] >= backoff[s]]_vars

\* When the supervisor goes it has sent SIGKILL to the children that did not
\* leave in time, whose exits it has not read, and to nobody else.
ShutdownIsExact ==
    phase = "gone" => killed = {p \in Pids : fate[p] # "free" /\ owner[p] \in Services}

\* It restarts children: a service that is down is due to be started again.
DownMeansDue ==
    phase = "running" => \A s \in Services : child[s] # NoPid \/ restartAt[s] # NotDue

\* Whatever goes down, a service or the bot on the supervisor's own task, is
\* started again, unless all is being stopped.
AllComesBack ==
    /\ \A s \in Services :
          child[s] = NoPid ~> (child[s] # NoPid \/ phase \in {"stopping", "gone"})
    /\ ~bot.up ~> (bot.up \/ phase \in {"stopping", "gone"})

\* Nothing stays a zombie: every exit, an orphan's too, is reaped and read.
ExitsAreRead ==
    \A p \in Pids : fate[p] = "zombie" ~> (fate[p] = "free" \/ phase = "gone")

\* A signal that was caught brings the supervisor down, whatever else goes on.
ShutdownEnds == signalled ~> phase = "gone"
=============================================================================
