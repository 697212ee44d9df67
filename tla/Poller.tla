------------------------------- MODULE Poller -------------------------------
(***************************************************************************)
(* The completion and disk poller (`notify::poll`) with what feeds it: the *)
(* listings of the torrent clients and the switches and the path of        *)
(* [notifications], which may be edited between any two of its steps.      *)
(***************************************************************************)
EXTENDS Naturals

CONSTANTS
    Torrents,       \* hashes
    PolledClients,  \* the clients an instance may be configured with
    Paths           \* values of notifications.disk_path

ASSUME PollerAssumption ==
    PolledClients \subseteq {"rTorrent", "qBittorrent", "Flood"}

VARIABLES
    plClient,     \* the configured client
    plTorrent,    \* what the client is doing with each torrent
    plDisk,       \* the disk under each path
    plLive,       \* [notifications] as last loaded: finished, low, path
    plOptions,    \* the poller's copy of it
    plAt,         \* "tick", "listing" or "disk"
    plFinished,   \* finished
    plSeeded,     \* seeded
    plWarned,     \* disk_warned
    plOld,        \* history: complete in every listing so far
    plOpen,       \* history: not complete in the last listing
    plTold,       \* history: times told since a torrent was last unfinished
    plLowTold,    \* history: low disks told since the last healthy reading
    plReading,    \* history: the last reading
    plBlurred     \* history: a path could not be read since the last healthy reading

plWorld   == <<plClient, plTorrent, plDisk, plLive>>
plSets    == <<plFinished, plSeeded>>
plNews    == <<plOld, plOpen, plTold>>
plDisks   == <<plWarned, plLowTold, plReading, plBlurred>>
plVars == <<plWorld, plOptions, plAt, plSets, plNews, plDisks>>

-----------------------------------------------------------------------------
\* What a client says of a torrent.

Unfinished == {"absent", "magnet", "downloading"}

\* qBittorrent's row: bytes of the selected files and its own word for the
\* state.  A recheck counts the bytes up again; a move or an error after the
\* end changes the word.
Row == [magnet      |-> [size |-> 0, completed |-> 0, state |-> "metaDL"],
        downloading |-> [size |-> 2, completed |-> 1, state |-> "downloading"],
        seeding     |-> [size |-> 2, completed |-> 2, state |-> "stalledUP"],
        rechecking  |-> [size |-> 2, completed |-> 0, state |-> "checkingUP"],
        moving      |-> [size |-> 2, completed |-> 2, state |-> "moving"],
        errored     |-> [size |-> 2, completed |-> 2, state |-> "error"]]

Uploads == {"uploading", "stalledUP", "queuedUP", "checkingUP", "forcedUP",
            "pausedUP", "stoppedUP"}

\* Mutant of IsComplete: by the bytes alone.
IsCompleteByBytes(row) == row.size > 0 /\ row.completed >= row.size

IsComplete(row) ==
    \/ row.size > 0 /\ row.completed >= row.size
    \/ row.state \in Uploads

\* get_completion and completed_rows.  rTorrent answers d.complete itself.
Listed(t) ==
    /\ plTorrent[t] # "absent"
    /\ IF plClient = "rTorrent" THEN plTorrent[t] \notin Unfinished
                                ELSE IsComplete(Row[plTorrent[t]])

CompletedNow == {t \in Torrents : Listed(t)}

\* What becomes of a torrent.
Becomes ==
    [absent      |-> {"magnet", "downloading"},
     magnet      |-> {"absent", "downloading"},
     downloading |-> {"absent", "seeding"},
     seeding     |-> {"absent", "rechecking", "moving", "errored"},
     rechecking  |-> {"absent", "seeding", "downloading"},
     moving      |-> {"absent", "seeding"},
     errored     |-> {"absent", "rechecking"}]

-----------------------------------------------------------------------------
PollerInit ==
    /\ plClient \in PolledClients
    /\ plTorrent \in [Torrents -> {"absent", "downloading", "seeding"}]
    /\ plDisk \in [Paths -> {"fine", "low", "unreadable"}]
    /\ plLive \in [finished : BOOLEAN, low : BOOLEAN, path : Paths]
    /\ plOptions = plLive
    /\ plAt = "tick"
    /\ plFinished = {} /\ plSeeded = FALSE /\ plWarned = FALSE
    /\ plOld = Torrents /\ plOpen = {} /\ plTold = [t \in Torrents |-> 0]
    /\ plLowTold = 0 /\ plReading = "fine" /\ plBlurred = FALSE

\* The world around the poller.

TorrentMoves(t) ==
    /\ \E next \in Becomes[plTorrent[t]] :
          /\ plTorrent' = [plTorrent EXCEPT ![t] = next]
          /\ plTold' = IF next \in Unfinished THEN [plTold EXCEPT ![t] = 0] ELSE plTold
          /\ plClient = "rTorrent" => next \in Unfinished \cup {"seeding"}
    /\ UNCHANGED <<plClient, plDisk, plLive, plOptions, plAt, plSets, plOld, plOpen, plDisks>>

DiskChanges(path) ==
    /\ \E now \in {"fine", "low", "unreadable"} \ {plDisk[path]} :
          plDisk' = [plDisk EXCEPT ![path] = now]
    /\ UNCHANGED <<plClient, plTorrent, plLive, plOptions, plAt, plSets, plNews, plDisks>>

EditNotifications ==
    /\ plLive' \in [finished : BOOLEAN, low : BOOLEAN, path : Paths]
    /\ plLive' # plLive
    /\ UNCHANGED <<plClient, plTorrent, plDisk, plOptions, plAt, plSets, plNews, plDisks>>

-----------------------------------------------------------------------------
\* One round of poll.

AfterListing(o) == IF o.low THEN "disk" ELSE "tick"

\* The tick: the options are read anew.
PollTick ==
    /\ plAt = "tick"
    /\ plOptions' = plLive
    /\ plAt' = IF plLive.finished THEN "listing" ELSE AfterListing(plLive)
    /\ UNCHANGED <<plWorld, plSets, plNews, plDisks>>

\* Mutant of Retained: nothing is forgotten.
RetainedAll(current) == plFinished \cup current

\* finished.insert for what is new, finished.retain for what is gone.
Retained(current) == current

\* get_completed: the first listing is history.
ListingAnswers ==
    /\ plAt = "listing" /\ plClient # "Flood"
    /\ plFinished' = Retained(CompletedNow) /\ plSeeded' = TRUE
    /\ plTold' = [t \in Torrents |->
                    IF plSeeded /\ t \in CompletedNow \ plFinished THEN plTold[t] + 1
                                                               ELSE plTold[t]]
    /\ plOld' = plOld \cap CompletedNow /\ plOpen' = Torrents \ CompletedNow
    /\ plAt' = AfterListing(plOptions)
    /\ UNCHANGED <<plWorld, plOptions, plDisks>>

\* Flood is not asked; an error is logged and the next tick tries again.
ListingFails ==
    /\ plAt = "listing"
    /\ plAt' = AfterListing(plOptions)
    /\ UNCHANGED <<plWorld, plOptions, plSets, plNews, plDisks>>

\* disk_warned after a healthy reading.
StillWarned == FALSE

\* free_space and what is said of it: once, whatever it was.
CheckDisk ==
    /\ plAt = "disk" /\ plAt' = "tick"
    /\ LET reading == plDisk[plOptions.path] IN
       /\ plReading' = reading
       /\ plWarned'  = IF reading = "fine" THEN StillWarned /\ plWarned ELSE TRUE
       /\ plLowTold' = IF reading = "fine" THEN 0
                       ELSE IF reading = "low" /\ ~plWarned THEN plLowTold + 1
                       ELSE plLowTold
       /\ plBlurred' = (reading = "unreadable" \/ (plBlurred /\ reading # "fine"))
    /\ UNCHANGED <<plWorld, plOptions, plSets, plNews>>

\* The bot panics or stops, and is built anew.
RestartPoller ==
    /\ plOptions' = plLive /\ plAt' = "tick"
    /\ plFinished' = {} /\ plSeeded' = FALSE /\ plWarned' = FALSE
    /\ plOld' = Torrents /\ plOpen' = {} /\ plTold' = [t \in Torrents |-> 0]
    /\ plLowTold' = 0 /\ plReading' = "fine" /\ plBlurred' = FALSE
    /\ UNCHANGED plWorld

PollerSteps == PollTick \/ ListingAnswers \/ ListingFails \/ CheckDisk

Around ==
    \/ \E t \in Torrents : TorrentMoves(t)
    \/ \E path \in Paths : DiskChanges(path)
    \/ EditNotifications

PollerNext == Around \/ PollerSteps \/ RestartPoller

PollerSpec == PollerInit /\ [][PollerNext]_plVars

\* The arm is polled, and the client answers again and again.
PollerFairness == WF_plVars(PollerSteps) /\ SF_plVars(ListingAnswers)

-----------------------------------------------------------------------------
\* Properties.

\* Every variable stays in its type.
PollerTypeOK ==
    /\ plClient \in PolledClients /\ plTorrent \in [Torrents -> DOMAIN Becomes]
    /\ plDisk \in [Paths -> {"fine", "low", "unreadable"}]
    /\ plReading \in {"fine", "low", "unreadable"} /\ plBlurred \in BOOLEAN
    /\ {plLive, plOptions} \subseteq [finished : BOOLEAN, low : BOOLEAN, path : Paths]
    /\ plAt \in {"tick", "listing", "disk"}
    /\ plFinished \subseteq Torrents /\ plSeeded \in BOOLEAN /\ plWarned \in BOOLEAN
    /\ plOld \subseteq Torrents /\ plOpen \subseteq Torrents
    /\ plTold \in [Torrents -> Nat] /\ plLowTold \in Nat

\* A finished torrent is news once: not again while it is rechecked, moved or
\* in error, and not at all if it was finished when the bot started.
FinishToldOnce == \A t \in Torrents : plTold[t] <= (IF t \in plOld THEN 0 ELSE 1)

\* A torrent seen unfinished that then finishes is told, however the polling
\* is switched and whatever fails, as long as it stays, somebody asks and the
\* bot that saw it lives.
FinishIsTold ==
    \A t \in Torrents :
        (t \in plOpen /\ plTorrent[t] = "seeding" /\ plTold[t] = 0)
            ~> \/ plTold[t] = 1
               \/ plTorrent[t] \in Unfinished \/ ~plLive.finished \/ ~plSeeded

\* A disk that falls low is told once until it has recovered, unless the one
\* warning has gone to a path that could not be read.
LowDiskToldOnce ==
    /\ plLowTold <= 1
    /\ plReading = "low" /\ ~plBlurred => plLowTold = 1
=============================================================================
