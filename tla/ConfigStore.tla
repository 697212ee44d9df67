----------------------------- MODULE ConfigStore -----------------------------
(***************************************************************************)
(* The running options of config.rs and the options.toml they are kept in. *)
(*                                                                         *)
(* Commands change the options in memory and then rewrite the file: the    *)
(* arms of the main task (IRC, Telegram, Slack) take turns, but each       *)
(* awaits its own fs::write, which a pool thread carries out as truncate   *)
(* and write.  The operator saves the file in place or by renaming a new   *)
(* one over it.  The watcher thread hears of every change, lets a burst    *)
(* settle, reads the file, compares and installs, and takes the lock for   *)
(* each of the last two.                                                   *)
(*                                                                         *)
(* The options are the download watchlist, the part commands change.       *)
(***************************************************************************)
EXTENDS Integers, Sequences, FiniteSets

CONSTANTS
    Arms,        \* transports that take commands
    Operator,    \* whoever edits the file
    Patterns,    \* download patterns
    Saves,       \* options the operator may save
    Empty,       \* in place of a list: a file with nothing in it
    Broken,      \* in place of a list: one that is read and does not load
    Unreadable,  \* in place of a list: gone, not to be opened, or not UTF-8
    WritesFail,  \* whether the file may turn out not to be writable
    MaxLen,      \* bound: patterns in the watchlist
    MaxChanges,  \* bound: commands that change it
    MaxSaves     \* bound: saves of the operator

ASSUME NamesAssumption ==
    /\ Operator \notin Arms
    /\ Saves \subseteq Seq(Patterns)
    /\ {Empty, Broken, Unreadable} \cap Seq(Patterns) = {}
    /\ Unreadable \notin {Empty, Broken}

ASSUME BoundsAssumption ==
    /\ WritesFail \in BOOLEAN
    /\ MaxLen \in Nat /\ MaxChanges \in Nat /\ MaxSaves \in Nat

VARIABLES
    options,  \* the shared LoadedOptions
    file,     \* options.toml
    writer,   \* how far each command's fs::write, or the operator's save, is
    event,    \* changes of the file the watcher thread has not heard of
    watcher,  \* what the watcher thread is in the middle of
    told,     \* the last options.toml it read was reported as rejected
    changes, saves,
    unsaved   \* history: a change could not be saved, and nobody has saved since

vars == <<options, file, writer, event, watcher, told, changes, saves, unsaved>>

Writers == Arms \cup {Operator}

Lists == Seq(Patterns)

Idle  == [at |-> "idle"]
Named(i) == [at |-> "named", index |-> i]
Queued(content) == [at |-> "queued", content |-> content]
Opened(content) == [at |-> "opened", content |-> content]
Orphaned == [at |-> "orphaned"]
Settling == [at |-> "settling"]
Comparing(content)  == [at |-> "read", content |-> content]
Installing(content) == [at |-> "install", content |-> content]

Remove(list, i) == SubSeq(list, 1, i - 1) \o SubSeq(list, i + 1, Len(list))

-----------------------------------------------------------------------------

Init ==
    /\ options \in Saves /\ file = options
    /\ writer = [w \in Writers |-> Idle]
    /\ event = FALSE /\ watcher = Idle /\ told = FALSE
    /\ changes = 0 /\ saves = 0 /\ unsaved = FALSE

\* The arms take turns: what one does without awaiting, no other interrupts.
Turn(a) == \A b \in Arms \ {a} : writer[b].at # "named"

\* mutate_options, up to the await: change, recompile, take a snapshot.
Change(a, list) ==
    /\ changes < MaxChanges /\ changes' = changes + 1
    /\ options' = list
    /\ writer' = [writer EXCEPT ![a] = Queued(list)]
    /\ UNCHANGED <<file, event, watcher, told, saves, unsaved>>

\* add_torrent_to_watchlist, with a pattern that compiles.
Add(a) ==
    /\ Turn(a) /\ writer[a] = Idle /\ Len(options) < MaxLen
    /\ \E p \in Patterns : Change(a, Append(options, p))

\* remove_torrent_from_watchlist looks the pattern up for its reply ...
Name(a) ==
    /\ Turn(a) /\ writer[a] = Idle /\ changes < MaxChanges
    /\ \E i \in DOMAIN options : writer' = [writer EXCEPT ![a] = Named(i)]
    /\ UNCHANGED <<options, file, event, watcher, told, changes, saves, unsaved>>

\* ... and removes by index, whatever is there by then.
RemoveNamed(a) ==
    /\ writer[a].at = "named"
    /\ LET i == writer[a].index
       IN  IF i \in DOMAIN options
           THEN Change(a, Remove(options, i))
           ELSE Change(a, options)

-----------------------------------------------------------------------------
\* The pool threads and the operator.

\* The file is no longer what it was; the watcher thread will hear of it.
Written == event' = TRUE /\ unsaved' = FALSE

\* Opening truncates.
Open(w) ==
    /\ writer[w].at = "queued"
    /\ file' = Empty
    /\ writer' = [writer EXCEPT ![w] = Opened(@.content)]
    /\ Written
    /\ UNCHANGED <<options, watcher, told, changes, saves>>

\* The file cannot be opened, or the disk is full.  The error is dropped and
\* the command answered as if its change had been saved.
SaveFails(a) ==
    /\ WritesFail /\ writer[a].at \in {"queued", "opened"}
    /\ writer' = [writer EXCEPT ![a] = Idle]
    /\ unsaved' = TRUE
    /\ UNCHANGED <<options, file, event, watcher, told, changes, saves>>

\* Over what another writer put there since, of which a longer end remains,
\* cut perhaps in the middle of a character.
Overlaid(content) ==
    IF file \in {Empty, content} THEN {content} ELSE {content, Broken, Unreadable}

Write(w) ==
    /\ writer[w].at = "opened"
    /\ file' \in Overlaid(writer[w].content)
    /\ writer' = [writer EXCEPT ![w] = Idle]
    /\ Written
    /\ UNCHANGED <<options, watcher, told, changes, saves>>

\* A file that was renamed away is written to without anybody seeing it.
WriteUnseen(a) ==
    /\ writer[a] = Orphaned
    /\ writer' = [writer EXCEPT ![a] = Idle]
    /\ UNCHANGED <<options, file, event, watcher, told, changes, saves, unsaved>>

\* Also one that does not load, for a bad pattern or a typo, or none at all: the
\* file was moved away, or may not be read.
SaveByRename ==
    /\ saves < MaxSaves /\ saves' = saves + 1
    /\ writer[Operator] = Idle
    /\ file' \in Saves \cup {Broken, Unreadable}
    /\ writer' = [w \in Writers |-> IF writer[w].at = "opened" THEN Orphaned ELSE writer[w]]
    /\ Written
    /\ UNCHANGED <<options, watcher, told, changes>>

SaveInPlace ==
    /\ saves < MaxSaves /\ saves' = saves + 1
    /\ writer[Operator] = Idle
    /\ \E s \in Saves : writer' = [writer EXCEPT ![Operator] = Queued(s)]
    /\ UNCHANGED <<options, file, event, watcher, told, changes, unsaved>>

-----------------------------------------------------------------------------
\* The watcher thread.

Wake ==
    /\ watcher = Idle /\ event
    /\ event' = FALSE
    /\ watcher' = Settling
    /\ UNCHANGED <<options, file, writer, told, changes, saves, unsaved>>

\* Another change within RELOAD_DEBOUNCE of the last.
Settle ==
    /\ watcher = Settling /\ event
    /\ event' = FALSE
    /\ UNCHANGED <<options, file, writer, watcher, told, changes, saves, unsaved>>

Loads == file \in Lists

\* Mutant of Reported: one bad file after another is not worth a word.
Once == ~told

Reported == TRUE

\* reload_options: read and parse; what does not load is reported, what cannot
\* be read is passed over without a word.  A change made just before may not
\* have been heard of yet.
Read ==
    /\ watcher = Settling
    /\ \/ Loads /\ watcher' = Comparing(file) /\ told' = FALSE
       \/ ~Loads /\ file # Unreadable /\ watcher' = Idle /\ told' = Reported
       \/ file = Unreadable /\ watcher' = Idle /\ UNCHANGED told
    /\ UNCHANGED <<options, file, writer, event, changes, saves, unsaved>>

\* Mutant of Differs: only a list of another length counts as a change.
Resized(content) == Len(content) # Len(options)

Differs(content) == content # options

\* Identical content, as after a write of our own, is not installed.
Compare ==
    /\ watcher.at = "read"
    /\ watcher' = IF Differs(watcher.content) THEN Installing(watcher.content) ELSE Idle
    /\ UNCHANGED <<options, file, writer, event, told, changes, saves, unsaved>>

\* Mutant of StillUnheard: what came in during a reload goes with it.
Drained == FALSE

\* A change made during the reload is heard of after it.
StillUnheard == event

Install ==
    /\ watcher.at = "install"
    /\ options' = watcher.content
    /\ watcher' = Idle
    /\ event' = StillUnheard
    /\ UNCHANGED <<file, writer, told, changes, saves, unsaved>>

Watch == Wake \/ Settle \/ Read \/ Compare \/ Install

Command == \E a \in Arms : Add(a) \/ Name(a) \/ RemoveNamed(a)

Save ==
    \/ \E w \in Writers : Open(w) \/ Write(w)
    \/ \E a \in Arms : SaveFails(a) \/ WriteUnseen(a)

Next == Command \/ Save \/ SaveByRename \/ SaveInPlace \/ Watch

Spec == Init /\ [][Next]_vars

\* The main task finishes what it began, the pool and the watcher thread run.
Fairness ==
    /\ \A a \in Arms : WF_vars(RemoveNamed(a))
    /\ WF_vars(Save) /\ WF_vars(Watch)

FairSpec == Spec /\ Fairness

-----------------------------------------------------------------------------
\* Properties.

WriterState ==
    {Idle, Orphaned}
        \cup [at : {"queued", "opened"}, content : Lists]
        \cup [at : {"named"}, index : Nat]

\* Every variable stays in its type; what runs is always a list that loads.
TypeOK ==
    /\ options \in Lists
    /\ file \in Lists \cup {Empty, Broken, Unreadable}
    /\ writer \in [Writers -> WriterState]
    /\ watcher \in [at : {"read", "install"}, content : Lists] \cup {Idle, Settling}
    /\ event \in BOOLEAN /\ told \in BOOLEAN /\ unsaved \in BOOLEAN
    /\ changes \in 0..MaxChanges /\ saves \in 0..MaxSaves

\* Nobody is about to write the file, and the watcher has dealt with it.
Unwritten == \A w \in Writers : writer[w].at \in {"idle", "named"}
Quiet == Unwritten /\ ~event /\ watcher = Idle

\* However commands, saves and reloads overlapped, once everything is quiet
\* the program runs what the file says, or has said that it does not load --
\* unless the last change could not be saved, or the file cannot be read.
SettledAgrees ==
    Quiet /\ ~unsaved /\ file # Unreadable => file = options \/ (~Loads /\ told)

\* A save that is not followed by another write takes effect, unless a change
\* that could not be saved is still what runs.
SavesTakeEffect ==
    \A s \in Saves : <>[](file = s /\ ~unsaved) => <>[](options = s)

\* A file that is left, that can be read and does not load is reported.
BadFilesAreReported == <>[](file = Broken) => <>[]told
=============================================================================
