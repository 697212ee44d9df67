------------------------------- MODULE Options -------------------------------
(***************************************************************************)
(* What the options mean and when they take effect (`config.rs`): the      *)
(* checks of a start and of every reload, the files of a first start, and  *)
(* the settings that the running bot has taken and does not read again.    *)
(*                                                                         *)
(* A file is known by the names it uses: the groups its announce pattern   *)
(* declares and the places that name a group.  How a file is replaced      *)
(* while commands write it is in ConfigStore.                              *)
(***************************************************************************)
EXTENDS Naturals, Sequences

CONSTANTS
    GroupNames,     \* names of groups, the reserved ones included
    Owners,         \* who may command over Telegram or Slack; Nobody when off
    Nobody,
    Files,          \* what options.toml may hold
    MaxEdits        \* bound: edits of a file

ASSUME OptionsNames == {"name", "id", "file", "key"} \subseteq GroupNames
ASSUME OptionsBounds == MaxEdits \in Nat /\ Nobody \in Owners

\* Captures a config must declare, and those the URL template supplies itself.
RequiredNames == {"name", "id"}
ReservedNames == {"file", "key"}

PlatformOptions == [template : {"none", "malformed", "sound"}, url : SUBSET GroupNames,
                    rssKey : BOOLEAN, torrentDir : BOOLEAN]

\* patterns and filters: those compile.  entries: the groups that the rules of
\* watch entries name.  templates: those that the tags and category templates
\* of the clients name.
OptionData ==
    [readable : BOOLEAN, patterns : BOOLEAN, filters : BOOLEAN, declared : SUBSET GroupNames,
     captures : SUBSET GroupNames, rules : SUBSET GroupNames, entries : SUBSET GroupNames,
     templates : SUBSET GroupNames, clients : BOOLEAN, platform : PlatformOptions,
     summaryAt : BOOLEAN, owner : Owners]

VARIABLES
    opDisk,      \* options.toml, or NoFile
    opIrc,       \* irc.toml: "none", "broken", "nameless" or "named"
    opPhase,     \* "down", "refused" or "up"
    opLive,      \* the options in force
    opBuilt,     \* the options the tracker, the client and the transports took
    opSaid,      \* what the last start or reload was refused for
    opDue,       \* history: since the start, a reload has called for a restart
    opEdits      \* history: edits so far

opVars == <<opDisk, opIrc, opPhase, opLive, opBuilt, opSaid, opDue, opEdits>>

NoFile == [readable |-> FALSE]

\* OptionData::default(): complete but for the tracker, which nobody can guess.
Default ==
    [readable |-> TRUE, patterns |-> TRUE, filters |-> TRUE, declared |-> RequiredNames,
     captures |-> {}, rules |-> {}, entries |-> {}, templates |-> {}, clients |-> TRUE,
     platform |-> [template |-> "none", url |-> {}, rssKey |-> FALSE, torrentDir |-> TRUE],
     summaryAt |-> TRUE, owner |-> Nobody]

\* The files are there, or it is the first start of all.
OptionsInit ==
    /\ \/ opDisk = NoFile /\ opIrc = "none"
       \/ opDisk \in Files /\ opIrc = "named"
    /\ opPhase = "down"
    /\ opLive = Default /\ opBuilt = Default
    /\ opSaid = {} /\ opDue = FALSE /\ opEdits = 0

-----------------------------------------------------------------------------
\* LoadedOptions::from_data: the first complaint is the one that is told.
Complain(is, holds) == IF holds THEN <<is>> ELSE <<>>

\* validate_announce_captures
CaptureComplaints(f) ==
    Complain("a required group is missing", ~(RequiredNames \subseteq f.declared))
        \o Complain("captures",             ~(f.captures \subseteq f.declared))
        \o Complain("rules",                ~(f.rules \subseteq f.declared))
        \o Complain("the rules of an entry", ~(f.entries \subseteq f.declared))
        \o Complain("a client's template",  ~(f.templates \subseteq f.declared))

\* validate_platform
PlatformComplaints(p, declared) ==
    Complain("no template",               p.template = "none")
        \o Complain("a bad template",     p.template = "malformed")
        \o Complain("a placeholder",      ~(p.url \ ReservedNames \subseteq declared))
        \o Complain("the key is missing", "key" \in p.url /\ ~p.rssKey)
        \o Complain("no directory",       ~p.torrentDir)

Complaints(f) ==
    Complain("a pattern", ~f.patterns)
        \o CaptureComplaints(f)
        \o Complain("a pattern of a filter", ~f.filters)
        \o PlatformComplaints(f.platform, f.declared)
        \o Complain("the time of the summary", ~f.summaryAt)

FirstComplaint(f) == IF Complaints(f) = <<>> THEN {} ELSE {Head(Complaints(f))}

\* validate_irc: no server to connect to; no channel is only a warning.
IrcComplaint(irc) == IF irc = "nameless" THEN {"no server"} ELSE {}

-----------------------------------------------------------------------------
\* Config::new, and the choice of a client after it.

\* read_or_create_toml: a file that is not there is written, and then read.
Created(disk) == IF disk = NoFile THEN Default ELSE disk
CreatedIrc(irc) == IF irc = "none" THEN "nameless" ELSE irc

\* Both files are looked at before either is complained about.
StartComplaints(f, irc) ==
    IF ~f.readable \/ irc = "broken" THEN {"could not read"}
    ELSE IF FirstComplaint(f) \cup IrcComplaint(irc) # {}
    THEN FirstComplaint(f) \cup IrcComplaint(irc)
    ELSE IF ~f.clients THEN {"no client"} ELSE {}

StartOptions ==
    /\ opPhase = "down"
    /\ opDisk' = Created(opDisk) /\ opIrc' = CreatedIrc(opIrc)
    /\ opSaid' = StartComplaints(opDisk', opIrc')
    /\ IF opSaid' = {}
       THEN opPhase' = "up" /\ opLive' = opDisk' /\ opBuilt' = opDisk'
       ELSE opPhase' = "refused" /\ UNCHANGED <<opLive, opBuilt>>
    /\ opDue' = FALSE
    /\ UNCHANGED opEdits

EditFiles ==
    /\ opEdits < MaxEdits /\ opEdits' = opEdits + 1
    /\ \/ opDisk' \in Files \ {opDisk} /\ UNCHANGED opIrc
       \/ opIrc' \in {"broken", "nameless", "named"} \ {opIrc} /\ UNCHANGED opDisk
    /\ UNCHANGED <<opPhase, opLive, opBuilt, opSaid, opDue>>

\* Mutant of TakenAtStart: the owner is forgotten.
TakenWithoutOwner(f) == <<f.platform, f.templates, f.clients>>

\* What only a restart can change: the tracker, the client with its templates,
\* and the transports, whose owner Authorization has captured.
TakenAtStart(f) == <<f.platform, f.templates, f.clients, f.owner>>

\* reload_options.  That a restart is needed is said first, against what was
\* last loaded; then the file is checked like that of a start.
ReloadOptions ==
    /\ opPhase = "up" /\ opDisk # opLive
    /\ opDue' = (opDue \/ (opDisk.readable /\ TakenAtStart(opDisk) # TakenAtStart(opLive)))
    /\ opSaid' = IF ~opDisk.readable THEN {"could not read"} ELSE FirstComplaint(opDisk)
    /\ opLive' = IF opSaid' = {} THEN opDisk ELSE opLive
    /\ UNCHANGED <<opDisk, opIrc, opPhase, opBuilt, opEdits>>

\* The bot panics or stops; whoever keeps it starts it again.
StopOptions ==
    /\ opPhase # "down" /\ opPhase' = "down"
    /\ UNCHANGED <<opDisk, opIrc, opLive, opBuilt, opSaid, opDue, opEdits>>

OptionsNext == EditFiles \/ StartOptions \/ ReloadOptions \/ StopOptions

OptionsSpec == OptionsInit /\ [][OptionsNext]_opVars

-----------------------------------------------------------------------------
\* Properties.

\* Every variable stays in its type.
OptionsTypeOK ==
    /\ opDisk \in Files \cup {Default, NoFile}
    /\ opIrc \in {"none", "broken", "nameless", "named"}
    /\ opPhase \in {"down", "refused", "up"}
    /\ {opLive, opBuilt} \subseteq Files \cup {Default}
    /\ opDue \in BOOLEAN /\ opEdits \in 0..MaxEdits

\* As long as no restart has been called for, what the bot runs with fits what
\* is in force, however often the file was edited: the tracker can fill in
\* every placeholder of its template from the groups of the pattern, and those
\* who may command are those who are obeyed.
WhatRunsIsInForce ==
    opPhase = "up" /\ ~opDue =>
        /\ opBuilt.platform.url \subseteq opLive.declared \cup ReservedNames
        /\ opBuilt.owner = opLive.owner
=============================================================================
