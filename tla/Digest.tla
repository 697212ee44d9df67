------------------------------- MODULE Digest -------------------------------
(***************************************************************************)
(* What a notification says (`notify.rs`): which backends there are, which *)
(* events each is told of, and how repeats are told as one.  When a        *)
(* message goes out, and what becomes of one that cannot, is in Dispatcher.*)
(***************************************************************************)
EXTENDS Naturals, Sequences, FiniteSets, Selecting

CONSTANTS
    Events,         \* what may happen: its kind, whom it is about, and whether
                    \* its text has several lines, as the reason of a reload
                    \* that was refused often has
    Emails,         \* [notifications.email]: what a table may hold
    Overrides,      \* what the backends may say of the switches, each for itself
    MaxBuffer       \* bound: events between two digests

ASSUME DigestAssumption == MaxBuffer \in Nat \ {0}

VARIABLES
    dgTargets,   \* the backends that could be built
    dgGlobal,    \* the switches of [notifications] that are on
    dgFilter,    \* the switches a backend has of its own
    dgBuffer,    \* buffer
    dgMine,      \* the events of the digest being sent that each backend wants
    dgSent       \* the lines each is sent for them

dgConfig == <<dgTargets, dgGlobal, dgFilter>>
dgVars == <<dgConfig, dgBuffer, dgMine, dgSent>>

Switches == {"failure", "added", "finished", "disk", "warning", "start"}

\* The backends: of those called flat, subject and body are one text.
Flat     == {"telegram", "slack", "irc"}
Backends == Flat \cup {"email", "ntfy"}

Silence == [b \in Backends |-> <<>>]

-----------------------------------------------------------------------------
\* The backends of a start.

\* resolve_password: the table, the file, the environment.
HasPassword(o) == o.password \/ o.file = "readable" \/ o.environment

\* EmailBackend::build: the host is that of the table, or known from the address.
EmailUsable(o) == o.address # "none" /\ HasPassword(o) /\ (o.host \/ o.address = "known")

\* ntfy needs a topic, IRC the nick of an owner; the others come as they are.
Built(tables, email) ==
    {b \in tables : b = "email" => EmailUsable(email)}

DigestInit ==
    /\ \E email \in Emails : dgTargets = Built(Backends, email)
    /\ dgGlobal = Switches \ {"added", "warning"}
    /\ dgFilter \in Overrides
    /\ dgBuffer = <<>> /\ dgMine = Silence /\ dgSent = Silence

-----------------------------------------------------------------------------
\* Events.

SwitchOf ==
    [added    |-> "added", finished |-> "finished", failed  |-> "failure",
     restart  |-> "failure", down   |-> "failure",  config  |-> "failure",
     disk     |-> "disk",  rejected |-> "warning",  started |-> "start",
     back     |-> "start"]

\* enabled_by: what a backend says overrides, field by field; a test always goes.
EnabledBy(e, b) ==
    \/ e.kind = "test"
    \/ LET switch == SwitchOf[e.kind]
       IN  IF dgFilter[b][switch] = "unset" THEN switch \in dgGlobal
           ELSE dgFilter[b][switch] = "on"

\* dedup_key: repeats differ in what is not asked about.
Key(e) == IF e.kind \in {"down", "back", "test"} THEN <<e.kind>> ELSE <<e.kind, e.about>>

Repeats(e, events) == {i \in DOMAIN events : Key(events[i]) = Key(e)}

\* Mutant of Times: the first is not counted.
TimesAgain(e, events) ==
    LET times == Cardinality(Repeats(e, events)) IN IF times = 1 THEN 1 ELSE times - 1

Times(e, events) == Cardinality(Repeats(e, events))

\* render: a line for each key, in the order of their first events.
Firsts(events) ==
    {i \in DOMAIN events : \A j \in 1..i - 1 : Key(events[j]) # Key(events[i])}

Rendered(events) ==
    LET first == Selection(events, Firsts(events))
    IN  [k \in DOMAIN first |-> [event |-> first[k], times |-> Times(first[k], events)]]

\* The line a subject carries: that of a digest of one line.
Subject(lines) == IF Len(lines) = 1 THEN lines ELSE <<>>

\* flat_lines: subject and body in one text.  A line of the body that is all
\* the subject carries is left out; one of several is never all of it.
FlatLines(lines) ==
    Subject(lines) \o Selection(lines, {k \in DOMAIN lines :
                                          lines[k].event.long \/ Subject(lines) # <<lines[k]>>})

WantedBy(events, b) == Selection(events, {i \in DOMAIN events : EnabledBy(events[i], b)})

Deliver(events) ==
    /\ dgMine' = [b \in Backends |-> IF b \in dgTargets THEN WantedBy(events, b) ELSE <<>>]
    /\ dgSent' = [b \in Backends |-> IF b \in Flat THEN FlatLines(Rendered(dgMine'[b]))
                                     ELSE Rendered(dgMine'[b])]

Quiet == dgMine' = Silence /\ dgSent' = Silence

\* An event is kept when somebody wants it.  A test goes at once.
Happen(e) ==
    /\ Len(dgBuffer) < MaxBuffer
    /\ IF \A b \in dgTargets : ~EnabledBy(e, b) THEN Quiet /\ UNCHANGED dgBuffer
       ELSE IF e.kind = "test" THEN Deliver(<<e>>) /\ UNCHANGED dgBuffer
       ELSE Quiet /\ dgBuffer' = Append(dgBuffer, e)
    /\ UNCHANGED dgConfig

FlushDigest ==
    /\ dgBuffer # <<>> /\ dgBuffer' = <<>>
    /\ Deliver(dgBuffer)
    /\ UNCHANGED dgConfig

\* refresh: a switch is thrown while events wait.
ThrowSwitch(switch) ==
    /\ dgGlobal' = IF switch \in dgGlobal THEN dgGlobal \ {switch} ELSE dgGlobal \cup {switch}
    /\ Quiet
    /\ UNCHANGED <<dgTargets, dgFilter, dgBuffer>>

\* The bot panics or stops: what waits in memory is gone.
RestartDigest == dgBuffer' = <<>> /\ Quiet /\ UNCHANGED dgConfig

Telling ==
    \/ \E e \in Events : Happen(e)
    \/ FlushDigest
    \/ \E switch \in {"added", "failure"} : ThrowSwitch(switch)

DigestNext == Telling \/ RestartDigest

DigestSpec == DigestInit /\ [][DigestNext]_dgVars

-----------------------------------------------------------------------------
\* Properties.

\* Every variable stays in its type.
DigestTypeOK ==
    /\ dgTargets \subseteq Backends /\ dgGlobal \subseteq Switches
    /\ dgBuffer \in Seq(Events) /\ Len(dgBuffer) <= MaxBuffer

\* The lines a backend is sent of an event.
LinesOf(e, b) ==
    Selection(dgSent[b], {k \in DOMAIN dgSent[b] : Key(dgSent[b][k].event) = Key(e)})

\* A digest is complete and told once: whatever a backend wants of it stands in
\* it with the number of times it happened, and in one line, but where nothing
\* else happened and the text of the line has several.
DigestTellsAll ==
    \A b \in Backends : \A i \in DOMAIN dgMine[b] :
        LET e    == dgMine[b][i]
            hers == {j \in DOMAIN dgMine[b] : Key(dgMine[b][j]) = Key(e)}
        IN  /\ \/ Len(LinesOf(e, b)) = 1
               \/ /\ Len(LinesOf(e, b)) = 2 /\ b \in Flat
                  /\ LinesOf(e, b)[1].event.long /\ hers = DOMAIN dgMine[b]
            /\ \A k \in DOMAIN LinesOf(e, b) : LinesOf(e, b)[k].times = Cardinality(hers)

\* flat_lines: "Dropping the body line the subject already carries is exact
\* rather than heuristic".  Then no backend is sent an event twice over.
ToldOnce ==
    \A b \in Backends : \A i \in DOMAIN dgMine[b] : Len(LinesOf(dgMine[b][i], b)) = 1
=============================================================================
