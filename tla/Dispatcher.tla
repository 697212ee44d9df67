----------------------------- MODULE Dispatcher -----------------------------
(***************************************************************************)
(* The notification dispatcher of notify.rs: a bounded channel that any    *)
(* part of the program may put an event on, one task that buffers events   *)
(* into digests, and per target an hourly ceiling and an outbox of what    *)
(* could not be sent.  Its configuration may be edited at any time and is  *)
(* adopted once per wake-up.                                               *)
(*                                                                         *)
(* A target's backend (SMTP, ntfy, Telegram, Slack) is outside: a message  *)
(* is accepted, or an error comes back.  An error says little: the answer  *)
(* may have been late or lost, or only the first pieces of a long message  *)
(* were accepted.  The IRC backend is IrcHold's.                           *)
(***************************************************************************)
EXTENDS Integers, Sequences, FiniteSets

CONSTANTS
    Targets,      \* backends that may be configured
    Pinned,       \* those a reload leaves alone: Telegram, Slack
    Configs,      \* what [notifications] may hold: [cap, on, own]
    MaxCap,       \* no ceiling is higher
    MaxEvents,    \* bound: events sent
    Tests,        \* which of them are Event::Test
    MaxSummaries, \* bound: daily summaries
    QueueDepth,   \* QUEUE_DEPTH
    OutboxDepth,  \* OUTBOX_DEPTH
    MaxAttempts,  \* MAX_ATTEMPTS
    Hour          \* the ceiling's window, in ticks

\* `on` are the global switches.  A target's own table is absent, or leaves
\* the switches as they are, or turns both off.
Switches == {"news", "summary"}
Tables   == {"absent", "plain", "muted"}

ASSUME ConfigsAssumption ==
    /\ MaxCap \in Nat
    /\ Configs \subseteq [cap : 0..MaxCap, on : SUBSET Switches, own : [Targets -> Tables]]
    /\ \A c, d \in Configs : \A t \in Pinned : c.own[t] = d.own[t]

ASSUME BoundsAssumption ==
    /\ MaxEvents \in Nat /\ Tests \subseteq 1..MaxEvents /\ MaxSummaries \in Nat
    /\ {QueueDepth, OutboxDepth, Hour} \subseteq Nat \ {0}
    /\ MaxAttempts \in Nat /\ MaxAttempts >= 2

VARIABLES
    source,      \* SharedNotificationOptions, as the watcher last wrote them
    options,     \* as adopted
    nextEvent,
    channel,     \* events sent and not yet received
    buffer,      \* events for the next digest
    job,         \* what the task is in the middle of
    active,      \* the targets that exist
    used,        \* RateLimit.used, per target
    sinceRoll,   \* ticks since RateLimit.window_started, held at Hour
    suppressed,  \* RateLimit.suppressed
    outbox,      \* [events, attempts], oldest first
    summaries,
    landed,      \* history: how often each event has reached each backend
    heard,       \* history: the events whose delivery was answered with success
    sent,        \* history: ages of first attempts within an Hour, oldest first
    owed         \* history: suppressions since a message reported some

limitVars == <<used, sinceRoll, suppressed, sent, owed>>
arrivals == <<landed, heard>>
vars == <<source, options, nextEvent, channel, buffer, job, active, limitVars, outbox,
          summaries, arrivals>>

Event == 1..MaxEvents

\* Before refresh; in select!; delivering a digest; going round the outboxes,
\* if there are targets at all; in the middle of one of them.
Top    == [at |-> "top"]
Select == [at |-> "select"]
Delivering(events, todo) ==
    IF todo = {} THEN Top ELSE [at |-> "deliver", events |-> events, todo |-> todo]
Retrying(todo) == IF todo = {} THEN Top ELSE [at |-> "retry", todo |-> todo]
Resending(t, left, todo) ==
    IF left = 0 THEN Retrying(todo)
    ELSE [at |-> "resend", to |-> t, left |-> left, todo |-> todo]

Built(c) == {t \in Targets : c.own[t] # "absent"}

\* enabled_by: a target's own switch, where it states one, wins.
Wants(c, t, switch) == c.own[t] = "plain" /\ switch \in c.on
Enabled(c, t, e) == e \in Tests \/ Wants(c, t, "news")

-----------------------------------------------------------------------------

Init ==
    /\ source \in Configs /\ options = source
    /\ nextEvent = 1 /\ channel = <<>> /\ buffer = {}
    /\ job = Top
    /\ active = Built(source)
    /\ used = [t \in Targets |-> 0] /\ sinceRoll = [t \in Targets |-> 0]
    /\ suppressed = [t \in Targets |-> 0]
    /\ outbox = [t \in Targets |-> <<>>]
    /\ summaries = 0
    /\ landed = [t \in Targets |-> [e \in Event |-> 0]] /\ heard = [t \in Targets |-> {}]
    /\ sent = [t \in Targets |-> <<>>] /\ owed = [t \in Targets |-> 0]

\* Notifier::send: a full channel drops the event.
Send ==
    /\ nextEvent <= MaxEvents
    /\ nextEvent' = nextEvent + 1
    /\ channel' = IF Len(channel) < QueueDepth THEN Append(channel, nextEvent) ELSE channel
    /\ UNCHANGED <<source, options, buffer, job, active, limitVars, outbox, summaries, arrivals>>

\* The targets whose own table changed.
Rebuilt(fresh) == {t \in Targets \ Pinned : fresh.own[t] # options.own[t]}

Reset(f, value) == [t \in Targets |-> IF t \in Rebuilt(source) THEN value ELSE f[t]]

\* refresh, at the top of the loop.  A rebuilt target starts from nothing.
Refresh ==
    /\ job = Top
    /\ job' = Select
    /\ IF source = options
       THEN UNCHANGED <<options, active, limitVars, outbox>>
       ELSE /\ options' = source
            /\ active' = (active \ Rebuilt(source)) \cup (Rebuilt(source) \cap Built(source))
            /\ used' = Reset(used, 0) /\ sinceRoll' = Reset(sinceRoll, 0)
            /\ suppressed' = Reset(suppressed, 0)
            /\ sent' = Reset(sent, <<>>) /\ owed' = Reset(owed, 0)
            /\ outbox' = Reset(outbox, <<>>)
    /\ UNCHANGED <<source, nextEvent, channel, buffer, summaries, arrivals>>

-----------------------------------------------------------------------------
\* The arms of select!.

\* Events nobody wants are dropped here; a test does not wait for the digest.
Recv ==
    /\ job = Select /\ channel # <<>>
    /\ channel' = Tail(channel)
    /\ LET e == Head(channel)
           wanted == \E t \in active : Enabled(options, t, e)
       IN  IF wanted /\ e \in Tests
           THEN job' = Delivering({e}, active) /\ UNCHANGED buffer
           ELSE job' = Top /\ buffer' = IF wanted THEN buffer \cup {e} ELSE buffer
    /\ UNCHANGED <<source, options, nextEvent, active, limitVars, outbox, summaries, arrivals>>

\* Mutant of AfterFlush: the buffer is copied, not taken.
Copied == buffer

AfterFlush == {}

Flush ==
    /\ job = Select
    /\ IF buffer = {} THEN job' = Top ELSE job' = Delivering(buffer, active)
    /\ buffer' = AfterFlush
    /\ UNCHANGED <<source, options, nextEvent, channel, active, limitVars, outbox, summaries,
                   arrivals>>

RetryTick ==
    /\ job = Select
    /\ job' = Retrying(active)
    /\ UNCHANGED <<source, options, nextEvent, channel, buffer, active, limitVars, outbox,
                   summaries, arrivals>>

\* send_summary goes to every target that takes it; its message is no digest
\* of events.
SummaryDue ==
    /\ job = Select /\ summaries < MaxSummaries
    /\ \E t \in active : Wants(options, t, "summary")
    /\ summaries' = summaries + 1
    /\ job' = Delivering({}, {t \in active : Wants(options, t, "summary")})
    /\ UNCHANGED <<source, options, nextEvent, channel, buffer, active, limitVars, outbox, arrivals>>

-----------------------------------------------------------------------------
\* Delivery.

\* Mutant of Expired: the window is rolled as soon as the ceiling is hit.
ExpiredWhenFull(t) == used[t] >= options.cap

Expired(t) == sinceRoll[t] >= Hour

\* RateLimit::allow.
UsedNow(t) == IF Expired(t) THEN 0 ELSE used[t]
Suppressed(t) == IF Expired(t) THEN 0 ELSE suppressed[t]
Allowed(t) == UsedNow(t) < options.cap

\* The oldest makes room for the newest.
Pushed(box, m) ==
    Append(IF Len(box) >= OutboxDepth THEN Tail(box) ELSE box, m)

\* Bound: no more copies are counted than one more than the attempts there are.
OneMore(n) == IF n > MaxAttempts THEN n ELSE n + 1

Landed(t, events) ==
    landed' = [landed EXCEPT ![t] =
                   [e \in Event |-> IF e \in events THEN OneMore(landed[t][e]) ELSE landed[t][e]]]

Accepted(t, events) ==
    /\ Landed(t, events)
    /\ heard' = [heard EXCEPT ![t] = @ \cup events]

\* What has landed for all that, none of it or all or the first pieces, the
\* bot does not know.
Unanswered(t, events) == (\E part \in SUBSET events : Landed(t, part)) /\ UNCHANGED heard

Failed(t, events) ==
    /\ outbox' = [outbox EXCEPT ![t] = Pushed(@, [events |-> events, attempts |-> 1])]
    /\ Unanswered(t, events)

\* The first attempt, which spends the allowance and reports what the ceiling
\* has suppressed.
Attempt(t, events) ==
    /\ Allowed(t)
    /\ used' = [used EXCEPT ![t] = UsedNow(t) + 1]
    /\ suppressed' = [suppressed EXCEPT ![t] = 0]
    /\ owed' = [owed EXCEPT ![t] = IF Suppressed(t) > 0 THEN 0 ELSE @]
    /\ sent' = [sent EXCEPT ![t] = Append(@, 0)]
    /\ (Accepted(t, events) /\ UNCHANGED outbox) \/ Failed(t, events)

Suppress(t) ==
    /\ ~Allowed(t)
    /\ used' = [used EXCEPT ![t] = UsedNow(t)]
    /\ suppressed' = [suppressed EXCEPT ![t] = Suppressed(t) + 1]
    /\ owed' = [owed EXCEPT ![t] = @ + 1]
    /\ UNCHANGED <<sent, outbox, arrivals>>

Rest(t) == IF job.todo = {t} THEN Top ELSE [job EXCEPT !.todo = @ \ {t}]

\* deliver, for one target: its part of the digest, if any.
DeliverTo(t) ==
    /\ job.at = "deliver" /\ t \in job.todo
    /\ job' = Rest(t)
    /\ LET mine == {e \in job.events : Enabled(options, t, e)}
       IN  IF job.events # {} /\ mine = {}
           THEN UNCHANGED <<limitVars, outbox, arrivals>>
           ELSE /\ Attempt(t, mine) \/ Suppress(t)
                /\ sinceRoll' = [sinceRoll EXCEPT ![t] = IF Expired(t) THEN 0 ELSE @]
    /\ UNCHANGED <<source, options, nextEvent, channel, buffer, active, summaries>>

\* Mutant of Counted: attempts are not counted.
Uncounted(m) == m

Counted(m) == [m EXCEPT !.attempts = @ + 1]

\* The attempt after which a message is given up.
Spent(m) == m.attempts + 1 >= MaxAttempts

\* retry_outboxes takes up one target's outbox as it is.
RetryOutbox(t) ==
    /\ job.at = "retry" /\ t \in job.todo
    /\ job' = Resending(t, Len(outbox[t]), job.todo \ {t})
    /\ UNCHANGED <<source, options, nextEvent, channel, buffer, active, limitVars, outbox,
                   summaries, arrivals>>

\* One message of it, oldest first.  Those that failed again follow those
\* still to be tried, so that the order is kept.
Resend(t) ==
    /\ job.at = "resend" /\ t = job.to
    /\ job' = Resending(t, job.left - 1, job.todo)
    /\ LET m == Head(outbox[t])
           others == Tail(outbox[t])
           Holding(box) == outbox' = [outbox EXCEPT ![t] = box]
       IN  \/ Accepted(t, m.events) /\ Holding(others)
           \/ /\ Holding(IF Spent(m) THEN others ELSE Append(others, Counted(m)))
              /\ Unanswered(t, m.events)
    /\ UNCHANGED <<source, options, nextEvent, channel, buffer, active, limitVars, summaries>>

-----------------------------------------------------------------------------

Edit ==
    /\ source' \in Configs \ {source}
    /\ UNCHANGED <<options, nextEvent, channel, buffer, job, active, limitVars, outbox,
                   summaries, arrivals>>

\* Ages without those, the first ones, that have reached an Hour.
Recent(ages) ==
    LET first == CHOOSE k \in 1..(Len(ages) + 1) :
                     /\ \A i \in k..Len(ages) : ages[i] < Hour
                     /\ k > 1 => ages[k - 1] >= Hour
    IN  SubSeq(ages, first, Len(ages))

Tick ==
    /\ sinceRoll' = [t \in Targets |-> IF sinceRoll[t] < Hour THEN sinceRoll[t] + 1 ELSE Hour]
    /\ sent' = [t \in Targets |-> Recent([i \in DOMAIN sent[t] |-> sent[t][i] + 1])]
    /\ UNCHANGED <<source, options, nextEvent, channel, buffer, job, active, used, suppressed,
                   owed, outbox, summaries, arrivals>>

Deliver == \E t \in Targets : DeliverTo(t) \/ RetryOutbox(t) \/ Resend(t)

Next ==
    \/ Send \/ Refresh
    \/ Recv \/ Flush \/ RetryTick \/ SummaryDue
    \/ Deliver
    \/ Edit \/ Tick

Spec == Init /\ [][Next]_vars

\* Every delivery ends, the timers keep firing, and select! serves each of
\* its arms that keeps being ready.
Fairness ==
    /\ WF_vars(Refresh) /\ WF_vars(Deliver)
    /\ SF_vars(Recv) /\ SF_vars(Flush) /\ SF_vars(RetryTick)

FairSpec == Spec /\ Fairness

-----------------------------------------------------------------------------
\* Properties.

Message == [events : SUBSET Event, attempts : 1..(MaxAttempts - 1)]

\* Every variable stays in its type; channel and outboxes stay bounded.
TypeOK ==
    /\ source \in Configs /\ options \in Configs
    /\ nextEvent \in 1..(MaxEvents + 1) /\ summaries \in 0..MaxSummaries
    /\ channel \in Seq(Event) /\ Len(channel) <= QueueDepth
    /\ buffer \subseteq Event
    /\ active = Built(options)
    /\ \/ job \in {Top, Select}
       \/ \E E \in SUBSET Event, T \in SUBSET active : job \in {Delivering(E, T), Retrying(T)}
       \/ \E T \in SUBSET active : \E t \in active \ T :
              \E n \in 1..Len(outbox[t]) : job = Resending(t, n, T)
    /\ used \in [Targets -> 0..MaxCap] /\ sinceRoll \in [Targets -> 0..Hour]
    /\ suppressed \in [Targets -> Nat] /\ owed \in [Targets -> Nat]
    /\ outbox \in [Targets -> Seq(Message)]
    /\ \A t \in Targets : Len(outbox[t]) <= OutboxDepth
    /\ landed \in [Targets -> [Event -> 0..(MaxAttempts + 1)]]
    /\ heard \in [Targets -> SUBSET Event] /\ sent \in [Targets -> Seq(0..(Hour - 1))]

\* What is still to be retried is held once, was never answered with success,
\* and has reached the backend at most as often as it was tried: an answer that
\* is lost every time multiplies a message by its attempts and by no more,
\* whatever else is digested, tested or edited in between.
RepeatsAreRetries ==
    \A t \in Targets :
        LET held(i) == outbox[t][i].events
        IN  /\ \A e \in Event : landed[t][e] <= MaxAttempts
            /\ \A i \in DOMAIN outbox[t] :
                   /\ held(i) \cap heard[t] = {}
                   /\ \A e \in held(i) : landed[t][e] <= outbox[t][i].attempts
                   /\ \A j \in DOMAIN outbox[t] : i # j => held(i) \cap held(j) = {}

\* Success is final: an event whose delivery was answered with success reaches
\* that backend no more.
HeardIsFinal ==
    [][\A t \in Targets : \A e \in heard[t] : (landed[t][e])' = landed[t][e]]_vars

\* What a backend gets again is a retry, and every retry is of something it has
\* not answered for.
OnlyRetriesRepeat == []RepeatsAreRetries /\ HeardIsFinal

\* As long as a target is not rebuilt, no hour sees more than two ceilings of
\* messages begun, retries not counted: the window is fixed, so two can meet at
\* its edge.
CeilingHolds == \A t \in Targets : Len(sent[t]) <= 2 * MaxCap

\* Nothing wedges the task: whatever comes between, once no more is sent every
\* event the channel took has been dealt with and every message has left its
\* outbox, even for a backend that always fails.
NothingLingers ==
    <>[](channel = <<>> /\ buffer = {} /\ \A t \in Targets : outbox[t] = <<>>)

\* The next message that goes out says how many were suppressed.
SuppressedAreReported ==
    [][\A t \in Targets : Len((sent[t])') > Len(sent[t]) => (owed[t])' = 0]_vars
=============================================================================
