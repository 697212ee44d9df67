----------------------------- MODULE SendQueue -----------------------------
(***************************************************************************)
(* The outbound IRC queue of irc_processor.rs: `Outbound` (queue, cancel)  *)
(* and the task `spawn_pacer` starts for each connection.                  *)
(*                                                                         *)
(* Three actors share it: the main task queues command replies, runs       *)
(* `stop!` and reconnects; the notification dispatcher queues messages     *)
(* `stop!` must not touch; the pacer pops, waits for a rate slot, sends.   *)
(* The watcher thread may edit the flood limit at any moment.  Every       *)
(* access to a shared atomic or to the channel is a step of its own,       *)
(* unless it commutes with everything another actor may do in between.     *)
(*                                                                         *)
(* Instants are kept as ages in ticks, held at MaxWindow: no window the    *)
(* operator can configure tells two older sends apart.                     *)
(***************************************************************************)
EXTENDS Integers, Sequences, FiniteSets

CONSTANTS
    Limits,      \* flood limits irc.toml may hold: [window, max]
    MinWindow,   \* no limit has a shorter window
    MaxWindow,   \* no limit has a longer window
    MaxBurst,    \* no limit lets more leave at once
    Word,        \* how many values an AtomicUsize has
    MaxMsgs,     \* bound: messages queued in a behaviour
    MaxStops,    \* bound: `stop!` commands on one connection
    MaxDrops     \* bound: connections lost

\* from_irc raises max_in_burst to 1, so that no limit stalls the queue.
ASSUME LimitsAssumption ==
    /\ MinWindow \in Nat /\ MaxWindow \in Nat /\ MaxBurst \in Nat
    /\ Limits \subseteq [window : MinWindow..MaxWindow, max : 1..MaxBurst]
    /\ Limits # {}

ASSUME BoundsAssumption ==
    /\ Word \in Nat \ {0}
    /\ MaxMsgs \in Nat /\ MaxStops \in Nat /\ MaxDrops \in Nat

VARIABLES
    queue,      \* the unbounded channel, oldest first
    epoch,      \* bumped by `cancel`
    pending,    \* the AtomicUsize of replies not yet handled
    pacer,      \* where the pacer task stands
    cur,        \* the message the pacer has popped
    lim,        \* the limit it read for that message
    nap,        \* ticks it still has to sleep
    recent,     \* its VecDeque of send instants, as ages, oldest first
    limit,      \* the SharedFloodLimit
    stop,       \* TRUE between the two atomics of `cancel`
    reported,   \* what the last `cancel` returned
    link,       \* the socket still carries what is sent
    drops,      \* connections lost so far
    nextId,     \* names the next message queued
    wire,       \* ids sent on this connection, in order
    ages,       \* history: the age of each send in wire
    withdrawn,  \* history: the replies the last `stop!` found unsent
    stragglers  \* history: how many of them were sent all the same

channelVars == <<queue, nextId>>
pacerVars   == <<pacer, cur, lim, nap, recent>>
stopVars    == <<epoch, stop, reported>>
linkVars    == <<link, drops>>
wireVars    == <<wire, ages, withdrawn, stragglers>>
vars == <<channelVars, pending, pacerVars, limit, stopVars, linkVars, wireVars>>

Msg   == [id : 1..MaxMsgs, note : BOOLEAN, epoch : 0..MaxStops]
NoMsg == [id |-> 0, note |-> TRUE, epoch |-> 0]

Older(age) == IF age < MaxWindow THEN age + 1 ELSE MaxWindow

\* Mutant of Discards: forgets that notifications are not cancellable.
DiscardsAll(m, current) == m.epoch < current

\* Mutant of Discards: one epoch too late.
DiscardsLate(m, current) == ~m.note /\ m.epoch + 1 < current

\* A reply queued under a superseded epoch; notifications never are.
Discards(m, current) == ~m.note /\ m.epoch < current

\* fetch_add and fetch_sub wrap.
Plus(n)  == (n + 1) % Word
Minus(n) == (n + Word - 1) % Word

\* Mutant of Nap: lets one message too many through before it waits.
NapLate(sends, l) == IF Len(sends) > l.max THEN l.window - sends[1] ELSE 0

\* With no slot left, how long until the oldest send still counted ages out.
Nap(sends, l) == IF Len(sends) >= l.max THEN l.window - sends[1] ELSE 0

-----------------------------------------------------------------------------

Init ==
    /\ queue = <<>> /\ nextId = 1
    /\ epoch = 0 /\ pending = 0 /\ stop = FALSE /\ reported = 0
    /\ pacer = "idle" /\ cur = NoMsg /\ nap = 0 /\ recent = <<>>
    /\ limit \in Limits /\ lim = limit
    /\ link = TRUE /\ drops = 0
    /\ wire = <<>> /\ ages = <<>> /\ withdrawn = {} /\ stragglers = 0

\* Outbound::queue.  Once the pacer has died the receiver is gone and the
\* message is dropped, its count taken back.
Queue(note) ==
    /\ nextId <= MaxMsgs
    /\ nextId' = nextId + 1
    /\ queue' = IF pacer = "dead" THEN queue
                ELSE Append(queue, [id |-> nextId, note |-> note, epoch |-> epoch])

\* A command reply: Outbound::send.  The main task runs it, as it runs
\* `stop!`, so never between the two halves of a `cancel`.
Reply ==
    /\ ~stop
    /\ Queue(FALSE)
    /\ pending' = IF pacer = "dead" THEN pending ELSE Plus(pending)
    /\ UNCHANGED <<pacerVars, limit, stopVars, linkVars, wireVars>>

\* A notification: Outbound::send_uninterruptible, from the dispatcher's task.
Notify ==
    /\ Queue(TRUE)
    /\ UNCHANGED <<pending, pacerVars, limit, stopVars, linkVars, wireVars>>

Unsent == {cur} \cup {queue[i] : i \in DOMAIN queue}

\* `stop!`, first half of `cancel`: supersede everything queued so far.
StopBump ==
    /\ ~stop /\ epoch < MaxStops
    /\ epoch' = epoch + 1
    /\ stop' = TRUE
    /\ withdrawn' = {m \in Unsent : ~m.note} /\ stragglers' = 0
    /\ UNCHANGED <<channelVars, pending, pacerVars, limit, reported, linkVars,
                   wire, ages>>

\* Second half: take the count, then answer -- on this queue when `stop!`
\* came over IRC, elsewhere when it came from Telegram or Slack.
StopAnswer ==
    /\ stop
    /\ stop' = FALSE
    /\ reported' = pending
    /\ \/ /\ Queue(FALSE)
          /\ pending' = IF pacer = "dead" THEN 0 ELSE Plus(0)
       \/ pending' = 0 /\ UNCHANGED channelVars
    /\ UNCHANGED <<pacerVars, limit, epoch, linkVars, wireVars>>

-----------------------------------------------------------------------------
\* The pacer.

\* recv, then the count: both before the first look at the epoch.
PacerRecv ==
    /\ pacer = "idle" /\ queue # <<>>
    /\ cur' = Head(queue) /\ queue' = Tail(queue)
    /\ pacer' = "popped"
    /\ pending' = IF Head(queue).note THEN pending ELSE Minus(pending)
    /\ UNCHANGED <<nextId, lim, nap, recent, limit, stopVars, linkVars, wireVars>>

\* Cancelled before it got a turn: no wait, no rate slot.
PacerSkip ==
    /\ pacer = "popped" /\ Discards(cur, epoch)
    /\ pacer' = "idle" /\ cur' = NoMsg
    /\ UNCHANGED <<channelVars, pending, lim, nap, recent, limit, stopVars,
                   linkVars, wireVars>>

\* The front of `recent` that has aged out of window w.
AgedOut(k, w) ==
    /\ \A i \in 1..k : recent[i] >= w
    /\ k < Len(recent) => recent[k + 1] < w

\* Read the limit, forget sends that aged out, and sleep until the oldest
\* one left ages out if there is no slot.
PacerAdmit ==
    /\ pacer = "popped" /\ ~Discards(cur, epoch)
    /\ lim' = limit
    /\ \E k \in 0..Len(recent) :
          /\ AgedOut(k, limit.window)
          /\ recent' = SubSeq(recent, k + 1, Len(recent))
    /\ nap' = Nap(recent', limit)
    /\ pacer' = "waiting"
    /\ UNCHANGED <<channelVars, pending, cur, limit, stopVars, linkVars, wireVars>>

\* The second look at the epoch, for a `stop!` that came during the sleep.
SecondLook == Discards(cur, epoch)

\* Awake: release the oldest slot if it had to wait for it, and look again.
PacerRecheck ==
    /\ pacer = "waiting" /\ nap = 0
    /\ recent' = IF Len(recent) >= lim.max THEN Tail(recent) ELSE recent
    /\ IF SecondLook
       THEN pacer' = "idle" /\ cur' = NoMsg
       ELSE pacer' = "cleared" /\ UNCHANGED cur
    /\ UNCHANGED <<channelVars, pending, lim, nap, limit, stopVars, linkVars, wireVars>>

PacerSend ==
    /\ pacer = "cleared" /\ link
    /\ pacer' = "idle" /\ cur' = NoMsg
    /\ recent' = Append(recent, 0)
    /\ wire' = Append(wire, cur.id)
    /\ ages' = Append(ages, 0)
    /\ stragglers' = stragglers + (IF cur \in withdrawn THEN 1 ELSE 0)
    /\ UNCHANGED <<withdrawn, channelVars, pending, lim, nap, limit, stopVars, linkVars>>

\* The connection has gone.  Until the irc crate notices, the message is
\* accepted and lost; after that the error ends the task and its receiver.
PacerSendLost ==
    /\ pacer = "cleared" /\ ~link
    /\ cur' = NoMsg
    /\ \/ /\ pacer' = "idle" /\ recent' = Append(recent, 0)
          /\ UNCHANGED queue
       \/ /\ pacer' = "dead" /\ queue' = <<>> /\ UNCHANGED recent
    /\ UNCHANGED <<nextId, pending, lim, nap, limit, stopVars, linkVars, wireVars>>

PacerStep ==
    \/ PacerRecv \/ PacerSkip \/ PacerAdmit \/ PacerRecheck
    \/ PacerSend \/ PacerSendLost

-----------------------------------------------------------------------------
\* The world around them.

\* report_irc_change, on the watcher thread.
EditLimit ==
    /\ \E l \in Limits \ {limit} : limit' = l
    /\ UNCHANGED <<channelVars, pending, pacerVars, stopVars, linkVars, wireVars>>

Drop ==
    /\ link /\ drops < MaxDrops
    /\ link' = FALSE /\ drops' = drops + 1
    /\ UNCHANGED <<channelVars, pending, pacerVars, limit, stopVars, wireVars>>

\* connect_irc: a fresh channel, counters and pacer; the old ones go with
\* the sender they hold.
Reconnect ==
    /\ ~link /\ ~stop
    /\ link' = TRUE
    /\ queue' = <<>> /\ epoch' = 0 /\ pending' = 0 /\ reported' = 0
    /\ pacer' = "idle" /\ cur' = NoMsg /\ nap' = 0 /\ recent' = <<>>
    /\ wire' = <<>> /\ ages' = <<>> /\ withdrawn' = {} /\ stragglers' = 0
    /\ UNCHANGED <<nextId, lim, limit, stop, drops>>

Tick ==
    /\ recent' = [i \in DOMAIN recent |-> Older(recent[i])]
    /\ ages' = [i \in DOMAIN ages |-> Older(ages[i])]
    /\ nap' = IF nap > 0 THEN nap - 1 ELSE 0
    /\ UNCHANGED <<channelVars, pending, pacer, cur, lim, limit, stopVars,
                   linkVars, wire, withdrawn, stragglers>>

Next ==
    \/ Reply \/ Notify \/ StopBump \/ StopAnswer
    \/ PacerStep
    \/ EditLimit \/ Drop \/ Reconnect \/ Tick

\* The runtime keeps polling the pacer and time passes; nobody is obliged
\* to send, to stop, or to reconnect.
Fairness == WF_vars(PacerStep) /\ WF_vars(Tick)

Spec     == Init /\ [][Next]_vars
FairSpec == Spec /\ Fairness

-----------------------------------------------------------------------------
\* Properties.

\* Every variable stays in its type; the counter stays a machine word.
TypeOK ==
    /\ queue \in Seq(Msg) /\ nextId \in 1..(MaxMsgs + 1)
    /\ epoch \in 0..MaxStops /\ pending \in 0..(Word - 1)
    /\ stop \in BOOLEAN /\ reported \in 0..(Word - 1)
    /\ pacer \in {"idle", "popped", "waiting", "cleared", "dead"}
    /\ IF pacer \in {"idle", "dead"} THEN cur = NoMsg ELSE cur \in Msg
    /\ limit \in Limits /\ lim \in Limits
    /\ nap \in 0..MaxWindow /\ recent \in Seq(0..MaxWindow)
    /\ link \in BOOLEAN /\ drops \in 0..MaxDrops
    /\ wire \in Seq(1..MaxMsgs) /\ ages \in Seq(0..MaxWindow)
    /\ withdrawn \subseteq Msg /\ stragglers \in Nat

\* However often the limit is edited, no MinWindow of time sees more than
\* MaxBurst messages leave: all but the last MaxBurst sends of a connection
\* are at least MinWindow old.  Rests on the sleep being long enough for the
\* slot `pop_front` then frees.
BurstBound ==
    \A i \in 1..(Len(ages) - MaxBurst) : ages[i] >= MinWindow

\* A `stop!` takes effect at once: of the replies it withdrew, at most the
\* one already past the second check still leaves.
AtMostOneStraggler == stragglers <= 1

\* A notification accepted on a live connection is sent, whatever is
\* stopped, edited or queued around it, unless the connection goes.
Waiting(i) ==
    /\ link /\ pacer # "dead"
    /\ \E m \in Unsent : m.id = i /\ m.note
Sent(i) == \E j \in DOMAIN wire : wire[j] = i
NotificationsLeave ==
    \A i \in 1..MaxMsgs : Waiting(i) ~> (Sent(i) \/ ~link)

-----------------------------------------------------------------------------
\* What the queue promises its users, free of epochs, limits and sleeps.
\* The message in hand heads the backlog; past the second check it is safe
\* from a `stop!`.
Held == IF cur = NoMsg THEN queue ELSE <<cur>> \o queue
Entry(i) == [id   |-> Held[i].id,
             keep |-> Held[i].note,
             void |-> Discards(Held[i], epoch) /\ ~(i = 1 /\ pacer = "cleared")]

Promise == INSTANCE OutboundPromise WITH
               backlog <- [i \in DOMAIN Held |-> Entry(i)],
               delivered <- wire

\* The queue implements that promise: messages leave in the order they were
\* accepted, none twice, none reordered around a sleep, none withdrawn that
\* `stop!` did not withdraw, none lost while the connection holds.
PromiseKept == Promise!Spec
=============================================================================
