------------------------------ MODULE IrcHold ------------------------------
(***************************************************************************)
(* Notifications by IRC private message (notify.rs): IrcBackend, which     *)
(* holds what an absent owner would never see, under the outbox in which   *)
(* the dispatcher keeps what a backend did not take.                       *)
(*                                                                         *)
(* The dispatcher's task makes each attempt without ever awaiting; the     *)
(* main task, on another thread, republishes the link when it connects,    *)
(* loses the connection or hears whether the owner is there.               *)
(*                                                                         *)
(* A message is written once it is on the connection's queue: what becomes *)
(* of it there is SendQueue's.                                             *)
(***************************************************************************)
EXTENDS Integers, Sequences, FiniteSets

CONSTANTS
    HoldTimes,    \* what hold_seconds may be, in ticks
    MaxHold,      \* no hold time is longer
    HoldLimit,    \* IRC_HOLD_LIMIT
    OutboxDepth,  \* OUTBOX_DEPTH
    MaxAttempts,  \* MAX_ATTEMPTS
    MaxMsgs       \* bound: messages attempted

ASSUME HoldAssumption ==
    /\ MaxHold \in Nat /\ HoldTimes \subseteq 0..MaxHold
    /\ {HoldLimit, OutboxDepth, MaxAttempts} \subseteq Nat \ {0}
    /\ MaxMsgs \in Nat

VARIABLES
    published,  \* IrcLink.sender is there: IRC was connected once
    online,     \* IrcLink.owner_online
    holdFor,    \* IrcBackend.hold_for
    hold,       \* IrcBackend.pending: [id, age], oldest first
    outbox,     \* Target.outbox: [id, attempts], oldest first
    retrying,   \* messages this round has still to retry
    nextId,
    written,    \* history: how often each message was written
    tried       \* history: attempts made to deliver it; both held at Many

linkVars == <<published, online>>
ihVars == <<linkVars, holdFor, hold, outbox, retrying, nextId, written, tried>>

Msgs == 1..MaxMsgs
Many == MaxAttempts + 1
Reachable == published /\ online

Copies(m) == Cardinality({i \in DOMAIN hold : hold[i].id = m})
UpTo(n) == IF n < Many THEN n ELSE Many
Older(age) == IF age < MaxHold THEN age + 1 ELSE MaxHold

-----------------------------------------------------------------------------

HoldInit ==
    /\ published = FALSE /\ online = FALSE
    /\ holdFor \in HoldTimes
    /\ hold = <<>> /\ outbox = <<>> /\ retrying = <<>>
    /\ nextId = 1
    /\ written = [m \in Msgs |-> 0] /\ tried = [m \in Msgs |-> 0]

\* The oldest are dropped.
Trimmed(q) == IF Len(q) > HoldLimit THEN Tail(q) ELSE q

\* IrcBackend::hold.
Hold(m) ==
    hold' = IF holdFor = 0 THEN hold ELSE Trimmed(Append(hold, [id |-> m, age |-> 0]))

\* Mutant of Kept: a flush leaves in the hold what it wrote.
HoldKept == hold

\* The hold once it has been flushed.
Kept == <<>>

\* flush_held writes what is fresh and drops the rest; `now` is what is
\* written besides.
Flush(now) ==
    /\ hold' = Kept
    /\ written' = [m \in Msgs |-> UpTo(written[m]
          + Cardinality({i \in DOMAIN hold : hold[i].id = m /\ hold[i].age < holdFor})
          + (IF m \in now THEN 1 ELSE 0))]

\* IrcBackend::deliver: held and refused, or written after what was held.
Refused(m) == ~Reachable /\ Hold(m) /\ UNCHANGED written
Taken(m)   == Reachable /\ Flush({m})

Try(m) == tried' = [tried EXCEPT ![m] = UpTo(@ + 1)]

\* A full outbox drops its oldest.
Pushed(m) == Append(IF Len(outbox) >= OutboxDepth THEN Tail(outbox) ELSE outbox, m)

\* deliver_to, for a message within the hourly ceiling.
DeliverByIrc ==
    /\ retrying = <<>> /\ nextId <= MaxMsgs
    /\ nextId' = nextId + 1
    /\ Try(nextId)
    /\ \/ Taken(nextId) /\ UNCHANGED outbox
       \/ Refused(nextId) /\ outbox' = Pushed([id |-> nextId, attempts |-> 1])
    /\ UNCHANGED <<linkVars, holdFor, retrying>>

\* Mutant of Pending: held messages wait for the next message.
NotPending == FALSE

\* retry_pending: what is held goes out once the owner is back.
Pending == Reachable

\* The retry tick, up to the outbox, which is taken as a whole.
RetryTick ==
    /\ retrying = <<>>
    /\ IF Pending THEN Flush({}) ELSE UNCHANGED <<hold, written>>
    /\ retrying' = outbox /\ outbox' = <<>>
    /\ UNCHANGED <<linkVars, holdFor, nextId, tried>>

\* What a failed retry leaves in the outbox: nothing after the last attempt.
Again(m) ==
    IF m.attempts + 1 >= MaxAttempts THEN <<>>
    ELSE <<[m EXCEPT !.attempts = @ + 1]>>

\* retry_outboxes, one message.
RetryOne ==
    /\ retrying # <<>>
    /\ retrying' = Tail(retrying)
    /\ LET m == Head(retrying)
       IN  /\ Try(m.id)
           /\ \/ Taken(m.id) /\ UNCHANGED outbox
              \/ Refused(m.id) /\ outbox' = outbox \o Again(m)
    /\ UNCHANGED <<linkVars, holdFor, nextId>>

\* [notifications.irc] was edited: the backend and its target are rebuilt.
Rebuild ==
    /\ retrying = <<>>
    /\ holdFor' \in HoldTimes \ {holdFor}
    /\ hold' = <<>> /\ outbox' = <<>>
    /\ UNCHANGED <<linkVars, retrying, nextId, written, tried>>

-----------------------------------------------------------------------------
\* The main task.

\* connect_irc: optimistic until the first answer to ISON.
Connect ==
    /\ published' = TRUE /\ online' = TRUE
    /\ UNCHANGED <<holdFor, hold, outbox, retrying, nextId, written, tried>>

Drop ==
    /\ published /\ online' = FALSE
    /\ UNCHANGED <<published, holdFor, hold, outbox, retrying, nextId, written, tried>>

\* note_owner_presence.
Presence ==
    /\ published /\ online' = ~online
    /\ UNCHANGED <<published, holdFor, hold, outbox, retrying, nextId, written, tried>>

HoldTick ==
    /\ retrying = <<>>
    /\ hold' = [i \in DOMAIN hold |-> [hold[i] EXCEPT !.age = Older(@)]]
    /\ UNCHANGED <<linkVars, holdFor, outbox, retrying, nextId, written, tried>>

HoldNext ==
    \/ DeliverByIrc \/ RetryTick \/ RetryOne \/ Rebuild
    \/ Connect \/ Drop \/ Presence
    \/ HoldTick

HoldSpec == HoldInit /\ [][HoldNext]_ihVars

\* The retry timer keeps firing and a round of retries ends.
HoldFairness == WF_ihVars(RetryOne) /\ WF_ihVars(RetryTick)

FairHoldSpec == HoldSpec /\ HoldFairness

-----------------------------------------------------------------------------
\* Properties.

\* Every variable stays in its type; hold and outbox stay bounded.
HoldTypeOK ==
    /\ published \in BOOLEAN /\ online \in BOOLEAN /\ (online => published)
    /\ holdFor \in HoldTimes
    /\ hold \in Seq([id : Msgs, age : 0..MaxHold]) /\ Len(hold) <= HoldLimit
    /\ outbox \in Seq([id : Msgs, attempts : 1..MaxAttempts])
    /\ retrying \in Seq([id : Msgs, attempts : 1..MaxAttempts])
    /\ Len(outbox) + Len(retrying) <= OutboxDepth
    /\ nextId \in 1..(MaxMsgs + 1)
    /\ written \in [Msgs -> 0..Many] /\ tried \in [Msgs -> 0..Many]

\* Hold and outbox both keep a message the owner could not be sent, but no
\* more copies of it are ever written or held than attempts were made.
CopiesArePaidFor == \A m \in Msgs : written[m] + Copies(m) <= tried[m]

\* While the owner can be reached, nothing stays in the hold or the outbox:
\* the retry tick finds it without waiting for another message.
Unsent(m) == \E i \in DOMAIN (retrying \o outbox) : (retrying \o outbox)[i].id = m
Waiting(m) == Copies(m) > 0 \/ Unsent(m)
HeldNewsGoesOut == \A m \in Msgs : Waiting(m) ~> (~Waiting(m) \/ ~Reachable)

\* An absent owner does not make the dispatcher try for ever.
RetriesEnd == \A m \in Msgs : Unsent(m) ~> ~Unsent(m)

\* Held news comes to an end, in the owner's window or with the last attempt.
HeldNewsSettles == HeldNewsGoesOut /\ RetriesEnd

\* A message that is retried until it lands is delivered once.
DeliveredOnce == \A m \in Msgs : written[m] <= 1
=============================================================================
