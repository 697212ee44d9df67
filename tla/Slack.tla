------------------------------- MODULE Slack -------------------------------
(***************************************************************************)
(* Commands over Slack's Socket Mode (`transports/slack.rs`): resolving    *)
(* the conversation, opening a socket, acknowledging envelopes and running *)
(* what they carry, one at a time.                                         *)
(*                                                                         *)
(* Slack keeps an envelope until its acknowledgement arrives.  It delivers *)
(* it on every socket, and again on the same socket while the listener is  *)
(* kept from reading by a command: a listener that reads acknowledges well *)
(* within the three seconds Slack waits.                                   *)
(***************************************************************************)
EXTENDS Commands, FiniteSets

CONSTANTS
    Frames,         \* what an envelope may carry
    SlackRetryMin,  \* RETRY_MIN
    SlackRetryMax,  \* RETRY_MAX
    MaxEnvelopes,   \* bound: envelopes
    MaxInbox,       \* bound: frames waiting on the socket
    MaxBreaks,      \* bound: sockets that break or fall silent
    MaxSlackStops   \* bound: restarts of the bot

ASSUME SlackAssumption ==
    /\ Frames \subseteq {"command", "stranger", "chat", "other"}
    /\ {SlackRetryMin, SlackRetryMax, MaxInbox} \subseteq Nat \ {0}
    /\ SlackRetryMin <= SlackRetryMax
    /\ {MaxEnvelopes, MaxBreaks, MaxSlackStops} \subseteq Nat

VARIABLES
    slPosted,     \* what the envelopes so far carry; an id is a place
    slAcked,      \* the envelopes whose acknowledgement has arrived
    slSeen,       \* the envelopes delivered on this socket
    slInbox,      \* frames not read yet
    slSocket,     \* "none", "up", "over" (disconnect or close), "broken", or
                  \*   "silent": nothing comes any more, not even an error
    slAt,         \* where run_socket is
    slResolved,   \* the conversation is known: always so for a channel
    slHand,       \* the envelope being handled
    slBackoff,    \* the delay after the next failing socket
    slWait,       \* what is left of the delay
    slBreaks,     \* history: sockets broken or silent so far
    slStops,      \* history: restarts so far
    slRuns,       \* history: runs of an envelope's command, counted up to two
    slExcused,    \* history: sent again because a socket ended, or because the
                  \*   copy sent before waited behind another command
    slLost        \* history: acknowledged, and dropped before its command ran

slServer  == <<slPosted, slAcked, slSeen>>
slStream  == <<slInbox, slSocket>>
slPacing  == <<slBackoff, slWait>>
slHistory == <<slBreaks, slStops, slRuns, slExcused, slLost>>
slVars == <<slServer, slStream, slAt, slResolved, slHand, slPacing, slHistory>>

Envelopes  == 1..MaxEnvelopes
NoEnvelope == 0

\* Target: a channel is its own conversation, a direct message has to be opened.
SlackInit ==
    /\ slPosted = <<>> /\ slAcked = {} /\ slSeen = {}
    /\ slInbox = <<>> /\ slSocket = "none"
    /\ slAt = "resolve" /\ slResolved \in BOOLEAN /\ slHand = NoEnvelope
    /\ slBackoff = SlackRetryMin /\ slWait = 0
    /\ slBreaks = 0 /\ slStops = 0
    /\ slRuns = [id \in Envelopes |-> 0]
    /\ slExcused = {} /\ slLost = {}

-----------------------------------------------------------------------------
\* Slack.

Post(frame) ==
    /\ Len(slPosted) < MaxEnvelopes
    /\ slPosted' = Append(slPosted, frame)
    /\ UNCHANGED <<slAcked, slSeen, slStream, slAt, slResolved, slHand, slPacing, slHistory>>

Owed == DOMAIN slPosted \ slAcked
Busy == slAt \in {"run", "reply"}

Push(id) ==
    /\ slSocket = "up" /\ Len(slInbox) < MaxInbox
    /\ slInbox' = Append(slInbox, id)
    /\ UNCHANGED <<slPosted, slAcked, slSocket, slAt, slResolved, slHand, slPacing,
                   slBreaks, slStops, slRuns, slLost>>

DeliverEnvelope(id) ==
    /\ id \in Owed \ slSeen
    /\ Push(id)
    /\ slSeen' = slSeen \cup {id}
    /\ UNCHANGED slExcused

\* Three seconds pass while a command runs.
DeliverAgain(id) ==
    /\ Busy /\ id \in Owed \cap slSeen
    /\ Push(id)
    /\ slExcused' = IF slHand = id THEN slExcused ELSE slExcused \cup {id}
    /\ UNCHANGED slSeen

\* The socket is rotated: what was sent before the frame can still be read.
SocketOver ==
    /\ slSocket = "up" /\ slSocket' = "over"
    /\ UNCHANGED <<slServer, slInbox, slAt, slResolved, slHand, slPacing, slHistory>>

\* It breaks, or its other end is gone without a word: some of what was sent
\* never arrives.
SocketBreaks ==
    /\ slSocket \in {"up", "over"} /\ slSocket' \in {"broken", "silent"}
    /\ slBreaks < MaxBreaks /\ slBreaks' = slBreaks + 1
    /\ \E arrived \in 0..Len(slInbox) : slInbox' = SubSeq(slInbox, 1, arrived)
    /\ UNCHANGED <<slServer, slAt, slResolved, slHand, slPacing,
                   slStops, slRuns, slExcused, slLost>>

\* The system gives a silent socket up.  Nothing in the bot does: it reads
\* without a timeout and sends no pings of its own.
SilenceEnds ==
    /\ slSocket = "silent" /\ slSocket' = "broken"
    /\ UNCHANGED <<slServer, slInbox, slAt, slResolved, slHand, slPacing, slHistory>>

-----------------------------------------------------------------------------
\* run_socket and the loop around it.

CloseSocket ==
    /\ slSocket' = "none" /\ slInbox' = <<>> /\ slSeen' = {}
    /\ slExcused' = slExcused \cup slSeen

\* Mutant of AfterFailure: the loop is left.
AfterFailureReturned == "returned"

\* The listener never returns: it would end the other arms with it.
AfterFailure == "sleep"

SocketFails ==
    /\ slAt' = AfterFailure
    /\ slWait' = slBackoff
    /\ slBackoff' = Smaller(2 * slBackoff, SlackRetryMax)

\* conversation(): a call for a direct message, once; a failure is not kept.
ResolveConversation ==
    /\ slAt = "resolve" /\ slAt' = "open"
    /\ slResolved' = TRUE
    /\ UNCHANGED <<slServer, slStream, slHand, slPacing, slHistory>>

ResolveFails ==
    /\ slAt = "resolve" /\ ~slResolved
    /\ SocketFails
    /\ UNCHANGED <<slServer, slStream, slResolved, slHand, slHistory>>

\* open_socket and connect_async.
OpenSocket ==
    /\ slAt = "open" /\ slAt' = "read"
    /\ slSocket' = "up"
    /\ UNCHANGED <<slServer, slInbox, slResolved, slHand, slPacing, slHistory>>

\* Nobody answers it: as good as a socket that has fallen silent.
OpenHangs ==
    /\ slAt = "open" /\ slAt' = "read"
    /\ slSocket' = "silent"
    /\ slBreaks < MaxBreaks /\ slBreaks' = slBreaks + 1
    /\ UNCHANGED <<slServer, slInbox, slResolved, slHand, slPacing,
                   slStops, slRuns, slExcused, slLost>>

OpenFails ==
    /\ slAt = "open"
    /\ SocketFails
    /\ UNCHANGED <<slServer, slStream, slResolved, slHand, slHistory>>

\* Nothing left to read and no error: reconnect at once.
ReconnectAtOnce ==
    /\ slAt = "read" /\ slSocket = "over" /\ slInbox = <<>>
    /\ CloseSocket
    /\ slAt' = "resolve"
    /\ slBackoff' = SlackRetryMin
    /\ UNCHANGED <<slPosted, slAcked, slResolved, slHand, slWait, slBreaks, slStops, slRuns, slLost>>

ReadFails ==
    /\ slAt = "read" /\ slSocket = "broken" /\ slInbox = <<>>
    /\ CloseSocket
    /\ SocketFails
    /\ UNCHANGED <<slPosted, slAcked, slResolved, slHand, slBreaks, slStops, slRuns, slLost>>

IsMessage(id) == slPosted[id] # "other"
IsOurCommand(id) == slPosted[id] = "command"

\* Every envelope is acknowledged, before what it carries is looked at.
Discharged(id) == {id}

\* classify and ack: the acknowledgement is sent, and arrives unless the
\* socket breaks first.
ReadEnvelope ==
    /\ slAt = "read" /\ slInbox # <<>>
    /\ slInbox' = Tail(slInbox)
    /\ LET id == Head(slInbox) IN
       /\ \/ slAcked' = slAcked \cup Discharged(id)
          \/ slSocket # "up" /\ slAcked' = slAcked
       /\ IF IsMessage(id) THEN slAt' = "handle" /\ slHand' = id
                           ELSE UNCHANGED <<slAt, slHand>>
    /\ UNCHANGED <<slPosted, slSeen, slSocket, slResolved, slPacing, slHistory>>

\* It cannot be sent: the envelope is dropped with the socket.  Whether the
\* acknowledgement got through all the same is not known.
AckFails ==
    /\ slAt = "read" /\ slInbox # <<>> /\ slSocket = "broken"
    /\ CloseSocket
    /\ SocketFails
    /\ \E arrived \in {{}, {Head(slInbox)}} :
          slAcked' = slAcked \cup arrived /\ slLost' = slLost \cup arrived
    /\ UNCHANGED <<slPosted, slResolved, slHand, slBreaks, slStops, slRuns>>

\* handle: no command, no answer.
HandleMessage ==
    /\ slAt = "handle"
    /\ CASE slPosted[slHand] = "chat"     -> slAt' = "read" /\ slHand' = NoEnvelope
         [] slPosted[slHand] = "stranger" -> slAt' = "reply" /\ UNCHANGED slHand
         [] OTHER                         -> slAt' = "run" /\ UNCHANGED slHand
    /\ slRuns' = IF IsOurCommand(slHand) THEN [slRuns EXCEPT ![slHand] = Smaller(@ + 1, 2)]
                                         ELSE slRuns
    /\ UNCHANGED <<slServer, slStream, slResolved, slPacing,
                   slBreaks, slStops, slExcused, slLost>>

CommandEnds ==
    /\ slAt = "run" /\ slAt' = "reply"
    /\ UNCHANGED <<slServer, slStream, slResolved, slHand, slPacing, slHistory>>

\* send_lines; a reply that cannot be sent is only logged.  It resolves the
\* conversation too, which is known by now.
ReplySent ==
    /\ slAt = "reply" /\ slAt' = "read"
    /\ slHand' = NoEnvelope
    /\ UNCHANGED <<slServer, slStream, slResolved, slPacing, slHistory>>

SlackSleep ==
    /\ slAt = "sleep"
    /\ slWait' = slWait - 1
    /\ slAt' = IF slWait = 1 THEN "resolve" ELSE "sleep"
    /\ UNCHANGED <<slServer, slStream, slResolved, slHand, slBackoff, slHistory>>

\* The bot stops or panics at any of its awaits, and is built anew; it may find
\* the configuration with or without a channel.
RestartSlack ==
    /\ slStops < MaxSlackStops
    /\ slStops' = slStops + 1
    /\ CloseSocket
    /\ slAt' = "resolve" /\ slResolved' \in BOOLEAN /\ slHand' = NoEnvelope
    /\ slBackoff' = SlackRetryMin /\ slWait' = 0
    /\ slLost' = IF slAt = "handle" THEN slLost \cup {slHand} ELSE slLost
    /\ UNCHANGED <<slPosted, slAcked, slBreaks, slRuns>>

Listener ==
    \/ ReconnectAtOnce \/ ReadFails \/ ReadEnvelope \/ AckFails
    \/ HandleMessage \/ ReplySent \/ SlackSleep

Service ==
    \/ \E frame \in Frames : Post(frame)
    \/ \E id \in Envelopes : DeliverEnvelope(id) \/ DeliverAgain(id)
    \/ SocketOver \/ SocketBreaks \/ SilenceEnds

Listening ==
    \/ Listener \/ CommandEnds
    \/ ResolveConversation \/ ResolveFails \/ OpenSocket \/ OpenHangs \/ OpenFails

SlackNext == Service \/ Listening \/ RestartSlack

SlackSpec == SlackInit /\ [][SlackNext]_slVars

\* The arm is polled; calls work again and again, sockets do not break for ever,
\* and Slack goes on offering what it was not told to forget.  That a command
\* returns is nowhere assured, nor that silence ends.
SlackFairness ==
    /\ WF_slVars(Listener)
    /\ SF_slVars(ResolveConversation) /\ SF_slVars(OpenSocket)
    /\ \A id \in Envelopes : SF_slVars(DeliverEnvelope(id))

-----------------------------------------------------------------------------
\* Properties.

\* Every variable stays in its type.
SlackTypeOK ==
    /\ slPosted \in Seq(Frames) /\ slAcked \subseteq DOMAIN slPosted
    /\ slSeen \subseteq DOMAIN slPosted /\ slInbox \in Seq(DOMAIN slPosted)
    /\ slSocket \in {"none", "up", "over", "broken", "silent"}
    /\ slAt \in {"resolve", "open", "read", "handle", "run", "reply", "sleep"}
    /\ slResolved \in BOOLEAN /\ slHand \in Envelopes \cup {NoEnvelope}
    /\ slBackoff \in SlackRetryMin..SlackRetryMax /\ slWait \in 0..SlackRetryMax
    /\ slBreaks \in 0..MaxBreaks /\ slStops \in 0..MaxSlackStops /\ slRuns \in [Envelopes -> 0..2]
    /\ slExcused \subseteq Envelopes /\ slLost \subseteq Envelopes

\* A slow command does not make Slack send that command again: one runs twice
\* only when a socket ended with its acknowledgement on the way, or when it had
\* to wait for another command and Slack lost patience.
SlowCommandsRunOnce == \A id \in Envelopes : slRuns[id] = 2 => id \in slExcused

\* Through rotated and broken sockets a command runs in the end, unless the bot
\* or the socket failed between its acknowledgement and its run, one before it
\* never returns, or the socket stays silent for ever.
SlackCommandsRun ==
    []<>(slAt # "run") /\ []<>(slSocket # "silent") => \A id \in Envelopes :
        (id \in DOMAIN slPosted /\ IsOurCommand(id)) ~> (slRuns[id] > 0 \/ id \in slLost)
=============================================================================
