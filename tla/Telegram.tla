------------------------------ MODULE Telegram ------------------------------
(***************************************************************************)
(* Commands over Telegram (`transports/telegram.rs`): long polling with an *)
(* offset that acknowledges what the poll before it brought, the handling  *)
(* of a batch, its replies, and what a restart in between does.            *)
(*                                                                         *)
(* The server keeps an update until a poll asks from beyond it.  The       *)
(* offset lives in the session: a bot that restarts asks from the          *)
(* beginning of what the server still has.                                 *)
(***************************************************************************)
EXTENDS Commands

CONSTANTS
    Kinds,          \* what may be written to the bot
    Listings,       \* the sizes of the entries a command may list
    RetryMin,       \* RETRY_MIN
    RetryMax,       \* RETRY_MAX
    MaxUpdates,     \* bound: updates written
    MaxRestarts     \* bound: restarts of the bot

ASSUME TelegramAssumption ==
    /\ Kinds \subseteq {"command", "stranger", "chat", "blank"}
    /\ Listings \subseteq Seq(Nat \ {0}) /\ Listings # {}
    /\ {RetryMin, RetryMax} \subseteq Nat \ {0} /\ RetryMin <= RetryMax
    /\ {MaxUpdates, MaxRestarts} \subseteq Nat

VARIABLES
    tgWritten,    \* the kinds of the updates written so far; an id is a place
    tgKept,       \* the first update the server was not yet told to forget
    tgAt,         \* where receive_commands is
    tgOffset,     \* what the next poll asks from
    tgNext,       \* the next update of the last poll to be handled
    tgReply,      \* the reply being sent
    tgBackoff,    \* the delay after the next failing poll
    tgWait,       \* what is left of the delay
    tgConfirmed,  \* getMe has been tried
    tgRestarts,   \* history: restarts so far
    tgRuns,       \* history: how often the command of an update has run
    tgRunsNow     \* history: ... since the bot last started

tgServer  == <<tgWritten, tgKept>>
tgCursor  == <<tgOffset, tgNext>>
tgPacing  == <<tgBackoff, tgWait>>
tgHistory == <<tgRestarts, tgRuns, tgRunsNow>>
tgVars == <<tgServer, tgAt, tgCursor, tgReply, tgPacing, tgConfirmed, tgHistory>>

Ids     == 1..MaxUpdates
NoReply == [messages |-> <<>>, sent |-> 0]
Refusal == <<Line("refused", 0, NoteSize)>>
Never   == [id \in Ids |-> 0]

TelegramInit ==
    /\ tgWritten = <<>> /\ tgKept = 1
    /\ tgAt = "poll" /\ tgOffset = 0 /\ tgNext = 0
    /\ tgReply = NoReply
    /\ tgBackoff = RetryMin /\ tgWait = 0
    /\ tgConfirmed = FALSE
    /\ tgRestarts = 0 /\ tgRuns = Never /\ tgRunsNow = Never

-----------------------------------------------------------------------------
\* The server: a poll that asks from beyond an update tells it to forget it.

Write(kind) ==
    /\ Len(tgWritten) < MaxUpdates
    /\ tgWritten' = Append(tgWritten, kind)
    /\ UNCHANGED <<tgKept, tgAt, tgCursor, tgReply, tgPacing, tgConfirmed, tgHistory>>

Acknowledged == IF tgKept < tgOffset THEN tgOffset ELSE tgKept

-----------------------------------------------------------------------------
\* The session.

\* The offset that acknowledges every update up to this one.
Beyond(last) == last + 1

\* It answers with all it has, or with the first so many.
PollAnswered ==
    /\ tgAt = "poll"
    /\ tgKept' = Acknowledged
    /\ \/ /\ Acknowledged > Len(tgWritten)
          /\ UNCHANGED tgCursor
       \/ \E last \in Acknowledged..Len(tgWritten) :
             tgNext' = Acknowledged /\ tgOffset' = Beyond(last)
    /\ tgAt' = IF tgConfirmed THEN "handle" ELSE "confirm"
    /\ tgConfirmed' = TRUE
    /\ tgBackoff' = RetryMin
    /\ UNCHANGED <<tgWritten, tgReply, tgWait, tgHistory>>

\* It failed, whether or not the server got to read the offset.
PollFails ==
    /\ tgAt = "poll"
    /\ tgKept' \in {tgKept, Acknowledged}
    /\ tgAt' = "sleep"
    /\ tgWait' = tgBackoff
    /\ tgBackoff' = Smaller(2 * tgBackoff, RetryMax)
    /\ UNCHANGED <<tgWritten, tgCursor, tgReply, tgConfirmed, tgHistory>>

\* getMe after the first poll that works: its failure is only logged.
Confirm ==
    /\ tgAt = "confirm" /\ tgAt' = "handle"
    /\ UNCHANGED <<tgServer, tgCursor, tgReply, tgPacing, tgConfirmed, tgHistory>>

InHand(kinds) == tgAt = "handle" /\ tgNext < tgOffset /\ tgWritten[tgNext] \in kinds

BatchDone ==
    /\ tgAt = "handle" /\ tgNext = tgOffset
    /\ tgAt' = "poll"
    /\ UNCHANGED <<tgServer, tgCursor, tgReply, tgPacing, tgConfirmed, tgHistory>>

\* No sender, no text, or no command: acknowledged and otherwise ignored.
Ignore ==
    /\ InHand({"chat", "blank"})
    /\ tgNext' = tgNext + 1
    /\ UNCHANGED <<tgServer, tgAt, tgOffset, tgReply, tgPacing, tgConfirmed, tgHistory>>

\* Somebody else's command is answered with a refusal.
TurnStrangerAway ==
    /\ InHand({"stranger"})
    /\ tgNext' = tgNext + 1
    /\ tgReply' = [messages |-> Chunks(Refusal), sent |-> 0]
    /\ tgAt' = "send"
    /\ UNCHANGED <<tgServer, tgOffset, tgPacing, tgConfirmed, tgHistory>>

\* The owner's command runs: process_command.
RunCommand ==
    /\ InHand({"command"})
    /\ tgRuns' = [tgRuns EXCEPT ![tgNext] = @ + 1]
    /\ tgRunsNow' = [tgRunsNow EXCEPT ![tgNext] = @ + 1]
    /\ tgNext' = tgNext + 1
    /\ tgAt' = "run"
    /\ UNCHANGED <<tgServer, tgOffset, tgReply, tgPacing, tgConfirmed, tgRestarts>>

\* It returns, if it does; chunk_reply.
CommandReturns ==
    /\ tgAt = "run" /\ tgAt' = "send"
    /\ \E sizes \in Listings : tgReply' = [messages |-> Chunks(Listing(sizes)), sent |-> 0]
    /\ UNCHANGED <<tgServer, tgCursor, tgPacing, tgConfirmed, tgHistory>>

\* Mutant of AfterFailedReply: the failure ends the round.
RoundOver == tgOffset

\* A reply that cannot be sent is only logged, and the batch goes on.
AfterFailedReply == tgNext

ReplyDone == tgAt' = "handle" /\ tgReply' = NoReply

SendMessage ==
    /\ tgAt = "send"
    /\ IF tgReply.sent + 1 < Len(tgReply.messages)
       THEN tgReply' = [tgReply EXCEPT !.sent = @ + 1] /\ UNCHANGED tgAt
       ELSE ReplyDone
    /\ UNCHANGED <<tgServer, tgCursor, tgPacing, tgConfirmed, tgHistory>>

SendFails ==
    /\ tgAt = "send"
    /\ ReplyDone
    /\ tgNext' = AfterFailedReply
    /\ UNCHANGED <<tgServer, tgOffset, tgPacing, tgConfirmed, tgHistory>>

Sleep ==
    /\ tgAt = "sleep"
    /\ tgWait' = tgWait - 1
    /\ tgAt' = IF tgWait = 1 THEN "poll" ELSE "sleep"
    /\ UNCHANGED <<tgServer, tgCursor, tgReply, tgBackoff, tgConfirmed, tgHistory>>

\* The bot stops or panics at any of its awaits, and is built anew.
RestartTelegram ==
    /\ tgRestarts < MaxRestarts
    /\ tgRestarts' = tgRestarts + 1
    /\ tgRunsNow' = Never
    /\ tgAt' = "poll" /\ tgOffset' = 0 /\ tgNext' = 0
    /\ tgReply' = NoReply
    /\ tgBackoff' = RetryMin /\ tgWait' = 0
    /\ tgConfirmed' = FALSE
    /\ UNCHANGED <<tgServer, tgRuns>>

Session ==
    \/ Confirm \/ BatchDone \/ Ignore \/ TurnStrangerAway \/ RunCommand
    \/ SendMessage \/ SendFails \/ Sleep

Polling == PollAnswered \/ PollFails \/ Session \/ CommandReturns

Writing == \E kind \in Kinds : Write(kind)

TelegramNext == Writing \/ Polling \/ RestartTelegram

TelegramSpec == TelegramInit /\ [][TelegramNext]_tgVars

\* The arm is polled and its calls have timeouts; the network comes back again
\* and again.  That a command returns is nowhere assured.
TelegramFairness ==
    /\ WF_tgVars(Session)
    /\ SF_tgVars(PollAnswered)

-----------------------------------------------------------------------------
\* Properties.

\* Every variable stays in its type.
TelegramTypeOK ==
    /\ tgWritten \in Seq(Kinds) /\ Len(tgWritten) <= MaxUpdates
    /\ tgKept \in Nat /\ tgOffset \in Nat /\ tgNext \in Nat
    /\ tgAt \in {"poll", "confirm", "handle", "run", "send", "sleep"}
    /\ tgBackoff \in RetryMin..RetryMax /\ tgWait \in 0..RetryMax
    /\ tgConfirmed \in BOOLEAN
    /\ tgRestarts \in 0..MaxRestarts
    /\ tgRuns \in [Ids -> Nat] /\ tgRunsNow \in [Ids -> Nat]

\* The server is told to forget no command that has not run: the offset moves
\* on with a batch in hand, but only the poll after that batch carries it, so
\* no failing poll, failing reply or restart loses a command.
NothingIsLost ==
    \A id \in DOMAIN tgWritten :
        tgWritten[id] = "command" /\ id < tgKept => tgRuns[id] >= 1

\* Within a session a command runs once, whatever fails around it; over
\* restarts, whose replay is wanted for what was never handled, once each.
OncePerSession ==
    \A id \in Ids : tgRunsNow[id] <= 1 /\ tgRuns[id] <= 1 + tgRestarts

\* Whatever is written while the bot is up, down or out of reach is answered
\* in the end: the command runs, unless one before it never returns.
CommandsRun ==
    []<>(tgAt # "run") => \A id \in Ids :
        (id \in DOMAIN tgWritten /\ tgWritten[id] = "command") ~> tgRuns[id] >= 1
=============================================================================
