------------------------------ MODULE Replies ------------------------------
(***************************************************************************)
(* One message and its answer, on any transport: `process_command` with    *)
(* the limits of whoever asked, and the packing of what it returns.        *)
(*                                                                         *)
(* The sender is the owner: IdentityGate, Telegram and Slack have the      *)
(* others.                                                                 *)
(***************************************************************************)
EXTENDS Commands

CONSTANTS
    Words,          \* what may follow the marker
    Libraries,      \* the sizes of the entries there are to list
    LineLimits      \* values of max_reply_lines

ASSUME RepliesAssumption ==
    /\ Libraries \subseteq Seq(Nat \ {0})
    /\ LineLimits \subseteq Nat

VARIABLES
    rpAsked,     \* the message, its transport, what there is to list, the limit
    rpDone,      \* what the command did, or "nothing"
    rpReply      \* the messages of the reply: sequences of lines

rpVars == <<rpAsked, rpDone, rpReply>>

Asked == [message : [mark : {"long", "short", "none"}, word : Words, arg : Arguments],
          via : {"irc", "telegram", "slack"}, sizes : Libraries, limit : LineLimits]
Unasked == [via |-> "nobody"]

\* Nobody has asked for anything.
RepliesInit ==
    /\ rpAsked = Unasked
    /\ rpDone = "nothing" /\ rpReply = <<>>

-----------------------------------------------------------------------------
Lists == {"list torrents", "list patterns"}

\* What the command has to say; whatever is not a listing is one line.
Lines(effect, sizes) ==
    IF effect \in Lists THEN Listing(sizes)
    ELSE IF effect = "help" THEN HelpLines
    ELSE <<Line(effect, 0, NoteSize)>>

\* max_reply_lines: a header alone would be no listing.
AtLeastTwo(limit) == IF limit < 2 THEN 2 ELSE limit

\* What is cut to the caps of reply_limits: nothing else a command says is.
Capping == Lists \cup {"help"}

\* The caps of IRC are for IRC, where every line is a message.  The others
\* take it whole, up to so many messages.
Carried(effect, via, lines, limit) ==
    IF via = "irc"
    THEN LET sent == IF effect \in Capping THEN Capped(lines, AtLeastTwo(limit)) ELSE lines
         IN  [i \in DOMAIN sent |-> <<sent[i]>>]
    ELSE Chunks(lines)

\* A message arrives when the last one is dealt with.
Ask ==
    /\ rpAsked = Unasked /\ rpAsked' \in Asked
    /\ UNCHANGED <<rpDone, rpReply>>

Settled ==
    /\ rpDone # "nothing" /\ rpDone' = "nothing"
    /\ rpAsked' = Unasked /\ rpReply' = <<>>

\* No command: no answer, on any transport.
LetPass ==
    /\ rpAsked # Unasked
    /\ rpDone = "nothing" /\ ~IsCommand(rpAsked.message)
    /\ rpDone' = "ignored"
    /\ UNCHANGED <<rpAsked, rpReply>>

AnswerIt ==
    /\ rpAsked # Unasked
    /\ rpDone = "nothing" /\ IsCommand(rpAsked.message)
    /\ LET effect == Effect(Spelt(rpAsked.message), rpAsked.message.arg) IN
       /\ rpDone' = effect
       /\ rpReply' = Carried(effect, rpAsked.via, Lines(effect, rpAsked.sizes),
                              rpAsked.limit)
    /\ UNCHANGED rpAsked

RepliesNext == Ask \/ LetPass \/ AnswerIt \/ Settled

RepliesSpec == RepliesInit /\ [][RepliesNext]_rpVars

-----------------------------------------------------------------------------
\* Properties.

\* What one message may carry: a cut line of IRC is one character longer.
Capacity(via) == IF via = "irc" THEN LineBudget + 1 ELSE MessageBudget

Most(via, limit) == 1 + (IF via = "irc" THEN AtLeastTwo(limit) ELSE MaxMessages)

\* However long a listing is, the reply is bounded in messages and each fits
\* its transport (as a single line of another command need not, on IRC), and
\* still nothing goes missing unsaid: entries keep their numbers, and those
\* that are not shown are counted.
RepliesAccount ==
    rpReply # <<>> =>
        /\ Len(rpReply) <= Most(rpAsked.via, rpAsked.limit)
        /\ \/ rpAsked.via = "irc" /\ rpDone \notin Capping
           \/ \A i \in DOMAIN rpReply : Size(rpReply[i]) <= Capacity(rpAsked.via)
        /\ AccountsFor(FlattenSeq(rpReply), Lines(rpDone, rpAsked.sizes))
=============================================================================
