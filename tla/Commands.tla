------------------------------ MODULE Commands ------------------------------
(***************************************************************************)
(* What a message asks the bot for, and how much of the answer arrives:    *)
(* `command_processor.rs` from the text to the effect and back to lines,   *)
(* and the packing of lines into messages (`transports/mod.rs`).           *)
(*                                                                         *)
(* Regular expressions are known by what they tell apart: a message is its *)
(* marker, the word after it and what kind of argument follows.  A line is *)
(* known by its size; none is empty and none contains a line break.        *)
(***************************************************************************)
EXTENDS Integers, Sequences, FiniteSets, SequencesExt

CONSTANTS
    LineBudget,     \* LINE_BUDGET: what one IRC line may carry
    MessageBudget,  \* MESSAGE_BUDGET of Telegram and Slack
    MaxMessages,    \* MAX_MESSAGES
    NoteSize        \* the size of a line that names what was left out

ASSUME CommandsAssumption ==
    /\ {LineBudget, MessageBudget, NoteSize, MaxMessages} \subseteq Nat \ {0}
    /\ NoteSize <= MessageBudget

-----------------------------------------------------------------------------
\* From text to command.

\* The rows of COMMANDS.
FullName ==
    [at |-> "addtorrent", lt |-> "torrentlist", lw |-> "watchlist",
     aw |-> "addtowatchlist", rw |-> "removewatch", tn |-> "testnotify",
     s |-> "stop", h |-> "help"]

Shorts == DOMAIN FullName

Arguments == {"none", "blank", "announce", "half", "id", "index", "text"}

\* The command a message spells, or "" for a message that is none: a marker
\* counts at the start only, and a short form only when the table has it.
Spelt(m) ==
    IF m.mark = "long" THEN m.word
    ELSE IF m.mark = "short" /\ m.word \in Shorts THEN FullName[m.word]
    ELSE ""

IsCommand(m) == Spelt(m) # ""

\* add_torrent: an announce line, or a bare id, which any single word is.
AddOf(arg) ==
    IF arg = "announce" THEN "add"
    ELSE IF arg = "half" THEN "bad arguments"
    ELSE IF arg \in {"id", "index"} THEN "add by id"
    ELSE "bad arguments"

\* process_command, once authorized: what is done.  An alias does the same.
Effect(word, arg) ==
    CASE word = "addtorrent" -> AddOf(arg)
      [] word \in {"torrentlist", "downloadlist"} -> "list torrents"
      [] word \in {"watchlist", "listwatch"} -> "list patterns"
      [] word \in {"help", "commands"} -> "help"
      [] word \in {"stop", "cancel"} -> "stop"
      [] word = "testnotify" -> "notify"
      [] word = "addtowatchlist" ->
            IF arg \in {"none", "blank"} THEN "bad arguments" ELSE "watch"
      [] word = "removewatch" -> IF arg = "index" THEN "unwatch" ELSE "bad arguments"
      [] OTHER -> "not implemented"

-----------------------------------------------------------------------------
\* From a listing to the lines of a reply.

Smaller(a, b) == IF a < b THEN a ELSE b

Line(is, n, size) == [is |-> is, n |-> n, size |-> size]
Note(n) == Line("note", n, NoteSize)

\* format_download_list, format_watchlist: a header that counts them all, then
\* the entries under the numbers they have in the whole list.
Listing(sizes) ==
    IF sizes = <<>> THEN <<Line("none", 0, NoteSize)>>
    ELSE <<Line("head", Len(sizes), NoteSize)>>
            \o [i \in 1..Len(sizes) |-> Line("row", i - 1, sizes[i])]

\* help_lines: a row for each command, then the aliases.
HelpLines ==
    [i \in 1..Cardinality(Shorts) |-> Line("row", i - 1, NoteSize)]
        \o <<Line("aliases", 0, NoteSize)>>

\* Mutant of CutShort: the header is taken for an entry that was shown.
CutShortOffByOne(lines, max) ==
    IF Len(lines) <= max THEN lines
    ELSE Append(SubSeq(lines, 1, max), Note(Len(lines) - max - 1))

CutShort(lines, max) ==
    IF Len(lines) <= max THEN lines
    ELSE Append(SubSeq(lines, 1, max), Note(Len(lines) - max))

\* cap_lines for IRC: fit_line marks a cut with one character beyond the budget.
Capped(lines, max) ==
    [i \in DOMAIN CutShort(lines, max) |->
        LET line == CutShort(lines, max)[i]
        IN  [line EXCEPT !.size = Smaller(@, LineBudget + 1)]]

\* The size of lines joined by line breaks.
Size(lines) ==
    LET upTo[i \in 0..Len(lines)] == IF i = 0 THEN 0 ELSE upTo[i - 1] + lines[i].size
    IN  Len(lines) - 1 + upTo[Len(lines)]

\* truncate_chars: a line that is longer than a message may be.
Cut(line) == [line EXCEPT !.size = Smaller(@, MessageBudget)]

\* One line more, for the messages packed so far and the one being filled.
Pack(packed, line) ==
    IF packed.open # <<>> /\ Size(Append(packed.open, line)) > MessageBudget
    THEN [full |-> Append(packed.full, packed.open), open |-> <<line>>]
    ELSE [packed EXCEPT !.open = Append(@, line)]

\* chunk_lines
Packed(lines) ==
    LET upTo[i \in 0..Len(lines)] == IF i = 0 THEN [full |-> <<>>, open |-> <<>>]
                                     ELSE Pack(upTo[i - 1], Cut(lines[i]))
        all == upTo[Len(lines)]
    IN  IF all.open = <<>> THEN all.full ELSE Append(all.full, all.open)

\* chunk_reply: no more messages than that, and one that says what is missing.
Chunks(lines) ==
    LET all  == Packed(lines)
        kept == SubSeq(all, 1, MaxMessages)
    IN  IF Len(all) <= MaxMessages THEN all
        ELSE Append(kept, <<Note(Len(lines) - Len(FlattenSeq(kept)))>>)

-----------------------------------------------------------------------------
\* What whoever asked for a listing is owed.

\* Lines are in order, each under its own number, and those that are not there
\* are counted in the last one: nothing goes missing unsaid.
AccountsFor(lines, all) ==
    LET noted == Len(lines) > 0 /\ Last(lines).is = "note"
        shown == IF noted THEN Front(lines) ELSE lines
    IN  /\ \A i \in DOMAIN shown : shown[i].is = all[i].is /\ shown[i].n = all[i].n
        /\ Len(shown) + (IF noted THEN Last(lines).n ELSE 0) = Len(all)
=============================================================================
