------------------------------ MODULE Announcing ------------------------------
(***************************************************************************)
(* What is made of an announced line: the text without its formatting      *)
(* (`irc_format.rs`), the fields of a release (`announce.rs`), and the URL,*)
(* the file and the tags they are put into (`template.rs`,                 *)
(* `url_template.rs`, `http.rs`, the clients).                             *)
(*                                                                         *)
(* A text is a sequence of kinds of characters.  "x" stands for what is    *)
(* safe everywhere, "0" for a digit, "f" for a letter that is also a hex   *)
(* digit; "%" is an escape, whatever it escapes.                           *)
(***************************************************************************)
EXTENDS Naturals, Sequences, SequencesExt, Selecting

CONSTANTS
    MaxItems,       \* bound: characters and codes of a line
    Values,         \* texts that a group may capture
    UrlTemplates,   \* paths of download_url_template, segment by segment
    MaxStem         \* MAX_STEM_LEN

ASSUME AnnouncingAssumption ==
    /\ {MaxItems, MaxStem} \subseteq Nat \ {0}
    /\ Values \subseteq Seq(STRING)
    /\ UrlTemplates \subseteq Seq(Seq([field : STRING] \cup [literal : Seq(STRING)]))

VARIABLES
    anLine,      \* a line as typed: characters and formatting codes
    anText,      \* the same without the formatting
    anRelease,   \* the groups that captured, and what
    anPath,      \* the template, and the path of the URL made of it
    anFile,      \* the stem of the file
    anTags       \* what came to the client as tags

anVars == <<anLine, anText, anRelease, anPath, anFile, anTags>>

AnnouncingInit ==
    /\ anLine = <<>> /\ anText = <<>> /\ anRelease = <<>>
    /\ anPath = <<>> /\ anFile = <<>> /\ anTags = <<>>

-----------------------------------------------------------------------------
\* strip_formatting

Comma == ","
Blank == " "

Digits    == {"0"}
HexDigits == {"0", "f"}

\* take_while: how many of them, up to so many.
Run(line, from, max, accepted) ==
    CHOOSE n \in 0..max :
        /\ \A i \in from..from + n - 1 : i <= Len(line) /\ line[i] \in accepted
        /\ n < max => from + n > Len(line) \/ line[from + n] \notin accepted

\* Mutant of Background: the comma goes in any case.
BackgroundWithComma(line, from) == 1 + Run(line, from + 1, 2, Digits)

\* A comma belongs to the code only when digits follow.
Background(line, from) ==
    LET digits == Run(line, from + 1, 2, Digits) IN IF digits > 0 THEN 1 + digits ELSE 0

\* The length of the code that begins there; 0 for text.
CodeAt(line, i) ==
    LET shade == Run(line, i + 1, 2, Digits)
        comma == shade > 0 /\ i + shade < Len(line) /\ line[i + shade + 1] = Comma
    IN  CASE line[i] = "colour" -> 1 + shade + IF comma THEN Background(line, i + shade + 1) ELSE 0
          [] line[i] = "hex"    -> 1 + Run(line, i + 1, 6, HexDigits)
          [] line[i] = "toggle" -> 1
          [] OTHER              -> 0

StripFormatting(line) ==
    LET rest[i \in 1..Len(line) + 1] ==
            IF i > Len(line) THEN <<>>
            ELSE IF CodeAt(line, i) = 0 THEN <<line[i]>> \o rest[i + 1]
            ELSE rest[i + CodeAt(line, i)]
    IN  rest[1]

\* Characters and complete codes, as a client writes them.
Characters == {"x", "f", "0", Comma}
Item ==
    [reset      |-> <<"colour">>,
     foreground |-> <<"colour", "0", "0">>,
     background |-> <<"colour", "0", "0", Comma, "0", "0">>,
     hex        |-> <<"hex", "f", "f", "0", "0", "f", "f">>,
     toggle     |-> <<"toggle">>]

Typed(item) == IF item \in Characters THEN <<item>> ELSE Item[item]

\* A line arrives, announcement, command or chatter.
Hear ==
    /\ anLine = <<>> /\ anRelease = <<>>
    /\ anLine' \in SeqOf(Characters \cup DOMAIN Item, MaxItems)
    /\ anText' = StripFormatting(FlattenSeq([i \in DOMAIN anLine' |-> Typed(anLine'[i])]))
    /\ UNCHANGED <<anRelease, anPath, anFile, anTags>>

-----------------------------------------------------------------------------
\* The values of a field.

Trim(text) ==
    LET kept == {i \in DOMAIN text : text[i] # Blank}
        first == CHOOSE i \in kept : \A j \in kept : i <= j
        last  == CHOOSE i \in kept : \A j \in kept : j <= i
    IN  IF kept = {} THEN <<>> ELSE SubSeq(text, first, last)

\* str::split
Split(text, delimiter) ==
    LET upTo[i \in 0..Len(text)] ==
            IF i = 0 THEN <<<<>>>>
            ELSE IF text[i] = delimiter THEN Append(upTo[i - 1], <<>>)
            ELSE Append(Front(upTo[i - 1]), Append(Last(upTo[i - 1]), text[i]))
    IN  upTo[Len(text)]

Written(parts) == Selection(parts, {i \in DOMAIN parts : parts[i] # <<>>})
TrimmedParts(parts) == Written([i \in DOMAIN parts |-> Trim(parts[i])])

\* from_captures: [captures.<name>] split, or the text as it is.
FieldValues(raw, split) == IF split THEN TrimmedParts(Split(raw, Comma)) ELSE <<raw>>

\* Values joined by commas, as TextTemplate renders them.
Join(values) ==
    FlattenSeq([i \in DOMAIN values |-> IF i = 1 THEN values[i] ELSE <<Comma>> \o values[i]])

\* Tags: encode_tags for rTorrent, each once; qBittorrent takes them as they are.
Once(parts) ==
    Selection(parts, {i \in DOMAIN parts : \A j \in 1..i - 1 : parts[j] # parts[i]})
TagsFor(client, text) ==
    IF client = "rTorrent" THEN Join(Once(TrimmedParts(Split(text, Comma)))) ELSE text

-----------------------------------------------------------------------------
\* The URL and the file.

Unreserved == {"x", "f", "0", "."}
Escaped(text) == [i \in DOMAIN text |-> IF text[i] \in Unreserved THEN text[i] ELSE "%"]

\* Mutant of CannotStandInPath: dots are taken to be harmless.
OnlyEmpty(value) == value = <<>>

\* A value that would vanish from the path, or move what follows it.
CannotStandInPath(value) == value \in {<<>>, <<".">>, <<".", ".">>}

\* sanitize_torrent_filename, without the ending: the dots come off, then the
\* stem is cut.
Stem(name) ==
    LET safe == [i \in DOMAIN name |-> IF name[i] \in Unreserved THEN name[i] ELSE "."]
        kept == {i \in DOMAIN safe : safe[i] # "."}
        first == CHOOSE i \in kept : \A j \in kept : i <= j
        last  == CHOOSE i \in kept : \A j \in kept : j <= i
    IN  IF kept = {} THEN <<"x">> ELSE SubSeq(safe, first, IF last - first < MaxStem THEN last ELSE first + MaxStem - 1)

\* DownloadFields: the reserved names first.
Value(release, name) ==
    CASE name = "file" -> Stem(release.name)
      [] name = "key"  -> <<"x">>
      [] OTHER         -> release[name]

Available(release) == DOMAIN release \cup {"file", "key"}
Placeholders(template) ==
    {part.field : part \in {p \in UNION {ToSet(template[i]) : i \in DOMAIN template} : "field" \in DOMAIN p}}

Filled(release, segment) ==
    FlattenSeq([i \in DOMAIN segment |->
        IF "field" \in DOMAIN segment[i] THEN Escaped(Value(release, segment[i].field))
                                         ELSE segment[i].literal])

\* Url::parse: a segment of dots is not a segment.
Normalised(path) ==
    LET upTo[i \in 0..Len(path)] ==
            IF i = 0 THEN <<>>
            ELSE CASE path[i] = <<".">>      -> upTo[i - 1]
                   [] path[i] = <<".", ".">> ->
                        IF upTo[i - 1] = <<>> THEN <<>> ELSE Front(upTo[i - 1])
                   [] OTHER                  -> Append(upTo[i - 1], path[i])
    IN  upTo[Len(path)]

\* render: a placeholder without a value refuses the download.
Refuses(release, template) ==
    \E name \in Placeholders(template) :
        \/ name \notin Available(release)
        \/ CannotStandInPath(Value(release, name))

Path(release, template) ==
    IF Refuses(release, template) THEN <<>>
    ELSE Normalised([i \in DOMAIN template |-> Filled(release, template[i])])

\* A release: the required groups captured, the optional one perhaps.
Releases == [name : Values, id : {<<"0">>}] \cup [name : Values, id : {<<"0">>}, tags : Values]

\* from_captures, the path of download_torrent, and the tags of the client.
Announced ==
    /\ anLine = <<>> /\ anRelease = <<>>
    /\ anRelease' \in Releases
    /\ \E template \in UrlTemplates :
          anPath' = [template |-> template, refused |-> Refuses(anRelease', template),
                     path |-> Path(anRelease', template)]
    /\ anFile' = Stem(anRelease'.name)
    /\ \E client \in {"rTorrent", "qBittorrent"}, split \in BOOLEAN :
          LET values == IF "tags" \in DOMAIN anRelease' THEN FieldValues(anRelease'.tags, split)
                                                        ELSE <<>>
          IN  anTags' = [values |-> values, sent |-> TagsFor(client, Join(values))]
    /\ UNCHANGED <<anLine, anText>>

\* It is dealt with, and nothing of it is kept.
Forget ==
    /\ anLine # <<>> \/ anRelease # <<>>
    /\ anLine' = <<>> /\ anText' = <<>> /\ anRelease' = <<>>
    /\ anPath' = <<>> /\ anFile' = <<>> /\ anTags' = <<>>

AnnouncingNext == Hear \/ Announced \/ Forget

AnnouncingSpec == AnnouncingInit /\ [][AnnouncingNext]_anVars

-----------------------------------------------------------------------------
\* Properties.

\* Where a code may take what was meant as text: digits after a reset, or a
\* comma and digits after a colour.  Every client reads it so.
Ambiguous(line) ==
    \E i \in 1..Len(line) - 1 :
        \/ line[i] = "reset" /\ line[i + 1] = "0"
        \/ i + 2 <= Len(line) /\ line[i] = "foreground" /\ line[i + 1] = Comma /\ line[i + 2] = "0"

\* What a reader sees of an item.
Seen(item) == IF item \in Characters THEN <<item>> ELSE <<>>

\* Formatting is transparent: wherever codes stand in a line, the filters and
\* the announce pattern see exactly the text that a reader sees.
FormattingIsTransparent ==
    Ambiguous(anLine) \/ anText = FlattenSeq([i \in DOMAIN anLine |-> Seen(anLine[i])])

\* A segment that the template itself makes one of dots: whoever wrote it wants
\* to go up there.
GoesUp(template) ==
    \E i \in DOMAIN template :
        /\ \A j \in DOMAIN template[i] : "field" \notin DOMAIN template[i][j]
        /\ FlattenSeq([j \in DOMAIN template[i] |-> template[i][j].literal])
               \in {<<".">>, <<".", ".">>}

\* A value stays in the place the template gave it: the path has the segments
\* of the template, each with its own literals, and the file is a plain one,
\* directly in its directory.
ReleasesKeepTheirPlace ==
    anRelease # <<>> =>
        /\ ~anPath.refused /\ ~GoesUp(anPath.template) =>
              anPath.path = [i \in DOMAIN anPath.template |-> Filled(anRelease, anPath.template[i])]
        /\ Len(anFile) \in 1..MaxStem /\ anFile[1] # "." /\ ToSet(anFile) \subseteq Unreserved

\* A list that was captured as one comes back as that list from either client.
TagsComeBack ==
    anRelease # <<>> /\ (\A i \in DOMAIN anTags.values : Comma \notin ToSet(anTags.values[i])) =>
        ToSet(TrimmedParts(Split(anTags.sent, Comma))) = ToSet(TrimmedParts(anTags.values))

\* What was captured arrives: in its place, and the tags as they were.
ReleasesArriveIntact == ReleasesKeepTheirPlace /\ TagsComeBack
=============================================================================
