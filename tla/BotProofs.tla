------------------------------ MODULE BotProofs ------------------------------
(***************************************************************************)
(* Seen from one of its parts, every behaviour of the bot is one of that   *)
(* part's own: so what TextProofs and PartsProofs show of the parts holds  *)
(* of the process, through panics, restarts and the others' turns.         *)
(***************************************************************************)
EXTENDS Bot, TextProofs, PartsProofs

\* A part begins as it would alone.
LEMMA PartsBegin ==
    BotInit => /\ Init /\ TelegramInit /\ SlackInit /\ LinkInit /\ PollerInit
               /\ OptionsInit /\ HoldInit /\ SummaryInit
               /\ AnnouncingInit /\ RepliesInit /\ DigestInit
BY DEF BotInit

\* What moves takes a step of its own.
OwnSteps(moved) ==
    /\ "add" \in moved => Next
    /\ "telegram" \in moved => TelegramNext
    /\ "slack" \in moved => SlackNext
    /\ "link" \in moved => LinkNext
    /\ "poller" \in moved => PollerNext
    /\ "options" \in moved => OptionsNext
    /\ "irchold" \in moved => HoldNext
    /\ "summary" \in moved => SummaryNext
    /\ "announcing" \in moved => AnnouncingNext
    /\ "replies" \in moved => RepliesNext
    /\ "digest" \in moved => DigestNext

\* Whichever step the bot takes, some parts take one of theirs and the rest
\* stands still.
LEMMA SomeMove == BotNext => \E moved \in SUBSET Parts : Only(moved) /\ OwnSteps(moved)
<1> SUFFICES ASSUME BotNext PROVE \E moved \in SUBSET Parts : Only(moved) /\ OwnSteps(moved)
  OBVIOUS
<1> USE DEF TelegramNext, SlackNext, LinkNext, PollerNext, SummaryNext, DigestNext
<1> DEFINE Own(part) == Only({part}) /\ OwnSteps({part})
<1>1. CASE World
  <2>1. \E part \in {"telegram", "slack", "poller", "summary"} : Own(part)
    BY <1>1, Zenon DEF World, OwnSteps
  <2> QED BY <2>1 DEF Parts
<1>2. CASE Turn
  <2>1. \E part \in Parts : Own(part)
    BY <1>2, Zenon DEF Turn, OwnSteps, Parts
  <2> QED BY <2>1
<1>3. CASE Crash
  <2>1. follow \in Rebuilt /\ Only({follow, "start"})
    BY <1>3 DEF Crash
  <2>2. OwnSteps({follow, "start"})
    BY <1>3 DEF Crash, OwnSteps
  <2>3. {follow, "start"} \in SUBSET Parts
    BY <2>1 DEF Rebuilt, Parts
  <2> QED BY <2>1, <2>2, <2>3
<1>4. CASE StartStep
  <2>1. Only({"start"}) /\ OwnSteps({"start"}) /\ {"start"} \in SUBSET Parts
    BY <1>4 DEF StartStep, OwnSteps, Parts
  <2> QED BY <2>1
<1> QED BY <1>1, <1>2, <1>3, <1>4 DEF BotNext

\* So a step of the bot is, for each part, one of its own or none.
LEMMA PartsStep ==
    [BotNext]_botVars =>
        /\ [Next]_vars /\ [TelegramNext]_tgVars /\ [SlackNext]_slVars /\ [LinkNext]_lkVars
        /\ [PollerNext]_plVars /\ [OptionsNext]_opVars /\ [HoldNext]_ihVars
        /\ [SummaryNext]_smVars
        /\ [AnnouncingNext]_anVars /\ [RepliesNext]_rpVars /\ [DigestNext]_dgVars
<1> SUFFICES ASSUME [BotNext]_botVars
             PROVE  /\ [Next]_vars /\ [TelegramNext]_tgVars /\ [SlackNext]_slVars /\ [LinkNext]_lkVars
                    /\ [PollerNext]_plVars /\ [OptionsNext]_opVars /\ [HoldNext]_ihVars
                    /\ [SummaryNext]_smVars
                    /\ [AnnouncingNext]_anVars /\ [RepliesNext]_rpVars /\ [DigestNext]_dgVars
  OBVIOUS
<1>1. CASE BotNext
  <2>1. PICK moved \in SUBSET Parts : Only(moved) /\ OwnSteps(moved)
    BY <1>1, SomeMove
  <2> QED BY <2>1 DEF Only, OwnSteps
<1>2. CASE UNCHANGED botVars
  BY <1>2 DEF botVars
<1> QED BY <1>1, <1>2

\* The bot is each of its parts.
THEOREM BotIsItsParts ==
    BotSpec => /\ Spec /\ TelegramSpec /\ SlackSpec /\ LinkSpec
               /\ PollerSpec /\ OptionsSpec /\ HoldSpec /\ SummarySpec
               /\ AnnouncingSpec /\ RepliesSpec /\ DigestSpec
BY PartsBegin, PartsStep, PTL
   DEF BotSpec, Spec, TelegramSpec, SlackSpec, LinkSpec, PollerSpec, OptionsSpec, HoldSpec,
       SummarySpec, AnnouncingSpec, RepliesSpec, DigestSpec

-----------------------------------------------------------------------------

\* An announcement is taken exactly when the rules in force want it, whatever
\* else the process does.
THEOREM BotDecides == BotSpec => DecisionsFollowRules
BY BotIsItsParts, DecisionsCorrect, PTL

\* What is told of an upload is true, and its repeat repeats nothing done.
THEOREM BotReports == BotSpec => [](ReportsAreTrue /\ RepeatIsSafe)
BY BotIsItsParts, ReportsCorrect, RepeatCorrect, PTL

\* A command is neither lost nor run twice, but where a restart, an ended
\* socket or a lost patience had it sent again.
THEOREM BotRunsCommands == BotSpec => []CommandsRunOnce
<1>1. NothingIsLost /\ OncePerSession /\ SlowCommandsRunOnce => CommandsRunOnce
  BY DEF CommandsRunOnce
<1> QED
  BY <1>1, BotIsItsParts, NothingIsLostCorrect, OncePerSessionCorrect, SlowCommandsCorrect, PTL

\* An outage is reported in time, and left behind with patience.
THEOREM BotHandlesOutages == BotSpec => []OutagesAreHandled
<1>1. OutagesAreReported /\ FlappingSlowsDown => OutagesAreHandled
  BY DEF OutagesAreHandled
<1> QED BY <1>1, BotIsItsParts, OutagesCorrect, FlappingCorrect, PTL

\* A finished download and a low disk are told once, through restarts of the
\* client, its outages and the bot's own.
THEOREM BotTellsOnce == BotSpec => []PolledNewsIsToldOnce
<1>1. FinishToldOnce /\ LowDiskToldOnce => PolledNewsIsToldOnce
  BY DEF PolledNewsIsToldOnce
<1> QED BY <1>1, BotIsItsParts, FinishedCorrect, LowDiskCorrect, PTL

\* The options in force are those that were accepted last.
THEOREM BotKeepsOptions == BotSpec => []WhatRunsIsInForce
BY BotIsItsParts, InForceCorrect, PTL

\* No copy of a held notification without an attempt to deliver it.
THEOREM BotPaysForCopies == BotSpec => []CopiesArePaidFor
BY BotIsItsParts, CopiesCorrect, PTL

\* The summary comes once a day at its time, through panics of the process too.
THEOREM BotKeepsSummary == BotSpec => []SummaryKeepsItsTime
BY BotIsItsParts, SummaryTimeCorrect, PTL

\* Formatting is transparent to the filters, wherever it stands in a line.
THEOREM BotReads == BotSpec => []FormattingIsTransparent
BY BotIsItsParts, AnnouncingReads, PTL

\* What was captured of a release arrives in its place, and its tags as they
\* were.
THEOREM BotKeepsReleases == BotSpec => []ReleasesArriveIntact
BY BotIsItsParts, ReleasesCorrect, PTL

\* An answer accounts for all of the library, however long that is.
THEOREM BotAnswers == BotSpec => []RepliesAccount
BY BotIsItsParts, RepliesCorrect, PTL

\* A digest tells of everything that is wanted, and of nothing twice.
THEOREM BotDigests == BotSpec => []DigestTellsAll
BY BotIsItsParts, DigestCorrect, PTL
=============================================================================
