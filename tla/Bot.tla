--------------------------------- MODULE Bot ---------------------------------
(***************************************************************************)
(* One process: its start, and the parts that `Irc2Torrent::start` and the *)
(* notifier keep going side by side until one of them panics, which ends   *)
(* them all; then the process is started anew, while the world goes on.    *)
(*                                                                         *)
(* The parts have nothing in common but that life.  So a behaviour follows *)
(* one of them, and the others stand still: what the bot does as a whole   *)
(* is, seen from any part, one of these behaviours.  What the parts do     *)
(* share, the connection, the options and the queues, is in the modules    *)
(* of SendQueue, IdentityGate, ConfigStore and Dispatcher.                 *)
(***************************************************************************)
EXTENDS StartUp, AddPath, Replies, Telegram, Slack, Link, Poller, Options,
        Announcing, Summary, Digest, IrcHold

CONSTANT Followed   \* the parts that an instance follows

VARIABLE follow     \* the part that is followed

Parts ==
    {"start", "add", "replies", "telegram", "slack", "link", "poller",
     "options", "announcing", "summary", "digest", "irchold"}

ASSUME BotAssumption == Followed \subseteq Parts

\* Those that keep something over a panic, or lose it.
Rebuilt == {"telegram", "slack", "link", "poller", "summary", "digest"}

botVars ==
    <<follow, suVars, vars, rpVars, tgVars, slVars, lkVars, plVars, opVars,
      anVars, smVars, dgVars, ihVars>>

\* What is not followed is in some state that it may begin in.
Running ==
    /\ suPhase = "running" /\ suAttempt = 1 /\ suServer = "up"
    /\ suKind = "rTorrent" /\ suValid = TRUE /\ suGuarded = FALSE /\ suRight = TRUE
    /\ suSession = FALSE /\ suRefused = 0 /\ suCost = 0

One(S) == {CHOOSE x \in S : TRUE}

BotInit ==
    /\ follow \in Followed
    /\ IF follow = "start" THEN StartUpInit ELSE Running
    /\ Init /\ (follow # "add" => /\ client \in One(Clients) /\ options \in One(Configs)
                                  /\ job[Reader].item \in One(Announces) /\ signedIn = FALSE)
    /\ RepliesInit
    /\ TelegramInit
    /\ SlackInit /\ (follow # "slack" => slResolved = TRUE)
    /\ LinkInit
    /\ PollerInit /\ (follow # "poller" => /\ plClient \in One(PolledClients)
                                           /\ \A t \in Torrents : plTorrent[t] = "absent"
                                           /\ \A p \in Paths : plDisk[p] = "fine"
                                           /\ ~plLive.finished /\ ~plLive.low
                                           /\ plLive.path \in One(Paths))
    /\ OptionsInit /\ (follow # "options" => opDisk = NoFile)
    /\ AnnouncingInit
    /\ SummaryInit /\ (follow # "summary" => smChange.at \in One(Changes) /\ smChange.by = 0
                                              /\ ~smLive.on /\ smLive.at = 0)
    /\ DigestInit /\ (follow # "digest" => /\ dgTargets \in One({Built(Backends, e) : e \in Emails})
                                           /\ dgFilter \in One(Overrides))
    /\ HoldInit /\ (follow # "irchold" => holdFor \in One(HoldTimes))

-----------------------------------------------------------------------------
\* Whatever a step moves, the rest stays.

Only(moved) ==
    /\ "start"      \notin moved => UNCHANGED suVars
    /\ "add"        \notin moved => UNCHANGED vars
    /\ "replies"    \notin moved => UNCHANGED rpVars
    /\ "telegram"   \notin moved => UNCHANGED tgVars
    /\ "slack"      \notin moved => UNCHANGED slVars
    /\ "link"       \notin moved => UNCHANGED lkVars
    /\ "poller"     \notin moved => UNCHANGED plVars
    /\ "options"    \notin moved => UNCHANGED opVars
    /\ "announcing" \notin moved => UNCHANGED anVars
    /\ "summary"    \notin moved => UNCHANGED smVars
    /\ "digest"     \notin moved => UNCHANGED dgVars
    /\ "irchold"    \notin moved => UNCHANGED ihVars
    /\ UNCHANGED follow

Live(part) == follow = part /\ suPhase = "running"

\* The world goes on, whether or not there is a bot.
World ==
    \/ follow = "telegram" /\ Writing           /\ Only({"telegram"})
    \/ follow = "slack"    /\ Service           /\ Only({"slack"})
    \/ follow = "poller"   /\ Around            /\ Only({"poller"})
    \/ follow = "summary"  /\ EditSummary       /\ Only({"summary"})

\* start(): the parts take turns.
Turn ==
    \/ Live("add")        /\ Next           /\ Only({"add"})
    \/ Live("replies")    /\ RepliesNext    /\ Only({"replies"})
    \/ Live("telegram")   /\ Polling        /\ Only({"telegram"})
    \/ Live("slack")      /\ Listening      /\ Only({"slack"})
    \/ Live("link")       /\ Reconnecting   /\ Only({"link"})
    \/ Live("poller")     /\ PollerSteps    /\ Only({"poller"})
    \/ Live("options")    /\ OptionsNext    /\ Only({"options"})
    \/ Live("announcing") /\ AnnouncingNext /\ Only({"announcing"})
    \/ Live("summary")    /\ Rounds         /\ Only({"summary"})
    \/ Live("digest")     /\ Telling        /\ Only({"digest"})
    \/ Live("irchold")    /\ HoldNext       /\ Only({"irchold"})

\* A panic takes all of them with it.
Crash ==
    /\ follow \in Rebuilt /\ Panic
    /\ \/ follow = "telegram" /\ RestartTelegram
       \/ follow = "slack"    /\ RestartSlack
       \/ follow = "link"     /\ RestartLink
       \/ follow = "poller"   /\ RestartPoller
       \/ follow = "summary"  /\ RestartSummary
       \/ follow = "digest"   /\ RestartDigest
    /\ Only({follow, "start"})

StartStep ==
    /\ IF follow = "start" THEN StartUpNext ELSE Starting \/ StartAnew
    /\ Only({"start"})

BotNext == World \/ Turn \/ Crash \/ StartStep

BotSpec == BotInit /\ [][BotNext]_botVars

\* Each part's own, while there is a bot: the runtime polls all of them, and
\* who is called again and again answers in the end.  Whoever started the
\* process starts it again.
BotFairness ==
    /\ WF_suVars(Starting \/ (follow # "start" /\ StartAnew))
    /\ WF_tgVars(Live("telegram") /\ Session)
    /\ SF_tgVars(Live("telegram") /\ PollAnswered)
    /\ WF_slVars(Live("slack") /\ (Listener \/ (slResolved /\ ResolveConversation)))
    /\ SF_slVars(Live("slack") /\ ((~slResolved /\ ResolveConversation) \/ OpenSocket))
    /\ \A id \in Envelopes : SF_slVars(follow = "slack" /\ DeliverEnvelope(id))
    /\ WF_plVars(Live("poller") /\ PollerSteps)
    /\ SF_plVars(Live("poller") /\ ListingAnswers)
    /\ WF_ihVars(Live("irchold") /\ (RetryOne \/ RetryTick))

FairBotSpec == BotSpec /\ BotFairness

-----------------------------------------------------------------------------
\* Properties.

\* Whatever is written over Telegram or Slack, with the bot up, down or out of
\* reach, is answered in the end: the command runs, or Slack was told it had
\* been received when the bot or the socket failed.  Commands that never return
\* and a socket that stays silent, which nothing in the bot ends, are left out.
CommandsAreAnswered == CommandsRun /\ SlackCommandsRun

\* No command over Telegram is lost, and none runs twice but for a restart; one
\* over Slack runs twice only where a socket ended or patience did.
CommandsRunOnce == NothingIsLost /\ OncePerSession /\ SlowCommandsRunOnce

\* An outage is reported and left behind with patience.
OutagesAreHandled == OutagesAreReported /\ FlappingSlowsDown

\* What the poller finds is told once.
PolledNewsIsToldOnce == FinishToldOnce /\ LowDiskToldOnce
=============================================================================
