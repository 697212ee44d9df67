SPECIFICATION BotSpec
CONSTANTS
    Followed = {"start", "add", "replies", "telegram", "slack", "link", "poller",
                "options", "announcing", "summary", "digest", "irchold"}
    show = show
    film = film
    tag = tag
    free = free
    anyShow = anyShow
    anyFilm = anyFilm
    goodTag = goodTag
    NoPattern = NoPattern
    Patterns = {anyShow, anyFilm, goodTag}
    Texts = {show, film, free}
    Hits <- TheHits
    Fields = {tag}
    irc = irc
    chat = chat
    Loops = {irc, chat}
    Reader = irc
    Announces <- TheAnnounces
    Configs <- TheConfigs
    Clients = {"rTorrent", "qBittorrent"}
    ClientKinds = {"rTorrent", "qBittorrent", "Flood"}
    ClientMaxRetry = 3
    BanAfter = 3
    LineBudget = 6
    MessageBudget = 12
    MaxMessages = 2
    NoteSize = 3
    Words <- TheWords
    Libraries <- TheLibraries
    LineLimits = {0, 3}
    Kinds = {"command", "stranger", "blank"}
    Listings <- TheListings
    RetryMin = 1
    RetryMax = 2
    MaxUpdates = 3
    MaxRestarts = 1
    Frames = {"command", "stranger", "chat", "other"}
    SlackRetryMin = 1
    SlackRetryMax = 2
    MaxEnvelopes = 2
    MaxInbox = 2
    MaxSlackStops = 1
    MaxBreaks = 1
    ReconnectMin = 1
    ReconnectMax = 4
    StableConnection = 3
    AttemptMax = 2
    LinkHorizon = 14
    Torrents = {a}
    Paths = {p}
    PolledClients = {"rTorrent", "qBittorrent", "Flood"}
    GroupNames = {"name", "id", "file", "key", "tags", "group"}
    Owners = {"owner", "nobody"}
    Nobody = "nobody"
    Files <- TheFiles
    MaxEdits = 3
    MaxItems = 4
    Values <- TheValues
    UrlTemplates <- TheTemplates
    MaxStem = 2
    DayLength = 4
    Changes = {5, 6, 7}
    SummaryHorizon = 11
    Events <- TheEvents
    Emails <- TheEmails
    Overrides <- TheOverrides
    MaxBuffer = 3
    HoldTimes <- OnOrOff
    MaxHold = 3
    HoldLimit = 3
    OutboxDepth = 2
    MaxAttempts = 3
    MaxMsgs = 2
INVARIANTS
    ReportsAreTrue
    RepeatIsSafe
    RepliesAccount
    CommandsRunOnce
    OutagesAreHandled
    PolledNewsIsToldOnce
    WhatRunsIsInForce
    FormattingIsTransparent
    ReleasesArriveIntact
    SummaryKeepsItsTime
    DigestTellsAll
    CopiesArePaidFor
PROPERTY DecisionsFollowRules
