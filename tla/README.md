# irc2torrent in TLA+

irc2torrent sits in an IRC announce channel, matches each announced release against a watchlist, hands what matches to
a torrent client, takes commands over IRC, Telegram and Slack, notifies its owner, and in the container images also
supervises the torrent client and its web interface as PID 1.

These modules model the parts of it that keep state across steps and across actors: what is queued, retried, held,
counted, timed, reloaded, restarted. TLC checks each on a small instance, TLAPS proves the central properties for every
value of the constants. `PROJECT.json` maps every definition to the lines it stands for.

Run a configuration with `tlc -config SendQueue.cfg MCSendQueue`, check a proof with `tlapm SendQueueProofs.tla`.

## 1. The system

One `#[tokio::main]` process on a multi-threaded runtime. Who runs:

| actor | what it is | touches |
| --- | --- | --- |
| main task | `main.rs`: the supervisor loop, or without children the bot alone; the bot is one `select!` over the IRC listener, the Telegram and Slack pollers and the completion poller, so these take turns at their awaits | everything in `Rc`/`RefCell`, options under a mutex |
| pacer | one spawned task per IRC connection (`spawn_pacer`) | the outbound channel, two atomics, the flood limit |
| dispatcher | one spawned task (`notify::start`) | event channel, targets, outboxes, the IRC link |
| watcher thread | OS thread of `spawn_options_watcher` | options, flood limit, `options.toml` |
| reaper thread | OS thread blocked in `waitpid(-1)` | channel of exits |
| pool threads | `tokio::fs::write` | `options.toml` |
| outside | IRC server, nicks, children and kernel, operator's editor, notification backends | |

### Components

| component | state it keeps | operations | what is hard | what makes it correct | module |
| --- | --- | --- | --- | --- | --- |
| outbound IRC queue (`irc_processor.rs` 230-411) | unbounded channel, epoch, reply counter, the pacer's window of send instants | `send`, `send_uninterruptible`, `cancel`, the pacer's loop | `stop!` is two atomics in the middle of the pacer's sleep; the limit is edited live; the socket dies first and tells later | rate kept, `stop!` effective at once, notifications never withdrawn, order kept | `SendQueue`, `OutboundPromise` |
| identity gate (`irc_processor.rs` 41-177, 471-1024; `auth.rs`) | commands parked per nick behind a WHOIS, failures and cooldowns, budget of checks | gate, park, 330, 318, sweep, drop | answers late, missing or of an older question; configuration edited between gate and check; loop held up | nothing authorized is lost in the gate; ignored nicks cost nothing; failures remembered; bounded rate; every batch settles | `IdentityGate` |
| IRC connection (`irc_processor.rs` 525-586, 1093-1142) | backoff, since when down, whether reported | connect, listen, back off | a link that drops as soon as it is up, attempts that take long | an outage is reported in time, and its end too; flapping slows down | `Link` |
| supervisor (`supervisor.rs`) | children, pid table, delays, the session lock, shutdown's outstanding set | spawn, reap, restart, clear lock, shut down, restart the bot | exits of children and orphans in any order through one channel, failing spawns, signal in any phase, another host on the same volume | exits charged to the right service, one process each, no stale lock that could be removed, loops slow down, shutdown exact and finite | `Supervisor` |
| start of the process (`main.rs`, `lib.rs`, the clients' `new`) | attempt, session with the client | load, connect, pause, wire | a server that is not up yet, refuses, bans or accepts and says nothing | a start ends; a wrong password costs one login | `StartUp` |
| configuration store (`config.rs` 1255-1612, 1808-1886, 1998-2033) | options in memory, `options.toml` | watchlist commands, watcher's reload | unsynchronized writers, truncation visible to the reader, compare and install under two locks, a file that cannot be read | memory and file agree when all is quiet, or the disagreement was reported | `ConfigStore` |
| options (`config.rs`) | what is in force, what was taken at the start | validate, load, reload, first start | checks that relate one part of the file to another; what is captured and what is read live | what runs fits what is in force until a restart is called for | `Options` |
| announce parsing and templates (`irc_format.rs`, `announce.rs`, `template.rs`, `platforms/`) | none | strip, capture, split, escape, render | codes next to text, values that are empty, of dots or with separators | the patterns see what a reader sees; values keep their place | `Announcing` |
| announce path (`torrent_processor.rs` 97-394, `platforms/http.rs`) and adding to a client (`clients/`) | what a decision has read so far, the session cookie | decide, download, upload, stamp, sign in, repeat | options edited in the middle of a decision, overriding rules, lost answers, a torrent handed over before it is parsed, sessions that expire under two loops | a release is taken exactly when the rules say so, reports are true, a repeat repeats nothing done | `Filters`, `AddPath` |
| command processor (`command_processor.rs`) | none | recognize, run, list, cap, pack | three transports with three limits | a reply is bounded, and counts what it leaves out | `Commands`, `Replies`; effects in `SendQueue`, `ConfigStore`, `AddPath` |
| chat transports (`transports/`) | Telegram's offset, Slack's socket and envelope in hand | poll, acknowledge, run, reply, back off | acknowledgements before or after the work, redelivery, a restart in between, a socket that falls silent | commands run, and run once but for stated exceptions | `Telegram`, `Slack` |
| notification dispatcher (`notify.rs` 180-255, 730-1400) | bounded channel, digest buffer, per target ceiling and outbox | send, digest, retry, summary, live reload | partial failure across targets, errors after the message has landed, retries among new digests, reload between them | a message lands no more often than it was tried, and no more once it was answered; ceilings; nothing held twice or retried for ever | `Dispatcher` |
| notification contents (`notify.rs` 1-470, 840-935) | targets, overrides | enable, group, render, flatten | one text out of subject and body; repeats | each event told where it is wanted, once, with its count | `Digest` |
| daily summary (`notify.rs` 880-1010) | the next appointment | appoint, send | clock changes, edits, wake-ups | once a day at its time | `Summary` |
| IRC notification backend (`notify.rs` 600-730) | link, owner's presence, hold queue | deliver, flush, presence | presence written by another task, two queues for one message | copies accounted for, held news settles | `IrcHold` |
| completion and disk poller (`notify.rs` 1403-1500, the clients' listings) | finished set, first-poll flag, disk flag | poll | rechecks and moves, failing polls, switches edited | a finish is news once, none of the history | `Poller` |
| logging, vendored `dxr` | none that is read back | | | | not modelled |

Interactions: the gate runs commands, whose replies go through the outbound queue; the dispatcher's IRC backend uses the
same queue uncancellably; connecting replaces the queue, the pacer and the link, and dropping settles the gate;
commands change the options, the watcher replaces them, and gate, dispatcher and pacer read them live; a panic of any
arm of the bot ends all of them, and the supervisor, or whoever keeps the process, starts the bot as a whole again
(`Bot`); what the supervisor and the bot have to report goes through the dispatcher.

## 2. The modules

Time is counted in ticks. An instant the code keeps becomes an age (how many ticks ago) or a countdown, and an age is
held at the largest value anything compares it with, so state spaces stay finite without a bound on time. Every
other bound is a constant commented `bound:`; guards use it only for counters that would otherwise grow without limit.
Variables marked `history:` are not in the code: they record what a property speaks of and guard nothing.

### SendQueue, OutboundPromise

`queue`, `epoch`, `pending` are the channel and the two atomics of `Outbound`; `pacer`, `cur`, `lim`, `nap`, `recent`
are the pacer's place in its loop and its locals; `limit` is the shared flood limit; `link` says whether the socket
still carries anything. Each access to something shared is its own action: `StopBump` and `StopAnswer` are the two
halves of `cancel`; `PacerRecv`, `PacerSkip`, `PacerAdmit`, `PacerRecheck`, `PacerSend` are the loop between its
awaits; `PacerSendLost` is a send on a connection that has gone, which counts as sent until the irc crate reports the
error and ends the task. `fetch_add` and `fetch_sub` wrap at `Word`.

`OutboundPromise` is the same queue as its users see it: messages accepted, withdrawn, delivered in order, and nothing
of epochs, limits or sleeps. `PromiseKept` says that SendQueue implements it under the refinement at the end of
the module: the message in hand heads the backlog, and an entry is void when the pacer would discard it.

### IdentityGate

`pending`, `cooldowns`, `used` and `sinceRoll` are the fields of `IrcProcessor`; `loop` is what the read loop is in the
middle of, because the watcher may edit `config` between the gate (`Arrive`) and the identity check (`TurnAway`,
`ParkBehind`, `ParkAndAsk`, `RunUnchecked`). `asked` are the questions the server still has to answer, in order; it may
name an account (`AccountReply`), end the answer (`EndOfWhois`) or never answer. A 318 names a nick and not a question,
and the module keeps that.

### Supervisor

`fate` and `owner` are the kernel's view of each pid, `reaped` the channel from the reaper thread, `byPid`, `child`,
`restartAt`, `backoff` the tables of the loop. The arms of `select!` are `Restart`, `ReadExit`, `BotReturns`,
`BeginShutdown`; `ReadExitStopping` and `EndShutdown` are the loop of `shutdown`. `lock` is the session lock: none, a
pid of this host's rTorrent, one left behind (`Stale`), one left behind that could not be read or removed just now
(`Tried`), another host's. A pid is not reused before its exit has been read (it would take a whole turn of the pid
space in microseconds), and only as many orphans arrive as there are pids.

### Dispatcher

`job` is where the task stands: at the top of its loop (`Refresh`), in `select!` (`Recv`, `Flush`, `RetryTick`,
`SummaryDue`), or delivering to one target after the other, which awaits, so that events, edits and time come in
between. `RetryOutbox` takes an outbox out for a round of retries and `Resend` awaits one of its messages after the
other. An error tells the bot nothing of what has landed (`Unanswered`): the answer was late or lost, or only the first
pieces of a long message went out. `landed` counts the copies at the backend, `heard` is what it answered for. An event
is a number; its kind matters only as "a test" or not, its switches as two (news, summary).

### IrcHold

One attempt of the dispatcher on the IRC backend (`deliver`, with the flush that precedes it), the retry round over the
outbox, and the main task's writes of link and presence. A message counts as written once it is on the connection's
queue: what becomes of it is SendQueue's.

### ConfigStore

Commands of two transports, `mutate_options` up to its await, the write as truncation and write by a pool thread, the
operator's saves in place and by renaming, and the watcher thread between its lock acquisitions. A file is a list of
patterns, empty, one that does not load (parsing and validation are that one question), or one that cannot be read as
text at all (gone, not permitted, not UTF-8). A write over what another writer put there since may leave the end of the
longer text, cut perhaps within a character.

### Filters, AddPath

`Filters` is `decide`: a pattern is known by the texts it hits, lists are sets, because their order picks only the
pattern a log line names. `Wanted` states field by field what the configuration promises, and does not mention the
order of the code's loops.

`AddPath` is `fetch_and_add` for every arm of the bot's `select!`: `job` says where each loop is.
`do_we_want_this_torrent` takes four locks (`ReadWatches`, `ReadRejects`, `ReadRequires`, `ReadFiltersAndDecide`) and
`EditOptions`, the watcher thread's, may come between any two. `AddRtorrent`, `Stamp`, `AddQbittorrent`, `Login`,
`KeepCookie`, `Retry` are the calls to the client, each of which may fail or lose its answer after it took effect. A
session is known by whether it lives: `signedIn` for the cookie in the jar, `issued` for one a login's answer is just
bringing. What is left out: parsing of announce lines, the URL, and the copy of the `.torrent` kept on disk. `sound`
says whether the bot can parse what the tracker sent; what the client makes of it is its own affair, and rTorrent is
handed it before the bot looks.

### StartUp

`get_torrent_client` with its attempts and pauses, what each client's `new` asks of its server, and the sessions of
qBittorrent then and later. The server is up, down or silent; it asks for a login or not; the password is its own or
not; all of it may change at any moment (`Outside`). `suRefused` is qBittorrent's own count, which bans the address.
Flood signs in without a timeout, so a silent server holds the start-up (`"hung"`) until it speaks.

### Options

A file is known by the names it uses: the groups that its announce pattern declares and the places that name a group
(captures, rules, entries, templates, the URL). `Complaints` lists the checks in the order of `from_data`; the first is
the one that is told. `opBuilt` is what tracker, client and transports took at the start, `opLive` what is in force;
`TakenAtStart` is what a reload warns about. How a file is written and read in pieces is `ConfigStore`'s.

### Commands, Replies

`Commands` turns a message into the name of what it asks for, and a listing into lines: `CutShort` and `Capped` for IRC,
`Packed` and `Chunks` for the chats (`Pack` is the loop's body). A line is known by its size. `Replies` has one message
and its answer (`Capping`: on IRC only listings and the help are cut, the single lines of the other commands go as they
are), `Telegram` and `Slack` use the same operators for the replies they send message by message.

### Telegram, Slack

`tgKept` is the server's memory: an update is kept until a poll asks from beyond it, so the offset in `tgOffset`
acknowledges one poll late. `tgNext` is the place in the batch. `RestartTelegram` may come at any await.
`slSocket`, `slInbox`, `slHand` are Slack's stream and the envelope being handled, which is acknowledged before it
runs; Slack delivers it on each new socket until then, and again on the same socket when the listener has been kept from
reading. `slExcused` and `slLost` record those two. A socket whose other end is gone without a word is
`"silent"`: neither frame nor error comes until the system gives it up (`SilenceEnds`).

### Link

`lkBackoff`, `lkDownFor`, `lkReported` are the locals of `start_listening`; an attempt takes time, a connection counts
as recovery once it held for `StableConnection`. One unit is the shortest delay.

### Poller

`plTorrent` is what the client is really doing with a torrent, `Row` how qBittorrent shows it, `IsComplete` the code's
test on that row. `plFinished`, `plSeeded`, `plWarned` are the poller's locals; options, torrents, disks and answers
change between any two of its steps.

### Announcing

Characters stand for what the code tells apart: control codes, digits, the comma, the dot, the slash, blanks and plain
letters. `StripFormatting`, `Trim`, `Split`, `Join`, `TagsFor`, `Escaped`, `Normalised` and `Stem` are the conversions a
line goes through on its way to a URL, a file name and a client's tags. A loop over a text is a function from one place
to the next (`rest` in `StripFormatting`, `upTo` in `Split` and `Normalised`). A template that itself says `.` or `..`
is left out of `ReleasesKeepTheirPlace` (`GoesUp`): whoever wrote it wants to go up there.

### Summary, Digest

`Summary` is the appointment: instants and what the clock reads then differ by an offset that changes once. A unit of
time is the length of the stretch that the clock skips or repeats. `Digest` is what a notification says and to whom:
`EnabledBy` resolves overrides field by field, `Key` says which events are repeats, `Rendered`, `Subject` and
`FlatLines` make one text of them; an event may have several lines, and two events of one key may differ in that, in
which case the line of the first stands for both. `DigestTellsAll` allows a line to stand twice only where it is all the
digest has and has several lines itself, which is what `DigestToldOnce` shows to happen.

`Selecting` is used by these two and by `Announcing`: what stays of a sequence when only some of its places are wanted.

### Bot

One process. `StartUp` has its life; the other parts live while it is `"running"`, and `Crash` ends them with a panic.
Within these modules the parts share no variable: what they do share in the code is the subject of `SendQueue`,
`IdentityGate`, `ConfigStore` and `Dispatcher`. So `follow` names the one part a behaviour looks at while the others
stand still: every behaviour of the whole bot, projected on one part and the process's life, is such a behaviour up to
stuttering, and the properties speak of one part each.

## 3. What the runs check

| run | instance | properties |
| --- | --- | --- |
| `SendQueue` | two limits (one per two ticks, two per three), three messages of either kind, two `stop!`s, one dropped connection | `BurstBound`; `AtMostOneStraggler`; `PromiseKept` (refinement); `NotificationsLeave` (liveness) |
| `IdentityGate` | two nicks, four configurations (either owner, by nick or password, checking on and off), two checks a minute, two failures to a cooldown, commands that hold up the loop | `CoolingIsSilent`, `FailuresAreRemembered`, `WhoisRateBounded`; `EveryBatchSettles` (liveness) |
| `Supervisor` | rTorrent and Flood, three pids, spawns that fail, another host's lock, locks that cannot be read or removed | `ExitsAreMatched`, `OneProcessPerService`, `NoStaleLock`, `LockIsRespected`, `CrashLoopsSlowDown`, `ShutdownIsExact` |
| `SupervisorLive` | the same, spawns succeed | `AllComesBack`, `ExitsAreRead`, `ShutdownEnds` |
| `Dispatcher` | two targets, one of which a reload leaves alone and the other comes and goes, a digested event, a test, a summary, three attempts, a channel and outboxes of one | `OnlyRetriesRepeat` (`RepeatsAreRetries`, `HeardIsFinal`), `CeilingHolds`; `NothingLingers` (liveness) |
| `ConfigStore` | two transports, two patterns, two commands, two saves, writes that fail, files that cannot be read | `SettledAgrees`, `SavesTakeEffect`, `BadFilesAreReported` |
| `Bot` | all parts (below) | `DecisionsFollowRules`, `ReportsAreTrue`, `RepeatIsSafe` (add path); `RepliesAccount`; `CommandsRunOnce` (Telegram, Slack); `OutagesAreHandled` (link); `PolledNewsIsToldOnce`; `WhatRunsIsInForce` (options); `FormattingIsTransparent`, `ReleasesArriveIntact`; `SummaryKeepsItsTime`; `DigestTellsAll`; `CopiesArePaidFor` (hold) |
| `BotLive` | start, Telegram, Slack, poller, hold | `StartUpSettles`, `CommandsAreAnswered`, `FinishIsTold`, `HeldNewsSettles` |

In `Bot`, the add path has two loops of which one reads announcements, three releases, three rule sets and either
client; replies have every command of the table and some that are none, three libraries and two line limits; Telegram
has three updates and a restart; Slack two envelopes, a broken socket and a restart; the link has delays of one to four
units and attempts of up to two; the poller one torrent, one path and any of the three clients; the options seven files,
three edits and a first start without any; announcing has lines of up to four items and values of up to two characters;
the summary has three days and a change of the clock by one unit either way, or none, before, at or after the time; the
digest has seven events, a buffer of three and five backends; the hold has two messages and three attempts. `BotLive`
follows the parts with a promise that takes time, each a little smaller, because TLC's check of liveness is dearer.

Four runs end in a counterexample: the code does something its documentation, a comment or a test denies.

* `SupervisorDownMeansDue`: a spawn that fails is logged and nothing else (`supervisor.rs` 591); no exit will ever come
  of it, so nothing schedules another attempt. README: "restarts children with capped backoff".
* `DispatcherSuppressed`: `allow` zeroes the suppressed count with the window it counts in (`notify.rs` 780), just
  before the message that was to report it. README: "Nothing is silently lost: the next message that goes out says how
  many were suppressed."
* `IrcHoldDeliveredOnce`: a message for an absent owner is held and reported as failed, so the dispatcher keeps it too;
  each retry holds it again and the owner gets every copy.
* `DigestToldOnce`: `flat_lines` compares each single line of the body with all that the subject carries
  (`notify.rs` 863), so an event of several lines, such as a reload refused for its TOML, is sent twice over to the
  transports without a subject. Comment: "Dropping the body line the subject already carries is exact rather than
  heuristic."

### Bounds

They are the smallest at which the mutants of `PROJECT.json` are all caught and each counterexample above exists. A
queue of three messages holds one in hand, one withdrawn and one spared; two limits allow an edit both ways; a word of
eight wraps within two `stop!`s. Two failures to a cooldown and two checks to a budget make "one short of it" and "at
it" different states. Three pids are one per service and one for an orphan or a successor. Channel and outboxes of one
entry are full at once. Delays of one and two ticks distinguish the first delay from the doubled and capped one.
`ConfigStore` needs a command of each transport and a save to have every pair of writers overlap. Three attempts let a
message fail again before it lands or is given up. The digests of `Dispatcher` have one event: of larger ones, of which
a part may land, the theorem `OnlyRetriesCorrect` speaks. The add path has two loops, so that two sign in
at once, and rule sets in which a global rule is overridden, two entries match or name the same field, and a reject eats
what an entry wanted; its one field is there, absent, or matched by a rule that forbids it. A ban after three refused
logins and three attempts let a start-up reach either end first. Three updates are one handled, one in hand and one to
come. `LinkHorizon` lies beyond the moment a report is due. One torrent is enough for the poller, whose sets treat
torrents apart; a recheck, a move and an error are states of their own. Four items are the longest code with a comma
between two characters.

`CHECK_DEADLOCK FALSE` is said where the system stops: the supervisor when it has gone, the store when the bounded
commands and saves are used up and nobody edits the file.

The type invariants of the modules are proved for every instance; the configurations list properties of the behaviour
only.

### Fairness

* `SendQueue`: the runtime polls the pacer (`WF` of its step) and time passes. Nobody has to send, stop or reconnect.
* `IdentityGate`: a gate that was asked decides, sweeps that are due are served, time passes, an edit is not assumed.
  The server need not answer. No command is assumed to return: the download (`platforms/http.rs` 143) and the requests
  to Flood (`clients/flood.rs` 31) and rTorrent (`clients/rtorrent.rs` 279) have no timeout. `EveryBatchSettles` is
  conditional instead: it excludes the behaviours in which one command keeps the loop for ever.
* `Supervisor`: the reaper thread is scheduled, the task is polled, and `select!` picks ready branches at random, so a
  branch that is ready again and again is taken (`SF` of `BeginShutdown`); `SF` of time, which start-up may interrupt.
* `Dispatcher`: a delivery ends, with success or an error (each backend has a timeout), intervals keep firing,
  `select!` serves an arm that keeps being ready (`SF`).
* `ConfigStore`: pool threads carry out the writes, the watcher thread runs, and an arm that began a removal ends it.
* `Bot`: each arm is polled while there is a bot (`WF` of its own steps), the process is started again after a panic,
  and a service that is asked again and again answers in the end (`SF` of `PollAnswered`, `OpenSocket`,
  `ResolveConversation`, `DeliverEnvelope`, `ListingAnswers`). Bots and sockets fail a bounded number of times; nobody
  has to write, finish, edit or mend anything. As above, no command is assumed to return, and a silent Slack socket need
  not end, which the bot would never notice: it opens and reads without a timeout and sends no pings
  (`transports/slack.rs` 353, 360). `CommandsAreAnswered` says what holds unless a command runs, or silence lasts, for
  ever. In `StartUp` the outside is never fair: a server that is down may stay
  down, and a start must end all the same.

## 4. What is proved

TLAPS, for every value of the constants that satisfies the modules' assumptions. `TextProofs` (announces,
releases, replies, digests) and `PartsProofs` hold a section for each of the parts of the bot, `BotProofs` puts them
together; the other proof modules are each about the module they are named after.

| theorem | says | by |
| --- | --- | --- |
| `SendQueueProofs!TypeCorrect` | every variable keeps its type; the counter stays a machine word | `TypeOK` is inductive |
| `SendQueueProofs!StragglerCorrect` | `AtMostOneStraggler` | `StragglerInv` (with `Stamped`: no message bears a later epoch than the current one): everything a `stop!` withdrew bears an older epoch, so no look lets it pass; once one straggler has left, the message past its second look was queued later |
| `SendQueueProofs!BurstCorrect` | `BurstBound`, however the limit is edited | `BurstInv` |
| `SendQueueProofs!PromiseCorrect` | `PromiseKept`: the queue implements `OutboundPromise` | one lemma per action and the step of the promise it is |
| `IdentityGateProofs!GateAgrees`, `GateCorrect` | the gate never declines what the check would authorize | case analysis of the two functions of `auth.rs` |
| `IdentityGateProofs!CoolingCorrect`, `FailuresCorrect` | `CoolingIsSilent`, `FailuresAreRemembered` | `IInv`, their conjunction with the types they need |
| `IdentityGateProofs!TypeCorrect`, `RateCorrect` | every variable keeps its type; `WhoisRateBounded` | `WindowInv` |
| `SupervisorProofs!SupTypeCorrect`, `MatchedCorrect`, `OneProcessCorrect`, `StaleLockCorrect`, `ShutdownCorrect`, `LockCorrect`, `CrashLoopsCorrect` | all the safety of `Supervisor`, its two action properties included | `SupInv` |
| `DispatcherProofs!TypeCorrect`, `CeilingCorrect`, `RepeatsCorrect`, `HeardCorrect`, `OnlyRetriesCorrect` | every variable keeps its type; `CeilingHolds`; `RepeatsAreRetries` and `HeardIsFinal`, together `OnlyRetriesRepeat`, whatever of an unanswered delivery lands | `Ceilings`, `EventInv` |
| `ConfigStoreProofs!TypeCorrect` | every variable keeps its type; what runs is a list that loads | `TypeOK` is inductive |
| `ConfigStoreProofs!SettledCorrect` | `SettledAgrees` | `Heard` |
| `TextProofs!DecideIsRight` | for any announce and rules, `Decide` says "wanted" exactly when `Wanted` holds | a veto is the failure of some field's rules (`VetoByField`) |
| `TextProofs!AddTypeCorrect` | every variable keeps its type | `TypeOK` is inductive |
| `TextProofs!DecisionsCorrect` | `DecisionsFollowRules` | `ReadInv`: every part a loop has read comes from a file in force since it began; with one such file, `DecideIsRight` |
| `TextProofs!ReportsCorrect` | `ReportsAreTrue` | `ReportInv`: what has been taken, place by place |
| `TextProofs!RepeatCorrect` | `RepeatIsSafe` | `ReportInv`, and `SessionInv`: while no session has ended, every cookie on its way is a live one |
| `TextProofs!AnnouncingReads` | `FormattingIsTransparent`, for lines of any length | `CodeIsRead`: every code that was typed is read as one and to its end, every character as text; `StrippedIs` goes from one to the next |
| `TextProofs!ReleasesCorrect` | `ReleasesArriveIntact`, for any values, templates and lengths of names | `FilledIs`: a segment is one of dots only where the template says so; `RoundTrip`: a list joined and split again has the same written parts |
| `TextProofs!RepliesCorrect` | `RepliesAccount`, for any library and limits | `RepliesInv`: a reply is the answer to what was asked; `CappedIs` and `ChunksAre`: what each transport makes of lines |
| `TextProofs!DigestTypeCorrect`, `DigestCorrect` | every variable keeps its type; `DigestTellsAll`, for any events and overrides | `OneLineEach`: of each key one line, with its count; `FlatLinesAre`: which lines one text keeps |
| `PartsProofs!OptionsTypeCorrect`, `InForceCorrect` | `WhatRunsIsInForce`, for any files and names | `OptionsInv`: what is in force was accepted, and was taken at the start as far as it is taken there; `AcceptedResolves`: a list of checks is empty only if each is, the one of the placeholders among them |
| `PartsProofs!PollerTypeCorrect`, `FinishedCorrect`, `LowDiskCorrect` | the two parts of `PolledNewsIsToldOnce` | `NewsInv`: what was told is finished and remembered; `ListedIsFinished`: each client lists exactly what has finished; `DiskInv` |
| `PartsProofs!TelegramTypeCorrect`, `NothingIsLostCorrect`, `OncePerSessionCorrect` | the Telegram half of `CommandsRunOnce` | `CursorInv`: a poll follows a batch that is done; `RunsInv`: what lies behind the cursor or is forgotten has run, what has run in this session lies behind the cursor |
| `PartsProofs!SlackTypeCorrect`, `SlowCommandsCorrect` | the Slack half of `CommandsRunOnce` | `PostedInv`, `OnceInv` |
| `PartsProofs!LinkTypeCorrect`, `OutagesCorrect`, `FlappingCorrect` | the two parts of `OutagesAreHandled` | `SilenceInv`, `FlappingInv` |
| `PartsProofs!HoldTypeCorrect`, `CopiesCorrect` | `CopiesArePaidFor` | `HoldBooks` |
| `PartsProofs!SummaryTypeCorrect`, `SummaryTimeCorrect` | `SummaryKeepsItsTime` | `NextIsFirst`: `next_summary_after` answers the first appointment after now; `NextInv`, `KeptInv` |
| `PartsProofs!StartUpTypeCorrect`, `LoginsCorrect` | at most `ClientMaxRetry` attempts, and one refused login, per start-up | `StartUpInv`: a refused login is final |
| `BotProofs!BotIsItsParts` | every behaviour of the process, with its panics and restarts, is one of each part's own specification | `SomeMove`: whichever step the bot takes, some parts take one of theirs and the rest stands still |
| `BotProofs!BotDecides`, `BotReports`, `BotRunsCommands`, `BotHandlesOutages`, `BotTellsOnce`, `BotKeepsOptions`, `BotPaysForCopies`, `BotKeepsSummary`, `BotReads`, `BotKeepsReleases`, `BotAnswers`, `BotDigests` | what run `Bot` checks of these parts holds of the whole process | `BotIsItsParts` and the theorem about the part |

The invariants that the runs check are seldom inductive.

* `BurstBound` speaks of the sends, the pacer decides by `recent`. `BurstInv` adds that `recent` is, entry by entry, the
  most recent part of the sends of this connection; that what the pacer forgot is at least `MinWindow` old; that it
  holds at most `MaxBurst`; and that a pacer that waits holds a nap long enough for the oldest entry, which it then
  releases, to be that old (`WaitCovers`).
* `PromiseKept`: the refinement mapping shows the message in hand at the head of the backlog, and void unless the pacer
  is past its second look. So receiving, waiting and looking again must change nothing that is seen
  (`PacerKeepsPromise`), skipping must be `Forget` (its head is void) and sending must be `Deliver` (its head is not). A
  `stop!` must void all but the notifications and the one message past its second look: that takes `Stamped`, since only
  a message of an epoch that is not ahead can be overtaken. The invariant also says that a dead pacer has no connection
  and no queue.
* `WhoisRateBounded` and `CeilingHolds` count over a sliding minute or hour what the code counts in fixed windows.
  `WindowInv` and `Ceilings` split the history in two: those at the front are at most a budget and at least as old as
  the present window, those at the back are at most what this window has counted.
* `SettledAgrees` says nothing while the watcher works. `Heard` says that when no write is to come and no event is
  unheard, then either the watcher rests and has dealt with the file, or what it has read is the file as it is now.
* The supervisor's properties rest on one another. An exit is charged to the right service because until the shutdown
  the tables and the kernel agree (`TableInv`), exits wait in the channel only once and only of pids that are not free
  (`ReaperInv`), and what is due to be restarted has no process. What has not been started yet has none either
  (`StartInv`), so no start makes a second one (`OneInv`). A lock that names a pid names a running rTorrent (`LockInv`);
  the delay that is left and the time since the last start make up the last delay (`PaceInv`); from the first signal on,
  what is outstanding is what the kernel still knows of the services (`DownInv`).
* `RepeatsAreRetries` says nothing of events under way, and `HeardIsFinal` nothing of where else an event is. `EventInv`
  says that an event ahead of its delivery is in one place (`Upstream`), and that what is being delivered has left the
  queue and has not reached those targets that are still to get it (`Flowing`). What has reached a target and is not
  held there is done with, so no copy of it can follow.
* `PolledNewsIsToldOnce` needs to know why a torrent that has been told is not told again after a recheck: `NewsInv`
  keeps it in `plFinished` for as long as it is not unfinished, which is what `ListedIsFinished` says of the clients'
  answers.
* `CommandsRunOnce` speaks of the servers' memory and the runs. For Telegram, `CursorInv` and `RunsInv` connect them
  through the offset. For Slack, `OnceInv` says that an envelope without an excuse is on one socket and there once, that
  its command has not run while it waits, and that what was read from a socket that is still up is acknowledged.
* `OutagesAreReported` bounds the time since the connection was lost, the code measures from when it noticed.
  `SilenceInv` relates the two at each stage. `FlappingSlowsDown` sums delays that have passed; `FlappingInv` adds the
  delay that is being slept, and that the next one is at least the doubled one.
* `CopiesArePaidFor` would break if one message were in the outbox twice, or in it and in the round of retries:
  `HoldBooks` says that it is not, and that its attempts are counted.
* `SummaryKeepsItsTime` counts what has come by now, the code holds one appointment. `NextInv` says that this is one of
  the time in force, and overdue by a unit at most; `KeptInv` that all before it were kept, in order, and had come. That
  no second one falls due in the meantime (`FallsApart`) holds for days of three units or more: on a day of two, of
  which the clock skips one, two appointments can be missed in one nap and only one is kept, so the module assumes three
  (a day has 24 of the stretches a clock is put forward by).
* `FormattingIsTransparent` compares what comes of the characters with what was meant by the items. That a code is read
  to its end and no further depends on what follows it: digits after a reset, or a comma and digits after a colour, are
  taken for part of it, which is `Ambiguous`. Every other pair of neighbours is a case of `CodeIsRead`; with it, the
  text that is left from an item on is what a reader sees of it, followed by what is left from the next one on.
* `ReleasesArriveIntact`: a path loses or moves a segment only if the segment is one of dots. A value that is empty or
  of dots is refused, what `Escaped` makes of any other keeps its length and adds no dot, so a segment with a value in
  it is one of dots only if the value was (`FilledIs`), and without such segments `Normalised` changes nothing. For the
  tags, splitting what was joined gives the values back as long as no value has a comma (`JoinedIsSplit`); trimming
  twice is trimming once, and leaving out what repeats leaves the same set.
* `RepliesAccount`: while lines are packed, the closed messages and the open one, put behind one another, are the lines
  so far, and each is within the budget (`PackKeeps`). So what the kept messages carry is a beginning of the listing,
  and the note counts the rest. A line that is cut keeps its number, and the note itself fits a message, which is what
  `NoteSize <= MessageBudget` assumes.
* `DigestTellsAll`: the first events of their keys are one for each key (`OneLineEach`), and a backend's part of the
  buffer is all it wants. In one text, the subject is there only for a single line, which the body keeps only if that
  has several (`FlatLinesAre`).

The proofs rest on the modules' assumptions, which TLC evaluates: limits, delays, depths and budgets are numbers of at
least one where the code's types or checks make them so, a shortest delay is no longer than the longest, and the names
that stand for "none" are none of the sets' own. Texts are sequences of characters, a template's segments are literals
and fields, and the line that counts what was left out is not longer than a message. The supervisor's adds that
`Order` names no service twice and that the values of the lock that are not pids are none of them; the dispatcher's
adds that a reload never changes what is pinned.

The proofs about the parts are about their own specifications (`TelegramSpec`, `PollerSpec`, ...), in which a part may
be restarted at any moment; `BotIsItsParts` carries them over to the process. The library's induction theorems take an
operator as a parameter, which the provers here cannot instantiate. So the inductions argue from the least element of
the set of counterexamples: `StepByStep` (`TextProofs`) says once that a set with 0 in it, and with n + 1 for each n
in it, has every number. On it rest `Iterates` (a function that is computed from one place to the next exists),
`SameAll` (and is the only one), and what flattening, selecting, splitting, packing and stripping give for sequences
of any length; `DelaysDouble` and `DelaysAddUp` (`PartsProofs`) are of the same kind. This is why the models write
loops as functions on an interval.

What stays with TLC:

* Liveness under fairness (`NotificationsLeave`, `EveryBatchSettles`, `AllComesBack`, `ExitsAreRead`, `ShutdownEnds`,
  `NothingLingers`, `SavesTakeEffect`, `BadFilesAreReported`, and all of `BotLive`): the provers here have no rules for
  `ENABLED`, which fairness is about.

## 5. Seen beside the runs

Modelling made these visible. The modules contain the behaviour; no run states a property of it.

* `cancel` zeroes `pending` while the withdrawn messages are still queued, and the pacer decrements it for each of them
  (`irc_processor.rs` 318, 352): the counter wraps, and the next `stop!` reports a number near 2^64.
* After the flood limit is lowered, the pacer frees one slot per send (`irc_processor.rs` 385): a message leaves with
  more than the new limit still in its window. `BurstBound` states what does hold: the loosest limit.
* `WhoisBudget` is a fixed window, not the rolling one its comment names: two budgets meet at its edge.
  `WhoisRateBounded` is the bound that holds.
* A 318 that answers an expired batch settles the younger batch of the same nick (`irc_processor.rs` 645).
* A stale session lock stays when it cannot be read, when the host has no name, or when removing it fails
  (`supervisor.rs` 638, 647, 658): rTorrent is then started into it and exits, and the next restart tries again.
  `NoStaleLock` allows the lock for that one start.
* A SIGTERM during start-up meets no handler and is discarded by the kernel (`supervisor.rs` 544).
* A message from the outbox is written whatever its age, and a hold time of zero does not drop it (`notify.rs` 1181).
* `reload_options` compares and installs under two locks; a command in between is undone until its own write is heard
  of, and a second command in that window builds on the older list (`config.rs` 1607).
* `remove_torrent_from_watchlist` looks up and removes under two locks, with the watcher thread free to install another
  list in between (`torrent_processor.rs` 518).
* `mutate_options` drops the error of a failed write (`config.rs` 1878).
* An edit between two of a decision's four locks mixes two files: a release may be taken that neither of them wants
  (`torrent_processor.rs` 333). `DecisionsFollowRules` states what remains true then.
* The download of a `.torrent` has no timeout (`platforms/http.rs` 143) and is awaited where the IRC connection is read,
  and neither have the requests to Flood (`clients/flood.rs` 31) and rTorrent (`clients/rtorrent.rs` 279); qBittorrent's
  have one for that very reason (`clients/qbittorrent.rs` 33).
* rTorrent is handed a download before the bot parses it (`clients/rtorrent.rs` 181). If rTorrent takes what the bot
  cannot parse, the add is reported as failed although the torrent runs (`Unparsed` in `ReportsAreTrue`); the comments
  there promise true reports of stamping and tagging only.
* A notification whose delivery ends in an error may have arrived, wholly or in its first pieces: a timeout, a server
  that fails after it accepted, a chat that refuses the second piece (`transports/telegram.rs` 148,
  `transports/slack.rs` 207). It is repeated as a whole with each retry, up to `MAX_ATTEMPTS` times. `RepeatsAreRetries`
  bounds the copies.
* `max_per_hour` is no "hard ceiling per backend" (README) and no "hard per-hour ceiling" (`notify.rs` 12): it bounds a
  fixed window, so that two ceilings of messages meet at its edge, and first attempts only, since retries bypass it on
  purpose (`notify.rs` 1192). `CeilingHolds` is the bound that holds: of first attempts, and of twice the number.
* `reload_options` passes over a file that cannot be read (not UTF-8, not permitted, gone) with a debug line
  (`config.rs` 1537): what runs then differs from what was saved, and nobody is told, while the README says that a file
  that fails to parse is rejected, and that this is sent to the owner. `SettledAgrees` and `BadFilesAreReported` speak
  of files that can be read.
* An upload whose answer is lost is reported as failed although the client has it; the next announcement of the
  release is then refused as a duplicate and reported as failed again.
* A session that ends while the answer that brings it is on the way leaves a dead cookie in the jar after a live one;
  the request then fails once more and is not repeated a second time (`clients/qbittorrent.rs` 206).
* `notify::global()` keeps the first dispatcher after the bot has been rebuilt
  (`notify.rs` 1364): what the supervisor reports from then on follows options that nobody reloads.
* A command that waits for the torrent client runs inside an arm of the read loop (`irc_processor.rs` 502): no sweep and
  no PING is served meanwhile, and if the client, or the tracker of a download, never answers, none is served again.
  `EveryBatchSettles` is stated for commands that return.
* Slack: a socket that is half open is read for ever (`transports/slack.rs` 360), and opening one may hang as well
  (353): no command comes from Slack until a restart or until the system gives the socket up.
* Slack: an envelope that waits behind a slow command is delivered again and runs twice; a socket that is closed cleanly
  is opened again without a pause.
* Telegram: replies, also the refusal of a stranger, go to the owner's chat; `escape_code_block` lengthens a text after
  it was cut to its budget.
* A link that connects and drops within seconds clears `down_since` each time, so flapping is never reported
  (`irc_processor.rs` 561); it does slow down (`FlappingSlowsDown`).
* `disk_warned` is one flag for "low" and for "cannot be read", and for every path the option has named: the second is
  not told while the first stands (`LowDiskToldOnce` says what remains).
* A refused login ends a start-up after one attempt, but the supervisor starts anew and the running bot signs in with
  every poll, so qBittorrent's ban can be reached all the same; Flood's refusals are retried ten times, and its requests
  have no timeout.
* `telegram_owner` and `slack_owner` are documented as read per command (`config.rs` 1754), while `Authorization`
  captures them at the start (`auth.rs` 115). A reload that renames a group together with its template leaves the
  running template with a placeholder that never resolves, after the warning that a restart is needed.
* A rule on a reserved name passes the checks and then skips every release (`config.rs` 226).
* A tag with a comma in it becomes several for either client, although `encode_tags` says the comma must be encoded;
  `TagsComeBack` leaves such values out.
* `SummaryKeepsItsTime` leaves out a clock that is set back: in the seconds before the summary's sleep ends, that sends
  it twice. A summary that the hourly ceiling suppresses loses its totals, and only four of the counters are printed.

## 6. Plan

Done: every component that keeps state, and the conversions whose results it depends on; proofs of every safety property
of `SendQueue`, `IdentityGate`, `Supervisor`, `Dispatcher`, `AddPath`, `Options`, `Poller`, `Telegram`, `Slack`, `Link`,
`IrcHold`, `Summary`, `StartUp`, `Announcing`, `Replies` and `Digest`, and of the part of it that the process as a whole
keeps.

Next, in this order:

1. The composition of dispatcher, hold and send queue: what a notification goes through from the event to the wire.
2. The preparation of a container (`supervisor.rs` 237-424, 675-830): directories, ports, rTorrent's own file.
3. Flood's upload and the HTTP bodies' error texts, which `AddPath` and `StartUp` reduce to an answer or none.

Every invariant and every action property that a run checks is stated by a theorem; the composition of the first
point would bring the next ones.

### Not modelled

Log configuration, the vendored `dxr` (third party), XML-RPC and HTTP bodies (I/O), the regular expressions themselves
(a pattern is the set of texts it hits), message wording. The torrent clients are modelled by what the bot asks of them
and what it makes of their answers; the file a `.torrent` is copied to is known by its name only.
