------------------------------ MODULE PartsProofs ------------------------------
(***************************************************************************)
(* What each of the parts that Bot composes guarantees on its own, for all *)
(* values of its constants: StartUp, Telegram, Slack, Link, Poller,        *)
(* Options, IrcHold and Summary, in this order; TextProofs has the others. *)
(***************************************************************************)
EXTENDS StartUp, Telegram, Slack, Link, Poller, Options, IrcHold, Summary, TextProofs

-----------------------------------------------------------------------------
\* Starting the process.

\* A refused login ends its start-up, and a pause leaves an attempt to make.
StartUpInv ==
    /\ StartUpTypeOK
    /\ suCost = 0 \/ (suCost = 1 /\ suPhase = "panicked")
    /\ suPhase = "pause" => suAttempt < ClientMaxRetry

LEMMA StartUpInvInit == StartUpInit => StartUpInv
<1> SUFFICES ASSUME StartUpInit PROVE StartUpInv
  OBVIOUS
<1>1. {suValid, suGuarded, suRight, suSession} \subseteq BOOLEAN
  BY DEF StartUpInit
<1>2. suAttempt \in 0..ClientMaxRetry /\ suRefused \in 0..BanAfter /\ suCost \in 0..BanAfter
  BY StartUpAssumption DEF StartUpInit
<1> QED BY <1>1, <1>2 DEF StartUpInit, StartUpInv, StartUpTypeOK

\* What an attempt that fails leaves behind.
LEMMA AttemptEndsType ==
    ASSUME StartUpInv, NEW error, AttemptEnds(error)
    PROVE  /\ suPhase' \in {"panicked", "pause"}
           /\ error = "refused" => suPhase' = "panicked"
           /\ suPhase' = "pause" => suAttempt < ClientMaxRetry
<1>1. suAttempt \in Nat /\ ClientMaxRetry \in Nat
  BY StartUpAssumption DEF StartUpInv, StartUpTypeOK
<1> QED BY <1>1 DEF AttemptEnds, IsFinal, GivesUp

\* A request counts at most one refused login, and only when it says so.
LEMMA RequestType ==
    ASSUME StartUpInv, NEW outcome, Request(outcome)
    PROVE  /\ suSession' \in BOOLEAN /\ suRefused' \in 0..BanAfter
           /\ \/ suCost' = suCost
              \/ outcome = "refused" /\ suPhase = "connect" /\ suCost' = suCost + 1
<1>1. suRefused \in 0..BanAfter /\ BanAfter \in Nat /\ suSession \in BOOLEAN
  BY StartUpAssumption DEF StartUpInv, StartUpTypeOK
<1>2. CASE UNCHANGED suLogins
  <2>1. UNCHANGED <<suSession, suRefused, suCost>>
    BY <1>2 DEF suLogins
  <2> QED BY <1>1, <2>1
<1>3. CASE SignIn(outcome)
  <2>1. CASE outcome = "ok" /\ suSession' = TRUE /\ suRefused' = 0 /\ UNCHANGED suCost
    <3>1. suRefused' \in 0..BanAfter
      BY <1>1, <2>1
    <3> QED BY <2>1, <3>1
  <2>2. CASE /\ outcome = "refused" /\ ~Banned /\ suSession' = FALSE
             /\ suRefused' = suRefused + 1
             /\ suCost' = IF suPhase = "connect" THEN suCost + 1 ELSE suCost
    <3>1. suRefused' \in 0..BanAfter
      BY <1>1, <2>2 DEF Banned
    <3>2. suSession' \in BOOLEAN
      BY <2>2
    <3>3. suCost' = suCost \/ (suPhase = "connect" /\ suCost' = suCost + 1)
      BY <2>2
    <3> QED BY <2>2, <3>1, <3>2, <3>3
  <2> QED BY <1>2, <1>3, <2>1, <2>2 DEF SignIn
<1> QED BY <1>2, <1>3 DEF Request

LEMMA StartUpInvStep == StartUpInv /\ [StartUpNext]_suVars => StartUpInv'
<1> SUFFICES ASSUME StartUpInv, [StartUpNext]_suVars PROVE StartUpInv'
  OBVIOUS
<1> USE DEF StartUpInv, StartUpTypeOK, suWorld, suLogins
<1>0. /\ ClientMaxRetry \in Nat \ {0} /\ BanAfter \in Nat \ {0}
      /\ suAttempt \in 0..ClientMaxRetry /\ suCost \in 0..BanAfter
  BY StartUpAssumption
<1>1. CASE Outside
  BY <1>1 DEF Outside
<1>2. CASE LoadConfig
  BY <1>0, <1>2 DEF LoadConfig
<1>3. CASE ConnectQBittorrent
  <2>1. PICK outcome \in {"ok", "refused", "banned", "unreachable"} :
            /\ Request(outcome)
            /\ IF outcome = "ok" THEN suPhase' = "wire" ELSE AttemptEnds(outcome)
    BY <1>3 DEF ConnectQBittorrent
  <2>2. suPhase = "connect" /\ suCost = 0 /\ UNCHANGED <<suAttempt, suWorld>>
    BY <1>3 DEF ConnectQBittorrent
  <2>3. /\ suSession' \in BOOLEAN /\ suRefused' \in 0..BanAfter
        /\ (suCost' = 0 \/ (outcome = "refused" /\ suCost' = 1))
    BY <2>1, <2>2, RequestType
  <2>4. CASE outcome = "ok"
    BY <1>0, <2>1, <2>2, <2>3, <2>4
  <2>5. CASE outcome # "ok"
    <3>1. /\ suPhase' \in {"panicked", "pause"}
          /\ outcome = "refused" => suPhase' = "panicked"
          /\ suPhase' = "pause" => suAttempt < ClientMaxRetry
      BY <2>1, <2>5, AttemptEndsType DEF AttemptEnds
    <3>2. suCost' = 0 \/ (suCost' = 1 /\ suPhase' = "panicked")
      BY <2>3, <3>1
    <3>3. suCost' \in 0..BanAfter
      BY <1>0, <3>2
    <3> QED BY <2>2, <2>3, <3>1, <3>2, <3>3
  <2> QED BY <2>4, <2>5
<1>4. CASE ConnectRTorrent
  BY <1>4 DEF ConnectRTorrent
<1>5. CASE ConnectFlood
  <2>1. /\ suSession' \in BOOLEAN
        /\ UNCHANGED <<suAttempt, suWorld, suRefused, suCost>> /\ suCost = 0
    BY <1>5 DEF ConnectFlood
  <2>2. \/ suPhase' \in {"hung", "wire"}
        \/ suPhase' \in {"panicked", "pause"} /\ (suPhase' = "pause" => suAttempt < ClientMaxRetry)
    BY <1>5, AttemptEndsType DEF ConnectFlood
  <2> QED BY <2>1, <2>2
<1>6. CASE FloodAnswers
  BY <1>6 DEF FloodAnswers
<1>7. CASE NextAttempt
  <2>1. suAttempt' \in 0..ClientMaxRetry
    BY <1>0, <1>7 DEF NextAttempt, Following
  <2> QED BY <1>7, <2>1 DEF NextAttempt
<1>8. CASE Wire
  BY <1>8 DEF Wire
<1>9. CASE UseQBittorrent
  <2>1. PICK outcome : Request(outcome)
    BY <1>9 DEF UseQBittorrent
  <2>2. suPhase = "running" /\ suCost = 0 /\ UNCHANGED <<suPhase, suAttempt, suWorld>>
    BY <1>9 DEF UseQBittorrent
  <2>3. suSession' \in BOOLEAN /\ suRefused' \in 0..BanAfter /\ suCost' = 0
    BY <2>1, <2>2, RequestType
  <2>4. suCost' \in 0..BanAfter
    BY <1>0, <2>3
  <2> QED BY <2>2, <2>3, <2>4
<1>10. CASE Panic
  BY <1>10 DEF Panic
<1>11. CASE StartAnew
  <2>1. suAttempt' \in 0..ClientMaxRetry /\ suCost' \in 0..BanAfter
    BY <1>0, <1>11 DEF StartAnew
  <2>2. {suValid', suGuarded', suRight', suSession'} \subseteq BOOLEAN
    BY <1>11 DEF StartAnew
  <2> QED BY <1>11, <2>1, <2>2 DEF StartAnew
<1>12. CASE UNCHANGED suVars
  BY <1>12 DEF suVars
<1> QED BY <1>1, <1>2, <1>3, <1>4, <1>5, <1>6, <1>7, <1>8, <1>9, <1>10, <1>11, <1>12
        DEF StartUpNext, Starting

\* Every variable of a start-up keeps its type, for any clients and limits; in
\* particular no start-up makes more than ClientMaxRetry attempts.
THEOREM StartUpTypeCorrect == StartUpSpec => []StartUpTypeOK
<1>1. StartUpInv => StartUpTypeOK
  BY DEF StartUpInv
<1> QED BY <1>1, StartUpInvInit, StartUpInvStep, PTL DEF StartUpSpec

\* However the server, its ban and the password change meanwhile, one start-up
\* costs at most one refused login.
THEOREM LoginsCorrect == StartUpSpec => []OneRefusedLoginPerStart
<1>1. StartUpInv => OneRefusedLoginPerStart
  BY DEF StartUpInv, OneRefusedLoginPerStart
<1> QED BY <1>1, StartUpInvInit, StartUpInvStep, PTL DEF StartUpSpec

-----------------------------------------------------------------------------
\* Commands over Telegram.

IsCommandAt(id) == tgWritten[id] = "command"

\* The cursor: a poll follows a batch that is done, and what a batch holds is
\* what was written.
CursorInv ==
    /\ tgKept >= 1 /\ tgKept <= Len(tgWritten) + 1 /\ tgOffset <= Len(tgWritten) + 1
    /\ tgNext <= tgOffset
    /\ tgAt \in {"poll", "sleep"} => tgNext = tgOffset
    /\ tgNext < tgOffset => tgNext >= 1
    /\ tgAt = "sleep" => tgWait >= 1

\* What lies behind the cursor, or behind what the server has forgotten, has
\* run; what has run in this session lies behind the cursor.
RunsInv ==
    /\ \A id \in DOMAIN tgWritten :
          IsCommandAt(id) /\ (id < tgKept \/ id < tgNext) => tgRuns[id] >= 1
    /\ \A id \in Ids :
          /\ tgRunsNow[id] \in {0, 1} /\ (tgRunsNow[id] = 1 => id < tgNext)
          /\ tgRuns[id] <= tgRestarts + tgRunsNow[id]

TelegramInv == TelegramTypeOK /\ CursorInv /\ RunsInv

LEMMA TelegramInvInit == TelegramInit => TelegramInv
<1> SUFFICES ASSUME TelegramInit PROVE TelegramInv
  OBVIOUS
<1>1. tgWritten = <<>> /\ Len(tgWritten) = 0 /\ tgWritten \in Seq(Kinds) /\ DOMAIN tgWritten = {}
  BY EmptySeq DEF TelegramInit
<1>2. tgRuns = [id \in Ids |-> 0] /\ tgRunsNow = [id \in Ids |-> 0]
  BY DEF TelegramInit, Never
<1>3. /\ RetryMin \in Nat /\ RetryMax \in Nat /\ RetryMin <= RetryMax
      /\ MaxUpdates \in Nat /\ MaxRestarts \in Nat
  BY TelegramAssumption
<1>4. tgKept = 1 /\ tgOffset = 0 /\ tgNext = 0 /\ tgBackoff = RetryMin /\ tgWait = 0 /\ tgRestarts = 0
  BY DEF TelegramInit
<1>5. tgBackoff \in RetryMin..RetryMax /\ tgWait \in 0..RetryMax /\ tgRestarts \in 0..MaxRestarts
  BY <1>3, <1>4
<1>6. TelegramTypeOK
  <2>1. tgRuns \in [Ids -> Nat] /\ tgRunsNow \in [Ids -> Nat]
    BY <1>2
  <2>2. tgConfirmed \in BOOLEAN /\ tgAt \in {"poll", "confirm", "handle", "run", "send", "sleep"}
    BY DEF TelegramInit
  <2>3. Len(tgWritten) <= MaxUpdates /\ tgKept \in Nat /\ tgOffset \in Nat /\ tgNext \in Nat
    BY <1>1, <1>3, <1>4
  <2> QED BY <1>1, <1>5, <2>1, <2>2, <2>3 DEF TelegramTypeOK
<1>7. CursorInv
  BY <1>1, <1>4 DEF TelegramInit, CursorInv
<1>8. RunsInv
  BY <1>1, <1>2, <1>4 DEF RunsInv
<1> QED BY <1>6, <1>7, <1>8 DEF TelegramInv

\* Numbers of the cursor, for the steps below.
LEMMA Numbers ==
    ASSUME TelegramInv
    PROVE  /\ tgKept \in Nat /\ tgOffset \in Nat /\ tgNext \in Nat
           /\ Len(tgWritten) \in Nat /\ DOMAIN tgWritten = 1..Len(tgWritten)
           /\ MaxUpdates \in Nat /\ Len(tgWritten) <= MaxUpdates
BY LenProperties, TelegramAssumption DEF TelegramInv, TelegramTypeOK

\* A step that touches neither the server, the cursor nor the runs.
LEMMA CursorStays ==
    ASSUME TelegramInv, UNCHANGED <<tgServer, tgCursor, tgHistory>>,
           tgAt' \in {"poll", "confirm", "handle", "run", "send", "sleep"},
           tgAt' \in {"poll", "sleep"} => tgAt \in {"poll", "sleep"} \/ tgNext = tgOffset,
           tgBackoff' \in RetryMin..RetryMax, tgWait' \in 0..RetryMax,
           tgAt' = "sleep" => tgWait' >= 1,
           tgConfirmed' \in BOOLEAN
    PROVE  TelegramInv'
<1> USE DEF TelegramInv, tgServer, tgCursor, tgHistory
<1>1. TelegramTypeOK'
  BY DEF TelegramTypeOK
<1>2. CursorInv'
  BY DEF CursorInv
<1>3. RunsInv'
  BY DEF RunsInv, IsCommandAt
<1> QED BY <1>1, <1>2, <1>3

\* An update is written behind all there were.
LEMMA WriteKeeps ==
    ASSUME TelegramInv, NEW kind \in Kinds, Write(kind)
    PROVE  TelegramInv'
<1>1. /\ tgWritten' = Append(tgWritten, kind) /\ Len(tgWritten) < MaxUpdates
      /\ UNCHANGED <<tgKept, tgAt, tgOffset, tgNext, tgReply, tgBackoff, tgWait, tgConfirmed,
                     tgRestarts, tgRuns, tgRunsNow>>
  BY DEF Write, tgCursor, tgPacing, tgHistory
<1>2. tgWritten \in Seq(Kinds)
  BY DEF TelegramInv, TelegramTypeOK
<1>3. /\ tgWritten' \in Seq(Kinds) /\ Len(tgWritten') = Len(tgWritten) + 1
      /\ \A id \in 1..Len(tgWritten) : tgWritten'[id] = tgWritten[id]
  BY <1>1, <1>2, AppendProperties
<1>4. DOMAIN tgWritten' = 1..(Len(tgWritten) + 1)
  BY <1>3, LenProperties
<1>5. TelegramTypeOK'
  BY <1>1, <1>3, Numbers DEF TelegramInv, TelegramTypeOK
<1>6. CursorInv'
  BY <1>1, <1>3, Numbers DEF TelegramInv, CursorInv
<1>7. RunsInv'
  <2>1. ASSUME NEW id \in DOMAIN tgWritten', tgWritten'[id] = "command", id < tgKept \/ id < tgNext
        PROVE  tgRuns[id] >= 1
    <3>1. id \in 1..Len(tgWritten)
      BY <1>4, <2>1, Numbers DEF TelegramInv, CursorInv
    <3> QED BY <1>3, <2>1, <3>1, Numbers DEF TelegramInv, RunsInv, IsCommandAt
  <2> QED BY <1>1, <2>1 DEF TelegramInv, RunsInv, IsCommandAt
<1> QED BY <1>5, <1>6, <1>7 DEF TelegramInv

\* What the server forgets has run.
LEMMA AcknowledgedHasRun ==
    ASSUME TelegramInv, tgNext = tgOffset
    PROVE  /\ Acknowledged \in Nat /\ Acknowledged >= 1 /\ Acknowledged <= Len(tgWritten) + 1
           /\ Acknowledged >= tgNext
           /\ \A id \in DOMAIN tgWritten :
                 IsCommandAt(id) /\ id < Acknowledged => tgRuns[id] >= 1
BY Numbers DEF TelegramInv, CursorInv, RunsInv, Acknowledged

LEMMA PollKeeps ==
    ASSUME TelegramInv, PollAnswered \/ PollFails
    PROVE  TelegramInv'
<1>1. tgAt = "poll" /\ tgNext = tgOffset
  BY DEF PollAnswered, PollFails, TelegramInv, CursorInv
<1>2. /\ UNCHANGED <<tgWritten, tgReply, tgRestarts, tgRuns, tgRunsNow>>
      /\ tgKept' \in {tgKept, Acknowledged}
  BY DEF PollAnswered, PollFails, tgHistory
<1>3. \/ UNCHANGED <<tgOffset, tgNext>>
      \/ /\ tgNext' = Acknowledged /\ PollAnswered
         /\ \E last \in Acknowledged..Len(tgWritten) : tgOffset' = last + 1
  BY DEF PollAnswered, PollFails, tgCursor, Beyond
<1>4. /\ RetryMin \in Nat /\ RetryMax \in Nat /\ RetryMin >= 1 /\ RetryMin <= RetryMax
      /\ tgBackoff \in RetryMin..RetryMax /\ tgWait \in 0..RetryMax
  BY TelegramAssumption DEF TelegramInv, TelegramTypeOK
<1>5. /\ tgBackoff' \in RetryMin..RetryMax /\ tgWait' \in 0..RetryMax
      /\ tgAt' \in {"confirm", "handle"} \/ (tgAt' = "sleep" /\ tgWait' >= 1)
  <2>1. CASE PollAnswered
    <3>1. tgBackoff' = RetryMin /\ tgWait' = tgWait /\ tgAt' \in {"confirm", "handle"}
      BY <2>1 DEF PollAnswered
    <3> QED BY <1>4, <3>1
  <2>2. CASE PollFails
    <3>1. /\ tgWait' = tgBackoff /\ tgAt' = "sleep"
          /\ tgBackoff' = IF 2 * tgBackoff < RetryMax THEN 2 * tgBackoff ELSE RetryMax
      BY <2>2 DEF PollFails, Smaller
    <3> QED BY <1>4, <3>1
  <2> QED BY <2>1, <2>2
<1>6. tgConfirmed' \in BOOLEAN
  BY DEF PollAnswered, PollFails, TelegramInv, TelegramTypeOK
<1>7. /\ tgKept' \in Nat /\ tgKept' >= 1 /\ tgKept' <= Len(tgWritten) + 1
      /\ tgOffset' \in Nat /\ tgNext' \in Nat
      /\ tgOffset' <= Len(tgWritten) + 1 /\ tgNext' <= tgOffset'
      /\ tgNext' < tgOffset' => tgNext' >= 1
      /\ tgNext' >= tgNext /\ (tgNext' = tgNext \/ tgNext' = Acknowledged)
  BY <1>1, <1>2, <1>3, Numbers, AcknowledgedHasRun DEF TelegramInv, CursorInv
<1>8. tgAt' = "sleep" => tgNext' = tgOffset'
  BY <1>1, <1>3 DEF PollAnswered, PollFails, tgCursor
<1>9. TelegramTypeOK'
  <2>1. tgAt' \in {"poll", "confirm", "handle", "run", "send", "sleep"}
    BY <1>5
  <2> QED BY <1>2, <1>5, <1>6, <1>7, <2>1 DEF TelegramInv, TelegramTypeOK
<1>10. CursorInv'
  BY <1>2, <1>5, <1>7, <1>8 DEF CursorInv
<1>11. RunsInv'
  <2>1. ASSUME NEW id \in DOMAIN tgWritten, IsCommandAt(id), id < tgKept' \/ id < tgNext'
        PROVE  tgRuns[id] >= 1
    BY <1>1, <1>2, <1>7, <2>1, AcknowledgedHasRun DEF TelegramInv, RunsInv
  <2>2. ASSUME NEW id \in Ids, id < tgNext PROVE id < tgNext'
    BY <1>7, <2>2, Numbers DEF Ids
  <2> QED BY <1>2, <2>1, <2>2 DEF TelegramInv, RunsInv, IsCommandAt
<1> QED BY <1>9, <1>10, <1>11 DEF TelegramInv

\* An update that is no command of the owner's is passed over.
LEMMA PassOver ==
    ASSUME TelegramInv, NEW kinds, InHand(kinds), "command" \notin kinds,
           tgNext' = tgNext + 1, tgAt' \in {"handle", "send"},
           UNCHANGED <<tgServer, tgOffset, tgPacing, tgConfirmed, tgHistory>>
    PROVE  TelegramInv'
<1> USE DEF tgServer, tgPacing, tgHistory
<1>1. tgAt = "handle" /\ tgNext < tgOffset /\ tgWritten[tgNext] # "command"
  BY DEF InHand
<1>2. TelegramTypeOK'
  BY Numbers DEF TelegramInv, TelegramTypeOK
<1>3. CursorInv'
  BY <1>1, Numbers DEF TelegramInv, CursorInv
<1>4. RunsInv'
  <2>1. ASSUME NEW id \in DOMAIN tgWritten, IsCommandAt(id), id < tgKept \/ id < tgNext + 1
        PROVE  tgRuns[id] >= 1
    <3>1. id # tgNext
      BY <1>1, <2>1 DEF IsCommandAt
    <3>2. id < tgKept \/ id < tgNext
      BY <2>1, <3>1, Numbers
    <3> QED BY <2>1, <3>2 DEF TelegramInv, RunsInv
  <2>2. ASSUME NEW id \in Ids, id < tgNext PROVE id < tgNext + 1
    BY <2>2, Numbers DEF Ids
  <2> QED BY <2>1, <2>2 DEF TelegramInv, RunsInv, IsCommandAt
<1> QED BY <1>2, <1>3, <1>4 DEF TelegramInv

LEMMA RunKeeps ==
    ASSUME TelegramInv, RunCommand
    PROVE  TelegramInv'
<1>1. /\ tgAt = "handle" /\ tgNext < tgOffset /\ tgNext' = tgNext + 1 /\ tgAt' = "run"
      /\ tgRuns' = [tgRuns EXCEPT ![tgNext] = @ + 1]
      /\ tgRunsNow' = [tgRunsNow EXCEPT ![tgNext] = @ + 1]
      /\ UNCHANGED <<tgWritten, tgKept, tgOffset, tgBackoff, tgWait, tgConfirmed, tgRestarts>>
  BY DEF RunCommand, InHand, tgServer, tgPacing
<1>2. tgNext >= 1 /\ tgNext \in Ids
  BY <1>1, Numbers DEF TelegramInv, CursorInv, Ids
<1>3. tgRuns \in [Ids -> Nat] /\ tgRunsNow \in [Ids -> Nat]
  BY DEF TelegramInv, TelegramTypeOK
<1>4. tgRuns' \in [Ids -> Nat] /\ tgRunsNow' \in [Ids -> Nat]
  <2>1. tgRuns[tgNext] + 1 \in Nat /\ tgRunsNow[tgNext] + 1 \in Nat
    BY <1>2, <1>3
  <2> QED BY <1>1, <1>3, <2>1
<1>5. TelegramTypeOK'
  BY <1>1, <1>4, Numbers DEF TelegramInv, TelegramTypeOK
<1>6. CursorInv'
  BY <1>1, Numbers DEF TelegramInv, CursorInv
<1>7. tgRunsNow[tgNext] = 0 /\ tgRuns[tgNext] <= tgRestarts
  <2>1. tgRunsNow[tgNext] \in {0, 1} /\ tgRunsNow[tgNext] # 1
    BY <1>2, Numbers DEF TelegramInv, RunsInv
  <2>2. tgRuns[tgNext] <= tgRestarts + tgRunsNow[tgNext] /\ tgRestarts \in Nat /\ tgRuns[tgNext] \in Nat
    BY <1>2, <1>3, TelegramAssumption DEF TelegramInv, RunsInv, TelegramTypeOK
  <2> QED BY <2>1, <2>2
<1>8. /\ tgRuns'[tgNext] = tgRuns[tgNext] + 1 /\ tgRunsNow'[tgNext] = 1
      /\ \A id \in Ids : id # tgNext => tgRuns'[id] = tgRuns[id] /\ tgRunsNow'[id] = tgRunsNow[id]
  BY <1>1, <1>2, <1>3, <1>7
<1>9. RunsInv'
  <2>1. ASSUME NEW id \in DOMAIN tgWritten, IsCommandAt(id), id < tgKept \/ id < tgNext + 1
        PROVE  tgRuns'[id] >= 1
    <3>1. id \in Ids
      BY Numbers DEF Ids
    <3>2. CASE id = tgNext
      BY <1>2, <1>3, <1>8, <3>2
    <3>3. CASE id # tgNext
      <4>1. id < tgKept \/ id < tgNext
        BY <2>1, <3>3, Numbers
      <4> QED BY <1>8, <2>1, <3>1, <3>3, <4>1 DEF TelegramInv, RunsInv
    <3> QED BY <3>2, <3>3
  <2>2. ASSUME NEW id \in Ids
        PROVE  /\ tgRunsNow'[id] \in {0, 1} /\ (tgRunsNow'[id] = 1 => id < tgNext + 1)
               /\ tgRuns'[id] <= tgRestarts + tgRunsNow'[id]
    <3>1. tgRestarts \in Nat /\ id \in Nat /\ tgNext \in Nat /\ tgRuns[tgNext] \in Nat
      <4>1. tgRestarts \in 0..MaxRestarts /\ MaxRestarts \in Nat
        BY TelegramAssumption DEF TelegramInv, TelegramTypeOK
      <4>2. id \in Nat /\ tgNext \in Nat
        BY Numbers DEF Ids
      <4>3. tgRuns[tgNext] \in Nat
        BY <1>2, <1>3
      <4> QED BY <4>1, <4>2, <4>3
    <3>2. CASE id = tgNext
      BY <1>7, <1>8, <3>1, <3>2
    <3>3. CASE id # tgNext
      <4>1. tgRuns'[id] = tgRuns[id] /\ tgRunsNow'[id] = tgRunsNow[id]
        BY <1>8, <3>3
      <4> QED BY <3>1, <4>1 DEF TelegramInv, RunsInv
    <3> QED BY <3>2, <3>3
  <2> QED BY <1>1, <2>1, <2>2 DEF RunsInv, IsCommandAt
<1> QED BY <1>5, <1>6, <1>9 DEF TelegramInv

LEMMA RestartKeeps ==
    ASSUME TelegramInv, RestartTelegram
    PROVE  TelegramInv'
<1>1. /\ tgRestarts' = tgRestarts + 1 /\ tgRestarts < MaxRestarts
      /\ tgRunsNow' = [id \in Ids |-> 0]
      /\ tgAt' = "poll" /\ tgOffset' = 0 /\ tgNext' = 0
      /\ tgBackoff' = RetryMin /\ tgWait' = 0 /\ tgConfirmed' = FALSE
      /\ UNCHANGED <<tgWritten, tgKept, tgRuns>>
  BY DEF RestartTelegram, Never, tgServer
<1>2. /\ RetryMin \in Nat /\ RetryMax \in Nat /\ RetryMin <= RetryMax
      /\ tgRestarts \in 0..MaxRestarts /\ MaxRestarts \in Nat
  BY TelegramAssumption DEF TelegramInv, TelegramTypeOK
<1>3. /\ tgBackoff' \in RetryMin..RetryMax /\ tgWait' \in 0..RetryMax
      /\ tgRestarts' \in 0..MaxRestarts
  BY <1>1, <1>2
<1>4. tgRunsNow' \in [Ids -> Nat] /\ \A id \in Ids : tgRunsNow'[id] = 0
  BY <1>1
<1>5. TelegramTypeOK'
  <2>1. tgConfirmed' \in BOOLEAN
    BY <1>1
  <2>2. tgOffset' \in Nat /\ tgNext' \in Nat
    BY <1>1
  <2> QED BY <1>1, <1>3, <1>4, <2>1, <2>2 DEF TelegramInv, TelegramTypeOK
<1>6. CursorInv'
  BY <1>1, Numbers DEF TelegramInv, CursorInv
<1>7. RunsInv'
  <2>1. ASSUME NEW id \in DOMAIN tgWritten, IsCommandAt(id), id < tgKept \/ id < 0
        PROVE  tgRuns[id] >= 1
    BY <2>1, Numbers DEF TelegramInv, RunsInv
  <2>2. ASSUME NEW id \in Ids PROVE tgRuns[id] <= tgRestarts + 1
    <3>1. /\ tgRuns[id] <= tgRestarts + tgRunsNow[id] /\ tgRunsNow[id] \in {0, 1}
          /\ tgRuns[id] \in Nat /\ tgRestarts \in Nat
      BY <1>2 DEF TelegramInv, RunsInv, TelegramTypeOK
    <3> QED BY <3>1
  <2> QED BY <1>1, <1>2, <1>4, <2>1, <2>2 DEF RunsInv, IsCommandAt, TelegramInv, TelegramTypeOK
<1> QED BY <1>5, <1>6, <1>7 DEF TelegramInv

LEMMA TelegramInvStep == TelegramInv /\ [TelegramNext]_tgVars => TelegramInv'
<1> SUFFICES ASSUME TelegramInv, [TelegramNext]_tgVars PROVE TelegramInv'
  OBVIOUS
<1>0. /\ tgBackoff \in RetryMin..RetryMax /\ tgWait \in 0..RetryMax /\ tgConfirmed \in BOOLEAN
      /\ tgAt \in {"poll", "confirm", "handle", "run", "send", "sleep"}
      /\ tgAt \in {"poll", "sleep"} => tgNext = tgOffset
      /\ tgAt = "sleep" => tgWait >= 1
  BY DEF TelegramInv, TelegramTypeOK, CursorInv
<1>1. CASE Confirm
  BY <1>0, <1>1, CursorStays DEF Confirm, tgPacing
<1>2. CASE BatchDone
  BY <1>0, <1>2, CursorStays DEF BatchDone, tgPacing
<1>3. CASE Ignore
  BY <1>3, PassOver DEF Ignore, InHand
<1>4. CASE TurnStrangerAway
  BY <1>4, PassOver DEF TurnStrangerAway, InHand
<1>5. CASE SendMessage
  <2>1. tgAt' \in {"send", "handle"} /\ UNCHANGED <<tgServer, tgCursor, tgPacing, tgConfirmed, tgHistory>>
    BY <1>5 DEF SendMessage, ReplyDone
  <2> QED BY <1>0, <2>1, CursorStays DEF tgPacing
<1>6. CASE SendFails
  <2>1. tgAt' = "handle" /\ UNCHANGED <<tgServer, tgCursor, tgPacing, tgConfirmed, tgHistory>>
    BY <1>6 DEF SendFails, ReplyDone, AfterFailedReply, tgCursor
  <2> QED BY <1>0, <2>1, CursorStays DEF tgPacing
<1>7. CASE Sleep
  <2>1. /\ tgAt = "sleep" /\ tgWait' = tgWait - 1 /\ tgAt' = IF tgWait = 1 THEN "poll" ELSE "sleep"
        /\ UNCHANGED <<tgServer, tgCursor, tgBackoff, tgConfirmed, tgHistory>>
    BY <1>7 DEF Sleep
  <2>2. tgWait' \in 0..RetryMax /\ (tgAt' = "sleep" => tgWait' >= 1)
    BY <1>0, <2>1, TelegramAssumption
  <2>3. tgAt' \in {"poll", "sleep"} /\ tgNext = tgOffset
    BY <1>0, <2>1
  <2> QED BY <1>0, <2>1, <2>2, <2>3, CursorStays
<1>8. CASE CommandReturns
  BY <1>0, <1>8, CursorStays DEF CommandReturns, tgPacing
<1>9. CASE UNCHANGED tgVars
  BY <1>0, <1>9, CursorStays DEF tgVars, tgPacing
<1> QED BY <1>1, <1>2, <1>3, <1>4, <1>5, <1>6, <1>7, <1>8, <1>9,
           WriteKeeps, PollKeeps, RunKeeps, RestartKeeps
        DEF TelegramNext, Writing, Polling, Session

\* Every variable of the Telegram session keeps its type, for any updates and
\* delays.
THEOREM TelegramTypeCorrect == TelegramSpec => []TelegramTypeOK
<1>1. TelegramInv => TelegramTypeOK
  BY DEF TelegramInv
<1> QED BY <1>1, TelegramInvInit, TelegramInvStep, PTL DEF TelegramSpec

\* Telegram is told to forget no command that has not run, whatever poll, reply
\* or session fails.
THEOREM NothingIsLostCorrect == TelegramSpec => []NothingIsLost
<1>1. TelegramInv => NothingIsLost
  BY Numbers DEF TelegramInv, RunsInv, IsCommandAt, NothingIsLost
<1> QED BY <1>1, TelegramInvInit, TelegramInvStep, PTL DEF TelegramSpec

\* A command runs at most once in a session, and once more for each restart.
THEOREM OncePerSessionCorrect == TelegramSpec => []OncePerSession
<1>1. TelegramInv => OncePerSession
  <2> SUFFICES ASSUME TelegramInv, NEW id \in Ids
               PROVE  tgRunsNow[id] <= 1 /\ tgRuns[id] <= 1 + tgRestarts
    BY DEF OncePerSession
  <2>1. /\ tgRunsNow[id] \in {0, 1} /\ tgRuns[id] <= tgRestarts + tgRunsNow[id]
        /\ tgRuns[id] \in Nat /\ tgRestarts \in 0..MaxRestarts /\ MaxRestarts \in Nat
    BY TelegramAssumption DEF TelegramInv, RunsInv, TelegramTypeOK
  <2> QED BY <2>1
<1> QED BY <1>1, TelegramInvInit, TelegramInvStep, PTL DEF TelegramSpec

-----------------------------------------------------------------------------
\* Commands over Slack.

\* Envelopes come from those posted, a message in hand is one of them, and a
\* delay being slept is not over.
PostedInv ==
    /\ Len(slPosted) <= MaxEnvelopes
    /\ slAt \in {"handle", "run", "reply"} => slHand \in DOMAIN slPosted
    /\ slAt = "sleep" => slWait >= 1

\* An envelope that Slack has no excuse to send again is on one socket only and
\* there once; its command has not run while it waits, and what was read from a
\* socket that is still up is acknowledged.
OnceInv ==
    /\ slAt \in {"handle", "run", "reply"} /\ slSocket = "up" => slHand \in slAcked
    /\ \A i \in DOMAIN slInbox : slInbox[i] \in slSeen \cup slExcused
    /\ \A i, j \in DOMAIN slInbox :
          slInbox[i] = slInbox[j] /\ slInbox[i] \notin slExcused => i = j
    /\ \A i \in DOMAIN slInbox :
          slInbox[i] \notin slExcused =>
             slRuns[slInbox[i]] = 0 /\ ~(slAt = "handle" /\ slHand = slInbox[i])
    /\ slAt = "handle" =>
          /\ slHand \in slSeen \cup slExcused
          /\ slHand \notin slExcused => slRuns[slHand] = 0
    /\ \A id \in Envelopes :
          id \notin slExcused => slRuns[id] <= 1 /\ (slRuns[id] >= 1 => id \in slSeen)

SlackInv == SlackTypeOK /\ PostedInv /\ OnceInv

SlackStages == {"resolve", "open", "read", "handle", "run", "reply", "sleep"}

LEMMA SlackNumbers ==
    /\ SlackRetryMin \in Nat /\ SlackRetryMin >= 1
    /\ SlackRetryMax \in Nat /\ SlackRetryMin <= SlackRetryMax
    /\ MaxEnvelopes \in Nat /\ MaxInbox \in Nat
    /\ MaxBreaks \in Nat /\ MaxSlackStops \in Nat
BY SlackAssumption

\* What is posted has a number among the envelopes.
LEMMA PostedAreEnvelopes ==
    ASSUME SlackTypeOK, PostedInv
    PROVE  /\ DOMAIN slPosted = 1..Len(slPosted) /\ Len(slPosted) \in Nat
           /\ DOMAIN slPosted \subseteq Envelopes /\ NoEnvelope \notin Envelopes
<1>1. Len(slPosted) \in Nat /\ DOMAIN slPosted = 1..Len(slPosted)
  BY LenProperties DEF SlackTypeOK
<1>2. Len(slPosted) <= MaxEnvelopes
  BY DEF PostedInv
<1> QED BY <1>1, <1>2, SlackNumbers DEF Envelopes, NoEnvelope

LEMMA SlackInvInit == SlackInit => SlackInv
<1> SUFFICES ASSUME SlackInit PROVE SlackInv
  OBVIOUS
<1>1. /\ slPosted = <<>> /\ slInbox = <<>> /\ Len(<<>>) = 0 /\ DOMAIN slPosted = {} /\ DOMAIN slInbox = {}
      /\ slPosted \in Seq(Frames) /\ slInbox \in Seq(DOMAIN slPosted)
  BY EmptySeq DEF SlackInit
<1>2. slRuns = [id \in Envelopes |-> 0] /\ slRuns \in [Envelopes -> 0..2]
  BY DEF SlackInit
<1>3. slBackoff \in SlackRetryMin..SlackRetryMax /\ slWait \in 0..SlackRetryMax
      /\ slBreaks \in 0..MaxBreaks /\ slStops \in 0..MaxSlackStops
  BY SlackNumbers DEF SlackInit
<1>4. SlackTypeOK
  <2>1. slResolved \in BOOLEAN /\ slAt = "resolve" /\ slSocket = "none" /\ slHand = NoEnvelope
        /\ slAcked = {} /\ slSeen = {} /\ slExcused = {} /\ slLost = {}
    BY DEF SlackInit
  <2> QED BY <1>1, <1>2, <1>3, <2>1 DEF SlackTypeOK
<1>5. PostedInv
  BY <1>1, SlackNumbers DEF SlackInit, PostedInv
<1>6. OnceInv
  BY <1>1, <1>2 DEF SlackInit, OnceInv
<1> QED BY <1>4, <1>5, <1>6 DEF SlackInv

\* A step that leaves Slack, the socket and the runs alone.
LEMMA ListenerMoves ==
    ASSUME SlackInv, UNCHANGED <<slServer, slStream, slBreaks, slStops, slRuns, slExcused, slLost>>,
           slAt' \in SlackStages, slResolved' \in BOOLEAN,
           slHand' = slHand \/ slHand' = NoEnvelope,
           slAt' = "handle" => slAt = "handle",
           slAt' \in {"handle", "run", "reply"} => slAt \in {"handle", "run", "reply"} /\ slHand' = slHand,
           slBackoff' \in SlackRetryMin..SlackRetryMax, slWait' \in 0..SlackRetryMax,
           slAt' = "sleep" => slWait' >= 1
    PROVE  SlackInv'
<1> USE DEF SlackInv, slServer, slStream
<1>1. SlackTypeOK'
  BY DEF SlackTypeOK, SlackStages
<1>2. PostedInv'
  BY DEF PostedInv
<1>3. OnceInv'
  BY DEF OnceInv
<1> QED BY <1>1, <1>2, <1>3

\* Failing costs a delay, and doubles the next.
LEMMA FailureDelays ==
    ASSUME SlackInv, SocketFails
    PROVE  /\ slAt' = "sleep" /\ slWait' \in 0..SlackRetryMax /\ slWait' >= 1
           /\ slBackoff' \in SlackRetryMin..SlackRetryMax
<1>1. slAt' = "sleep" /\ slWait' = slBackoff
      /\ slBackoff' = IF 2 * slBackoff < SlackRetryMax THEN 2 * slBackoff ELSE SlackRetryMax
  BY DEF SocketFails, AfterFailure, Smaller
<1>2. slBackoff \in SlackRetryMin..SlackRetryMax
  BY DEF SlackInv, SlackTypeOK
<1> QED BY <1>1, <1>2, SlackNumbers

\* A socket that is closed leaves nothing behind but excuses.
LEMMA ClosingKeeps ==
    ASSUME SlackInv, CloseSocket, slAt' \in {"resolve", "sleep"}, slHand' \in Envelopes \cup {NoEnvelope},
           slResolved' \in BOOLEAN, slAcked' \subseteq DOMAIN slPosted, slLost' \subseteq Envelopes,
           slBackoff' \in SlackRetryMin..SlackRetryMax, slWait' \in 0..SlackRetryMax,
           slAt' = "sleep" => slWait' >= 1,
           slStops' \in 0..MaxSlackStops, UNCHANGED <<slPosted, slBreaks, slRuns>>
    PROVE  SlackInv'
<1>1. /\ slSocket' = "none" /\ slInbox' = <<>> /\ slSeen' = {} /\ slExcused' = slExcused \cup slSeen
  BY DEF CloseSocket
<1>2. DOMAIN slInbox' = {} /\ slInbox' \in Seq(DOMAIN slPosted)
  BY <1>1, EmptySeq
<1>3. slSeen \subseteq Envelopes
  BY PostedAreEnvelopes DEF SlackInv, SlackTypeOK
<1>4. SlackTypeOK'
  BY <1>1, <1>2, <1>3 DEF SlackInv, SlackTypeOK
<1>5. PostedInv'
  BY DEF SlackInv, PostedInv
<1>6. OnceInv'
  BY <1>1, <1>2 DEF SlackInv, OnceInv
<1> QED BY <1>4, <1>5, <1>6 DEF SlackInv

LEMMA PostKeeps ==
    ASSUME SlackInv, NEW frame \in Frames, Post(frame)
    PROVE  SlackInv'
<1>1. /\ slPosted' = Append(slPosted, frame) /\ Len(slPosted) < MaxEnvelopes
      /\ UNCHANGED <<slAcked, slSeen, slInbox, slSocket, slAt, slResolved, slHand, slBackoff, slWait,
                     slBreaks, slStops, slRuns, slExcused, slLost>>
  BY DEF Post, slStream, slPacing, slHistory
<1>2. slPosted \in Seq(Frames) /\ slInbox \in Seq(DOMAIN slPosted)
  BY DEF SlackInv, SlackTypeOK
<1>3. /\ slPosted' \in Seq(Frames) /\ Len(slPosted') = Len(slPosted) + 1
      /\ DOMAIN slPosted \subseteq DOMAIN slPosted'
  <2>1. slPosted' \in Seq(Frames) /\ Len(slPosted') = Len(slPosted) + 1
    BY <1>1, <1>2, AppendProperties
  <2>2. DOMAIN slPosted' = 1..Len(slPosted') /\ DOMAIN slPosted = 1..Len(slPosted) /\ Len(slPosted) \in Nat
    BY <1>2, <2>1, LenProperties
  <2> QED BY <2>1, <2>2
<1>4. slInbox \in Seq(DOMAIN slPosted')
  <2>1. slInbox \in [1..Len(slInbox) -> DOMAIN slPosted] /\ Len(slInbox) \in Nat
    BY <1>2, LenProperties
  <2>2. slInbox \in [1..Len(slInbox) -> DOMAIN slPosted']
    BY <1>3, <2>1
  <2> QED BY <2>1, <2>2, SeqDef
<1>5. SlackTypeOK'
  BY <1>1, <1>3, <1>4 DEF SlackInv, SlackTypeOK
<1>6. PostedInv'
  BY <1>1, <1>3, SlackNumbers, PostedAreEnvelopes DEF SlackInv, PostedInv
<1>7. OnceInv'
  BY <1>1 DEF SlackInv, OnceInv
<1> QED BY <1>5, <1>6, <1>7 DEF SlackInv

\* A copy is sent only of what the socket has not carried yet, or with an
\* excuse: what is in hand from a socket that is up has been acknowledged.
LEMMA DeliveryKeeps ==
    ASSUME SlackInv, NEW id \in Envelopes, DeliverEnvelope(id) \/ DeliverAgain(id)
    PROVE  SlackInv'
<1>1. /\ slSocket = "up" /\ slInbox' = Append(slInbox, id) /\ id \in DOMAIN slPosted /\ id \notin slAcked
      /\ UNCHANGED <<slPosted, slAcked, slSocket, slAt, slResolved, slHand, slBackoff, slWait,
                     slBreaks, slStops, slRuns, slLost>>
  BY DEF DeliverEnvelope, DeliverAgain, Push, Owed, slPacing
<1>2. \/ id \notin slSeen /\ slSeen' = slSeen \cup {id} /\ slExcused' = slExcused
      \/ id \in slSeen /\ slSeen' = slSeen /\ slExcused' = slExcused \cup {id}
  <2>1. CASE DeliverEnvelope(id)
    BY <2>1 DEF DeliverEnvelope
  <2>2. CASE DeliverAgain(id)
    <3>1. slHand # id
      BY <1>1, <2>2 DEF DeliverAgain, Busy, SlackInv, OnceInv
    <3> QED BY <2>2, <3>1 DEF DeliverAgain
  <2> QED BY <2>1, <2>2
<1>3. slInbox \in Seq(DOMAIN slPosted) /\ DOMAIN slInbox = 1..Len(slInbox) /\ Len(slInbox) \in Nat
  BY LenProperties DEF SlackInv, SlackTypeOK
<1>4. /\ slInbox' \in Seq(DOMAIN slPosted) /\ DOMAIN slInbox' = 1..(Len(slInbox) + 1)
      /\ \A i \in DOMAIN slInbox : slInbox'[i] = slInbox[i]
      /\ slInbox'[Len(slInbox) + 1] = id
  <2>1. /\ slInbox' \in Seq(DOMAIN slPosted) /\ Len(slInbox') = Len(slInbox) + 1
        /\ \A i \in 1..Len(slInbox) : slInbox'[i] = slInbox[i]
        /\ slInbox'[Len(slInbox) + 1] = id
    BY <1>1, <1>3, AppendProperties
  <2> QED BY <1>3, <2>1, LenProperties
<1>5. SlackTypeOK'
  BY <1>1, <1>2, <1>4 DEF SlackInv, SlackTypeOK
<1>6. PostedInv'
  BY <1>1 DEF SlackInv, PostedInv
<1>7. \A i \in DOMAIN slInbox' : i \in DOMAIN slInbox \/ slInbox'[i] = id
  BY <1>3, <1>4
<1>8. id \notin slExcused' => \A i \in DOMAIN slInbox : slInbox[i] # id
  BY <1>2 DEF SlackInv, OnceInv
<1>9. id \notin slExcused' => slRuns[id] = 0 /\ ~(slAt = "handle" /\ slHand = id)
  <2> SUFFICES ASSUME id \notin slExcused', id \notin slSeen, id \notin slExcused
               PROVE  slRuns[id] = 0 /\ ~(slAt = "handle" /\ slHand = id)
    BY <1>2
  <2>1. slRuns[id] \in 0..2 /\ ~(slRuns[id] >= 1)
    BY DEF SlackInv, OnceInv, SlackTypeOK
  <2>2. ~(slAt = "handle" /\ slHand = id)
    BY DEF SlackInv, OnceInv
  <2> QED BY <2>1, <2>2
<1>10. OnceInv'
  <2>1. \A i, j \in DOMAIN slInbox' :
          slInbox'[i] = slInbox'[j] /\ slInbox'[i] \notin slExcused' => i = j
    <3> SUFFICES ASSUME NEW i \in DOMAIN slInbox', NEW j \in DOMAIN slInbox',
                        slInbox'[i] = slInbox'[j], slInbox'[i] \notin slExcused'
                 PROVE  i = j
      OBVIOUS
    <3>1. CASE i \in DOMAIN slInbox /\ j \in DOMAIN slInbox
      BY <1>2, <1>4, <3>1 DEF SlackInv, OnceInv
    <3>2. CASE i \notin DOMAIN slInbox \/ j \notin DOMAIN slInbox
      <4>1. slInbox'[i] = id /\ slInbox'[j] = id
        BY <1>7, <3>2
      <4>2. i \notin DOMAIN slInbox /\ j \notin DOMAIN slInbox
        BY <1>4, <1>8, <4>1
      <4> QED BY <1>3, <1>4, <4>2
    <3> QED BY <3>1, <3>2
  <2>2. \A i \in DOMAIN slInbox' :
          slInbox'[i] \notin slExcused' =>
             slRuns'[slInbox'[i]] = 0 /\ ~(slAt' = "handle" /\ slHand' = slInbox'[i])
    BY <1>1, <1>2, <1>4, <1>7, <1>9 DEF SlackInv, OnceInv
  <2>3. \A i \in DOMAIN slInbox' : slInbox'[i] \in slSeen' \cup slExcused'
    BY <1>2, <1>4, <1>7 DEF SlackInv, OnceInv
  <2>4. slAt' \in {"handle", "run", "reply"} /\ slSocket' = "up" => slHand' \in slAcked'
    BY <1>1 DEF SlackInv, OnceInv
  <2>5. slAt' = "handle" =>
          /\ slHand' \in slSeen' \cup slExcused'
          /\ slHand' \notin slExcused' => slRuns'[slHand'] = 0
    BY <1>1, <1>2 DEF SlackInv, OnceInv
  <2>6. \A k \in Envelopes :
          k \notin slExcused' => slRuns'[k] <= 1 /\ (slRuns'[k] >= 1 => k \in slSeen')
    BY <1>1, <1>2 DEF SlackInv, OnceInv
  <2> QED BY <2>1, <2>2, <2>3, <2>4, <2>5, <2>6 DEF OnceInv
<1> QED BY <1>5, <1>6, <1>10 DEF SlackInv

\* A socket that ends or falls silent keeps what arrived before.
LEMMA EndingKeeps ==
    ASSUME SlackInv, SocketOver \/ SocketBreaks \/ SilenceEnds
    PROVE  SlackInv'
<1>1. /\ slSocket' \in {"over", "broken", "silent"} /\ slBreaks' \in 0..MaxBreaks
      /\ UNCHANGED <<slPosted, slAcked, slSeen, slAt, slResolved, slHand, slBackoff, slWait,
                     slStops, slRuns, slExcused, slLost>>
      /\ \E n \in 0..Len(slInbox) : slInbox' = SubSeq(slInbox, 1, n)
  <2>1. slInbox \in Seq(DOMAIN slPosted) /\ slBreaks \in 0..MaxBreaks
    BY DEF SlackInv, SlackTypeOK
  <2>2. CASE SocketOver
    <3>1. SubSeq(slInbox, 1, Len(slInbox)) = slInbox /\ Len(slInbox) \in 0..Len(slInbox)
      BY <2>1, SubSeqFull, LenProperties
    <3> QED BY <2>1, <2>2, <3>1 DEF SocketOver, slServer, slPacing, slHistory
  <2>3. CASE SocketBreaks
    BY <2>1, <2>3, SlackNumbers DEF SocketBreaks, slServer, slPacing
  <2>4. CASE SilenceEnds
    <3>1. SubSeq(slInbox, 1, Len(slInbox)) = slInbox /\ Len(slInbox) \in 0..Len(slInbox)
      BY <2>1, SubSeqFull, LenProperties
    <3> QED BY <2>1, <2>4, <3>1 DEF SilenceEnds, slServer, slPacing, slHistory
  <2> QED BY <2>2, <2>3, <2>4
<1>2. PICK n \in 0..Len(slInbox) : slInbox' = SubSeq(slInbox, 1, n)
  BY <1>1
<1>3. /\ slInbox' \in Seq(DOMAIN slPosted) /\ DOMAIN slInbox' \subseteq DOMAIN slInbox
      /\ \A i \in DOMAIN slInbox' : slInbox'[i] = slInbox[i]
  <2>1. slInbox \in Seq(DOMAIN slPosted) /\ Len(slInbox) \in Nat /\ DOMAIN slInbox = 1..Len(slInbox)
    BY LenProperties DEF SlackInv, SlackTypeOK
  <2>2. \A i \in 1..n : slInbox[i] \in DOMAIN slPosted
    BY <2>1, ElementOfSeq
  <2>3. slInbox' = [i \in 1..n |-> slInbox[i]]
    BY <1>2, <2>1, SubSeqProperties
  <2>4. slInbox' \in Seq(DOMAIN slPosted)
    BY <2>2, <2>3, SeqDef
  <2> QED BY <2>1, <2>3, <2>4
<1>4. SlackTypeOK'
  BY <1>1, <1>3 DEF SlackInv, SlackTypeOK
<1>5. PostedInv'
  BY <1>1 DEF SlackInv, PostedInv
<1>6. OnceInv'
  BY <1>1, <1>3 DEF SlackInv, OnceInv
<1> QED BY <1>4, <1>5, <1>6 DEF SlackInv

\* Reading takes the oldest frame, and acknowledges it for sure while the
\* socket is up.
LEMMA ReadingKeeps ==
    ASSUME SlackInv, ReadEnvelope
    PROVE  SlackInv'
<1>0. slInbox \in Seq(DOMAIN slPosted) /\ slInbox # <<>> /\ DOMAIN slInbox = 1..Len(slInbox) /\ Len(slInbox) \in Nat
  BY LenProperties DEF SlackInv, SlackTypeOK, ReadEnvelope
<1>1. PICK id : id = Head(slInbox)
  OBVIOUS
<1>2. /\ slInbox' \in Seq(DOMAIN slPosted) /\ DOMAIN slInbox' = 1..(Len(slInbox) - 1)
      /\ \A i \in DOMAIN slInbox' : slInbox'[i] = slInbox[i + 1] /\ i + 1 \in DOMAIN slInbox
      /\ 1 \in DOMAIN slInbox /\ id = slInbox[1] /\ id \in DOMAIN slPosted
  <2>1. slInbox' = Tail(slInbox)
    BY DEF ReadEnvelope
  <2>2. /\ slInbox' \in Seq(DOMAIN slPosted) /\ Len(slInbox') = Len(slInbox) - 1
        /\ \A i \in 1..Len(slInbox') : slInbox'[i] = slInbox[i + 1]
    BY <1>0, <2>1, HeadTailProperties
  <2>3. id = slInbox[1] /\ 1 \in DOMAIN slInbox
    BY <1>0, <1>1, EmptySeq
  <2>4. id \in DOMAIN slPosted
    BY <1>0, <2>3, ElementOfSeq
  <2> QED BY <1>0, <2>2, <2>3, <2>4, LenProperties
<1>3. /\ slAt = "read"
      /\ slAcked' = slAcked \cup {id} \/ (slSocket # "up" /\ slAcked' = slAcked)
      /\ (slAt' = "handle" /\ slHand' = id) \/ (slAt' = slAt /\ slHand' = slHand)
      /\ UNCHANGED <<slPosted, slSeen, slSocket, slResolved, slBackoff, slWait,
                     slBreaks, slStops, slRuns, slExcused, slLost>>
  BY <1>1 DEF ReadEnvelope, Discharged, slPacing, slHistory
<1>4. SlackTypeOK'
  <2>1. slAcked' \subseteq DOMAIN slPosted /\ slHand' \in Envelopes \cup {NoEnvelope}
    BY <1>2, <1>3, PostedAreEnvelopes DEF SlackInv, SlackTypeOK
  <2> QED BY <1>2, <1>3, <2>1 DEF SlackInv, SlackTypeOK
<1>5. PostedInv'
  BY <1>2, <1>3 DEF SlackInv, PostedInv
<1>6. OnceInv'
  <2>1. slAt' \in {"handle", "run", "reply"} /\ slSocket' = "up" => slHand' \in slAcked'
    BY <1>3
  <2>2. \A i \in DOMAIN slInbox' : slInbox'[i] \in slSeen' \cup slExcused'
    BY <1>2, <1>3 DEF SlackInv, OnceInv
  <2>3. \A i, j \in DOMAIN slInbox' :
          slInbox'[i] = slInbox'[j] /\ slInbox'[i] \notin slExcused' => i = j
    <3> TAKE i, j \in DOMAIN slInbox'
    <3>1. slInbox'[i] = slInbox'[j] /\ slInbox'[i] \notin slExcused' => i + 1 = j + 1
      BY <1>2, <1>3 DEF SlackInv, OnceInv
    <3> QED BY <1>0, <1>2, <3>1
  <2>4. \A i \in DOMAIN slInbox' :
          slInbox'[i] \notin slExcused' =>
             slRuns'[slInbox'[i]] = 0 /\ ~(slAt' = "handle" /\ slHand' = slInbox'[i])
    <3> SUFFICES ASSUME NEW i \in DOMAIN slInbox', slInbox'[i] \notin slExcused
                 PROVE  slRuns[slInbox'[i]] = 0 /\ slInbox'[i] # id
      BY <1>3
    <3>1. slRuns[slInbox'[i]] = 0
      BY <1>2 DEF SlackInv, OnceInv
    <3>2. slInbox'[i] = id => i + 1 = 1
      BY <1>2 DEF SlackInv, OnceInv
    <3>3. i + 1 # 1
      BY <1>0, <1>2
    <3> QED BY <3>1, <3>2, <3>3
  <2>5. slAt' = "handle" =>
          /\ slHand' \in slSeen' \cup slExcused'
          /\ slHand' \notin slExcused' => slRuns'[slHand'] = 0
    BY <1>2, <1>3 DEF SlackInv, OnceInv
  <2>6. \A k \in Envelopes :
          k \notin slExcused' => slRuns'[k] <= 1 /\ (slRuns'[k] >= 1 => k \in slSeen')
    BY <1>3 DEF SlackInv, OnceInv
  <2> QED BY <2>1, <2>2, <2>3, <2>4, <2>5, <2>6 DEF OnceInv
<1> QED BY <1>4, <1>5, <1>6 DEF SlackInv

\* What is run was in hand, and is no longer.
LEMMA HandlingKeeps ==
    ASSUME SlackInv, HandleMessage
    PROVE  SlackInv'
<1>1. /\ slAt = "handle" /\ slHand \in DOMAIN slPosted /\ slHand \in Envelopes
      /\ UNCHANGED <<slPosted, slAcked, slSeen, slInbox, slSocket, slResolved, slBackoff, slWait,
                     slBreaks, slStops, slExcused, slLost>>
  BY PostedAreEnvelopes DEF SlackInv, PostedInv, HandleMessage, slServer, slStream, slPacing
<1>2. \/ slAt' = "read" /\ slHand' = NoEnvelope
      \/ slAt' \in {"run", "reply"} /\ slHand' = slHand
  BY DEF HandleMessage
<1>3. slRuns \in [Envelopes -> 0..2]
  BY DEF SlackInv, SlackTypeOK
<1>4. /\ slRuns' \in [Envelopes -> 0..2]
      /\ \A id \in Envelopes : id # slHand => slRuns'[id] = slRuns[id]
      /\ slRuns'[slHand] = slRuns[slHand] \/ slRuns'[slHand] <= slRuns[slHand] + 1
  <2>1. slRuns' = slRuns \/ slRuns' = [slRuns EXCEPT ![slHand] = Smaller(slRuns[slHand] + 1, 2)]
    BY DEF HandleMessage
  <2>2. slRuns[slHand] \in 0..2
    BY <1>1, <1>3
  <2>3. Smaller(slRuns[slHand] + 1, 2) \in 0..2 /\ Smaller(slRuns[slHand] + 1, 2) <= slRuns[slHand] + 1
    BY <2>2 DEF Smaller
  <2> QED BY <1>1, <1>3, <2>1, <2>3
<1>5. SlackTypeOK'
  <2>1. slHand' \in Envelopes \cup {NoEnvelope} /\ slAt' \in {"run", "reply", "read"}
    BY <1>1, <1>2
  <2> QED BY <1>1, <1>4, <2>1 DEF SlackInv, SlackTypeOK
<1>6. PostedInv'
  BY <1>1, <1>2 DEF SlackInv, PostedInv
<1>7. OnceInv'
  <2>1. slAt' \in {"handle", "run", "reply"} /\ slSocket' = "up" => slHand' \in slAcked'
    BY <1>1, <1>2 DEF SlackInv, OnceInv
  <2>2. slInbox \in Seq(DOMAIN slPosted)
    BY DEF SlackInv, SlackTypeOK
  <2>3. \A i \in DOMAIN slInbox : slInbox[i] \in Envelopes
    BY <2>2, ElementOfSeq, LenProperties, PostedAreEnvelopes DEF SlackInv
  <2>4. \A i \in DOMAIN slInbox' :
          slInbox'[i] \notin slExcused' =>
             slRuns'[slInbox'[i]] = 0 /\ ~(slAt' = "handle" /\ slHand' = slInbox'[i])
    <3> SUFFICES ASSUME NEW i \in DOMAIN slInbox, slInbox[i] \notin slExcused
                 PROVE  slRuns'[slInbox[i]] = 0
      BY <1>1, <1>2
    <3>1. slRuns[slInbox[i]] = 0 /\ slInbox[i] # slHand
      BY <1>1 DEF SlackInv, OnceInv
    <3> QED BY <1>4, <2>3, <3>1
  <2>5. \A id \in Envelopes :
          id \notin slExcused => slRuns'[id] <= 1 /\ (slRuns'[id] >= 1 => id \in slSeen)
    <3> SUFFICES ASSUME NEW id \in Envelopes, id \notin slExcused
                 PROVE  slRuns'[id] <= 1 /\ (slRuns'[id] >= 1 => id \in slSeen)
      OBVIOUS
    <3>1. CASE id # slHand
      BY <1>4, <3>1 DEF SlackInv, OnceInv
    <3>2. CASE id = slHand
      <4>1. slRuns[id] = 0 /\ id \in slSeen
        BY <1>1, <3>2 DEF SlackInv, OnceInv
      <4>2. slRuns'[id] = 0 \/ slRuns'[id] <= 1
        BY <1>4, <3>2, <4>1
      <4> QED BY <4>1, <4>2
    <3> QED BY <3>1, <3>2
  <2> QED BY <1>1, <1>2, <2>1, <2>4, <2>5 DEF SlackInv, OnceInv
<1> QED BY <1>5, <1>6, <1>7 DEF SlackInv

LEMMA SlackInvStep == SlackInv /\ [SlackNext]_slVars => SlackInv'
<1> SUFFICES ASSUME SlackInv, [SlackNext]_slVars PROVE SlackInv'
  OBVIOUS
<1>0. /\ slBackoff \in SlackRetryMin..SlackRetryMax /\ slWait \in 0..SlackRetryMax
      /\ slResolved \in BOOLEAN /\ slAt \in SlackStages /\ (slAt = "sleep" => slWait >= 1)
      /\ slHand \in Envelopes \cup {NoEnvelope} /\ slAcked \subseteq DOMAIN slPosted
      /\ slLost \subseteq Envelopes /\ slStops \in 0..MaxSlackStops
  BY DEF SlackInv, SlackTypeOK, PostedInv, SlackStages
<1>1. SlackRetryMin \in SlackRetryMin..SlackRetryMax /\ 0 \in 0..SlackRetryMax
  BY SlackNumbers
<1>2. CASE ResolveConversation
  BY <1>0, <1>2, ListenerMoves DEF ResolveConversation, slPacing, slHistory, SlackStages
<1>3. CASE ResolveFails
  BY <1>0, <1>3, FailureDelays, ListenerMoves DEF ResolveFails, slHistory, SlackStages
<1>4. CASE OpenFails
  BY <1>0, <1>4, FailureDelays, ListenerMoves DEF OpenFails, slHistory, SlackStages
<1>5. CASE OpenSocket \/ OpenHangs
  <2>1. /\ slAt' = "read" /\ slSocket' \in {"up", "silent"} /\ slBreaks' \in 0..MaxBreaks
        /\ UNCHANGED <<slPosted, slAcked, slSeen, slInbox, slResolved, slHand, slBackoff, slWait,
                       slStops, slRuns, slExcused, slLost>>
    <3>1. slBreaks \in 0..MaxBreaks /\ MaxBreaks \in Nat
      BY SlackNumbers DEF SlackInv, SlackTypeOK
    <3> QED BY <1>5, <3>1 DEF OpenSocket, OpenHangs, slServer, slPacing, slHistory
  <2>2. SlackTypeOK'
    BY <2>1 DEF SlackInv, SlackTypeOK
  <2>3. PostedInv'
    BY <2>1 DEF SlackInv, PostedInv
  <2>4. OnceInv'
    BY <2>1 DEF SlackInv, OnceInv
  <2> QED BY <2>2, <2>3, <2>4 DEF SlackInv
<1>6. CASE ReconnectAtOnce
  BY <1>0, <1>1, <1>6, ClosingKeeps DEF ReconnectAtOnce
<1>7. CASE ReadFails
  BY <1>0, <1>7, FailureDelays, ClosingKeeps DEF ReadFails
<1>8. CASE AckFails
  <2>1. Head(slInbox) \in DOMAIN slPosted
    <3>1. slInbox \in Seq(DOMAIN slPosted) /\ slInbox # <<>>
      BY <1>8 DEF AckFails, SlackInv, SlackTypeOK
    <3> QED BY <3>1, HeadTailProperties
  <2>2. slAcked' \subseteq DOMAIN slPosted /\ slLost' \subseteq Envelopes
    BY <1>0, <1>8, <2>1, PostedAreEnvelopes DEF AckFails, SlackInv
  <2> QED BY <1>0, <1>8, <2>2, FailureDelays, ClosingKeeps DEF AckFails
<1>9. CASE CommandEnds
  BY <1>0, <1>9, ListenerMoves DEF CommandEnds, slPacing, slHistory, SlackStages
<1>10. CASE ReplySent
  BY <1>0, <1>10, ListenerMoves DEF ReplySent, slPacing, slHistory, SlackStages
<1>11. CASE SlackSleep
  <2>1. slAt = "sleep" /\ slWait' = slWait - 1 /\ slAt' = IF slWait = 1 THEN "resolve" ELSE "sleep"
    BY <1>11 DEF SlackSleep
  <2>2. slWait' \in 0..SlackRetryMax /\ (slAt' = "sleep" => slWait' >= 1)
    BY <1>0, <2>1, SlackNumbers
  <2>3. slAt' \in {"resolve", "sleep"}
    BY <2>1
  <2> QED BY <1>0, <1>11, <2>2, <2>3, ListenerMoves DEF SlackSleep, slHistory, SlackStages
<1>12. CASE RestartSlack
  <2>1. slLost' \subseteq Envelopes
    <3>1. slAt = "handle" => slHand \in Envelopes
      BY PostedAreEnvelopes DEF SlackInv, PostedInv
    <3> QED BY <1>0, <1>12, <3>1 DEF RestartSlack
  <2>2. slStops' \in 0..MaxSlackStops
    BY <1>0, <1>12, SlackNumbers DEF RestartSlack
  <2>3. /\ CloseSocket /\ slAt' = "resolve" /\ slHand' = NoEnvelope /\ slResolved' \in BOOLEAN
        /\ slBackoff' = SlackRetryMin /\ slWait' = 0 /\ UNCHANGED <<slPosted, slAcked, slBreaks, slRuns>>
    BY <1>12 DEF RestartSlack
  <2> QED BY <1>0, <1>1, <2>1, <2>2, <2>3, ClosingKeeps
<1>13. CASE UNCHANGED slVars
  BY <1>0, <1>13, ListenerMoves DEF slVars, slPacing, slHistory
<1> QED BY <1>2, <1>3, <1>4, <1>5, <1>6, <1>7, <1>8, <1>9, <1>10, <1>11, <1>12, <1>13,
           PostKeeps, DeliveryKeeps, EndingKeeps, ReadingKeeps, HandlingKeeps
        DEF SlackNext, Service, Listening, Listener

LEMMA SlackInvPromises == SlackInv => SlackTypeOK /\ SlowCommandsRunOnce
<1> SUFFICES ASSUME SlackInv, NEW id \in Envelopes, slRuns[id] = 2 PROVE id \in slExcused
  BY DEF SlackInv, SlowCommandsRunOnce
<1>1. id \notin slExcused => slRuns[id] <= 1
  BY DEF SlackInv, OnceInv
<1> QED BY <1>1

\* Every variable of the Slack listener keeps its type.
THEOREM SlackTypeCorrect == SlackSpec => []SlackTypeOK
BY SlackInvInit, SlackInvStep, SlackInvPromises, PTL DEF SlackSpec

\* A slow command is not run again because Slack grew impatient with it: a
\* second run follows an ended socket, or a wait behind another command.
THEOREM SlowCommandsCorrect == SlackSpec => []SlowCommandsRunOnce
BY SlackInvInit, SlackInvStep, SlackInvPromises, PTL DEF SlackSpec

-----------------------------------------------------------------------------
\* The link to IRC.

LEMMA LinkNumbers ==
    /\ ReconnectMin \in Nat /\ ReconnectMin >= 1
    /\ ReconnectMax \in Nat /\ ReconnectMax >= ReconnectMin
    /\ StableConnection \in Nat /\ StableConnection >= 1
    /\ LinkHorizon \in Nat /\ LinkHorizon >= 1
    /\ AttemptMax \in Nat
BY LinkAssumption

\* The delays double from the first on.
LEMMA DelaysDouble ==
    /\ Doubled \in [0..LinkHorizon -> Nat]
    /\ Doubled[0] = ReconnectMin
    /\ \A n \in 1..LinkHorizon : Doubled[n] = 2 * Doubled[n - 1]
<1> DEFINE Fits(f, k) ==
             f = [n \in 0..k |-> IF n = 0 THEN ReconnectMin ELSE 2 * f[n - 1]]
           S == {k \in Nat : \E f \in [0..k -> Nat] : Fits(f, k)}
<1>1. 0 \in S
  <2>1. [n \in 0..0 |-> ReconnectMin] \in [0..0 -> Nat] /\ Fits([n \in 0..0 |-> ReconnectMin], 0)
    BY LinkNumbers
  <2> QED BY <2>1
<1>2. ASSUME NEW k \in Nat, k \in S PROVE k + 1 \in S
  <2>1. PICK f \in [0..k -> Nat] : Fits(f, k)
    BY <1>2
  <2> DEFINE g == [n \in 0..(k + 1) |-> IF n = k + 1 THEN 2 * f[k] ELSE f[n]]
  <2>2. g \in [0..(k + 1) -> Nat]
    OBVIOUS
  <2>3. \A n \in 0..(k + 1) : g[n] = IF n = 0 THEN ReconnectMin ELSE 2 * g[n - 1]
    <3> TAKE n \in 0..(k + 1)
    <3>1. CASE n = k + 1
      BY <3>1
    <3>2. CASE n # k + 1
      <4>1. n \in 0..k /\ (n # 0 => n - 1 \in 0..k /\ n - 1 # k + 1)
        BY <3>2
      <4>2. f[n] = IF n = 0 THEN ReconnectMin ELSE 2 * f[n - 1]
        BY <2>1, <4>1
      <4> QED BY <3>2, <4>1, <4>2
    <3> QED BY <3>1, <3>2
  <2>4. Fits(g, k + 1)
    BY <2>2, <2>3
  <2> HIDE DEF g, Fits
  <2>5. \E h \in [0..(k + 1) -> Nat] : Fits(h, k + 1)
    BY <2>2, <2>4
  <2> QED BY <2>5
<1>3. LinkHorizon \in S
  <2> HIDE DEF S
  <2> QED BY <1>1, <1>2, StepByStep, LinkNumbers
<1>4. PICK f \in [0..LinkHorizon -> Nat] : Fits(f, LinkHorizon)
  BY <1>3
<1>5. Doubled = [n \in 0..LinkHorizon |-> IF n = 0 THEN ReconnectMin ELSE 2 * Doubled[n - 1]]
  BY <1>4 DEF Doubled
<1>6. DOMAIN Doubled = 0..LinkHorizon /\ Doubled[0] = ReconnectMin
  BY <1>5, LinkNumbers
<1>7. \A n \in 1..LinkHorizon : Doubled[n] = 2 * Doubled[n - 1]
  <2>1. \A n \in 1..LinkHorizon : n \in 0..LinkHorizon /\ n # 0
    BY LinkNumbers
  <2> QED BY <1>5, <2>1
<1> DEFINE R == {k \in Nat : k \in 0..LinkHorizon => Doubled[k] \in Nat}
<1>8. Nat \subseteq R
  <2>1. 0 \in R
    BY <1>6, LinkNumbers
  <2>2. ASSUME NEW k \in Nat, k \in R PROVE k + 1 \in R
    <3> SUFFICES ASSUME k + 1 \in 0..LinkHorizon PROVE Doubled[k + 1] \in Nat
      OBVIOUS
    <3>1. k \in 0..LinkHorizon /\ k + 1 \in 1..LinkHorizon /\ (k + 1) - 1 = k
      BY LinkNumbers
    <3>2. Doubled[k + 1] = 2 * Doubled[k]
      BY <1>7, <3>1
    <3> QED BY <2>2, <3>1, <3>2
  <2> HIDE DEF R
  <2> QED BY <2>1, <2>2, StepByStep
<1>9. Doubled \in [0..LinkHorizon -> Nat]
  <2>1. Doubled = [n \in 0..LinkHorizon |-> Doubled[n]]
    BY <1>5, <1>6
  <2>2. \A n \in 0..LinkHorizon : Doubled[n] \in Nat
    BY <1>8
  <2> QED BY <2>1, <2>2
<1> QED BY <1>6, <1>7, <1>9

\* What the delays come to is a number, and grows by one of them each time.
LEMMA DelaysAddUp ==
    /\ Earliest \in [0..LinkHorizon -> Nat]
    /\ \A n \in 0..LinkHorizon : n <= 1 => Earliest[n] = 0
    /\ \A n \in 2..LinkHorizon :
          Earliest[n] = Earliest[n - 1] + Least(Doubled[n - 2], ReconnectMax)
<1> DEFINE Next1(n, before) == before + Least(Doubled[n - 2], ReconnectMax)
           Fits(f, k) ==
             f = [n \in 0..k |-> IF n <= 1 THEN 0 ELSE Next1(n, f[n - 1])]
           S == {k \in Nat : k \in 0..LinkHorizon => \E f \in [0..k -> Nat] : Fits(f, k)}
<1>0. ASSUME NEW n \in 2..LinkHorizon, NEW before \in Nat PROVE Next1(n, before) \in Nat
  <2>1. n - 2 \in 0..LinkHorizon
    BY LinkNumbers
  <2>2. Doubled[n - 2] \in Nat
    BY <2>1, DelaysDouble
  <2> QED BY <2>2, LinkNumbers DEF Least
<1> HIDE DEF Next1
<1>1. 0 \in S
  <2>1. [n \in 0..0 |-> 0] \in [0..0 -> Nat] /\ Fits([n \in 0..0 |-> 0], 0)
    OBVIOUS
  <2> QED BY <2>1
<1>2. ASSUME NEW k \in Nat, k \in S PROVE k + 1 \in S
  <2> SUFFICES ASSUME k + 1 \in 0..LinkHorizon
               PROVE  \E h \in [0..(k + 1) -> Nat] : Fits(h, k + 1)
    OBVIOUS
  <2>0. k \in 0..LinkHorizon
    BY LinkNumbers
  <2>1. PICK f \in [0..k -> Nat] : Fits(f, k)
    BY <1>2, <2>0
  <2> DEFINE g == [n \in 0..(k + 1) |->
                     IF n = k + 1 THEN IF n <= 1 THEN 0 ELSE Next1(n, f[k]) ELSE f[n]]
  <2>2. g \in [0..(k + 1) -> Nat]
    <3>1. k + 1 > 1 => Next1(k + 1, f[k]) \in Nat
      BY <1>0
    <3> QED BY <3>1
  <2>3. \A n \in 0..(k + 1) : g[n] = IF n <= 1 THEN 0 ELSE Next1(n, g[n - 1])
    <3> TAKE n \in 0..(k + 1)
    <3>1. CASE n = k + 1
      BY <3>1
    <3>2. CASE n # k + 1
      <4>1. n \in 0..k /\ (n > 1 => n - 1 \in 0..k /\ n - 1 # k + 1)
        BY <3>2
      <4>2. f[n] = IF n <= 1 THEN 0 ELSE Next1(n, f[n - 1])
        BY <2>1, <4>1
      <4> QED BY <3>2, <4>1, <4>2
    <3> QED BY <3>1, <3>2
  <2>4. Fits(g, k + 1)
    BY <2>2, <2>3
  <2> HIDE DEF g, Fits
  <2> QED BY <2>2, <2>4
<1>3. \E f \in [0..LinkHorizon -> Nat] : Fits(f, LinkHorizon)
  <2>1. LinkHorizon \in S
    <3> HIDE DEF S
    <3> QED BY <1>1, <1>2, StepByStep, LinkNumbers
  <2> HIDE DEF Fits
  <2> QED BY <2>1, LinkNumbers
<1>4. PICK f \in [0..LinkHorizon -> Nat] : Fits(f, LinkHorizon)
  BY <1>3
<1>5. Earliest = [n \in 0..LinkHorizon |-> IF n <= 1 THEN 0 ELSE Next1(n, Earliest[n - 1])]
  BY <1>4 DEF Earliest, Next1
<1>6. DOMAIN Earliest = 0..LinkHorizon /\ \A n \in 0..LinkHorizon : n <= 1 => Earliest[n] = 0
  BY <1>5
<1>7. \A n \in 2..LinkHorizon : Earliest[n] = Next1(n, Earliest[n - 1])
  <2>1. \A n \in 2..LinkHorizon : n \in 0..LinkHorizon /\ ~(n <= 1)
    BY LinkNumbers
  <2> QED BY <1>5, <2>1
<1> DEFINE R == {k \in Nat : k \in 0..LinkHorizon => Earliest[k] \in Nat}
<1>8. Nat \subseteq R
  <2>1. 0 \in R
    BY <1>6
  <2>2. ASSUME NEW k \in Nat, k \in R PROVE k + 1 \in R
    <3> SUFFICES ASSUME k + 1 \in 0..LinkHorizon PROVE Earliest[k + 1] \in Nat
      OBVIOUS
    <3>1. k \in 0..LinkHorizon /\ (k + 1) - 1 = k
      BY LinkNumbers
    <3>2. CASE k + 1 <= 1
      BY <1>6, <3>2
    <3>3. CASE k + 1 \in 2..LinkHorizon
      <4>1. Earliest[k + 1] = Next1(k + 1, Earliest[k])
        BY <1>7, <3>1, <3>3
      <4> QED BY <1>0, <2>2, <3>1, <3>3, <4>1
    <3> QED BY <3>2, <3>3
  <2> HIDE DEF R
  <2> QED BY <2>1, <2>2, StepByStep
<1>9. Earliest \in [0..LinkHorizon -> Nat]
  <2>1. Earliest = [n \in 0..LinkHorizon |-> Earliest[n]]
    BY <1>5, <1>6
  <2>2. \A n \in 0..LinkHorizon : Earliest[n] \in Nat
    BY <1>8
  <2> QED BY <2>1, <2>2
<1> QED BY <1>6, <1>7, <1>9 DEF Next1

\* What is owed to the owner: how long the outage may have lasted unnoticed,
\* and what has passed since, as long as nothing was reported.
SilenceInv ==
    /\ lkAt = "up" => lkDownFor = NoOutage /\ ~lkReported
    /\ lkAt = "sleep" => lkDownFor # NoOutage
    /\ lkReported => lkDownFor # NoOutage
    /\ lkReported <=> lkTold = "down"
    /\ lkDownFor # NoOutage => lkOut <= AttemptMax + lkDownFor
    /\ lkDownFor = NoOutage =>
          /\ lkAt = "up" => lkOut = 0
          /\ lkAt = "attempt" => lkOut <= lkSpent
          /\ lkAt = "down" => lkOut <= AttemptMax
    /\ ~lkReported /\ lkDownFor # NoOutage =>
          /\ lkAt = "sleep" => lkDownFor + lkWait < 2 * ReconnectMax
          /\ lkAt = "attempt" => lkDownFor < 2 * ReconnectMax + lkSpent
          /\ lkAt = "down" => lkDownFor < 2 * ReconnectMax + AttemptMax

\* The n-th delay is still to come or is being slept, and what came before it
\* has passed.
FlappingInv ==
    lkTries < LinkHorizon =>
      /\ Least(Earliest[lkTries], LinkHorizon) <= lkSince
      /\ lkAt = "sleep" =>
            /\ lkBackoff >= Least(Doubled[lkTries], ReconnectMax)
            /\ lkTries >= 1 =>
                 lkSince + lkWait >= Least(Earliest[lkTries] + Least(Doubled[lkTries - 1], ReconnectMax),
                                           LinkHorizon)
      /\ lkAt # "sleep" /\ lkTries >= 1 =>
            lkBackoff >= Least(Doubled[lkTries - 1], ReconnectMax)

LinkInv == LinkTypeOK /\ SilenceInv /\ FlappingInv

\* Delays and sums are numbers wherever the invariant asks for them.
LEMMA DelayTypes ==
    /\ \A n \in 0..LinkHorizon : Doubled[n] \in Nat /\ Earliest[n] \in Nat
    /\ Doubled[0] = ReconnectMin
    /\ Earliest[0] = 0 /\ Earliest[1] = 0
BY DelaysDouble, DelaysAddUp, LinkNumbers

LEMMA LinkInvInit == LinkInit => LinkInv
<1> SUFFICES ASSUME LinkInit PROVE LinkInv
  OBVIOUS
<1> USE DEF LinkInit
<1>1. LinkTypeOK
  <2>1. lkBackoff \in ReconnectMin..ReconnectMax /\ lkWait \in 0..ReconnectMax
    BY LinkNumbers
  <2>2. lkSpent \in 0..AttemptMax /\ lkUptime \in 0..StableConnection
    BY LinkNumbers
  <2>3. {lkOut, lkSince, lkTries} \subseteq 0..LinkHorizon
    BY LinkNumbers
  <2> QED BY <2>1, <2>2, <2>3 DEF LinkTypeOK, Stages
<1>2. SilenceInv
  BY LinkNumbers DEF SilenceInv
<1>3. FlappingInv
  <2>1. Least(Earliest[lkTries], LinkHorizon) <= lkSince
    BY LinkNumbers, DelayTypes DEF Least
  <2>2. lkBackoff >= Least(Doubled[lkTries - 1], ReconnectMax)
    BY LinkNumbers, DelayTypes DEF Least
  <2> QED BY <2>1, <2>2 DEF FlappingInv
<1> QED BY <1>1, <1>2, <1>3 DEF LinkInv

\* What the types say, in numbers.
LEMMA LinkTypes ==
    ASSUME LinkTypeOK
    PROVE  /\ lkBackoff \in Nat /\ lkBackoff >= ReconnectMin /\ lkBackoff <= ReconnectMax
           /\ lkWait \in Nat /\ lkWait <= ReconnectMax
           /\ lkSpent \in Nat /\ lkSpent <= AttemptMax
           /\ lkUptime \in Nat /\ lkUptime <= StableConnection
           /\ lkDownFor = NoOutage \/ (lkDownFor \in Nat /\ lkDownFor <= LinkHorizon)
           /\ lkOut \in Nat /\ lkOut <= LinkHorizon
           /\ lkSince \in Nat /\ lkSince <= LinkHorizon
           /\ lkTries \in Nat /\ lkTries <= LinkHorizon
BY LinkNumbers DEF LinkTypeOK

LEMMA CountedType ==
    ASSUME NEW n \in Nat, n <= LinkHorizon
    PROVE  /\ Counted(n) \in Nat /\ Counted(n) <= LinkHorizon
           /\ Counted(n) = n + 1 \/ (Counted(n) = LinkHorizon /\ n = LinkHorizon)
BY LinkNumbers DEF Counted, Least

LEMMA LinkTypeStep == LinkTypeOK /\ [LinkNext]_lkVars => LinkTypeOK'
<1> SUFFICES ASSUME LinkTypeOK, [LinkNext]_lkVars PROVE LinkTypeOK'
  OBVIOUS
<1> USE LinkTypes, LinkNumbers
<1>0. /\ Counted(lkOut) \in 0..LinkHorizon /\ Counted(lkSince) \in 0..LinkHorizon
      /\ Counted(lkTries) \in 0..LinkHorizon
      /\ lkDownFor # NoOutage => Counted(lkDownFor) \in 0..LinkHorizon
  BY CountedType
<1>1. CASE LinkTick
  <2>1. lkAt \in Stages /\ lkReported \in BOOLEAN /\ lkTold \in {"nothing", "down", "back"}
    BY DEF LinkTypeOK
  <2>2. lkSpent' \in 0..AttemptMax /\ lkUptime' \in 0..StableConnection /\ lkWait' \in 0..ReconnectMax
    BY <1>1 DEF LinkTick, Least
  <2>3. lkDownFor' \in {NoOutage} \cup 0..LinkHorizon
    BY <1>0, <1>1 DEF LinkTick
  <2>4. lkOut' \in 0..LinkHorizon /\ lkSince' \in 0..LinkHorizon
    BY <1>0, <1>1 DEF LinkTick
  <2> QED BY <1>1, <2>1, <2>2, <2>3, <2>4 DEF LinkTick, LinkTypeOK
<1>2. CASE ConnectLink
  <2>1. lkReported \in BOOLEAN /\ lkTold' \in {"nothing", "down", "back"}
    BY <1>2 DEF ConnectLink, LinkTypeOK
  <2>2. lkUptime' \in 0..StableConnection /\ lkOut' \in 0..LinkHorizon
    BY <1>2 DEF ConnectLink
  <2> QED BY <1>2, <2>1, <2>2 DEF ConnectLink, LinkTypeOK, Stages
<1>3. CASE AttemptFails
  BY <1>3 DEF AttemptFails, LinkTypeOK, Stages, lkOutage, lkHistory
<1>4. CASE LinkEnds
  <2>1. lkBackoff' \in ReconnectMin..ReconnectMax
    BY <1>4 DEF LinkEnds
  <2>2. lkSince' \in 0..LinkHorizon /\ lkTries' \in 0..LinkHorizon
    BY <1>4 DEF LinkEnds
  <2> QED BY <1>4, <2>1, <2>2 DEF LinkEnds, LinkTypeOK, Stages, lkOutage
<1>5. CASE Backoff
  <2>1. lkBackoff' \in ReconnectMin..ReconnectMax /\ lkWait' \in 0..ReconnectMax
    BY <1>5 DEF Backoff, Least
  <2>2. lkDownFor' \in {NoOutage} \cup 0..LinkHorizon
    BY <1>5 DEF Backoff, OutageSoFar, NoOutage
  <2>3. lkReported' \in BOOLEAN
    BY <1>5 DEF Backoff
  <2>4. lkTold' \in {"nothing", "down", "back"}
    BY <1>5 DEF Backoff, LinkTypeOK
  <2> QED BY <1>5, <2>1, <2>2, <2>3, <2>4 DEF Backoff, LinkTypeOK, Stages
<1>6. CASE TryAgain
  <2>1. lkSpent' \in 0..AttemptMax /\ lkTries' \in 0..LinkHorizon
    BY <1>0, <1>6 DEF TryAgain
  <2> QED BY <1>6, <2>1 DEF TryAgain, LinkTypeOK, Stages, lkOutage
<1>7. CASE RestartLink
  <2>1. lkBackoff' \in ReconnectMin..ReconnectMax /\ lkWait' \in 0..ReconnectMax
    BY <1>7 DEF RestartLink
  <2>2. lkSpent' \in 0..AttemptMax /\ lkUptime' \in 0..StableConnection
    BY <1>7 DEF RestartLink
  <2>3. {lkOut', lkSince', lkTries'} \subseteq 0..LinkHorizon
    BY <1>7 DEF RestartLink
  <2> QED BY <1>7, <2>1, <2>2, <2>3 DEF RestartLink, LinkTypeOK, Stages
<1>8. CASE UNCHANGED lkVars
  BY <1>8 DEF lkVars, lkLoop, lkOutage, lkHistory, LinkTypeOK
<1> QED BY <1>1, <1>2, <1>3, <1>4, <1>5, <1>6, <1>7, <1>8 DEF LinkNext, Reconnecting

LEMMA SilenceStep == LinkInv /\ [LinkNext]_lkVars => SilenceInv'
<1> SUFFICES ASSUME LinkInv, [LinkNext]_lkVars PROVE SilenceInv'
  OBVIOUS
<1> USE LinkTypes, LinkNumbers DEF LinkInv, NoOutage
<1>0. lkReported \in BOOLEAN /\ SilenceInv
  BY DEF LinkTypeOK
<1>1. CASE LinkTick
  <2>1. /\ UNCHANGED <<lkAt, lkReported, lkTold>>
        /\ lkSpent' = (IF lkAt = "attempt" THEN lkSpent + 1 ELSE lkSpent)
        /\ lkWait' = (IF lkAt = "sleep" THEN lkWait - 1 ELSE lkWait)
        /\ lkDownFor' = (IF lkDownFor = NoOutage THEN NoOutage ELSE Counted(lkDownFor))
        /\ lkOut' = (IF lkAt = "up" THEN lkOut ELSE Counted(lkOut))
        /\ lkAt \in {"attempt", "up", "sleep"}
    BY <1>1 DEF LinkTick
  <2>2. /\ Counted(lkOut) \in Nat /\ Counted(lkOut) <= lkOut + 1 /\ Counted(lkOut) <= LinkHorizon
    BY CountedType
  <2>3. lkDownFor # NoOutage =>
          /\ lkDownFor \in Nat /\ Counted(lkDownFor) \in Nat /\ Counted(lkDownFor) <= lkDownFor + 1
          /\ Counted(lkDownFor) = lkDownFor + 1 \/ Counted(lkDownFor) = LinkHorizon
    BY CountedType
  <2> QED BY <1>0, <2>1, <2>2, <2>3 DEF SilenceInv
<1>2. CASE ConnectLink
  BY <1>0, <1>2 DEF ConnectLink, SilenceInv
<1>3. CASE AttemptFails
  BY <1>0, <1>3 DEF AttemptFails, SilenceInv, lkOutage, lkHistory
<1>4. CASE LinkEnds
  BY <1>0, <1>4 DEF LinkEnds, SilenceInv, lkOutage
<1>5. CASE Backoff
  <2>1. /\ lkAt = "down" /\ lkAt' = "sleep" /\ lkWait' = lkBackoff /\ UNCHANGED lkOut
        /\ lkDownFor' = (IF lkDownFor = NoOutage THEN 0 ELSE lkDownFor)
        /\ lkReported' = (lkReported \/ lkDownFor' >= ReconnectMax)
        /\ lkTold' = IF lkReported' /\ ~lkReported THEN "down" ELSE lkTold
    BY <1>5 DEF Backoff, OutageSoFar
  <2>2. lkDownFor' # NoOutage /\ lkOut' <= AttemptMax + lkDownFor' /\ lkDownFor' \in Nat
    BY <1>0, <2>1 DEF SilenceInv
  <2>3. lkReported' <=> lkTold' = "down"
    BY <1>0, <2>1, Zenon DEF SilenceInv
  <2>4. ASSUME ~lkReported' PROVE lkDownFor' + lkWait' < 2 * ReconnectMax
    <3>1. ~(lkDownFor' >= ReconnectMax)
      BY <2>1, <2>4, Zenon
    <3>2. lkWait' = lkBackoff
      BY <2>1
    <3> QED BY <2>2, <3>1, <3>2
  <2> QED BY <2>1, <2>2, <2>3, <2>4 DEF SilenceInv
<1>6. CASE TryAgain
  BY <1>0, <1>6 DEF TryAgain, SilenceInv, lkOutage
<1>7. CASE RestartLink
  BY <1>7 DEF RestartLink, SilenceInv
<1>8. CASE UNCHANGED lkVars
  BY <1>0, <1>8 DEF lkVars, lkLoop, lkOutage, lkHistory, SilenceInv
<1> QED BY <1>1, <1>2, <1>3, <1>4, <1>5, <1>6, <1>7, <1>8 DEF LinkNext, Reconnecting

LEMMA FlappingStep == LinkInv /\ [LinkNext]_lkVars => FlappingInv'
<1> SUFFICES ASSUME LinkInv, [LinkNext]_lkVars PROVE FlappingInv'
  OBVIOUS
<1> USE LinkTypes, LinkNumbers DEF LinkInv
<1>0. FlappingInv
  OBVIOUS
<1>1. CASE LinkTick
  <2>1. /\ UNCHANGED <<lkAt, lkBackoff, lkTries>> /\ lkSince' = Counted(lkSince)
        /\ lkWait' = (IF lkAt = "sleep" THEN lkWait - 1 ELSE lkWait)
    BY <1>1 DEF LinkTick
  <2>2. lkSince' \in Nat /\ (lkSince' = lkSince + 1 \/ (lkSince' = LinkHorizon /\ lkSince = LinkHorizon))
    BY <2>1, CountedType
  <2>3. lkAt = "sleep" => lkWait' = lkWait - 1 /\ lkWait' \in Nat
    BY <1>1, <2>1 DEF LinkTick
  <2>4. ASSUME lkTries < LinkHorizon
        PROVE  /\ Least(Earliest[lkTries], LinkHorizon) <= lkSince'
               /\ lkAt = "sleep" => lkBackoff >= Least(Doubled[lkTries], ReconnectMax)
               /\ lkAt # "sleep" /\ lkTries >= 1 => lkBackoff >= Least(Doubled[lkTries - 1], ReconnectMax)
    <3>1. Earliest[lkTries] \in Nat
      BY DelayTypes
    <3>2. Least(Earliest[lkTries], LinkHorizon) \in Nat
      BY <3>1 DEF Least
    <3> QED BY <1>0, <2>2, <2>4, <3>2 DEF FlappingInv
  <2>5. ASSUME lkTries < LinkHorizon, lkAt = "sleep", lkTries >= 1
        PROVE  lkSince' + lkWait' >= Least(Earliest[lkTries] + Least(Doubled[lkTries - 1], ReconnectMax),
                                           LinkHorizon)
    <3> DEFINE X == Least(Earliest[lkTries] + Least(Doubled[lkTries - 1], ReconnectMax), LinkHorizon)
    <3>1. Earliest[lkTries] \in Nat /\ Doubled[lkTries - 1] \in Nat
      BY <2>5, DelayTypes
    <3>2. X \in Nat /\ X <= LinkHorizon
      BY <3>1 DEF Least
    <3>3. lkSince + lkWait >= X
      BY <1>0, <2>5 DEF FlappingInv
    <3>4. lkSince' + lkWait' >= X
      <4> HIDE DEF X
      <4> QED BY <2>2, <2>3, <2>5, <3>2, <3>3
    <3> QED BY <3>4
  <2> QED BY <2>1, <2>4, <2>5 DEF FlappingInv
<1>2. CASE ConnectLink \/ AttemptFails
  <2>1. lkAt # "sleep" /\ lkAt' # "sleep" /\ UNCHANGED <<lkBackoff, lkSince, lkTries>>
    BY <1>2 DEF ConnectLink, AttemptFails, lkHistory
  <2> QED BY <1>0, <2>1 DEF FlappingInv
<1>4. CASE LinkEnds
  <2>1. lkAt # "sleep" /\ lkAt' # "sleep"
    BY <1>4 DEF LinkEnds
  <2>2. CASE lkUptime = StableConnection
    <3>1. lkTries' = 0 /\ lkSince' = 0
      BY <1>4, <2>2 DEF LinkEnds
    <3>2. Least(Earliest[lkTries'], LinkHorizon) <= lkSince'
      BY <3>1, DelayTypes DEF Least
    <3> QED BY <2>1, <3>1, <3>2 DEF FlappingInv
  <2>3. CASE lkUptime # StableConnection
    <3>1. UNCHANGED <<lkBackoff, lkSince, lkTries>>
      BY <1>4, <2>3 DEF LinkEnds, Held
    <3> QED BY <1>0, <2>1, <3>1 DEF FlappingInv
  <2> QED BY <2>2, <2>3
<1>5. CASE Backoff
  <2>1. /\ lkAt = "down" /\ lkAt' = "sleep" /\ lkWait' = lkBackoff /\ UNCHANGED <<lkSince, lkTries>>
        /\ lkBackoff' = Least(2 * lkBackoff, ReconnectMax)
    BY <1>5 DEF Backoff
  <2> SUFFICES ASSUME lkTries < LinkHorizon
               PROVE  /\ lkBackoff' >= Least(Doubled[lkTries], ReconnectMax)
                      /\ lkTries >= 1 =>
                           lkSince + lkBackoff >=
                             Least(Earliest[lkTries] + Least(Doubled[lkTries - 1], ReconnectMax), LinkHorizon)
    BY <1>0, <2>1 DEF FlappingInv
  <2>2. Earliest[lkTries] \in Nat /\ Doubled[lkTries] \in Nat
    BY DelayTypes
  <2>3. CASE lkTries = 0
    BY <2>1, <2>3, DelayTypes DEF Least
  <2>4. CASE lkTries >= 1
    <3>1. Doubled[lkTries - 1] \in Nat /\ Doubled[lkTries] = 2 * Doubled[lkTries - 1]
      <4>1. lkTries \in 1..LinkHorizon /\ lkTries - 1 \in 0..LinkHorizon
        BY <2>4
      <4> QED BY <4>1, DelaysDouble
    <3>2. lkBackoff >= Least(Doubled[lkTries - 1], ReconnectMax)
      BY <1>0, <2>1, <2>4 DEF FlappingInv
    <3>3. Least(Earliest[lkTries], LinkHorizon) <= lkSince
      BY <1>0 DEF FlappingInv
    <3>4. lkBackoff' >= Least(Doubled[lkTries], ReconnectMax)
      BY <2>1, <3>1, <3>2 DEF Least
    <3>5. lkSince + lkBackoff >=
             Least(Earliest[lkTries] + Least(Doubled[lkTries - 1], ReconnectMax), LinkHorizon)
      BY <2>2, <3>1, <3>2, <3>3 DEF Least
    <3> QED BY <3>4, <3>5
  <2> QED BY <2>3, <2>4
<1>6. CASE TryAgain
  <2>1. /\ lkAt = "sleep" /\ lkAt' = "attempt" /\ lkWait = 0 /\ UNCHANGED <<lkSince, lkBackoff>>
        /\ lkTries' = Counted(lkTries)
    BY <1>6 DEF TryAgain
  <2> SUFFICES ASSUME lkTries' < LinkHorizon PROVE FlappingInv'
    BY DEF FlappingInv
  <2>2. lkTries' = lkTries + 1 /\ lkTries + 1 \in 1..LinkHorizon
    BY <2>1, CountedType
  <2>3. lkBackoff' >= Least(Doubled[lkTries' - 1], ReconnectMax)
    BY <1>0, <2>1, <2>2 DEF FlappingInv
  <2>4. Least(Earliest[lkTries'], LinkHorizon) <= lkSince'
    <3>1. CASE lkTries = 0
      BY <2>1, <2>2, <3>1, DelayTypes DEF Least
    <3>2. CASE lkTries >= 1
      <4>1. Earliest[lkTries + 1] = Earliest[lkTries] + Least(Doubled[lkTries - 1], ReconnectMax)
        <5>1. lkTries + 1 \in 2..LinkHorizon /\ (lkTries + 1) - 1 = lkTries /\ (lkTries + 1) - 2 = lkTries - 1
          BY <2>2, <3>2
        <5> QED BY <5>1, DelaysAddUp
      <4>2. lkSince + lkWait >= Least(Earliest[lkTries] + Least(Doubled[lkTries - 1], ReconnectMax), LinkHorizon)
        BY <1>0, <2>1, <2>2, <3>2 DEF FlappingInv
      <4>3. lkSince + lkWait = lkSince
        BY <2>1
      <4> QED BY <2>1, <2>2, <4>1, <4>2, <4>3
    <3> QED BY <3>1, <3>2
  <2> QED BY <2>1, <2>3, <2>4 DEF FlappingInv
<1>7. CASE RestartLink
  <2>1. lkAt' = "attempt" /\ lkBackoff' = ReconnectMin /\ lkSince' = 0 /\ lkTries' = 1
    BY <1>7 DEF RestartLink
  <2>2. Least(Earliest[1], LinkHorizon) <= 0 /\ ReconnectMin >= Least(Doubled[1 - 1], ReconnectMax)
    BY DelayTypes DEF Least
  <2> QED BY <2>1, <2>2 DEF FlappingInv
<1>8. CASE UNCHANGED lkVars
  BY <1>0, <1>8 DEF lkVars, lkLoop, lkOutage, lkHistory, FlappingInv
<1> QED BY <1>1, <1>2, <1>4, <1>5, <1>6, <1>7, <1>8 DEF LinkNext, Reconnecting

LEMMA LinkInvStep == LinkInv /\ [LinkNext]_lkVars => LinkInv'
BY LinkTypeStep, SilenceStep, FlappingStep DEF LinkInv

LEMMA LinkInvPromises == LinkInv => LinkTypeOK /\ OutagesAreReported /\ FlappingSlowsDown
<1> SUFFICES ASSUME LinkInv PROVE LinkTypeOK /\ OutagesAreReported /\ FlappingSlowsDown
  OBVIOUS
<1>1. ASSUME lkOut >= ReportDue PROVE lkTold = "down"
  BY <1>1, LinkTypes, LinkNumbers DEF LinkInv, SilenceInv, ReportDue, NoOutage, LinkTypeOK, Stages
<1>2. lkAt = "up" => lkTold # "down"
  BY Zenon DEF LinkInv, SilenceInv
<1> QED BY <1>1, <1>2 DEF LinkInv, FlappingInv, OutagesAreReported, FlappingSlowsDown

\* Every variable of the link keeps its type.
THEOREM LinkTypeCorrect == LinkSpec => []LinkTypeOK
BY LinkInvInit, LinkInvStep, LinkInvPromises, PTL DEF LinkSpec

\* No outage stays silent for longer than two rounds, and the owner is never
\* left with a report that is no longer true.
THEOREM OutagesCorrect == LinkSpec => []OutagesAreReported
BY LinkInvInit, LinkInvStep, LinkInvPromises, PTL DEF LinkSpec

\* A server that accepts the bot only to drop it is called no faster than the
\* doubling delays allow.
THEOREM FlappingCorrect == LinkSpec => []FlappingSlowsDown
BY LinkInvInit, LinkInvStep, LinkInvPromises, PTL DEF LinkSpec

-----------------------------------------------------------------------------
\* The poller.

\* A torrent moves from one of the states to one of them.
LEMMA BecomesType == \A state \in DOMAIN Becomes : Becomes[state] \subseteq DOMAIN Becomes
BY DEF Becomes

\* Every client lists what has finished, however it looks meanwhile, and
\* nothing else.
LEMMA ListedIsFinished ==
    ASSUME PollerTypeOK, NEW t \in Torrents
    PROVE  Listed(t) <=> plTorrent[t] \notin Unfinished
<1>1. plTorrent[t] \in DOMAIN Becomes
  BY DEF PollerTypeOK
<1>2. plTorrent[t] \in {"absent", "magnet", "downloading", "seeding", "rechecking", "moving", "errored"}
  BY <1>1 DEF Becomes
<1>3. CASE plTorrent[t] = "absent"
  BY <1>3 DEF Listed, Unfinished
<1>4. CASE plTorrent[t] # "absent" /\ plClient = "rTorrent"
  BY <1>4 DEF Listed
<1>5. CASE plTorrent[t] # "absent" /\ plClient # "rTorrent"
  BY <1>2, <1>5 DEF Listed, Unfinished, IsComplete, Row, Uploads
<1> QED BY <1>3, <1>4, <1>5

-----------------------------------------------------------------------------
\* What was told is finished and remembered, what has always been finished is
\* remembered since the first listing, and before that nothing is told.
NewsInv ==
    \A t \in Torrents :
        /\ plTold[t] \in {0, 1}
        /\ plTold[t] = 1 => plTorrent[t] \notin Unfinished /\ t \in plFinished /\ t \notin plOld
        /\ plSeeded => (t \in plOld => t \in plFinished)
        /\ ~plSeeded => plTold[t] = 0 /\ t \in plOld

\* The warning stands for the one low disk that was told, or for a path that
\* could not be read.
DiskInv ==
    /\ plLowTold \in {0, 1}
    /\ ~plWarned => plLowTold = 0 /\ ~plBlurred
    /\ plWarned /\ ~plBlurred => plLowTold = 1
    /\ plReading = "low" => plWarned

PollerInv == PollerTypeOK /\ NewsInv /\ DiskInv

LEMMA PollerInvInit == PollerInit => PollerInv
<1> SUFFICES ASSUME PollerInit PROVE PollerInv
  OBVIOUS
<1>1. plTorrent \in [Torrents -> DOMAIN Becomes]
  BY DEF PollerInit, Becomes
<1>2. PollerTypeOK
  BY <1>1 DEF PollerInit, PollerTypeOK
<1>3. NewsInv
  <2>1. ~plSeeded /\ \A t \in Torrents : plTold[t] = 0 /\ t \in plOld
    BY DEF PollerInit
  <2> QED BY <2>1, 0 # 1 DEF NewsInv
<1>4. DiskInv
  BY DEF PollerInit, DiskInv
<1> QED BY <1>2, <1>3, <1>4 DEF PollerInv

LEMMA MovesKeep ==
    ASSUME PollerInv, NEW t \in Torrents, TorrentMoves(t)
    PROVE  PollerInv'
<1> USE DEF PollerInv
<1>1. PICK next \in Becomes[plTorrent[t]] :
          /\ plTorrent' = [plTorrent EXCEPT ![t] = next]
          /\ plTold' = IF next \in Unfinished THEN [plTold EXCEPT ![t] = 0] ELSE plTold
  BY DEF TorrentMoves
<1>2. UNCHANGED <<plClient, plDisk, plLive, plOptions, plAt, plSets, plOld, plOpen, plDisks>>
  BY DEF TorrentMoves
<1>3. next \in DOMAIN Becomes
  BY <1>1, BecomesType DEF PollerTypeOK
<1>4. plTorrent' \in [Torrents -> DOMAIN Becomes] /\ plTold' \in [Torrents -> Nat]
  BY <1>1, <1>3 DEF PollerTypeOK
<1>5. PollerTypeOK'
  BY <1>2, <1>4 DEF PollerTypeOK, plSets, plDisks
<1>6. NewsInv'
  <2> SUFFICES ASSUME NEW u \in Torrents
               PROVE  /\ plTold'[u] \in {0, 1}
                      /\ plTold'[u] = 1 => /\ plTorrent'[u] \notin Unfinished
                                           /\ u \in plFinished /\ u \notin plOld
                      /\ plTold'[u] = plTold[u] \/ plTold'[u] = 0
    BY <1>2 DEF NewsInv, plSets
  <2>1. CASE u # t
    BY <1>1, <2>1 DEF NewsInv, PollerTypeOK
  <2>2. CASE u = t /\ next \in Unfinished
    BY <1>1, <2>2 DEF PollerTypeOK
  <2>3. CASE u = t /\ next \notin Unfinished
    BY <1>1, <2>3 DEF NewsInv, PollerTypeOK
  <2> QED BY <2>1, <2>2, <2>3
<1>7. DiskInv'
  BY <1>2 DEF DiskInv, plDisks
<1> QED BY <1>5, <1>6, <1>7

LEMMA AnswerKeeps ==
    ASSUME PollerInv, ListingAnswers
    PROVE  PollerInv'
<1> USE DEF PollerInv
<1>1. CompletedNow \subseteq Torrents
  BY DEF CompletedNow
<1>2. /\ plFinished' = CompletedNow /\ plSeeded' = TRUE
      /\ plOld' = plOld \cap CompletedNow /\ plOpen' = Torrents \ CompletedNow
      /\ UNCHANGED <<plWorld, plOptions, plDisks>>
  BY DEF ListingAnswers, Retained
<1>3. plTold' = [t \in Torrents |->
                    IF plSeeded /\ t \in CompletedNow \ plFinished THEN plTold[t] + 1
                                                               ELSE plTold[t]]
  BY DEF ListingAnswers
<1>4. plTold' \in [Torrents -> Nat]
  BY <1>3 DEF PollerTypeOK
<1>5. plAt' \in {"tick", "disk"}
  BY DEF ListingAnswers, AfterListing
<1>6. PollerTypeOK'
  BY <1>1, <1>2, <1>4, <1>5 DEF PollerTypeOK, plWorld, plDisks
<1>7. NewsInv'
  <2> SUFFICES ASSUME NEW t \in Torrents
               PROVE  /\ plTold'[t] \in {0, 1}
                      /\ plTold'[t] = 1 => /\ plTorrent[t] \notin Unfinished
                                           /\ t \in CompletedNow /\ t \notin plOld
    BY <1>2 DEF NewsInv, plWorld
  <2>1. t \in CompletedNow <=> plTorrent[t] \notin Unfinished
    BY ListedIsFinished DEF CompletedNow
  <2>2. CASE plSeeded /\ t \in CompletedNow \ plFinished
    <3>1. plTold[t] = 0 /\ t \notin plOld
      BY <2>2 DEF NewsInv
    <3>2. plTold'[t] = 1
      BY <1>3, <2>2, <3>1
    <3> QED BY <2>1, <2>2, <3>1, <3>2
  <2>3. CASE ~(plSeeded /\ t \in CompletedNow \ plFinished)
    <3>1. plTold'[t] = plTold[t]
      BY <1>3, <2>3
    <3> QED BY <2>1, <3>1 DEF NewsInv
  <2> QED BY <2>2, <2>3
<1>8. DiskInv'
  BY <1>2 DEF DiskInv, plDisks
<1> QED BY <1>6, <1>7, <1>8

LEMMA DiskKeeps ==
    ASSUME PollerInv, CheckDisk
    PROVE  PollerInv'
<1> USE DEF PollerInv
<1> DEFINE reading == plDisk[plOptions.path]
<1>1. reading \in {"fine", "low", "unreadable"}
  BY DEF PollerTypeOK
<1>2. /\ plReading' = reading
      /\ plWarned' = IF reading = "fine" THEN FALSE ELSE TRUE
      /\ plLowTold' = IF reading = "fine" THEN 0
                      ELSE IF reading = "low" /\ ~plWarned THEN plLowTold + 1
                      ELSE plLowTold
      /\ plBlurred' = (reading = "unreadable" \/ (plBlurred /\ reading # "fine"))
      /\ plAt' = "tick" /\ UNCHANGED <<plWorld, plOptions, plSets, plNews>>
  BY DEF CheckDisk, StillWarned
<1> HIDE DEF reading
<1>3. DiskInv'
  <2>1. CASE reading = "fine"
    BY <1>2, <2>1 DEF DiskInv
  <2>2. CASE reading = "low"
    <3>1. plWarned' /\ plBlurred' = plBlurred
      BY <1>2, <2>2 DEF PollerTypeOK
    <3>2. plLowTold' = IF plWarned THEN plLowTold ELSE plLowTold + 1
      BY <1>2, <2>2
    <3>3. CASE plWarned
      BY <3>1, <3>2, <3>3 DEF DiskInv
    <3>4. CASE ~plWarned
      <4>1. plLowTold' = 1
        BY <3>2, <3>4 DEF DiskInv
      <4> QED BY <3>1, <4>1 DEF DiskInv
    <3> QED BY <3>3, <3>4
  <2>3. CASE reading = "unreadable"
    BY <1>2, <2>3 DEF DiskInv
  <2> QED BY <1>1, <2>1, <2>2, <2>3
<1>4. plLowTold' \in Nat
  BY <1>3 DEF DiskInv
<1>5. plWarned' \in BOOLEAN /\ plBlurred' \in BOOLEAN
  BY <1>2
<1>6. PollerTypeOK'
  BY <1>1, <1>2, <1>4, <1>5 DEF PollerTypeOK, plWorld, plSets, plNews
<1>7. NewsInv'
  BY <1>2 DEF NewsInv, plWorld, plSets, plNews
<1> QED BY <1>3, <1>6, <1>7

LEMMA PollerInvStep == PollerInv /\ [PollerNext]_plVars => PollerInv'
<1> SUFFICES ASSUME PollerInv, [PollerNext]_plVars PROVE PollerInv'
  OBVIOUS
<1> USE DEF PollerInv
<1>1. ASSUME NEW path \in Paths, DiskChanges(path) PROVE PollerInv'
  <2>1. plDisk' \in [Paths -> {"fine", "low", "unreadable"}]
    BY <1>1 DEF DiskChanges, PollerTypeOK
  <2>2. UNCHANGED <<plClient, plTorrent, plLive, plOptions, plAt, plSets, plNews, plDisks>>
    BY <1>1 DEF DiskChanges
  <2> QED BY <2>1, <2>2 DEF PollerTypeOK, NewsInv, DiskInv, plSets, plNews, plDisks
<1>2. CASE EditNotifications
  BY <1>2 DEF EditNotifications, PollerTypeOK, NewsInv, DiskInv, plSets, plNews, plDisks
<1>3. CASE PollTick
  BY <1>3 DEF PollTick, AfterListing, PollerTypeOK, NewsInv, DiskInv,
              plWorld, plSets, plNews, plDisks
<1>4. CASE ListingFails
  BY <1>4 DEF ListingFails, AfterListing, PollerTypeOK, NewsInv, DiskInv,
              plWorld, plSets, plNews, plDisks
<1>5. CASE RestartPoller
  <2>1. plTold' \in [Torrents -> Nat] /\ plTold' = [t \in Torrents |-> 0]
    BY <1>5 DEF RestartPoller
  <2>2. PollerTypeOK'
    BY <1>5, <2>1 DEF RestartPoller, PollerTypeOK, plWorld
  <2>3. NewsInv'
    BY <1>5, <2>1 DEF RestartPoller, NewsInv
  <2>4. DiskInv'
    BY <1>5 DEF RestartPoller, DiskInv
  <2> QED BY <2>2, <2>3, <2>4
<1>6. CASE UNCHANGED plVars
  BY <1>6 DEF plVars, PollerTypeOK, NewsInv, DiskInv, plWorld, plSets, plNews, plDisks
<1> QED BY <1>1, <1>2, <1>3, <1>4, <1>5, <1>6, MovesKeep, AnswerKeeps, DiskKeeps
        DEF PollerNext, Around, PollerSteps

\* Every variable of the poller keeps its type, for any torrents and paths.
THEOREM PollerTypeCorrect == PollerSpec => []PollerTypeOK
<1>1. PollerInv => PollerTypeOK
  BY DEF PollerInv
<1> QED BY <1>1, PollerInvInit, PollerInvStep, PTL DEF PollerSpec

\* Whatever the torrents, the options and the answers do between its steps, the
\* poller tells a finished torrent at most once until it is unfinished again,
\* and none that has been finished since the bot started.
THEOREM FinishedCorrect == PollerSpec => []FinishToldOnce
<1>1. PollerInv => FinishToldOnce
  <2> SUFFICES ASSUME PollerInv, NEW t \in Torrents
               PROVE  plTold[t] <= (IF t \in plOld THEN 0 ELSE 1)
    BY DEF FinishToldOnce
  <2>1. plTold[t] \in {0, 1} /\ (plTold[t] = 1 => t \notin plOld)
    BY DEF PollerInv, NewsInv
  <2> QED BY <2>1
<1> QED BY <1>1, PollerInvInit, PollerInvStep, PTL DEF PollerSpec

\* A low disk is told exactly once until it has recovered, unless the warning
\* went to a path that could not be read.
THEOREM LowDiskCorrect == PollerSpec => []LowDiskToldOnce
<1>1. PollerInv => LowDiskToldOnce
  BY DEF PollerInv, DiskInv, LowDiskToldOnce
<1> QED BY <1>1, PollerInvInit, PollerInvStep, PTL DEF PollerSpec

-----------------------------------------------------------------------------
\* The options.

\* What there is to complain of.
Remarks == {"a pattern", "a required group is missing", "captures", "rules",
            "the rules of an entry", "a client's template", "a pattern of a filter",
            "no template", "a bad template", "a placeholder", "the key is missing",
            "no directory", "the time of the summary"}

\* Two lists say nothing together only if neither says anything.
LEMMA BothSilent ==
    ASSUME NEW S, NEW s \in Seq(S), NEW t \in Seq(S)
    PROVE  s \o t \in Seq(S) /\ (s \o t = <<>> => s = <<>> /\ t = <<>>)
<1>1. s \o t \in Seq(S) /\ Len(s \o t) = Len(s) + Len(t)
  BY ConcatProperties
<1>2. Len(s) \in Nat /\ Len(t) \in Nat
  BY LenProperties
<1>3. s \o t = <<>> => Len(s) = 0 /\ Len(t) = 0
  BY <1>1, <1>2, EmptySeq
<1> QED BY <1>1, <1>3, EmptySeq

\* One text is a list, and not an empty one.
LEMMA OneText ==
    ASSUME NEW S, NEW is \in S
    PROVE  <<>> \in Seq(S) /\ <<is>> \in Seq(S) /\ <<is>> # <<>>
<1>1. <<is>> \in Seq(S) /\ Len(<<is>>) = 1
  OBVIOUS
<1> QED BY <1>1, EmptySeq

\* A tracker nobody complains about can fill in its template.
LEMMA PlaceholdersResolve ==
    ASSUME NEW p, NEW declared
    PROVE  /\ PlatformComplaints(p, declared) \in Seq(Remarks)
           /\ PlatformComplaints(p, declared) = <<>> => p.url \ ReservedNames \subseteq declared
<1> DEFINE a == Complain("no template", p.template = "none")
           b == Complain("a bad template", p.template = "malformed")
           c == Complain("a placeholder", ~(p.url \ ReservedNames \subseteq declared))
           d == Complain("the key is missing", "key" \in p.url /\ ~p.rssKey)
           e == Complain("no directory", ~p.torrentDir)
<1>1. PlatformComplaints(p, declared) = a \o b \o c \o d \o e
  BY DEF PlatformComplaints
<1>2. a \in Seq(Remarks) /\ b \in Seq(Remarks) /\ d \in Seq(Remarks) /\ e \in Seq(Remarks)
  <2>1. a \in {<<>>, <<"no template">>} /\ b \in {<<>>, <<"a bad template">>}
    BY Zenon DEF Complain
  <2>2. d \in {<<>>, <<"the key is missing">>} /\ e \in {<<>>, <<"no directory">>}
    BY Zenon DEF Complain
  <2>3. {"no template", "a bad template", "the key is missing", "no directory"} \subseteq Remarks
    BY DEF Remarks
  <2> HIDE DEF a, b, d, e
  <2> QED BY <2>1, <2>2, <2>3, OneText
<1>3. c \in Seq(Remarks) /\ (c = <<>> => p.url \ ReservedNames \subseteq declared)
  <2>1. CASE p.url \ ReservedNames \subseteq declared
    <3>1. c = <<>>
      BY <2>1, Zenon DEF Complain
    <3> HIDE DEF c
    <3> QED BY <2>1, <3>1, OneText
  <2>2. CASE ~(p.url \ ReservedNames \subseteq declared)
    <3>1. c = <<"a placeholder">>
      BY <2>2, Zenon DEF Complain
    <3>2. "a placeholder" \in Remarks
      BY DEF Remarks
    <3> HIDE DEF c
    <3> QED BY <3>1, <3>2, OneText
  <2> QED BY <2>1, <2>2
<1> HIDE DEF a, b, c, d, e
<1>4. a \o b \in Seq(Remarks)
  BY <1>2, BothSilent
<1>5. a \o b \o c \in Seq(Remarks) /\ (a \o b \o c = <<>> => c = <<>>)
  BY <1>3, <1>4, BothSilent
<1>6. a \o b \o c \o d \in Seq(Remarks) /\ (a \o b \o c \o d = <<>> => a \o b \o c = <<>>)
  BY <1>2, <1>5, BothSilent
<1>7. /\ a \o b \o c \o d \o e \in Seq(Remarks)
      /\ a \o b \o c \o d \o e = <<>> => a \o b \o c \o d = <<>>
  BY <1>2, <1>6, BothSilent
<1> QED BY <1>1, <1>3, <1>5, <1>6, <1>7

\* The checks of the captures are a list of complaints as well.
LEMMA CapturesType ==
    ASSUME NEW f
    PROVE  CaptureComplaints(f) \in Seq(Remarks)
<1> DEFINE a == Complain("a required group is missing", ~(RequiredNames \subseteq f.declared))
           b == Complain("captures", ~(f.captures \subseteq f.declared))
           c == Complain("rules", ~(f.rules \subseteq f.declared))
           d == Complain("the rules of an entry", ~(f.entries \subseteq f.declared))
           e == Complain("a client's template", ~(f.templates \subseteq f.declared))
<1>1. CaptureComplaints(f) = a \o b \o c \o d \o e
  BY DEF CaptureComplaints
<1>2. /\ a \in Seq(Remarks) /\ b \in Seq(Remarks) /\ c \in Seq(Remarks)
      /\ d \in Seq(Remarks) /\ e \in Seq(Remarks)
  <2>1. /\ a \in {<<>>, <<"a required group is missing">>}
        /\ b \in {<<>>, <<"captures">>} /\ c \in {<<>>, <<"rules">>}
        /\ d \in {<<>>, <<"the rules of an entry">>}
        /\ e \in {<<>>, <<"a client's template">>}
    BY Zenon DEF Complain
  <2>2. {"a required group is missing", "captures", "rules", "the rules of an entry",
         "a client's template"} \subseteq Remarks
    BY DEF Remarks
  <2> HIDE DEF a, b, c, d, e
  <2> QED BY <2>1, <2>2, OneText
<1> HIDE DEF a, b, c, d, e
<1> QED BY <1>1, <1>2, ConcatProperties

\* A group of the announce pattern stands for every placeholder of a template
\* that a start or a reload lets pass.
LEMMA AcceptedResolves ==
    ASSUME NEW f, FirstComplaint(f) = {}
    PROVE  f.platform.url \ ReservedNames \subseteq f.declared
<1> DEFINE a == Complain("a pattern", ~f.patterns)
           b == CaptureComplaints(f)
           c == Complain("a pattern of a filter", ~f.filters)
           p == PlatformComplaints(f.platform, f.declared)
           e == Complain("the time of the summary", ~f.summaryAt)
<1>1. Complaints(f) = a \o b \o c \o p \o e /\ Complaints(f) = <<>>
  BY DEF Complaints, FirstComplaint
<1>2. a \in Seq(Remarks) /\ c \in Seq(Remarks) /\ e \in Seq(Remarks)
  <2>1. /\ a \in {<<>>, <<"a pattern">>} /\ c \in {<<>>, <<"a pattern of a filter">>}
        /\ e \in {<<>>, <<"the time of the summary">>}
    BY Zenon DEF Complain
  <2>2. {"a pattern", "a pattern of a filter", "the time of the summary"} \subseteq Remarks
    BY DEF Remarks
  <2> HIDE DEF a, c, e
  <2> QED BY <2>1, <2>2, OneText
<1>3. b \in Seq(Remarks)
  BY CapturesType
<1>4. p \in Seq(Remarks) /\ (p = <<>> => f.platform.url \ ReservedNames \subseteq f.declared)
  BY PlaceholdersResolve
<1> HIDE DEF a, b, c, p, e
<1>5. a \o b \in Seq(Remarks)
  BY <1>2, <1>3, BothSilent
<1>6. a \o b \o c \in Seq(Remarks)
  BY <1>2, <1>5, BothSilent
<1>7. a \o b \o c \o p \in Seq(Remarks) /\ (a \o b \o c \o p = <<>> => p = <<>>)
  BY <1>4, <1>6, BothSilent
<1>8. a \o b \o c \o p \o e = <<>> => a \o b \o c \o p = <<>>
  BY <1>2, <1>7, BothSilent
<1> QED BY <1>1, <1>4, <1>7, <1>8

-----------------------------------------------------------------------------
\* What is in force was accepted, and what runs was taken from it unless a
\* restart has been called for.
Accepted == FirstComplaint(opLive) = {}
AsAtStart == ~opDue => TakenAtStart(opBuilt) = TakenAtStart(opLive)
OptionsInv ==
    /\ OptionsTypeOK
    /\ opPhase = "up" => Accepted /\ AsAtStart /\ opDisk \in Files \cup {Default}

LEMMA OptionsInvInit == OptionsInit => OptionsInv
<1> SUFFICES ASSUME OptionsInit PROVE OptionsInv
  OBVIOUS
<1>1. opDisk \in Files \cup {Default, NoFile} /\ 0 \in 0..MaxEdits
  BY OptionsBounds DEF OptionsInit
<1> QED BY <1>1 DEF OptionsInit, OptionsInv, OptionsTypeOK

LEMMA OptionsInvStep == OptionsInv /\ [OptionsNext]_opVars => OptionsInv'
<1> SUFFICES ASSUME OptionsInv, [OptionsNext]_opVars PROVE OptionsInv'
  OBVIOUS
<1> USE DEF OptionsInv
<1>1. CASE EditFiles
  <2>1. opEdits' \in 0..MaxEdits
    BY <1>1, OptionsBounds DEF EditFiles, OptionsTypeOK
  <2>2. OptionsTypeOK'
    BY <1>1, <2>1 DEF EditFiles, OptionsTypeOK
  <2> QED BY <1>1, <2>2 DEF EditFiles, Accepted, AsAtStart
<1>2. CASE StartOptions
  <2>1. opDisk' \in Files \cup {Default}
    BY <1>2 DEF StartOptions, Created, OptionsTypeOK
  <2>2. opIrc' \in {"broken", "nameless", "named"}
    BY <1>2 DEF StartOptions, CreatedIrc, OptionsTypeOK
  <2>3. opSaid' = {} => FirstComplaint(opDisk') = {}
    BY <1>2 DEF StartOptions, StartComplaints
  <2>4. CASE opSaid' = {}
    <3>1. opPhase' = "up" /\ opLive' = opDisk' /\ opBuilt' = opDisk' /\ ~opDue'
      BY <1>2, <2>4 DEF StartOptions
    <3>2. OptionsTypeOK'
      BY <1>2, <2>1, <2>2, <3>1 DEF StartOptions, OptionsTypeOK
    <3> QED BY <2>1, <2>3, <2>4, <3>1, <3>2 DEF Accepted, AsAtStart
  <2>5. CASE opSaid' # {}
    <3>1. opPhase' = "refused" /\ UNCHANGED <<opLive, opBuilt>>
      BY <1>2, <2>5 DEF StartOptions
    <3> QED BY <1>2, <2>1, <2>2, <3>1 DEF StartOptions, OptionsTypeOK
  <2> QED BY <2>4, <2>5
<1>3. CASE ReloadOptions
  <2>1. opDisk \in Files \cup {Default}
    BY <1>3 DEF ReloadOptions
  <2>2. OptionsTypeOK'
    BY <1>3, <2>1 DEF ReloadOptions, OptionsTypeOK
  <2>3. Accepted'
    BY <1>3 DEF ReloadOptions, Accepted
  <2>4. AsAtStart'
    BY <1>3 DEF ReloadOptions, AsAtStart
  <2> QED BY <1>3, <2>1, <2>2, <2>3, <2>4 DEF ReloadOptions
<1>4. CASE StopOptions
  BY <1>4 DEF StopOptions, OptionsTypeOK
<1>5. CASE UNCHANGED opVars
  BY <1>5 DEF opVars, OptionsTypeOK, Accepted, AsAtStart
<1> QED BY <1>1, <1>2, <1>3, <1>4, <1>5 DEF OptionsNext

LEMMA OptionsInvGives == OptionsInv => WhatRunsIsInForce
<1> SUFFICES ASSUME OptionsInv, opPhase = "up", ~opDue
             PROVE  /\ opBuilt.platform.url \subseteq opLive.declared \cup ReservedNames
                    /\ opBuilt.owner = opLive.owner
  BY DEF WhatRunsIsInForce
<1>1. opBuilt.platform = opLive.platform /\ opBuilt.owner = opLive.owner
  BY DEF OptionsInv, AsAtStart, TakenAtStart
<1>2. opLive.platform.url \ ReservedNames \subseteq opLive.declared
  BY AcceptedResolves DEF OptionsInv, Accepted
<1> QED BY <1>1, <1>2

\* Every variable of the options keeps its type, for any files.
THEOREM OptionsTypeCorrect == OptionsSpec => []OptionsTypeOK
<1>1. OptionsInv => OptionsTypeOK
  BY DEF OptionsInv
<1> QED BY <1>1, OptionsInvInit, OptionsInvStep, PTL DEF OptionsSpec

\* However options.toml is edited, refused, reloaded and started from, as long
\* as no restart has been called for the tracker's template resolves from the
\* pattern in force and the owner obeyed is the owner in force.
THEOREM InForceCorrect == OptionsSpec => []WhatRunsIsInForce
BY OptionsInvInit, OptionsInvStep, OptionsInvGives, PTL DEF OptionsSpec

-----------------------------------------------------------------------------
\* The backend of IRC.

LEMMA HoldNumbers ==
    /\ MaxHold \in Nat /\ HoldTimes \subseteq 0..MaxHold /\ MaxMsgs \in Nat
    /\ HoldLimit \in Nat /\ HoldLimit >= 1 /\ OutboxDepth \in Nat /\ OutboxDepth >= 1
    /\ MaxAttempts \in Nat /\ MaxAttempts >= 1
    /\ Many \in Nat /\ Many = MaxAttempts + 1
    /\ Msgs \subseteq Nat
BY HoldAssumption DEF Many, Msgs

HeldMsg == [id : Msgs, age : 0..MaxHold]
KeptMsg == [id : Msgs, attempts : 1..MaxAttempts]

\* How often a message is in a sequence of records.
Count(q, m) == Cardinality({i \in DOMAIN q : q[i].id = m})

\* What the outbox and the round of retries know of a message, they know once:
\* how often it was tried.
Queued(q)   == \A i \in DOMAIN q : q[i].id < nextId /\ q[i].attempts = tried[q[i].id]
Distinct(q) == \A i, j \in DOMAIN q : q[i].id = q[j].id => i = j

HoldBooks ==
    /\ Queued(outbox) /\ Queued(retrying)
    /\ Distinct(outbox) /\ Distinct(retrying)
    /\ \A i \in DOMAIN outbox, j \in DOMAIN retrying : outbox[i].id # retrying[j].id
    /\ \A m \in Msgs : m >= nextId => tried[m] = 0

HoldInv == HoldTypeOK /\ HoldBooks /\ CopiesArePaidFor

LEMMA CountType ==
    ASSUME NEW S, NEW q \in Seq(S), NEW m
    PROVE  /\ Count(q, m) \in Nat
           /\ \A T \in SUBSET {i \in DOMAIN q : q[i].id = m} :
                  Cardinality(T) \in Nat /\ Cardinality(T) <= Count(q, m)
<1> DEFINE D == {i \in DOMAIN q : q[i].id = m}
<1>1. IsFiniteSet(DOMAIN q)
  <2>1. DOMAIN q = 1..Len(q) /\ Len(q) \in Nat
    BY LenProperties
  <2> QED BY <2>1, FS_Interval
<1>2. IsFiniteSet(D)
  BY <1>1, FS_Subset
<1> HIDE DEF D
<1>3. Cardinality(D) \in Nat
  BY <1>2, FS_CardinalityType
<1>4. ASSUME NEW T \in SUBSET D PROVE Cardinality(T) \in Nat /\ Cardinality(T) <= Cardinality(D)
  BY <1>2, FS_Subset, FS_CardinalityType
<1> QED BY <1>3, <1>4 DEF Count, D

LEMMA CountNone == \A m : Count(<<>>, m) = 0
<1>1. DOMAIN <<>> = {}
  BY EmptySeq, LenProperties
<1> TAKE m
<1>2. {i \in DOMAIN <<>> : <<>>[i].id = m} = {}
  BY <1>1
<1> QED BY <1>2, FS_EmptySet DEF Count

LEMMA CountAppend ==
    ASSUME NEW S, NEW q \in Seq(S), NEW x \in S, NEW m
    PROVE  Count(Append(q, x), m) <= Count(q, m) + (IF x.id = m THEN 1 ELSE 0)
<1> DEFINE n == Len(q)
           D == {i \in DOMAIN q : q[i].id = m}
           E == {i \in DOMAIN Append(q, x) : Append(q, x)[i].id = m}
<1>1. n \in Nat /\ DOMAIN q = 1..n /\ DOMAIN Append(q, x) = 1..(n + 1)
      /\ (\A i \in 1..n : Append(q, x)[i] = q[i]) /\ Append(q, x)[n + 1] = x
  BY AppendProperties, LenProperties
<1>2. E = IF x.id = m THEN D \cup {n + 1} ELSE D
  BY <1>1
<1>3. IsFiniteSet(D) /\ Cardinality(D) \in Nat
  <2>1. IsFiniteSet(1..n)
    BY <1>1, FS_Interval
  <2>2. IsFiniteSet(D)
    BY <1>1, <2>1, FS_Subset
  <2> QED BY <2>2, FS_CardinalityType
<1>4. Cardinality(D \cup {n + 1}) <= Cardinality(D) + 1
  <2> HIDE DEF D, n
  <2>1. Cardinality(D \cup {n + 1}) = IF n + 1 \in D THEN Cardinality(D) ELSE Cardinality(D) + 1
    BY <1>3, FS_AddElement
  <2> QED BY <1>3, <2>1
<1> HIDE DEF D, E, n
<1>5. Cardinality(E) <= Cardinality(D) + (IF x.id = m THEN 1 ELSE 0)
  BY <1>2, <1>3, <1>4
<1> QED BY <1>5 DEF Count, D, E

LEMMA CountTail ==
    ASSUME NEW S, NEW q \in Seq(S), q # <<>>, NEW m
    PROVE  Count(Tail(q), m) <= Count(q, m)
<1> DEFINE n == Len(q)
           D == {i \in DOMAIN q : q[i].id = m}
           E == {i \in DOMAIN Tail(q) : Tail(q)[i].id = m}
           f == [i \in E |-> i + 1]
<1>1. n \in Nat /\ DOMAIN q = 1..n /\ n >= 1
  BY LenProperties, EmptySeq
<1>2. DOMAIN Tail(q) = 1..(n - 1) /\ \A i \in 1..(n - 1) : Tail(q)[i] = q[i + 1]
  BY <1>1, HeadTailProperties, LenProperties
<1>3. \A i \in E : i \in 1..(n - 1) /\ i + 1 \in D
  BY <1>1, <1>2
<1>4. IsFiniteSet(D)
  <2>1. IsFiniteSet(1..n)
    BY <1>1, FS_Interval
  <2> QED BY <1>1, <2>1, FS_Subset
<1>5. f \in Injection(E, D)
  <2>1. f \in [E -> D]
    BY <1>3
  <2>2. \A i, j \in E : f[i] = f[j] => i = j
    BY <1>1, <1>3
  <2> QED BY <2>1, <2>2 DEF Injection, IsInjective
<1> HIDE DEF D, E, f
<1>6. Cardinality(E) <= Cardinality(D)
  BY <1>4, <1>5, FS_Injection
<1> QED BY <1>6 DEF Count, D, E

\* A message joins the hold, from which the oldest may be dropped.
LEMMA HoldKeeps ==
    ASSUME HoldTypeOK, NEW m \in Msgs, Hold(m)
    PROVE  /\ hold' \in Seq(HeldMsg) /\ Len(hold') <= HoldLimit
           /\ \A k \in Msgs : Count(hold', k) <= Count(hold, k) + (IF k = m THEN 1 ELSE 0)
<1>1. hold \in Seq(HeldMsg) /\ Len(hold) <= HoldLimit /\ Len(hold) \in Nat
      /\ \A k \in Msgs : Count(hold, k) \in Nat
  <2>1. hold \in Seq(HeldMsg) /\ Len(hold) <= HoldLimit
    BY DEF HoldTypeOK, HeldMsg
  <2> QED BY <2>1, LenProperties, CountType
<1>2. CASE holdFor = 0
  BY <1>1, <1>2 DEF Hold
<1>3. CASE holdFor # 0
  <2> DEFINE x == [id |-> m, age |-> 0]
             q == Append(hold, x)
  <2>1. x \in HeldMsg /\ x.id = m
    BY HoldNumbers DEF HeldMsg
  <2>2. q \in Seq(HeldMsg) /\ Len(q) = Len(hold) + 1 /\ q # <<>>
    BY <1>1, <2>1, AppendProperties
  <2>3. \A k \in Msgs : Count(q, k) <= Count(hold, k) + (IF k = m THEN 1 ELSE 0)
    <3> TAKE k \in Msgs
    <3>1. Count(q, k) <= Count(hold, k) + (IF x.id = k THEN 1 ELSE 0)
      <4> HIDE DEF x
      <4> QED BY <1>1, <2>1, CountAppend
    <3> QED BY <2>1, <3>1
  <2>4. hold' = IF Len(q) > HoldLimit THEN Tail(q) ELSE q
    BY <1>3 DEF Hold, Trimmed
  <2> HIDE DEF q
  <2>5. Tail(q) \in Seq(HeldMsg) /\ Len(Tail(q)) = Len(q) - 1
    BY <2>2, HeadTailProperties
  <2>6. \A k \in Msgs : Count(q, k) \in Nat /\ Count(Tail(q), k) \in Nat /\ Count(Tail(q), k) <= Count(q, k)
    BY <2>2, <2>5, CountType, CountTail
  <2>7. CASE Len(q) > HoldLimit
    BY <1>1, <2>2, <2>3, <2>4, <2>5, <2>6, <2>7, HoldNumbers
  <2>8. CASE ~(Len(q) > HoldLimit)
    BY <1>1, <2>2, <2>3, <2>4, <2>8, HoldNumbers
  <2> QED BY <2>7, <2>8
<1> QED BY <1>2, <1>3

\* What is flushed was held, so that no more copies are written than were
\* there, and the one that is written besides.
LEMMA FlushKeeps ==
    ASSUME HoldTypeOK, NEW now \in SUBSET Msgs, Flush(now)
    PROVE  /\ hold' = <<>> /\ written' \in [Msgs -> 0..Many]
           /\ \A k \in Msgs :
                  written'[k] <= written[k] + Count(hold, k) + (IF k \in now THEN 1 ELSE 0)
<1> DEFINE young(k) == Cardinality({i \in DOMAIN hold : hold[i].id = k /\ hold[i].age < holdFor})
           more(k) == IF k \in now THEN 1 ELSE 0
<1>1. hold \in Seq(HeldMsg) /\ \A k \in Msgs : written[k] \in 0..Many
  BY DEF HoldTypeOK, HeldMsg
<1>2. \A k \in Msgs : young(k) \in Nat /\ young(k) <= Count(hold, k) /\ Count(hold, k) \in Nat
  <2> TAKE k \in Msgs
  <2>1. {i \in DOMAIN hold : hold[i].id = k /\ hold[i].age < holdFor}
            \in SUBSET {i \in DOMAIN hold : hold[i].id = k}
    OBVIOUS
  <2> QED BY <1>1, <2>1, CountType
<1>3. hold' = <<>> /\ written' = [k \in Msgs |-> UpTo(written[k] + young(k) + more(k))]
  BY DEF Flush, Kept
<1> HIDE DEF young
<1>4. ASSUME NEW k \in Msgs
      PROVE  /\ written'[k] \in 0..Many
             /\ written'[k] <= written[k] + Count(hold, k) + more(k)
  <2>1. written'[k] = UpTo(written[k] + young(k) + more(k))
    BY <1>3
  <2>2. more(k) \in 0..1
    OBVIOUS
  <2> HIDE DEF more
  <2>3. written[k] + young(k) + more(k) \in Nat
    BY <1>1, <1>2, <2>2, HoldNumbers
  <2>4. written[k] + young(k) + more(k) <= written[k] + Count(hold, k) + more(k)
    BY <1>1, <1>2, <2>2, HoldNumbers
  <2>5. \A n \in Nat : UpTo(n) \in 0..Many /\ UpTo(n) <= n
    BY HoldNumbers DEF UpTo
  <2>6. written[k] \in Nat /\ Count(hold, k) \in Nat
    BY <1>1, <1>2, HoldNumbers
  <2>7. written[k] + Count(hold, k) + more(k) \in Nat
    BY <2>2, <2>6
  <2> DEFINE x == written[k] + young(k) + more(k)
             y == written[k] + Count(hold, k) + more(k)
  <2>8. x \in Nat /\ y \in Nat /\ x <= y /\ written'[k] = UpTo(x)
    BY <2>1, <2>3, <2>4, <2>7
  <2> HIDE DEF x, y
  <2>9. UpTo(x) \in 0..Many /\ UpTo(x) <= y
    BY <2>5, <2>8, HoldNumbers
  <2> QED BY <2>8, <2>9 DEF y
<1>5. written' \in [Msgs -> 0..Many]
  BY <1>3, <1>4
<1> QED BY <1>3, <1>4, <1>5

\* An attempt, taken or refused, is paid for by one.
LEMMA AttemptPays ==
    ASSUME HoldInv, NEW m \in Msgs, Try(m), tried[m] < Many, Taken(m) \/ Refused(m)
    PROVE  /\ hold' \in Seq(HeldMsg) /\ Len(hold') <= HoldLimit
           /\ written' \in [Msgs -> 0..Many] /\ tried' \in [Msgs -> 0..Many]
           /\ CopiesArePaidFor'
           /\ tried' = [tried EXCEPT ![m] = @ + 1]
<1>1. /\ tried \in [Msgs -> 0..Many] /\ written \in [Msgs -> 0..Many]
      /\ hold \in Seq(HeldMsg) /\ \A k \in Msgs : Count(hold, k) \in Nat
  <2>1. hold \in Seq(HeldMsg)
    BY DEF HoldInv, HoldTypeOK, HeldMsg
  <2> QED BY <2>1, CountType DEF HoldInv, HoldTypeOK
<1>2. tried' = [tried EXCEPT ![m] = @ + 1] /\ tried' \in [Msgs -> 0..Many]
  <2>1. UpTo(tried[m]+1) = tried[m] + 1 /\ tried[m] + 1 \in 0..Many
    BY <1>1, HoldNumbers DEF UpTo
  <2> QED BY <1>1, <2>1 DEF Try
<1>3. \A k \in Msgs : tried'[k] = tried[k] + (IF k = m THEN 1 ELSE 0)
  BY <1>1, <1>2, HoldNumbers
<1>4. \A k \in Msgs : written[k] + Count(hold, k) <= tried[k]
  BY DEF HoldInv, CopiesArePaidFor, Copies, Count
<1>5. /\ hold' \in Seq(HeldMsg) /\ Len(hold') <= HoldLimit /\ written' \in [Msgs -> 0..Many]
      /\ \A k \in Msgs : written'[k] + Count(hold', k)
                            <= written[k] + Count(hold, k) + (IF k = m THEN 1 ELSE 0)
  <2>1. CASE Taken(m)
    <3>1. /\ hold' = <<>> /\ written' \in [Msgs -> 0..Many]
          /\ \A k \in Msgs :
                 written'[k] <= written[k] + Count(hold, k) + (IF k \in {m} THEN 1 ELSE 0)
      <4>1. {m} \in SUBSET Msgs /\ Flush({m})
        BY <2>1 DEF Taken
      <4> QED BY <4>1, FlushKeeps DEF HoldInv
    <3>2. hold' \in Seq(HeldMsg) /\ Len(hold') <= HoldLimit
      BY <3>1, EmptySeq, HoldNumbers
    <3>3. ASSUME NEW k \in Msgs
          PROVE  written'[k] + Count(hold', k)
                            <= written[k] + Count(hold, k) + (IF k = m THEN 1 ELSE 0)
      <4>1. Count(hold', k) = 0 /\ written'[k] \in Nat
        BY <3>1, CountNone, HoldNumbers
      <4>2. written'[k] <= written[k] + Count(hold, k) + (IF k = m THEN 1 ELSE 0)
        BY <3>1
      <4> QED BY <4>1, <4>2
    <3> QED BY <3>1, <3>2, <3>3
  <2>2. CASE Refused(m)
    <3>1. /\ hold' \in Seq(HeldMsg) /\ Len(hold') <= HoldLimit /\ written' = written
          /\ \A k \in Msgs : Count(hold', k) <= Count(hold, k) + (IF k = m THEN 1 ELSE 0)
      BY <2>2, HoldKeeps DEF Refused, HoldInv
    <3>2. \A k \in Msgs : Count(hold', k) \in Nat /\ written[k] \in Nat
      BY <1>1, <3>1, CountType, HoldNumbers
    <3> QED BY <1>1, <3>1, <3>2
  <2> QED BY <2>1, <2>2
<1>6. \A k \in Msgs : written'[k] + Count(hold', k) <= tried'[k]
  <2> TAKE k \in Msgs
  <2>1. written'[k] \in Nat /\ Count(hold', k) \in Nat /\ tried[k] \in Nat /\ written[k] \in Nat
        /\ Count(hold, k) \in Nat
    BY <1>1, <1>5, CountType, HoldNumbers
  <2> QED BY <2>1, <1>3, <1>4, <1>5
<1>7. CopiesArePaidFor'
  BY <1>6 DEF CopiesArePaidFor, Copies, Count
<1> QED BY <1>2, <1>5, <1>7
LEMMA HoldInvInit == HoldInit => HoldInv
<1> SUFFICES ASSUME HoldInit PROVE HoldInv
  OBVIOUS
<1>1. \A S : <<>> \in Seq(S) /\ Len(<<>>) = 0 /\ DOMAIN <<>> = {}
  BY EmptySeq, LenProperties
<1>2. HoldTypeOK
  <2>1. hold \in Seq(HeldMsg) /\ outbox \in Seq(KeptMsg) /\ retrying \in Seq(KeptMsg)
        /\ Len(hold) = 0 /\ Len(outbox) = 0 /\ Len(retrying) = 0
    BY <1>1 DEF HoldInit
  <2>2. nextId \in 1..(MaxMsgs + 1) /\ written \in [Msgs -> 0..Many] /\ tried \in [Msgs -> 0..Many]
    BY HoldNumbers DEF HoldInit
  <2>3. Len(hold) <= HoldLimit /\ Len(outbox) + Len(retrying) <= OutboxDepth
    BY <2>1, HoldNumbers
  <2> QED BY <2>1, <2>2, <2>3 DEF HoldInit, HoldTypeOK, HeldMsg, KeptMsg
<1>3. HoldBooks
  <2>1. Queued(outbox) /\ Queued(retrying) /\ Distinct(outbox) /\ Distinct(retrying)
    BY <1>1 DEF HoldInit, Queued, Distinct
  <2> QED BY <1>1, <2>1 DEF HoldInit, HoldBooks
<1>4. CopiesArePaidFor
  <2>1. \A m \in Msgs : Copies(m) = 0 /\ written[m] = 0 /\ tried[m] = 0
    BY CountNone DEF HoldInit, Copies, Count
  <2> QED BY <2>1 DEF CopiesArePaidFor
<1> QED BY <1>2, <1>3, <1>4 DEF HoldInv

\* Steps that leave the attempts, the copies and the books alone.
LEMMA HoldElsewhere ==
    ASSUME HoldInv, UNCHANGED <<tried, nextId, written>>, HoldTypeOK',
           \A k \in Msgs : Count(hold', k) <= Count(hold, k),
           \/ UNCHANGED <<outbox, retrying>>
           \/ outbox' = <<>> /\ retrying' \in {retrying, outbox}
    PROVE  HoldInv'
<1>1. DOMAIN <<>> = {}
  BY EmptySeq, LenProperties
<1>2. HoldBooks'
  <2>1. CASE UNCHANGED <<outbox, retrying>>
    BY <2>1 DEF HoldInv, HoldBooks, Queued, Distinct
  <2>2. CASE outbox' = <<>> /\ retrying' \in {retrying, outbox}
    BY <1>1, <2>2 DEF HoldInv, HoldBooks, Queued, Distinct
  <2> QED BY <2>1, <2>2
<1>3. CopiesArePaidFor'
  <2> SUFFICES ASSUME NEW k \in Msgs PROVE written[k] + Count(hold', k) <= tried[k]
    BY DEF CopiesArePaidFor, Copies, Count
  <2>1. hold \in Seq(HeldMsg) /\ hold' \in Seq(HeldMsg)
    BY DEF HoldInv, HoldTypeOK, HeldMsg
  <2>2. Count(hold, k) \in Nat /\ Count(hold', k) \in Nat
    BY <2>1, CountType
  <2>3. written[k] + Count(hold, k) <= tried[k] /\ written[k] \in Nat /\ tried[k] \in Nat
    BY HoldNumbers DEF HoldInv, CopiesArePaidFor, Copies, Count, HoldTypeOK
  <2> QED BY <2>2, <2>3
<1> QED BY <1>2, <1>3 DEF HoldInv

\* A message is tried for the first time.
LEMMA DeliverKeeps == ASSUME HoldInv, DeliverByIrc PROVE HoldInv'
<1> DEFINE m == nextId
           x == [id |-> m, attempts |-> 1]
           n == Len(outbox)
<1>1. m \in Msgs /\ m \in Nat /\ nextId' = m + 1 /\ retrying = <<>> /\ retrying' = <<>>
      /\ UNCHANGED <<published, online, holdFor>>
  BY HoldNumbers DEF HoldInv, HoldTypeOK, DeliverByIrc, Msgs, linkVars
<1>2. tried[m] = 0 /\ tried[m] < Many /\ \A k \in Msgs : k >= m => tried[k] = 0
  BY <1>1, HoldNumbers DEF HoldInv, HoldBooks
<1>3. Try(m) /\ (Taken(m) \/ Refused(m))
  BY DEF DeliverByIrc
<1>4. /\ hold' \in Seq(HeldMsg) /\ Len(hold') <= HoldLimit
      /\ written' \in [Msgs -> 0..Many] /\ tried' \in [Msgs -> 0..Many]
      /\ CopiesArePaidFor' /\ tried' = [tried EXCEPT ![m] = @ + 1]
  <2> HIDE DEF m
  <2> QED BY <1>1, <1>2, <1>3, AttemptPays
<1>5. /\ outbox \in Seq(KeptMsg) /\ n \in Nat /\ n <= OutboxDepth /\ DOMAIN outbox = 1..n
      /\ Queued(outbox) /\ Distinct(outbox) /\ Len(retrying) = 0 /\ DOMAIN <<>> = {}
  <2>1. outbox \in Seq(KeptMsg) /\ Len(outbox) + Len(retrying) <= OutboxDepth
    BY DEF HoldInv, HoldTypeOK, KeptMsg
  <2>2. Len(retrying) = 0 /\ DOMAIN <<>> = {}
    BY <1>1, EmptySeq, LenProperties
  <2>3. n \in Nat /\ DOMAIN outbox = 1..n
    BY <2>1, LenProperties
  <2> QED BY <2>1, <2>2, <2>3 DEF HoldInv, HoldBooks
<1>6. x \in KeptMsg
  BY <1>1, HoldNumbers DEF KeptMsg
<1>7. \A k \in Msgs : tried'[k] = IF k = m THEN 1 ELSE tried[k]
  BY <1>2, <1>4, HoldNumbers DEF HoldInv, HoldTypeOK
<1>8. /\ outbox' \in Seq(KeptMsg) /\ Len(outbox') <= OutboxDepth
      /\ \E d \in {0, 1} : \A i \in DOMAIN outbox' :
             \/ outbox'[i] = x /\ i = Len(outbox')
             \/ i + d \in DOMAIN outbox /\ outbox'[i] = outbox[i + d]
  <2>1. CASE outbox' = outbox
    BY <1>5, <2>1, HoldNumbers
  <2>2. CASE outbox' = Pushed(x)
    <3>1. CASE n >= OutboxDepth
      <4>1. /\ Tail(outbox) \in Seq(KeptMsg) /\ Len(Tail(outbox)) = n - 1
            /\ \A i \in 1..(n - 1) : Tail(outbox)[i] = outbox[i + 1]
        <5>1. outbox # <<>>
          BY <1>5, <3>1, EmptySeq, HoldNumbers
        <5> QED BY <1>5, <5>1, HeadTailProperties
      <4>2. outbox' = Append(Tail(outbox), x)
        BY <2>2, <3>1 DEF Pushed
      <4> HIDE DEF x, n
      <4>3. /\ outbox' \in Seq(KeptMsg) /\ Len(outbox') = n
            /\ \A i \in 1..(n - 1) : outbox'[i] = outbox[i + 1]
            /\ outbox'[n] = x
        BY <1>5, <1>6, <4>1, <4>2, AppendProperties
      <4>4. DOMAIN outbox' = 1..n
        BY <4>3, LenProperties
      <4>5. \A i \in DOMAIN outbox' : (outbox'[i] = x /\ i = n)
                \/ (i + 1 \in DOMAIN outbox /\ outbox'[i] = outbox[i + 1] /\ i # n)
        BY <1>5, <4>3, <4>4
      <4> QED BY <1>5, <4>3, <4>5
    <3>2. CASE ~(n >= OutboxDepth)
      <4>1. outbox' = Append(outbox, x)
        BY <2>2, <3>2 DEF Pushed
      <4> HIDE DEF x, n
      <4>2. /\ outbox' \in Seq(KeptMsg) /\ Len(outbox') = n + 1
            /\ \A i \in 1..n : outbox'[i] = outbox[i]
            /\ outbox'[n + 1] = x
        BY <1>5, <1>6, <4>1, AppendProperties DEF n
      <4>3. DOMAIN outbox' = 1..(n + 1)
        BY <4>2, LenProperties
      <4>4. \A i \in DOMAIN outbox' : (outbox'[i] = x /\ i = n + 1)
                \/ (i + 0 \in DOMAIN outbox /\ outbox'[i] = outbox[i + 0] /\ i # n + 1)
        BY <1>5, <4>2, <4>3
      <4> QED BY <1>5, <3>2, <4>2, <4>4, HoldNumbers
    <3> QED BY <3>1, <3>2
  <2> QED BY <2>1, <2>2 DEF DeliverByIrc
<1>9. Queued(outbox)'
  <2> SUFFICES ASSUME NEW i \in DOMAIN outbox'
               PROVE  outbox'[i].id < nextId' /\ outbox'[i].attempts = tried'[outbox'[i].id]
    BY DEF Queued
  <2>1. CASE outbox'[i] = x
    BY <1>1, <1>7, <2>1
  <2>2. CASE \E j \in DOMAIN outbox : outbox'[i] = outbox[j]
    <3>1. PICK j \in DOMAIN outbox : outbox'[i] = outbox[j]
      BY <2>2
    <3>2. outbox[j].id \in Msgs /\ outbox[j].id < m /\ outbox[j].attempts = tried[outbox[j].id]
      <4>1. outbox[j] \in KeptMsg
        BY <1>5, ElementOfSeq
      <4> QED BY <1>5, <4>1 DEF KeptMsg, Queued
    <3>3. PICK y \in Msgs : y = outbox[j].id
      BY <3>2
    <3>4. y \in Nat /\ y < m /\ y # m /\ y < m + 1
      BY <1>1, <3>2, <3>3, HoldNumbers
    <3>5. tried'[y] = tried[y]
      BY <1>7, <3>4
    <3> QED BY <1>1, <3>1, <3>2, <3>3, <3>4, <3>5
  <2> QED BY <1>8, <2>1, <2>2
<1>10. Distinct(outbox)'
  <2>1. \A j \in DOMAIN outbox : outbox[j].id # x.id
    BY <1>1, <1>5 DEF Queued
  <2>2. PICK d \in {0, 1} : \A i \in DOMAIN outbox' :
             \/ outbox'[i] = x /\ i = Len(outbox')
             \/ i + d \in DOMAIN outbox /\ outbox'[i] = outbox[i + d]
    BY <1>8
  <2>3. DOMAIN outbox' \subseteq Nat
    BY <1>8, LenProperties
  <2> HIDE DEF x
  <2>4. ASSUME NEW i \in DOMAIN outbox', NEW j \in DOMAIN outbox', outbox'[i].id = outbox'[j].id
        PROVE  i = j
    <3>1. CASE outbox'[i] = x /\ i = Len(outbox') /\ outbox'[j] = x /\ j = Len(outbox')
      BY <3>1
    <3>2. CASE i + d \in DOMAIN outbox /\ outbox'[i] = outbox[i + d]
               /\ j + d \in DOMAIN outbox /\ outbox'[j] = outbox[j + d]
      <4>1. i + d = j + d
        BY <1>5, <2>4, <3>2 DEF Distinct
      <4> QED BY <2>3, <4>1
    <3> QED BY <2>1, <2>2, <2>4, <3>1, <3>2
  <2> QED BY <2>4 DEF Distinct
<1>11. HoldBooks'
  <2>1. DOMAIN retrying' = {}
    BY <1>1, <1>5
  <2>2. Queued(retrying)' /\ Distinct(retrying)'
    BY <2>1 DEF Queued, Distinct
  <2>3. \A k \in Msgs : k >= nextId' => tried'[k] = 0
    BY <1>1, <1>2, <1>7, HoldNumbers
  <2> QED BY <1>9, <1>10, <2>1, <2>2, <2>3 DEF HoldBooks
<1>12. HoldTypeOK'
  <2>1. nextId' \in 1..(MaxMsgs + 1)
    BY <1>1, HoldNumbers DEF Msgs
  <2>2. Len(outbox') + Len(retrying') <= OutboxDepth
    <3>1. Len(outbox') \in Nat /\ Len(retrying') = 0
      BY <1>1, <1>5, <1>8, LenProperties
    <3> QED BY <1>8, <3>1
  <2>3. retrying' \in Seq(KeptMsg)
    BY <1>1, EmptySeq
  <2> QED BY <1>1, <1>4, <1>8, <2>1, <2>2, <2>3 DEF HoldInv, HoldTypeOK, HeldMsg, KeptMsg
<1> QED BY <1>4, <1>11, <1>12 DEF HoldInv
\* The round takes the whole outbox, once the hold has gone out.
LEMMA RetryTickKeeps == ASSUME HoldInv, RetryTick PROVE HoldInv'
<1>1. /\ retrying = <<>> /\ Len(retrying) = 0 /\ retrying' = outbox /\ outbox' = <<>>
      /\ UNCHANGED <<published, online, holdFor, nextId, tried>>
  BY EmptySeq DEF RetryTick, linkVars
<1>2. /\ outbox \in Seq(KeptMsg) /\ Len(outbox) <= OutboxDepth /\ Len(outbox) \in Nat
      /\ hold \in Seq(HeldMsg) /\ Len(hold) <= HoldLimit
  <2>1. /\ outbox \in Seq(KeptMsg) /\ Len(outbox) + Len(retrying) <= OutboxDepth
        /\ hold \in Seq(HeldMsg) /\ Len(hold) <= HoldLimit
    BY DEF HoldInv, HoldTypeOK, KeptMsg, HeldMsg
  <2>2. Len(outbox) \in Nat
    BY <2>1, LenProperties
  <2> QED BY <1>1, <2>1, <2>2
<1>3. outbox' \in Seq(KeptMsg) /\ retrying' \in Seq(KeptMsg) /\ Len(outbox') + Len(retrying') <= OutboxDepth
  BY <1>1, <1>2, EmptySeq
<1>4. CASE Flush({})
  <2>1. /\ hold' = <<>> /\ written' \in [Msgs -> 0..Many]
        /\ \A k \in Msgs :
               written'[k] <= written[k] + Count(hold, k) + (IF k \in {} THEN 1 ELSE 0)
    <3>1. {} \in SUBSET Msgs
      OBVIOUS
    <3> QED BY <1>4, <3>1, FlushKeeps DEF HoldInv
  <2>2. HoldTypeOK'
    <3>1. hold' \in Seq(HeldMsg) /\ Len(hold') <= HoldLimit
      BY <2>1, EmptySeq, HoldNumbers
    <3> QED BY <1>1, <1>3, <2>1, <3>1 DEF HoldInv, HoldTypeOK, HeldMsg, KeptMsg
  <2>3. HoldBooks'
    <3>1. DOMAIN <<>> = {}
      BY EmptySeq, LenProperties
    <3> QED BY <1>1, <3>1 DEF HoldInv, HoldBooks, Queued, Distinct
  <2>4. ASSUME NEW k \in Msgs PROVE written'[k] + Count(hold', k) <= tried[k]
    <3>1. Count(hold', k) = 0 /\ Count(hold, k) \in Nat
      BY <1>2, <2>1, CountNone, CountType
    <3>2. written[k] + Count(hold, k) <= tried[k] /\ written[k] \in Nat /\ tried[k] \in Nat
          /\ written'[k] \in Nat
      BY <2>1, HoldNumbers DEF HoldInv, CopiesArePaidFor, Copies, Count, HoldTypeOK
    <3>3. written'[k] <= written[k] + Count(hold, k) + 0
      BY <2>1
    <3> QED BY <3>1, <3>2, <3>3
  <2>5. CopiesArePaidFor'
    BY <1>1, <2>4 DEF CopiesArePaidFor, Copies, Count
  <2> QED BY <2>2, <2>3, <2>5 DEF HoldInv
<1>5. CASE UNCHANGED <<hold, written>>
  <2>1. HoldTypeOK'
    BY <1>1, <1>3, <1>5 DEF HoldInv, HoldTypeOK, HeldMsg, KeptMsg
  <2>2. \A k \in Msgs : Count(hold', k) <= Count(hold, k)
    BY <1>2, <1>5, CountType
  <2> QED BY <1>1, <1>5, <2>1, <2>2, HoldElsewhere
<1> QED BY <1>4, <1>5 DEF RetryTick

\* A message is tried again, and goes back with one attempt more, if any.
LEMMA RetryOneKeeps == ASSUME HoldInv, RetryOne PROVE HoldInv'
<1> DEFINE m == Head(retrying)
           n == Len(outbox)
           y == [m EXCEPT !.attempts = @ + 1]
<1>1. /\ retrying \in Seq(KeptMsg) /\ retrying # <<>> /\ retrying' = Tail(retrying)
      /\ outbox \in Seq(KeptMsg) /\ n + Len(retrying) <= OutboxDepth
      /\ UNCHANGED <<published, online, holdFor, nextId>>
  BY DEF RetryOne, linkVars, HoldInv, HoldTypeOK, KeptMsg
<1>2. /\ DOMAIN retrying = 1..Len(retrying) /\ Len(retrying) \in Nat /\ Len(retrying) >= 1
      /\ DOMAIN outbox = 1..n /\ n \in Nat
  BY <1>1, LenProperties, EmptySeq
<1>3. /\ m \in KeptMsg /\ m = retrying[1] /\ 1 \in DOMAIN retrying
      /\ retrying' \in Seq(KeptMsg) /\ Len(retrying') = Len(retrying) - 1
      /\ DOMAIN retrying' = 1..(Len(retrying) - 1)
      /\ \A i \in DOMAIN retrying' : retrying'[i] = retrying[i + 1] /\ i + 1 \in DOMAIN retrying
  <2>1. /\ m \in KeptMsg /\ retrying' \in Seq(KeptMsg) /\ Len(retrying') = Len(retrying) - 1
        /\ \A i \in 1..(Len(retrying) - 1) : retrying'[i] = retrying[i + 1]
    BY <1>1, HeadTailProperties
  <2>2. DOMAIN retrying' = 1..(Len(retrying) - 1)
    BY <2>1, LenProperties
  <2> QED BY <1>1, <1>2, <2>1, <2>2
<1>4. /\ m.id \in Msgs /\ m.id < nextId /\ m.attempts = tried[m.id] /\ m.attempts \in 1..MaxAttempts
      /\ tried[m.id] < Many
  BY <1>3, HoldNumbers DEF KeptMsg, HoldInv, HoldBooks, Queued
<1> HIDE DEF m
<1>5. /\ hold' \in Seq(HeldMsg) /\ Len(hold') <= HoldLimit
      /\ written' \in [Msgs -> 0..Many] /\ tried' \in [Msgs -> 0..Many]
      /\ CopiesArePaidFor' /\ tried' = [tried EXCEPT ![m.id] = @ + 1]
  <2>1. Try(m.id) /\ (Taken(m.id) \/ Refused(m.id))
    BY DEF RetryOne, m
  <2> QED BY <1>4, <2>1, AttemptPays
<1>6. \A k \in Msgs : tried'[k] = IF k = m.id THEN m.attempts + 1 ELSE tried[k]
  BY <1>4, <1>5 DEF HoldInv, HoldTypeOK
<1>7. outbox' = outbox \/ (m.attempts + 1 < MaxAttempts /\ outbox' = Append(outbox, y) /\ y \in KeptMsg)
  <2>1. outbox' = outbox \/ outbox' = outbox \o Again(m)
    BY DEF RetryOne, m
  <2>2. CASE m.attempts + 1 >= MaxAttempts
    <3>1. outbox \o <<>> = outbox
      BY <1>1, ConcatEmptySeq
    <3> QED BY <2>1, <2>2, <3>1 DEF Again
  <2>3. CASE ~(m.attempts + 1 >= MaxAttempts)
    <3>1. m.attempts + 1 \in 1..MaxAttempts /\ m.attempts + 1 < MaxAttempts
      BY <1>4, <2>3, HoldNumbers
    <3>2. y \in KeptMsg
      BY <1>3, <3>1 DEF KeptMsg
    <3>3. outbox \o <<y>> = Append(outbox, y)
      <4> HIDE DEF y
      <4> QED BY <1>1, <3>2, AppendIsConcat
    <3> QED BY <2>1, <2>3, <3>1, <3>2, <3>3 DEF Again
  <2> QED BY <2>2, <2>3
<1>8. /\ outbox' \in Seq(KeptMsg) /\ Len(outbox') \in n..(n + 1)
      /\ \A i \in DOMAIN outbox' :
             \/ i \in DOMAIN outbox /\ outbox'[i] = outbox[i]
             \/ i = n + 1 /\ outbox'[i].id = m.id /\ outbox'[i].attempts = m.attempts + 1
  <2>1. CASE outbox' = outbox
    BY <1>1, <1>2, <2>1
  <2>2. CASE outbox' = Append(outbox, y) /\ y \in KeptMsg
    <3>1. y.id = m.id /\ y.attempts = m.attempts + 1
      BY <1>3 DEF KeptMsg
    <3> HIDE DEF y, n
    <3>2. /\ outbox' \in Seq(KeptMsg) /\ Len(outbox') = n + 1
          /\ (\A i \in 1..n : outbox'[i] = outbox[i]) /\ outbox'[n + 1] = y
      BY <1>1, <2>2, AppendProperties DEF n
    <3>3. DOMAIN outbox' = 1..(n + 1)
      BY <3>2, LenProperties
    <3> QED BY <1>2, <3>1, <3>2, <3>3
  <2> QED BY <1>7, <2>1, <2>2
<1>9. \A i \in DOMAIN outbox : outbox[i].id # m.id /\ outbox[i].id \in Msgs
  <2>1. \A i \in DOMAIN outbox : outbox[i] \in KeptMsg
    BY <1>1, ElementOfSeq, LenProperties
  <2> QED BY <1>3, <2>1 DEF HoldInv, HoldBooks, KeptMsg
<1>10. \A i \in DOMAIN retrying' : retrying'[i].id # m.id /\ retrying'[i].id \in Msgs
  <2>1. \A i \in DOMAIN retrying : retrying[i] \in KeptMsg
    BY <1>1, ElementOfSeq, LenProperties
  <2>2. \A i \in DOMAIN retrying' : i + 1 # 1
    BY <1>2, <1>3
  <2> QED BY <1>3, <2>1, <2>2 DEF HoldInv, HoldBooks, Distinct, KeptMsg
<1>11. Queued(outbox)' /\ Queued(retrying)'
  <2>1. ASSUME NEW i \in DOMAIN outbox'
        PROVE  outbox'[i].id < nextId /\ outbox'[i].attempts = tried'[outbox'[i].id]
    <3>1. CASE i \in DOMAIN outbox /\ outbox'[i] = outbox[i]
      BY <1>6, <1>9, <3>1 DEF HoldInv, HoldBooks, Queued
    <3>2. CASE outbox'[i].id = m.id /\ outbox'[i].attempts = m.attempts + 1
      BY <1>4, <1>6, <3>2
    <3> QED BY <1>8, <3>1, <3>2
  <2>2. ASSUME NEW i \in DOMAIN retrying'
        PROVE  retrying'[i].id < nextId /\ retrying'[i].attempts = tried'[retrying'[i].id]
    BY <1>3, <1>6, <1>10 DEF HoldInv, HoldBooks, Queued
  <2> QED BY <1>1, <2>1, <2>2 DEF Queued
<1>12. Distinct(outbox)' /\ Distinct(retrying)'
  <2>1. ASSUME NEW i \in DOMAIN outbox', NEW j \in DOMAIN outbox', outbox'[i].id = outbox'[j].id
        PROVE  i = j
    BY <1>8, <1>9, <2>1 DEF HoldInv, HoldBooks, Distinct
  <2>2. ASSUME NEW i \in DOMAIN retrying', NEW j \in DOMAIN retrying', retrying'[i].id = retrying'[j].id
        PROVE  i = j
    <3>1. i + 1 = j + 1
      BY <1>3, <2>2 DEF HoldInv, HoldBooks, Distinct
    <3> QED BY <1>2, <1>3, <3>1
  <2> QED BY <2>1, <2>2 DEF Distinct
<1>13. HoldBooks'
  <2>1. \A i \in DOMAIN outbox', j \in DOMAIN retrying' : outbox'[i].id # retrying'[j].id
    BY <1>3, <1>8, <1>10 DEF HoldInv, HoldBooks
  <2>2. \A k \in Msgs : k >= nextId' => tried'[k] = 0
    <3> SUFFICES ASSUME NEW k \in Msgs, k >= nextId PROVE tried'[k] = 0
      BY <1>1
    <3>1. k # m.id /\ tried[k] = 0
      <4>1. nextId \in Nat /\ m.id \in Nat /\ k \in Nat
        <5>1. m.id \in Msgs /\ m.id < nextId
          BY <1>4
        <5>2. nextId \in 1..(MaxMsgs + 1)
          BY DEF HoldInv, HoldTypeOK
        <5>3. MaxMsgs \in Nat /\ Msgs \subseteq Nat
          BY HoldNumbers
        <5>4. nextId \in Nat
          BY <5>2, <5>3
        <5> QED BY <5>1, <5>3, <5>4, Zenon
      <4> QED BY <1>4, <4>1 DEF HoldInv, HoldBooks
    <3> QED BY <1>6, <3>1
  <2> QED BY <1>11, <1>12, <2>1, <2>2 DEF HoldBooks
<1>14. HoldTypeOK'
  <2>1. Len(outbox') + Len(retrying') <= OutboxDepth
    BY <1>1, <1>2, <1>3, <1>8, HoldNumbers
  <2> QED BY <1>1, <1>3, <1>5, <1>8, <2>1 DEF HoldInv, HoldTypeOK, HeldMsg, KeptMsg
<1> QED BY <1>5, <1>13, <1>14 DEF HoldInv

LEMMA HoldInvStep == HoldInv /\ [HoldNext]_ihVars => HoldInv'
<1> SUFFICES ASSUME HoldInv, [HoldNext]_ihVars PROVE HoldInv'
  OBVIOUS
<1>1. hold \in Seq(HeldMsg) /\ Len(hold) <= HoldLimit
  BY DEF HoldInv, HoldTypeOK, HeldMsg
<1>2. \A k \in Msgs : Count(hold, k) \in Nat
  BY <1>1, CountType
<1>3. CASE Rebuild
  <2>1. hold' = <<>> /\ outbox' = <<>> /\ UNCHANGED <<published, online, retrying, nextId, written, tried>>
        /\ holdFor' \in HoldTimes
    BY <1>3 DEF Rebuild, linkVars
  <2>2. hold' \in Seq(HeldMsg) /\ outbox' \in Seq(KeptMsg) /\ Len(hold') = 0 /\ Len(outbox') = 0
    BY <2>1, EmptySeq
  <2>3. \A k \in Msgs : Count(hold', k) <= Count(hold, k)
    BY <1>2, <2>1, CountNone
  <2>4. Len(outbox') + Len(retrying') <= OutboxDepth
    <3>1. retrying = <<>> /\ Len(<<>>) = 0
      BY <1>3, EmptySeq DEF Rebuild
    <3> QED BY <2>1, <2>2, <3>1, HoldNumbers
  <2>5. HoldTypeOK'
    BY <2>1, <2>2, <2>4, HoldNumbers DEF HoldInv, HoldTypeOK, HeldMsg, KeptMsg
  <2> QED BY <2>1, <2>3, <2>5, HoldElsewhere
<1>4. CASE HoldTick
  <2>1. hold' = [i \in DOMAIN hold |-> [hold[i] EXCEPT !.age = Older(@)]]
        /\ UNCHANGED <<published, online, holdFor, outbox, retrying, nextId, written, tried>>
    BY <1>4 DEF HoldTick, linkVars
  <2>2. \A i \in DOMAIN hold : hold[i] \in HeldMsg
    BY <1>1, ElementOfSeq, LenProperties
  <2>3. \A a \in 0..MaxHold : Older(a) \in 0..MaxHold
    BY HoldNumbers DEF Older
  <2>4. \A i \in DOMAIN hold : hold'[i] \in HeldMsg /\ hold'[i].id = hold[i].id
    BY <2>1, <2>2, <2>3 DEF HeldMsg
  <2>5. DOMAIN hold' = DOMAIN hold /\ DOMAIN hold = 1..Len(hold) /\ Len(hold) \in Nat
    BY <1>1, <2>1, LenProperties
  <2>6. hold' \in Seq(HeldMsg) /\ Len(hold') = Len(hold)
    <3>1. hold' \in [1..Len(hold) -> HeldMsg]
      BY <2>1, <2>4, <2>5
    <3>2. hold' \in Seq(HeldMsg)
      BY <2>5, <3>1, SeqDef
    <3> QED BY <2>5, <3>1, <3>2, LenProperties
  <2>7. \A k \in Msgs : Count(hold', k) <= Count(hold, k)
    <3> TAKE k \in Msgs
    <3>1. {i \in DOMAIN hold' : hold'[i].id = k} = {i \in DOMAIN hold : hold[i].id = k}
      BY <2>4, <2>5
    <3>2. Count(hold', k) = Count(hold, k)
      BY <3>1 DEF Count
    <3> QED BY <1>2, <3>2
  <2>8. HoldTypeOK'
    BY <1>1, <2>1, <2>6 DEF HoldInv, HoldTypeOK, HeldMsg, KeptMsg
  <2> QED BY <2>1, <2>7, <2>8, HoldElsewhere
<1>5. CASE Connect \/ Drop \/ Presence \/ UNCHANGED ihVars
  <2>1. UNCHANGED <<holdFor, hold, outbox, retrying, nextId, written, tried>>
        /\ published' \in BOOLEAN /\ online' \in BOOLEAN /\ (online' => published')
    <3>1. published \in BOOLEAN /\ online \in BOOLEAN /\ (online => published)
      BY DEF HoldInv, HoldTypeOK
    <3>2. CASE Connect
      BY <3>2, Zenon DEF Connect
    <3>3. CASE Drop
      BY <3>1, <3>3, Zenon DEF Drop
    <3>4. CASE Presence
      BY <3>1, <3>4, Zenon DEF Presence
    <3>5. CASE UNCHANGED ihVars
      <4>1. UNCHANGED <<published, online, holdFor, hold, outbox, retrying, nextId, written, tried>>
        BY <3>5, Zenon DEF ihVars, linkVars
      <4> QED BY <3>1, <4>1, Zenon
    <3> QED BY <1>5, <3>2, <3>3, <3>4, <3>5, Zenon
  <2>2. \A k \in Msgs : Count(hold', k) <= Count(hold, k)
    BY <1>2, <2>1
  <2>3. HoldTypeOK'
    BY <2>1 DEF HoldInv, HoldTypeOK
  <2> QED BY <2>1, <2>2, <2>3, HoldElsewhere
<1> QED
  BY <1>3, <1>4, <1>5, DeliverKeeps, RetryTickKeeps, RetryOneKeeps DEF HoldNext

\* Hold, outbox and round keep within their limits, and every variable to its
\* type.
THEOREM HoldTypeCorrect == HoldSpec => []HoldTypeOK
<1>1. HoldInv => HoldTypeOK
  BY DEF HoldInv
<1> QED BY <1>1, HoldInvInit, HoldInvStep, PTL DEF HoldSpec

\* Though hold and outbox keep the same message, it is never written or held
\* more often than its delivery was tried (IrcBackend, retry_outboxes).
THEOREM CopiesCorrect == HoldSpec => []CopiesArePaidFor
<1>1. HoldInv => CopiesArePaidFor
  BY DEF HoldInv
<1> QED BY <1>1, HoldInvInit, HoldInvStep, PTL DEF HoldSpec

-----------------------------------------------------------------------------
\* The appointment of the summary.

LEMMA SummaryNumbers ==
    /\ DayLength \in Nat /\ DayLength >= 3 /\ SummaryHorizon \in Nat
    /\ Changes \subseteq Nat
BY SummaryAssumption

Zoned == smChange \in [at : Nat, by : {-1, 0, 1}]

\* When the clock has come as far as x.
ComesTo(u, x) == u \in Nat /\ Reads(u) >= x /\ \A v \in 0..(u - 1) : Reads(v) < x

Reading(day, time) == day * DayLength + time

\* The clock only goes forward or stands, and skips one reading at most.
LEMMA ClockGoesOn ==
    ASSUME Zoned, NEW u \in Int
    PROVE  /\ Reads(u) \in Int /\ Reads(u) <= u + 1 /\ Reads(u) >= u - 1
           /\ Reads(u + 1) <= Reads(u) + 2
           /\ \A v \in Int : u <= v => Reads(u) <= Reads(v)
<1>1. smChange.at \in Nat /\ smChange.by \in Int /\ smChange.by \in {-1, 0, 1}
  BY DEF Zoned
<1>2. PICK at \in Nat, by \in Int : at = smChange.at /\ by = smChange.by
  BY <1>1
<1>3. by \in {-1, 0, 1} /\ \A v : Reads(v) = IF v >= at THEN v + by ELSE v
  BY <1>1, <1>2 DEF Reads
<1> QED BY <1>3

\* It comes as far as x only once.
LEMMA ComesOnce ==
    ASSUME Zoned, NEW u, NEW v, NEW x \in Int, NEW y \in Int, ComesTo(u, x), ComesTo(v, y), x <= y
    PROVE  u <= v /\ (x = y => u = v)
<1>1. u \in Nat /\ v \in Nat /\ Reads(u) \in Int /\ Reads(v) \in Int
  BY ClockGoesOn DEF ComesTo
<1>2. u <= v
  <2> SUFFICES ASSUME v < u PROVE FALSE
    BY <1>1
  <2>1. v \in 0..(u - 1)
    BY <1>1
  <2> QED BY <1>1, <2>1 DEF ComesTo
<1>3. ASSUME x = y PROVE u = v
  <2> SUFFICES ASSUME u < v PROVE FALSE
    BY <1>1, <1>2
  <2>1. u \in 0..(v - 1)
    BY <1>1
  <2> QED BY <1>1, <1>3, <2>1 DEF ComesTo
<1> QED BY <1>2, <1>3

\* Then it reads x, or one more.
LEMMA ComesNearly ==
    ASSUME Zoned, NEW u, NEW x \in Nat, ComesTo(u, x)
    PROVE  Reads(u) \in {x, x + 1} /\ Reads(u + 1) <= x + 2
<1>1. smChange.at \in Nat /\ smChange.by \in Int /\ smChange.by \in {-1, 0, 1}
  BY DEF Zoned
<1>2. PICK at \in Nat, by \in Int : at = smChange.at /\ by = smChange.by
  BY <1>1
<1>3. by \in {-1, 0, 1} /\ \A v : Reads(v) = IF v >= at THEN v + by ELSE v
  BY <1>1, <1>2 DEF Reads
<1>4. u \in Nat /\ Reads(u) >= x /\ (u >= 1 => Reads(u - 1) < x)
  <2>1. u >= 1 => u - 1 \in 0..(u - 1)
    BY DEF ComesTo
  <2> QED BY <2>1 DEF ComesTo
<1> QED BY <1>3, <1>4

\* Readings that are three apart are two units apart at least.
LEMMA ComesApart ==
    ASSUME Zoned, NEW u, NEW v, NEW x \in Nat, NEW y \in Nat,
           ComesTo(u, x), ComesTo(v, y), x + 3 <= y
    PROVE  u + 2 <= v
<1>1. u \in Nat /\ v \in Nat /\ u <= v
  <2>1. x \in Int /\ y \in Int /\ x <= y
    OBVIOUS
  <2>2. u <= v
    BY <2>1, ComesOnce
  <2> QED BY <2>2 DEF ComesTo
<1>2. Reads(u) \in {x, x + 1} /\ Reads(u + 1) <= x + 2
  BY ComesNearly
<1>3. Reads(v) >= y
  BY DEF ComesTo
<1>4. v # u /\ v # u + 1
  <2>1. Reads(u) \in Int /\ Reads(u + 1) \in Int /\ u + 1 \in Int
    BY <1>1, ClockGoesOn
  <2>2. Reads(u) < y /\ Reads(u + 1) < y
    BY <1>2, <2>1
  <2> QED BY <1>3, <2>1, <2>2
<1> QED BY <1>1, <1>4

LEMMA EarliestIs ==
    ASSUME NEW S \in SUBSET Nat, NEW f \in S, \A v \in S : f <= v
    PROVE  Earliest1(S) = f
<1>1. \A g \in S : (\A v \in S : g <= v) => g = f
  OBVIOUS
<1> QED BY <1>1 DEF Earliest1

\* Within the instants the clock comes as far as any reading of these days.
LEMMA ComesAtAll ==
    ASSUME Zoned, NEW x \in Nat, x <= SummaryHorizon + 4 * DayLength - 1
    PROVE  \E u \in Instants : ComesTo(u, x) /\ Earliest1({w \in Instants : Reads(w) >= x}) = u
<1> DEFINE S == {w \in Instants : Reads(w) >= x}
           end == SummaryHorizon + 4 * DayLength
<1>1. end \in Nat /\ Instants = 0..end
  BY SummaryNumbers DEF Instants
<1>2. Reads(end) >= end - 1 /\ Reads(end) \in Int
  <2> HIDE DEF end
  <2>1. end \in Int
    BY <1>1
  <2> QED BY <2>1, ClockGoesOn
<1>3. end \in S
  <2>1. x <= end - 1
    BY SummaryNumbers
  <2> HIDE DEF end
  <2>2. end \in Instants /\ Reads(end) >= x
    BY <1>1, <1>2, <2>1
  <2> QED BY <2>2
<1>4. S \subseteq Nat
  BY <1>1
<1> HIDE DEF end
<1>5. PICK u \in S : \A w \in S : u <= w
  <2> HIDE DEF S
  <2> QED BY <1>3, <1>4, LeastOf
<1>6. Earliest1(S) = u
  <2> HIDE DEF S
  <2> QED BY <1>4, <1>5, EarliestIs
<1>7. \A v \in 0..(u - 1) : Reads(v) < x
  <2> TAKE v \in 0..(u - 1)
  <2>1. v \in Instants /\ v < u /\ Reads(v) \in Int
    BY <1>1, <1>4, <1>5, ClockGoesOn
  <2>2. v \notin S
    BY <1>4, <1>5, <2>1
  <2> QED BY <2>1, <2>2
<1>8. u \in Instants /\ Reads(u) >= x /\ u \in Nat
  BY <1>4, <1>5
<1>9. ComesTo(u, x)
  BY <1>7, <1>8 DEF ComesTo
<1> QED BY <1>6, <1>8, <1>9

\* What local_at answers is that instant.
LEMMA LocalComes ==
    ASSUME Zoned, NEW day \in Nat, NEW time \in ClockTimes,
           NEW x \in Nat, x = Reading(day, time), x <= SummaryHorizon + 4 * DayLength - 2
    PROVE  /\ LocalAt(day, time) # {}
           /\ Earliest1(LocalAt(day, time)) \in Instants
           /\ ComesTo(Earliest1(LocalAt(day, time)), x)
<1>1. PICK f \in Instants : ComesTo(f, x)
  <2>1. x <= SummaryHorizon + 4 * DayLength - 1
    BY SummaryNumbers
  <2> QED BY <2>1, ComesAtAll
<1>2. /\ \A u \in Instants : u \in Nat /\ Reads(u) \in Int
      /\ Instants \subseteq Nat
  <2>1. Instants \subseteq Nat
    BY SummaryNumbers DEF Instants
  <2>2. \A u \in Nat : Reads(u) \in Int
    BY ClockGoesOn
  <2> QED BY <2>1, <2>2
<1>3. LocalAt(day, time) = IF ReadingAt(x) # {} THEN ReadingAt(x) ELSE ReadingAt(x + 1)
  BY DEF LocalAt, Reading
<1>4. \A v \in Instants : (v < f => Reads(v) < x) /\ (v >= f => Reads(v) >= Reads(f))
  <2> TAKE v \in Instants
  <2>1. v \in Int /\ f \in Int /\ v >= 0
    BY <1>2
  <2>2. v < f => v \in 0..(f - 1)
    BY <2>1
  <2>3. v >= f => Reads(v) >= Reads(f)
    BY <2>1, <1>2, ClockGoesOn
  <2> QED BY <1>1, <2>2, <2>3 DEF ComesTo
<1>5. Reads(f) \in {x, x + 1}
  BY <1>1, ComesNearly
<1>6. CASE Reads(f) = x
  <2>1. f \in ReadingAt(x) /\ ReadingAt(x) \in SUBSET Nat
    BY <1>2, <1>6 DEF ReadingAt
  <2>2. \A v \in ReadingAt(x) : f <= v
    BY <1>2, <1>4 DEF ReadingAt
  <2>3. Earliest1(ReadingAt(x)) = f
    BY <2>1, <2>2, EarliestIs
  <2>4. LocalAt(day, time) = ReadingAt(x)
    BY <1>3, <2>1
  <2> QED BY <1>1, <2>1, <2>3, <2>4
<1>7. CASE Reads(f) = x + 1
  <2>1. ReadingAt(x) = {}
    <3> SUFFICES ASSUME NEW v \in Instants, Reads(v) = x PROVE FALSE
      BY DEF ReadingAt
    <3> QED BY <1>2, <1>4, <1>7
  <2>2. f \in ReadingAt(x + 1) /\ ReadingAt(x + 1) \in SUBSET Nat
    BY <1>2, <1>7 DEF ReadingAt
  <2>3. \A v \in ReadingAt(x + 1) : f <= v
    BY <1>2, <1>4 DEF ReadingAt
  <2>4. Earliest1(ReadingAt(x + 1)) = f
    BY <2>2, <2>3, EarliestIs
  <2>5. LocalAt(day, time) = ReadingAt(x + 1)
    BY <1>3, <2>1
  <2> QED BY <1>1, <2>2, <2>4, <2>5
<1> QED BY <1>5, <1>6, <1>7

Meets(u, time) == \E day \in Nat : ComesTo(u, Reading(day, time))

LEMMA ReadingType ==
    ASSUME NEW day \in Nat, NEW time \in ClockTimes
    PROVE  /\ Reading(day, time) \in Nat
           /\ \A other \in Nat : day < other =>
                 Reading(day, time) + DayLength <= Reading(other, time)
<1>1. time \in Nat /\ time < DayLength
  BY SummaryNumbers DEF ClockTimes
<1>2. day * DayLength \in Nat
  BY SummaryNumbers
<1>3. ASSUME NEW other \in Nat, day < other
      PROVE  day * DayLength + DayLength <= other * DayLength
  <2>1. PICK k \in Nat : other = day + 1 + k
    <3>1. other - day - 1 \in Nat /\ other = day + 1 + (other - day - 1)
      BY <1>3
    <3> QED BY <3>1
  <2>2. k * DayLength \in Nat
    BY SummaryNumbers
  <2>3. other * DayLength = day * DayLength + DayLength + k * DayLength
    BY <2>1, SummaryNumbers
  <2> QED BY <1>2, <2>2, <2>3, SummaryNumbers
<1>4. \A other \in Nat : other * DayLength \in Nat
  BY SummaryNumbers
<1> QED BY <1>1, <1>2, <1>3, <1>4, SummaryNumbers DEF Reading

\* A day of the clock, and how far it has gone.
LEMMA DayOf ==
    ASSUME NEW r \in Nat
    PROVE  /\ r \div DayLength \in Nat
           /\ (r \div DayLength) * DayLength <= r
           /\ r < (r \div DayLength) * DayLength + DayLength
BY SummaryNumbers

\* next_summary_after finds the first appointment there is after now.
LEMMA NextIsFirst ==
    ASSUME Zoned, NEW time \in ClockTimes, NEW now \in 1..(SummaryHorizon + 1)
    PROVE  LET next == NextSummaryAfter(time, now)
           IN  /\ next \in Instants /\ next > now /\ Meets(next, time)
               /\ \A u : Meets(u, time) /\ u > now => next <= u
<1>1. now \in Nat /\ now >= 1 /\ now <= SummaryHorizon + 1
  BY SummaryNumbers
<1>2. PICK r \in Nat : r = Reads(now) /\ r <= SummaryHorizon + 2
  <2>1. Reads(now) \in Int /\ Reads(now) >= now - 1 /\ Reads(now) <= now + 1
    BY <1>1, ClockGoesOn
  <2> QED BY <1>1, <2>1, SummaryNumbers
<1>3. PICK t \in Nat : /\ t = r \div DayLength
                       /\ t * DayLength <= r /\ r < t * DayLength + DayLength
  BY DayOf
<1> DEFINE ahead(days) == LocalAt(t + days, time)
           at(days) == Earliest1(ahead(days))
           later == {days \in 0..2 : ahead(days) # {} /\ at(days) > now}
           next == NextSummaryAfter(time, now)
<1>4. next = IF later = {} THEN now + DayLength ELSE at(Earliest1(later))
  BY <1>2, <1>3 DEF NextSummaryAfter
<1>5. \A days \in 0..2 :
         /\ ahead(days) # {} /\ at(days) \in Instants
         /\ ComesTo(at(days), Reading(t + days, time))
  <2> TAKE days \in 0..2
  <2>1. t + days \in Nat /\ time < DayLength /\ time \in Nat
    BY SummaryNumbers DEF ClockTimes
  <2>2. PICK x \in Nat : x = Reading(t + days, time)
    BY <2>1, ReadingType
  <2>3. x <= SummaryHorizon + 4 * DayLength - 2
    <3>1. x = t * DayLength + days * DayLength + time
      BY <2>1, <2>2, SummaryNumbers DEF Reading
    <3>2. days * DayLength <= 2 * DayLength /\ days * DayLength \in Nat /\ t * DayLength \in Nat
      BY SummaryNumbers
    <3> QED BY <1>2, <1>3, <2>1, <3>1, <3>2, SummaryNumbers
  <2> QED BY <2>1, <2>2, <2>3, LocalComes
<1>6. \A days \in 0..2 : at(days) \in Nat
  BY <1>5 DEF ComesTo
<1>7. 1 \in later
  <2>1. ComesTo(at(1), Reading(t + 1, time)) /\ at(1) \in Nat
    BY <1>5, <1>6
  <2>2. Reading(t + 1, time) > r
    <3>1. time \in Nat
      BY SummaryNumbers DEF ClockTimes
    <3>2. (t + 1) * DayLength = t * DayLength + DayLength /\ t * DayLength \in Nat
      BY SummaryNumbers
    <3> QED BY <1>3, <3>1, <3>2, SummaryNumbers DEF Reading
  <2>3. Reads(at(1)) > r
    <3>1. Reads(at(1)) \in Int
      BY <2>1, ClockGoesOn
    <3>2. Reading(t + 1, time) \in Nat /\ Reads(at(1)) >= Reading(t + 1, time)
      BY <2>1, ReadingType DEF ComesTo
    <3> QED BY <2>2, <3>1, <3>2
  <2>4. at(1) > now
    <3> SUFFICES ASSUME at(1) <= now PROVE FALSE
      BY <1>1, <2>1
    <3>1. Reads(at(1)) <= Reads(now)
      BY <1>1, <2>1, ClockGoesOn
    <3>2. Reads(at(1)) \in Int
      BY <2>1, ClockGoesOn
    <3> QED BY <1>2, <2>3, <3>1, <3>2
  <2> QED BY <1>5, <2>4
<1>8. PICK m \in later : m = Earliest1(later) /\ \A k \in later : m <= k
  <2>1. later \in SUBSET Nat
    OBVIOUS
  <2> HIDE DEF later
  <2>2. PICK m \in later : \A k \in later : m <= k
    BY <1>7, <2>1, LeastOf
  <2>3. Earliest1(later) = m
    BY <2>1, <2>2, EarliestIs
  <2> QED BY <2>2, <2>3
<1>9. m \in 0..2 /\ next = at(m) /\ at(m) > now
  BY <1>4, <1>7, <1>8
<1>10. next \in Instants /\ next > now /\ ComesTo(next, Reading(t + m, time)) /\ next \in Nat
  BY <1>5, <1>6, <1>9
<1>11. Meets(next, time)
  <2>1. t + m \in Nat
    BY <1>9
  <2> QED BY <1>10, <2>1 DEF Meets
<1> HIDE DEF next
<1>12. ASSUME NEW u, Meets(u, time), u > now PROVE next <= u
  <2>1. PICK day \in Nat : ComesTo(u, Reading(day, time))
    BY <1>12 DEF Meets
  <2>2. u \in Nat /\ Reading(day, time) \in Nat /\ Reads(now) < Reading(day, time)
    <3>1. u \in Nat /\ now \in 0..(u - 1)
      BY <1>1, <1>12, <2>1 DEF ComesTo
    <3> QED BY <2>1, <3>1, ReadingType DEF ComesTo
  <2>3. day >= t
    <3> SUFFICES ASSUME day < t PROVE FALSE
      BY <2>1
    <3>1. Reading(day, time) + DayLength <= Reading(t, time)
      BY ReadingType
    <3>2. Reading(t, time) < t * DayLength + DayLength /\ t * DayLength \in Nat
      BY SummaryNumbers DEF Reading, ClockTimes
    <3>3. Reading(t, time) \in Nat
      BY ReadingType
    <3> QED BY <1>2, <1>3, <2>2, <3>1, <3>2, <3>3, SummaryNumbers
  <2>4. t + m \in Nat /\ Reading(t + m, time) \in Nat
    BY <1>9, ReadingType
  <2>5. CASE day >= t + m
    <3>1. Reading(t + m, time) <= Reading(day, time)
      <4>1. CASE day = t + m
        BY <2>2, <4>1
      <4>2. CASE t + m < day
        BY <2>2, <2>4, <4>2, ReadingType, SummaryNumbers
      <4> QED BY <2>4, <2>5, <4>1, <4>2
    <3>2. PICK x \in Int : x = Reading(t + m, time)
      BY <2>4
    <3>3. PICK y \in Int : y = Reading(day, time)
      BY <2>2
    <3>4. ComesTo(next, x) /\ ComesTo(u, y) /\ x <= y
      BY <1>10, <2>1, <3>1, <3>2, <3>3
    <3> QED BY <3>4, ComesOnce
  <2>6. CASE day < t + m
    <3>1. PICK k \in 0..2 : day = t + k /\ k < m
      <4>1. day - t \in 0..2 /\ day = t + (day - t) /\ day - t < m
        BY <1>9, <2>3, <2>6
      <4> QED BY <4>1
    <3>2. k \notin later
      <4> HIDE DEF later
      <4> QED BY <1>8, <1>9, <3>1
    <3>3. at(k) <= now /\ at(k) \in Nat
      BY <1>1, <1>5, <1>6, <3>2
    <3>4. at(k) = u
      <4>1. ComesTo(at(k), Reading(day, time))
        BY <1>5, <3>1
      <4>2. PICK w : w = at(k)
        OBVIOUS
      <4>3. ComesTo(w, Reading(day, time))
        BY <4>1, <4>2
      <4>4. w = u
        <5> HIDE DEF at
        <5>1. PICK x \in Int : x = Reading(day, time)
          BY <2>2
        <5>2. ComesTo(u, x) /\ ComesTo(w, x) /\ x <= x
          BY <2>1, <4>3, <5>1
        <5> QED BY <5>2, ComesOnce
      <4> QED BY <4>2, <4>4
    <3> QED BY <1>1, <1>12, <3>3, <3>4
  <2> QED BY <2>4, <2>5, <2>6
<1> QED BY <1>10, <1>11, <1>12 DEF next

\* The instants at which a day of the zone c comes to the time.
Shows(c, u) == IF u >= c.at THEN u + c.by ELSE u
Falls(c, u, time) ==
    \E day \in Nat : /\ u \in Nat /\ Shows(c, u) >= Reading(day, time)
                     /\ \A v \in 0..(u - 1) : Shows(c, v) < Reading(day, time)

LEMMA MeetsFalls == \A u, time : Meets(u, time) <=> Falls(smChange, u, time)
BY DEF Meets, ComesTo, Falls, Shows, Reads

\* The appointment is made with the time in force, and is not overdue by more
\* than a unit; while nothing wants it, each round of the loop puts it ahead.
NextInv ==
    /\ Zoned /\ Falls(smChange, smNext, smTime)
    /\ smFrom <= smNow /\ smFrom < smNext /\ smNow <= smNext + 1
    /\ smWoken /\ ~WantsSummary(smOptions) => smNow < smNext

\* Every appointment before the next one was kept, once, when it had come.
KeptInv ==
    /\ \A i \in DOMAIN smSent :
          /\ smFrom < smSent[i] /\ smSent[i] < smNext /\ smSent[i] <= smNow
          /\ Falls(smChange, smSent[i], smTime)
    /\ \A i, j \in DOMAIN smSent : i < j => smSent[i] < smSent[j]
    /\ \A u \in Nat : Falls(smChange, u, smTime) /\ smFrom < u /\ u < smNext =>
              \E i \in DOMAIN smSent : smSent[i] = u

Days == 1..(SummaryHorizon + 1)

SummaryInv ==
    /\ SummaryTypeOK /\ smNow \in Days /\ smFrom \in Days
    /\ NextInv /\ KeptInv

LEMMA NextFalls ==
    ASSUME Zoned, NEW time \in ClockTimes, NEW now \in Days
    PROVE  LET next == NextSummaryAfter(time, now)
           IN  /\ next \in Nat /\ next > now /\ Falls(smChange, next, time)
               /\ \A u \in Nat : Falls(smChange, u, time) /\ now < u => ~(u < next)
<1>1. PICK next : next = NextSummaryAfter(time, now)
  OBVIOUS
<1>2. /\ next \in Instants /\ next > now /\ Meets(next, time)
      /\ \A u : Meets(u, time) /\ u > now => next <= u
  BY <1>1, NextIsFirst DEF Days
<1>3. Instants \subseteq Nat /\ now \in Nat
  BY SummaryNumbers DEF Instants, Days
<1>4. next \in Nat /\ \A u \in Nat : Meets(u, time) /\ now < u => ~(u < next)
  BY <1>2, <1>3
<1> QED BY <1>1, <1>2, <1>4, MeetsFalls

LEMMA DaysAre == Days \subseteq Nat /\ Days \subseteq Instants /\ 1 \in Days
BY SummaryNumbers DEF Days, Instants

LEMMA SummaryInvInit == SummaryInit => SummaryInv
<1> SUFFICES ASSUME SummaryInit PROVE SummaryInv
  OBVIOUS
<1>1. /\ smChange \in [at : Changes, by : {-1, 0, 1}] /\ smNow = 1 /\ smFrom = 1
      /\ smLive \in Settings /\ smOptions = smLive /\ smTime = smLive.at
      /\ smNext = NextSummaryAfter(smTime, 1) /\ smWoken = FALSE /\ smSent = <<>>
  BY DEF SummaryInit
<1>2. Zoned /\ smTime \in ClockTimes
  <2>1. smTime \in ClockTimes
    BY <1>1 DEF Settings
  <2>2. Zoned
    BY <1>1, SummaryNumbers DEF Zoned
  <2> QED BY <2>1, <2>2
<1>3. /\ smNext \in Nat /\ smNext > 1 /\ Falls(smChange, smNext, smTime)
      /\ \A u \in Nat : Falls(smChange, u, smTime) /\ 1 < u => ~(u < smNext)
  BY <1>1, <1>2, NextFalls, DaysAre
<1>4. NextInv
  BY <1>1, <1>2, <1>3 DEF NextInv
<1>5. DOMAIN smSent = {} /\ smSent \in Seq(Nat)
  BY <1>1, EmptySeq
<1>6. KeptInv
  BY <1>1, <1>3, <1>5 DEF KeptInv
<1> QED BY <1>1, <1>2, <1>3, <1>4, <1>5, <1>6, DaysAre DEF SummaryInv, SummaryTypeOK

\* An appointment made afresh leaves nothing to be kept.
LEMMA MadeAfresh ==
    ASSUME SummaryInv, NEW time \in ClockTimes, smTime' = time,
           smNext' = NextSummaryAfter(time, smNow), smFrom' = smNow, smSent' = <<>>,
           UNCHANGED smWorld, smOptions' \in Settings, smWoken' \in BOOLEAN
    PROVE  SummaryInv'
<1>1. /\ Zoned /\ smNow \in Days /\ smLive \in Settings
      /\ smChange' = smChange /\ smNow' = smNow /\ smLive' = smLive
  BY DEF SummaryInv, SummaryTypeOK, NextInv, smWorld
<1>2. /\ smNext' \in Nat /\ smNext' > smNow /\ Falls(smChange, smNext', time)
      /\ \A u \in Nat : Falls(smChange, u, time) /\ smNow < u => ~(u < smNext')
  BY <1>1, NextFalls
<1>3. smNow \in Nat /\ smNow \in Instants
  BY <1>1, DaysAre
<1>4. NextInv'
  <2>1. Zoned'
    BY <1>1 DEF Zoned
  <2>2. Falls(smChange', smNext', smTime')
    BY <1>1, <1>2
  <2>3. smFrom' <= smNow' /\ smFrom' < smNext' /\ smNow' <= smNext' + 1 /\ smNow' < smNext'
    BY <1>1, <1>2, <1>3
  <2> QED BY <2>1, <2>2, <2>3 DEF NextInv
<1>5. DOMAIN smSent' = {} /\ smSent' \in Seq(Nat)
  BY EmptySeq
<1>6. KeptInv'
  BY <1>1, <1>2, <1>5 DEF KeptInv
<1>7. SummaryTypeOK'
  BY <1>1, <1>2, <1>3, <1>5 DEF SummaryTypeOK
<1> QED BY <1>1, <1>4, <1>6, <1>7 DEF SummaryInv

LEMMA TickKeepsSummary == SummaryInv /\ SummaryTick => SummaryInv'
<1> SUFFICES ASSUME SummaryInv, SummaryTick PROVE SummaryInv'
  OBVIOUS
<1>1. /\ smWoken /\ ~Due /\ smWoken' = FALSE /\ smChange' = smChange /\ smLive' = smLive
      /\ smOptions' = smOptions /\ smTime' = smTime /\ smNext' = smNext
      /\ smFrom' = smFrom /\ smSent' = smSent
  BY DEF SummaryTick, smLoop, smKept
<1>2. PICK units \in {1, 2} : smNow + units <= SummaryHorizon /\ smNow' = smNow + units
  BY DEF SummaryTick
<1>3. /\ SummaryTypeOK /\ smNow \in Days /\ smFrom \in Days /\ NextInv /\ KeptInv
      /\ smNow \in Nat /\ smFrom \in Nat /\ smNext \in Nat
  BY DaysAre DEF SummaryInv, SummaryTypeOK
<1>4. smNow < smNext
  <2>1. CASE WantsSummary(smOptions)
    BY <1>1, <1>3, <2>1 DEF Due
  <2>2. CASE ~WantsSummary(smOptions)
    BY <1>1, <1>3, <2>2 DEF NextInv
  <2> QED BY <2>1, <2>2
<1>5. smNow' \in Days /\ smNow' \in Instants
  <2>1. smNow' \in Days
    BY <1>2, <1>3, SummaryNumbers DEF Days
  <2> QED BY <2>1, DaysAre
<1>6. NextInv'
  <2>1. Zoned' /\ Falls(smChange', smNext', smTime')
    BY <1>1, <1>3 DEF NextInv, Zoned
  <2>2. smFrom' <= smNow' /\ smFrom' < smNext' /\ smNow' <= smNext' + 1
    BY <1>1, <1>2, <1>3, <1>4 DEF NextInv
  <2> QED BY <1>1, <2>1, <2>2 DEF NextInv
<1>7. KeptInv'
  <2>1. \A i \in DOMAIN smSent : smSent[i] \in Nat
    BY <1>3, ElementOfSeq, LenProperties DEF SummaryTypeOK
  <2>2. \A i \in DOMAIN smSent : smSent[i] <= smNow'
    BY <1>2, <1>3, <2>1 DEF KeptInv
  <2> QED BY <1>1, <1>3, <2>2 DEF KeptInv
<1>8. SummaryTypeOK'
  BY <1>1, <1>3, <1>5 DEF SummaryTypeOK
<1> QED BY <1>1, <1>3, <1>5, <1>6, <1>7, <1>8 DEF SummaryInv

LEMMA EditKeepsSummary == SummaryInv /\ EditSummary => SummaryInv'
<1> SUFFICES ASSUME SummaryInv, EditSummary PROVE SummaryInv'
  OBVIOUS
<1>1. /\ smLive' \in Settings /\ smChange' = smChange /\ smNow' = smNow /\ smWoken' = smWoken
      /\ smOptions' = smOptions /\ smTime' = smTime /\ smNext' = smNext
      /\ smFrom' = smFrom /\ smSent' = smSent
  BY DEF EditSummary, smLoop, smKept
<1> QED
  BY <1>1 DEF SummaryInv, SummaryTypeOK, NextInv, KeptInv, Zoned

LEMMA WakeUpKeepsSummary == SummaryInv /\ WakeUp => SummaryInv'
<1> SUFFICES ASSUME SummaryInv, WakeUp PROVE SummaryInv'
  OBVIOUS
<1>1. /\ smWoken' = TRUE /\ smOptions' = smLive /\ smTime' = smLive.at /\ UNCHANGED smWorld
      /\ smLive \in Settings /\ smLive.at \in ClockTimes
  BY DEF WakeUp, SummaryInv, SummaryTypeOK, Settings
<1>2. CASE smLive.at # smTime \/ ~WantsSummary(smLive)
  <2>1. smNext' = NextSummaryAfter(smLive.at, smNow) /\ smFrom' = smNow /\ smSent' = <<>>
    BY <1>2 DEF WakeUp
  <2> QED BY <1>1, <2>1, MadeAfresh
<1>3. CASE smLive.at = smTime /\ WantsSummary(smLive)
  <2>1. /\ smNext' = smNext /\ smFrom' = smFrom /\ smSent' = smSent /\ smTime' = smTime
        /\ smChange' = smChange /\ smNow' = smNow /\ smLive' = smLive
    BY <1>1, <1>3 DEF WakeUp, smKept, smWorld
  <2>2. NextInv'
    BY <1>1, <1>3, <2>1 DEF SummaryInv, NextInv, Zoned, WantsSummary
  <2>3. KeptInv'
    BY <2>1 DEF SummaryInv, KeptInv
  <2>4. SummaryTypeOK'
    BY <1>1, <2>1 DEF SummaryInv, SummaryTypeOK
  <2> QED BY <2>1, <2>2, <2>3, <2>4 DEF SummaryInv
<1> QED BY <1>2, <1>3

LEMMA RestartKeepsSummary == SummaryInv /\ RestartSummary => SummaryInv'
<1> SUFFICES ASSUME SummaryInv, RestartSummary PROVE SummaryInv'
  OBVIOUS
<1>1. /\ smWoken' = FALSE /\ smOptions' = smLive /\ smTime' = smLive.at /\ UNCHANGED smWorld
      /\ smNext' = NextSummaryAfter(smLive.at, smNow) /\ smFrom' = smNow /\ smSent' = <<>>
      /\ smLive \in Settings /\ smLive.at \in ClockTimes
  BY DEF RestartSummary, SummaryInv, SummaryTypeOK, Settings
<1> QED BY <1>1, MadeAfresh

\* Two appointments are at least two units apart.
LEMMA FallsApart ==
    ASSUME Zoned, NEW u, NEW v, NEW time \in ClockTimes,
           Falls(smChange, u, time), Falls(smChange, v, time), u < v
    PROVE  u + 2 <= v
<1>1. PICK d \in Nat : ComesTo(u, Reading(d, time))
  BY MeetsFalls DEF Meets
<1>2. PICK e \in Nat : ComesTo(v, Reading(e, time))
  BY MeetsFalls DEF Meets
<1>3. PICK x \in Nat : x = Reading(d, time)
  BY ReadingType
<1>4. PICK y \in Nat : y = Reading(e, time)
  BY ReadingType
<1>5. ComesTo(u, x) /\ ComesTo(v, y) /\ u \in Nat /\ v \in Nat /\ x \in Int /\ y \in Int
  BY <1>1, <1>2, <1>3, <1>4 DEF ComesTo
<1>6. x < y
  <2> SUFFICES ASSUME y <= x PROVE FALSE
    BY <1>5
  <2>1. v <= u
    BY <1>5, ComesOnce
  <2> QED BY <1>5, <2>1
<1>7. d < e
  <2> SUFFICES ASSUME e <= d PROVE FALSE
    OBVIOUS
  <2>1. e = d \/ e < d
    OBVIOUS
  <2>2. y <= x
    BY <1>3, <1>4, <2>1, ReadingType, SummaryNumbers
  <2> QED BY <1>5, <1>6, <2>2
<1>8. x + 3 <= y
  BY <1>3, <1>4, <1>7, ReadingType, SummaryNumbers
<1> QED BY <1>5, <1>8, ComesApart

LEMMA SendKeepsSummary == SummaryInv /\ SendSummary => SummaryInv'
<1> SUFFICES ASSUME SummaryInv, SendSummary PROVE SummaryInv'
  OBVIOUS
<1>1. /\ smWoken /\ Due /\ smWoken' = smWoken /\ smChange' = smChange /\ smLive' = smLive
      /\ smNow' = smNow /\ smOptions' = smOptions /\ smTime' = smTime /\ smFrom' = smFrom
      /\ smSent' = Append(smSent, smNext) /\ smNext' = NextSummaryAfter(smTime, smNow)
  BY DEF SendSummary, smWorld
<1>2. /\ SummaryTypeOK /\ smNow \in Days /\ smFrom \in Days /\ NextInv /\ KeptInv /\ Zoned
      /\ smNow \in Nat /\ smFrom \in Nat /\ smNext \in Nat /\ smTime \in ClockTimes
      /\ smSent \in Seq(Nat)
  BY DaysAre DEF SummaryInv, SummaryTypeOK, NextInv
<1>3. /\ smNext <= smNow /\ smNow <= smNext + 1 /\ smFrom < smNext
      /\ Falls(smChange, smNext, smTime)
  BY <1>1, <1>2 DEF Due, NextInv
<1>4. /\ smNext' \in Nat /\ smNext' > smNow /\ Falls(smChange, smNext', smTime)
      /\ \A u \in Nat : Falls(smChange, u, smTime) /\ smNow < u => ~(u < smNext')
  BY <1>1, <1>2, NextFalls
<1> DEFINE n == Len(smSent)
<1>5. /\ n \in Nat /\ DOMAIN smSent = 1..n /\ DOMAIN smSent' = 1..(n + 1)
      /\ smSent'[n + 1] = smNext /\ smSent' \in Seq(Nat)
      /\ \A i \in 1..n : smSent'[i] = smSent[i] /\ smSent[i] \in Nat
  BY <1>1, <1>2, LenProperties, ElementOfSeq, AppendProperties
<1> HIDE DEF n
<1>6. NextInv'
  <2>1. Zoned' /\ Falls(smChange', smNext', smTime')
    BY <1>1, <1>2, <1>4 DEF Zoned
  <2>2. smFrom' <= smNow' /\ smFrom' < smNext' /\ smNow' <= smNext' + 1 /\ smNow' < smNext'
    BY <1>1, <1>2, <1>3, <1>4
  <2> QED BY <2>1, <2>2 DEF NextInv
<1>7. KeptInv'
  <2>1. \A i \in 1..n :
           /\ smFrom < smSent[i] /\ smSent[i] < smNext /\ smSent[i] <= smNow
           /\ Falls(smChange, smSent[i], smTime)
    BY <1>2, <1>5 DEF KeptInv
  <2>2. \A i \in DOMAIN smSent' :
           /\ smFrom' < smSent'[i] /\ smSent'[i] < smNext' /\ smSent'[i] <= smNow'
           /\ Falls(smChange', smSent'[i], smTime')
    <3> TAKE i \in DOMAIN smSent'
    <3>1. CASE i \in 1..n
      <4>1. smSent[i] < smNext'
        BY <1>2, <1>4, <1>5, <2>1, <3>1
      <4> QED BY <1>1, <1>5, <2>1, <3>1, <4>1
    <3>2. CASE i = n + 1
      <4>1. smSent'[i] = smNext /\ smNext < smNext'
        BY <1>2, <1>3, <1>4, <1>5, <3>2
      <4> QED BY <1>1, <1>3, <4>1
    <3> QED BY <1>5, <3>1, <3>2
  <2>3. \A i, j \in DOMAIN smSent' : i < j => smSent'[i] < smSent'[j]
    <3> TAKE i, j \in DOMAIN smSent'
    <3> HAVE i < j
    <3>1. i \in 1..n /\ (j \in 1..n \/ j = n + 1)
      BY <1>5
    <3>2. CASE j \in 1..n
      BY <1>2, <1>5, <3>1, <3>2 DEF KeptInv
    <3>3. CASE j = n + 1
      BY <1>5, <2>1, <3>1, <3>3
    <3> QED BY <3>1, <3>2, <3>3
  <2>4. ASSUME NEW u \in Nat, Falls(smChange, u, smTime), smFrom < u, u < smNext'
        PROVE  \E i \in DOMAIN smSent' : smSent'[i] = u
    <3>1. CASE u < smNext
      <4>1. PICK i \in DOMAIN smSent : smSent[i] = u
        BY <1>2, <2>4, <3>1 DEF KeptInv
      <4>2. i \in DOMAIN smSent' /\ smSent'[i] = u
        BY <1>5, <4>1
      <4> QED BY <4>2
    <3>2. CASE u = smNext
      <4>1. n + 1 \in DOMAIN smSent'
        BY <1>5
      <4> QED BY <1>5, <3>2, <4>1
    <3>3. CASE smNext < u
      <4>1. smNext + 2 <= u
        BY <1>2, <1>3, <2>4, <3>3, FallsApart
      <4>2. smNow < u
        BY <1>2, <1>3, <4>1
      <4> QED BY <1>4, <2>4, <4>2
    <3> QED BY <1>2, <3>1, <3>2, <3>3
  <2> QED BY <1>1, <2>2, <2>3, <2>4 DEF KeptInv
<1>8. SummaryTypeOK'
  BY <1>1, <1>2, <1>4, <1>5 DEF SummaryTypeOK
<1> QED BY <1>1, <1>2, <1>6, <1>7, <1>8 DEF SummaryInv

LEMMA SummaryInvStep == SummaryInv /\ [SummaryNext]_smVars => SummaryInv'
<1> SUFFICES ASSUME SummaryInv, [SummaryNext]_smVars PROVE SummaryInv'
  OBVIOUS
<1>1. CASE UNCHANGED smVars
  <2>1. /\ smChange' = smChange /\ smLive' = smLive /\ smNow' = smNow /\ smWoken' = smWoken
        /\ smOptions' = smOptions /\ smTime' = smTime /\ smNext' = smNext
        /\ smFrom' = smFrom /\ smSent' = smSent
    BY <1>1 DEF smVars, smWorld, smLoop, smKept
  <2> QED BY <2>1 DEF SummaryInv, SummaryTypeOK, NextInv, KeptInv, Zoned
<1> QED
  BY <1>1, TickKeepsSummary, EditKeepsSummary, WakeUpKeepsSummary, SendKeepsSummary,
     RestartKeepsSummary DEF SummaryNext, Rounds

\* The appointments of the property are those instants, whatever the horizon.
LEMMA AppointmentsAre ==
    ASSUME Zoned, smTime \in ClockTimes, NEW from \in Days, NEW to \in Days
    PROVE  Appointments(from, to) = {u \in from + 1..to : Falls(smChange, u, smTime)}
<1> DEFINE last == (SummaryHorizon \div DayLength) + 2
<1>1. /\ SummaryHorizon \div DayLength \in Nat
      /\ (SummaryHorizon \div DayLength) * DayLength <= SummaryHorizon
      /\ SummaryHorizon < (SummaryHorizon \div DayLength) * DayLength + DayLength
  BY SummaryNumbers, DayOf
<1>2. /\ last \in Nat /\ last * DayLength <= SummaryHorizon + 2 * DayLength
      /\ SummaryHorizon + DayLength < last * DayLength
  <2>1. PICK q \in Nat : q = SummaryHorizon \div DayLength
    BY <1>1
  <2>2. (q + 2) * DayLength = q * DayLength + 2 * DayLength /\ q * DayLength \in Nat
    BY <2>1, SummaryNumbers
  <2> QED BY <1>1, <2>1, <2>2, SummaryNumbers
<1> HIDE DEF last
<1>3. ASSUME NEW day \in 0..last
      PROVE  ComesTo(Appointment(day, smTime), Reading(day, smTime)) /\ Reading(day, smTime) \in Nat
  <2>1. day \in Nat /\ last * DayLength \in Nat /\ smTime \in Nat /\ smTime < DayLength
    BY <1>2, SummaryNumbers DEF ClockTimes
  <2>2. PICK x \in Nat : x = Reading(day, smTime)
    BY <2>1, ReadingType
  <2>3. x <= SummaryHorizon + 4 * DayLength - 1
    <3>1. x <= last * DayLength + smTime
      <4>1. CASE day = last
        BY <2>2, <4>1, <2>1, SummaryNumbers DEF Reading
      <4>2. CASE day < last
        <5>1. Reading(day, smTime) + DayLength <= Reading(last, smTime)
          BY <1>2, <2>1, <4>2, ReadingType
        <5>2. Reading(last, smTime) = last * DayLength + smTime
          BY DEF Reading
        <5> QED BY <2>1, <2>2, <5>1, <5>2, SummaryNumbers
      <4> QED BY <1>2, <2>1, <4>1, <4>2
    <3> QED BY <1>2, <2>1, <3>1, SummaryNumbers
  <2>4. PICK u \in Instants : ComesTo(u, x) /\ Earliest1({w \in Instants : Reads(w) >= x}) = u
    BY <2>3, ComesAtAll
  <2>5. Appointment(day, smTime) = u
    BY <2>2, <2>4 DEF Appointment, Reading
  <2> QED BY <2>2, <2>4, <2>5
<1>4. ASSUME NEW u \in from + 1..to
      PROVE  (\E day \in 0..last : Appointment(day, smTime) = u) <=> Falls(smChange, u, smTime)
  <2>1. u \in Nat /\ u <= SummaryHorizon + 1
    BY <1>4, SummaryNumbers DEF Days
  <2>2. ASSUME NEW day \in 0..last, Appointment(day, smTime) = u PROVE Falls(smChange, u, smTime)
    <3>1. ComesTo(u, Reading(day, smTime)) /\ day \in Nat
      BY <1>2, <1>3, <2>2
    <3> QED BY <3>1, MeetsFalls DEF Meets
  <2>3. ASSUME Falls(smChange, u, smTime)
        PROVE  \E day \in 0..last : Appointment(day, smTime) = u
    <3>1. PICK day \in Nat : ComesTo(u, Reading(day, smTime))
      BY <2>3, MeetsFalls DEF Meets
    <3>2. Reading(day, smTime) <= SummaryHorizon + 2
      <4>1. Reads(u) \in Int /\ Reads(u) <= u + 1
        BY <2>1, ClockGoesOn
      <4>2. Reading(day, smTime) \in Nat
        BY ReadingType
      <4>3. Reading(day, smTime) <= Reads(u)
        BY <3>1 DEF ComesTo
      <4> QED BY <2>1, <4>1, <4>2, <4>3, SummaryNumbers
    <3>3. day <= last
      <4> SUFFICES ASSUME last < day PROVE FALSE
        BY <1>2
      <4>1. Reading(last, smTime) + DayLength <= Reading(day, smTime)
        BY <1>2, ReadingType
      <4>2. Reading(last, smTime) >= last * DayLength /\ last * DayLength \in Nat
        BY <1>2, SummaryNumbers DEF Reading, ClockTimes
      <4>3. Reading(last, smTime) \in Nat /\ Reading(day, smTime) \in Nat
        BY <1>2, ReadingType
      <4> QED BY <1>2, <3>2, <4>1, <4>2, <4>3, SummaryNumbers
    <3>4. day \in 0..last
      BY <1>2, <3>3
    <3>5. PICK x \in Int : x = Reading(day, smTime)
      BY ReadingType
    <3>6. PICK w : w = Appointment(day, smTime)
      OBVIOUS
    <3>7. ComesTo(w, x) /\ ComesTo(u, x) /\ x <= x
      BY <1>3, <3>1, <3>4, <3>5, <3>6
    <3>8. w = u
      BY <3>7, ComesOnce
    <3> QED BY <3>4, <3>6, <3>8
  <2> QED BY <2>2, <2>3
<1>5. Appointments(from, to) =
         {u \in from + 1..to : \E day \in 0..last : Appointment(day, smTime) = u}
  BY DEF Appointments, last
<1> QED BY <1>4, <1>5

THEOREM SummaryTypeCorrect == SummarySpec => []SummaryTypeOK
<1>1. SummaryInv => SummaryTypeOK
  BY DEF SummaryInv
<1> QED BY <1>1, SummaryInvInit, SummaryInvStep, PTL DEF SummarySpec

\* Whatever the day, the time and the change of the clock, however often the
\* loop wakes and whenever it is edited or built anew, the summary is sent once
\* for each day whose time has come since the appointment was made.
THEOREM SummaryTimeCorrect == SummarySpec => []SummaryKeepsItsTime
<1>1. SummaryInv => SummaryKeepsItsTime
  <2> SUFFICES ASSUME SummaryInv, smWoken, WantsSummary(smOptions), ~Due
               PROVE  /\ \A i \in 1..Len(smSent) - 1 : smSent[i] < smSent[i + 1]
                      /\ {smSent[i] : i \in DOMAIN smSent} = Appointments(smFrom, smNow)
    BY DEF SummaryKeepsItsTime
  <2>1. /\ smNow \in Nat /\ smFrom \in Nat /\ smNext \in Nat /\ smTime \in ClockTimes
        /\ smNow \in Days /\ smFrom \in Days /\ Zoned /\ NextInv /\ KeptInv
        /\ smSent \in Seq(Nat) /\ DOMAIN smSent = 1..Len(smSent) /\ Len(smSent) \in Nat
    BY DaysAre, LenProperties DEF SummaryInv, SummaryTypeOK, NextInv
  <2>2. smNow < smNext
    BY <2>1 DEF Due
  <2>3. Appointments(smFrom, smNow) = {u \in smFrom + 1..smNow : Falls(smChange, u, smTime)}
    BY <2>1, AppointmentsAre
  <2>4. \A i \in DOMAIN smSent : smSent[i] \in Appointments(smFrom, smNow)
    <3> TAKE i \in DOMAIN smSent
    <3>1. smSent[i] \in Nat
      BY <2>1, ElementOfSeq
    <3>2. smFrom < smSent[i] /\ smSent[i] <= smNow /\ Falls(smChange, smSent[i], smTime)
      BY <2>1 DEF KeptInv
    <3> QED BY <2>1, <2>3, <3>1, <3>2
  <2>5. \A u \in Appointments(smFrom, smNow) : \E i \in DOMAIN smSent : smSent[i] = u
    <3> TAKE u \in Appointments(smFrom, smNow)
    <3>1. u \in Nat /\ smFrom < u /\ u < smNext /\ Falls(smChange, u, smTime)
      BY <2>1, <2>2, <2>3
    <3> QED BY <2>1, <3>1 DEF KeptInv
  <2>6. \A i \in 1..Len(smSent) - 1 : smSent[i] < smSent[i + 1]
    <3> TAKE i \in 1..Len(smSent) - 1
    <3>1. i \in DOMAIN smSent /\ i + 1 \in DOMAIN smSent /\ i < i + 1
      BY <2>1
    <3> QED BY <2>1, <3>1 DEF KeptInv
  <2> QED BY <2>4, <2>5, <2>6
<1> QED BY <1>1, SummaryInvInit, SummaryInvStep, PTL DEF SummarySpec
=============================================================================
