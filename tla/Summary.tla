------------------------------- MODULE Summary -------------------------------
(***************************************************************************)
(* The appointment of the daily summary (`next_summary_after`, `local_at`  *)
(* and the loop of `Dispatcher::run` around them) over the days on which   *)
(* the wall clock skips or repeats a stretch.                              *)
(*                                                                         *)
(* A unit of time is the length of such a stretch.  The loop wakes many    *)
(* times in a unit.  What the summary says is in Dispatcher; a clock set   *)
(* back is left out.                                                       *)
(***************************************************************************)
EXTENDS Integers, Sequences

CONSTANTS
    DayLength,      \* units of a day
    Changes,        \* instants at which the zone may change its offset
    SummaryHorizon  \* bound: the last instant

ASSUME SummaryAssumption ==
    /\ DayLength \in Nat \ 0..2 /\ SummaryHorizon \in Nat   \* two appointments are never due at once
    /\ Changes \subseteq Nat

VARIABLES
    smChange,    \* when the zone changes its offset, and by how much
    smNow,       \* the instant
    smLive,      \* [notifications] as last loaded: daily_summary and its time
    smOptions,   \* the dispatcher's copy of it
    smTime,      \* summary_time
    smNext,      \* next_summary
    smWoken,     \* the loop has been round since the time last moved
    smFrom,      \* history: when the appointment was last made afresh
    smSent       \* history: the appointments kept since

smWorld == <<smChange, smNow, smLive>>
smLoop  == <<smOptions, smTime, smNext>>
smKept  == <<smFrom, smSent>>
smVars == <<smWorld, smLoop, smWoken, smKept>>

Instants   == 0..SummaryHorizon + 4 * DayLength
ClockTimes == 0..DayLength - 1
Settings   == [on : BOOLEAN, at : ClockTimes]

\* What the clock reads, in units since some midnight.
Reads(u) == IF u >= smChange.at THEN u + smChange.by ELSE u

Earliest1(instants) == CHOOSE u \in instants : \A v \in instants : u <= v
ReadingAt(reading) == {u \in Instants : Reads(u) = reading}

\* Mutant of LocalAt: a time the clock never reads is no appointment.
LocalAtOrNever(day, time) == ReadingAt(day * DayLength + time)

\* local_at: a time read twice, the first; a time never read, one unit later.
LocalAt(day, time) ==
    LET at == day * DayLength + time
    IN  IF ReadingAt(at) # {} THEN ReadingAt(at) ELSE ReadingAt(at + 1)

\* next_summary_after: today, tomorrow or the day after.
NextSummaryAfter(time, now) ==
    LET today == Reads(now) \div DayLength
        ahead(days) == LocalAt(today + days, time)
        later == {days \in 0..2 : ahead(days) # {} /\ Earliest1(ahead(days)) > now}
    IN  IF later = {} THEN now + DayLength ELSE Earliest1(ahead(Earliest1(later)))

SummaryInit ==
    /\ smChange \in [at : Changes, by : {-1, 0, 1}]
    /\ smNow = 1
    /\ smLive \in Settings /\ smOptions = smLive
    /\ smTime = smLive.at /\ smNext = NextSummaryAfter(smLive.at, smNow)
    /\ smWoken = FALSE
    /\ smFrom = smNow /\ smSent = <<>>

-----------------------------------------------------------------------------
WantsSummary(o) == o.on
Due == WantsSummary(smOptions) /\ smNow >= smNext

\* A unit passes, or the clock is put forward by one more.
SummaryTick ==
    /\ smWoken /\ ~Due
    /\ \E units \in {1, 2} : smNow + units <= SummaryHorizon /\ smNow' = smNow + units
    /\ smWoken' = FALSE
    /\ UNCHANGED <<smChange, smLive, smLoop, smKept>>

EditSummary ==
    /\ smLive' \in Settings \ {smLive}
    /\ UNCHANGED <<smChange, smNow, smLoop, smWoken, smKept>>

\* A round of the loop: refresh, and the appointment made afresh when its time
\* has changed or nothing wants it.
WakeUp ==
    /\ smWoken' = TRUE
    /\ smOptions' = smLive /\ smTime' = smLive.at
    /\ IF smLive.at # smTime \/ ~WantsSummary(smLive)
       THEN /\ smNext' = NextSummaryAfter(smLive.at, smNow)
            /\ smFrom' = smNow /\ smSent' = <<>>
       ELSE UNCHANGED <<smNext, smKept>>
    /\ UNCHANGED smWorld

\* The timer: due, and the loop has been round.
SendSummary ==
    /\ smWoken /\ Due
    /\ smSent' = Append(smSent, smNext)
    /\ smNext' = NextSummaryAfter(smTime, smNow)
    /\ UNCHANGED <<smWorld, smOptions, smTime, smWoken, smFrom>>

\* The bot panics or stops, and is built anew.
RestartSummary ==
    /\ smOptions' = smLive /\ smTime' = smLive.at
    /\ smNext' = NextSummaryAfter(smLive.at, smNow)
    /\ smWoken' = FALSE
    /\ smFrom' = smNow /\ smSent' = <<>>
    /\ UNCHANGED smWorld

Rounds == SummaryTick \/ WakeUp \/ SendSummary

SummaryNext == EditSummary \/ Rounds \/ RestartSummary

SummarySpec == SummaryInit /\ [][SummaryNext]_smVars

-----------------------------------------------------------------------------
\* Properties.

\* Every variable stays in its type.
SummaryTypeOK ==
    /\ smNow \in Instants /\ smNext \in Nat /\ smFrom \in Instants
    /\ {smLive, smOptions} \subseteq Settings /\ smTime \in ClockTimes
    /\ smWoken \in BOOLEAN /\ smSent \in Seq(Nat)

\* The first instant of a day at which its clock has come as far as that.
Appointment(day, time) ==
    Earliest1({u \in Instants : Reads(u) >= day * DayLength + time})

Appointments(from, to) ==
    {u \in from + 1..to : \E day \in 0..(SummaryHorizon \div DayLength) + 2 :
                              Appointment(day, smTime) = u}

\* The summary comes once a day at its time: no day is missed and none gets a
\* second one, be it a day on which the clock skips that time or reads it
\* twice, through any number of wake-ups and edits of the other options.
SummaryKeepsItsTime ==
    smWoken /\ WantsSummary(smOptions) /\ ~Due =>
        /\ \A i \in 1..Len(smSent) - 1 : smSent[i] < smSent[i + 1]
        /\ {smSent[i] : i \in DOMAIN smSent} = Appointments(smFrom, smNow)
=============================================================================
