-------------------------- MODULE DispatcherProofs --------------------------
(***************************************************************************)
(* Proofs about Dispatcher, for every set of targets and configurations,   *)
(* every number of events and every ceiling, depth and window.             *)
(***************************************************************************)
EXTENDS Dispatcher, SequenceTheorems, FiniteSetTheorems, WellFoundedInduction, TLAPS

LEMMA Numbers ==
    /\ MaxCap \in Nat /\ MaxEvents \in Nat /\ MaxSummaries \in Nat
    /\ QueueDepth \in Nat /\ QueueDepth >= 1
    /\ OutboxDepth \in Nat /\ OutboxDepth >= 1
    /\ MaxAttempts \in Nat /\ MaxAttempts >= 2
    /\ Hour \in Nat /\ Hour >= 1
BY ConfigsAssumption, BoundsAssumption

\* What is needed of the set of numbers that a prefix is chosen by: a
\* non-empty set of naturals has a least element.
LEMMA LeastNumber ==
    ASSUME NEW S, S \subseteq Nat, S # {}
    PROVE  \E n \in S : \A m \in S : n <= m
<1> DEFINE T == {1..n : n \in S}
<1>1. T \subseteq FiniteSubsetsOf(Nat)
  <2>1. \A n \in Nat : IsFiniteSet(1..n) /\ 1..n \subseteq Nat
    BY FS_Interval
  <2>2. \A n \in S : 1..n \in FiniteSubsetsOf(Nat)
    BY <2>1 DEF FiniteSubsetsOf
  <2> QED BY <2>2
<1>0. T # {}
  OBVIOUS
<1>2. IsWellFoundedOn(StrictSubsetOrdering(Nat), FiniteSubsetsOf(Nat))
  BY FS_StrictSubsetOrderingWellFounded
<1>3. \E x \in T : \A y \in T : ~ (<<y, x>> \in StrictSubsetOrdering(Nat))
  <2> HIDE DEF T
  <2> QED BY <1>1, <1>0, <1>2, WFMin
<1>4. PICK x \in T : \A y \in T : ~ (<<y, x>> \in StrictSubsetOrdering(Nat))
  BY <1>3
<1>5. PICK n \in S : x = 1..n
  OBVIOUS
<1>6. ASSUME NEW m \in S, m < n PROVE FALSE
  <2>1. 1..m \in T /\ 1..m \subseteq Nat /\ x \subseteq Nat
    BY <1>5
  <2>2. 1..m \subseteq x /\ 1..m # x
    BY <1>5, <1>6
  <2> QED BY <1>4, <2>1, <2>2 DEF StrictSubsetOrdering
<1> QED BY <1>6

\* Recent forgets a prefix of which the last has reached an Hour, and keeps
\* only what has not.
LEMMA RecentForgets ==
    ASSUME NEW ages \in Seq(Nat)
    PROVE  /\ Recent(ages) \in Seq(0..(Hour - 1))
           /\ \E k \in 0..Len(ages) :
                  /\ Len(Recent(ages)) = Len(ages) - k
                  /\ \A i \in 1..(Len(ages) - k) : Recent(ages)[i] = ages[i + k]
<1> DEFINE n == Len(ages)
           Good(k) == /\ \A i \in k..n : ages[i] < Hour
                      /\ k > 1 => ages[k - 1] >= Hour
           S == {k \in 1..(n + 1) : \A i \in k..n : ages[i] < Hour}
           first == CHOOSE k \in 1..(n + 1) : Good(k)
<1>1. n \in Nat /\ \A i \in 1..n : ages[i] \in Nat
  BY LenProperties, ElementOfSeq
<1>2. \E k \in 1..(n + 1) : Good(k)
  <2>1. S \subseteq Nat /\ n + 1 \in S
    BY <1>1
  <2>2. PICK k \in S : \A m \in S : k <= m
    <3> HIDE DEF S
    <3> QED BY <2>1, LeastNumber
  <2>3. ASSUME k > 1 PROVE ages[k - 1] >= Hour
    <3>a. k \in 1..(n + 1) /\ k - 1 \in 1..n
      BY <2>2, <2>3, <1>1
    <3>1. k - 1 \in 1..n /\ k - 1 \notin S
      <4> HIDE DEF S
      <4> QED BY <2>2, <3>a, <1>1
    <3>2. PICK i \in (k - 1)..n : ~(ages[i] < Hour)
      BY <3>1, <1>1
    <3>3. i = k - 1
      BY <3>2, <3>1, <1>1, <2>2
    <3> QED BY <3>1, <3>2, <3>3, <1>1, Numbers
  <2> QED BY <2>2, <2>3
<1>3. first \in 1..(n + 1) /\ Good(first)
  <2> HIDE DEF Good
  <2> QED BY <1>2
<1>4. Recent(ages) = SubSeq(ages, first, n)
  BY DEF Recent
<1> HIDE DEF first, n
<1>5. first \in Int /\ n \in Int /\ \A i \in first..n : ages[i] \in 0..(Hour - 1)
  BY <1>1, <1>3, Numbers
<1>6. /\ SubSeq(ages, first, n) \in Seq(0..(Hour - 1))
      /\ Len(SubSeq(ages, first, n)) = IF first <= n THEN n - first + 1 ELSE 0
      /\ \A i \in 1..(n - first + 1) : SubSeq(ages, first, n)[i] = ages[first + i - 1]
  BY <1>5, SubSeqProperties
<1>7. first - 1 \in 0..n /\ Len(SubSeq(ages, first, n)) = n - (first - 1)
  BY <1>1, <1>3, <1>6
<1>8. \A i \in 1..(n - (first - 1)) : SubSeq(ages, first, n)[i] = ages[i + (first - 1)]
  <2> TAKE i \in 1..(n - (first - 1))
  <2>1. i \in 1..(n - first + 1) /\ first + i - 1 = i + (first - 1)
    BY <1>1, <1>3
  <2> QED BY <2>1, <1>6
<1> QED BY <1>4, <1>6, <1>7, <1>8 DEF n

-----------------------------------------------------------------------------
(* Types. *)

\* How many copies of each event have reached a backend, and after one more of
\* each event of P.
Counts == [Event -> 0..(MaxAttempts + 1)]
More(L, P) == [e \in Event |-> IF e \in P THEN OneMore(L[e]) ELSE L[e]]

\* A backend's record of what reached it, and its outbox, with what a delivery
\* or a retry may do to them.
LEMMA BoxTypes ==
    ASSUME TypeOK, NEW t \in Targets
    PROVE  /\ landed[t] \in Counts /\ heard[t] \in SUBSET Event
           /\ sent[t] \in Seq(0..(Hour - 1))
           /\ outbox[t] \in Seq(Message) /\ Len(outbox[t]) <= OutboxDepth
           /\ used[t] \in 0..MaxCap /\ sinceRoll[t] \in 0..Hour
           /\ suppressed[t] \in Nat /\ owed[t] \in Nat
BY DEF TypeOK, Counts

\* A message that lands adds a copy of its events.
LEMMA CountsAreNumbers ==
    ASSUME NEW L \in Counts, NEW e \in Event
    PROVE  L[e] \in Nat
BY Numbers DEF Counts

LEMMA MoreCopies ==
    ASSUME NEW L \in Counts, NEW P \in SUBSET Event
    PROVE  /\ More(L, P) \in Counts
           /\ \A e \in Event \ P : More(L, P)[e] = L[e]
           /\ \A e \in P : More(L, P)[e] > 0 /\ More(L, P)[e] <= L[e] + 1
BY Numbers DEF Counts, More, OneMore

LEMMA LandedType ==
    ASSUME TypeOK, NEW t \in Targets, NEW P \in SUBSET Event, Landed(t, P)
    PROVE  /\ landed' \in [Targets -> Counts]
           /\ \A u \in Targets :
                  (landed[u])' = IF u = t THEN More(landed[t], P) ELSE landed[u]
<1>1. landed \in [Targets -> Counts] /\ More(landed[t], P) \in Counts
  BY BoxTypes, MoreCopies DEF TypeOK, Counts
<1>2. landed' = [landed EXCEPT ![t] = More(landed[t], P)]
  BY DEF Landed, More
<1> QED BY <1>1, <1>2

\* Answered with success, or with an error after none, some or all of it landed.
LEMMA AnswerType ==
    ASSUME TypeOK, NEW t \in Targets, NEW E \in SUBSET Event,
           Accepted(t, E) \/ Unanswered(t, E)
    PROVE  landed' \in [Targets -> Counts] /\ heard' \in [Targets -> SUBSET Event]
<1>1. PICK P \in SUBSET E : Landed(t, P)
  BY DEF Accepted, Unanswered
<1>2. heard' = heard \/ heard' = [heard EXCEPT ![t] = @ \cup E]
  BY DEF Accepted, Unanswered
<1> QED BY <1>1, <1>2, LandedType DEF TypeOK

\* What is left of a sequence without its first element.
LEMMA Behead ==
    ASSUME NEW S, NEW s \in Seq(S), Len(s) >= 1
    PROVE  /\ Head(s) = s[1] /\ Head(s) \in S
           /\ Tail(s) \in Seq(S) /\ Len(Tail(s)) = Len(s) - 1
           /\ \A i \in 1..(Len(s) - 1) : Tail(s)[i] = s[i + 1]
<1>1. s # <<>>
  BY EmptySeq
<1> QED BY <1>1, HeadTailProperties, ElementOfSeq, LenProperties

\* Pushed keeps the newest of what an outbox holds, its room permitting.
LEMMA PushedType ==
    ASSUME NEW box \in Seq(Message), Len(box) <= OutboxDepth, NEW m \in Message
    PROVE  /\ Pushed(box, m) \in Seq(Message)
           /\ Len(Pushed(box, m)) \in 1..OutboxDepth
           /\ Pushed(box, m)[Len(Pushed(box, m))] = m
           /\ \E d \in {0, 1} :
                  /\ Len(Pushed(box, m)) + d = Len(box) + 1
                  /\ \A i \in 1..(Len(box) - d) : Pushed(box, m)[i] = box[i + d]
<1>1. Len(box) \in Nat
  BY LenProperties
<1>2. CASE Len(box) >= OutboxDepth
  <2>1. Tail(box) \in Seq(Message) /\ Len(Tail(box)) = Len(box) - 1
        /\ \A i \in 1..(Len(box) - 1) : Tail(box)[i] = box[i + 1]
    BY <1>1, <1>2, Numbers, Behead
  <2>2. Pushed(box, m) = Append(Tail(box), m)
    BY <1>2 DEF Pushed
  <2>3. /\ Append(Tail(box), m) \in Seq(Message)
        /\ Len(Append(Tail(box), m)) = Len(box)
        /\ \A i \in 1..(Len(box) - 1) : Append(Tail(box), m)[i] = Tail(box)[i]
        /\ Append(Tail(box), m)[Len(box)] = m
    BY <1>1, <2>1, AppendProperties
  <2> QED BY <1>1, <1>2, <2>1, <2>2, <2>3, Numbers
<1>3. CASE ~(Len(box) >= OutboxDepth)
  <2>1. Pushed(box, m) = Append(box, m)
    BY <1>3 DEF Pushed
  <2>2. /\ Append(box, m) \in Seq(Message)
        /\ Len(Append(box, m)) = Len(box) + 1
        /\ \A i \in 1..Len(box) : Append(box, m)[i] = box[i]
        /\ Append(box, m)[Len(box) + 1] = m
    BY <1>1, AppendProperties
  <2> QED BY <1>1, <1>3, <2>1, <2>2, Numbers
<1> QED BY <1>2, <1>3

\* Another outbox takes the place of one.
LEMMA BoxReplaced ==
    ASSUME TypeOK, NEW t \in Targets, NEW box \in Seq(Message), Len(box) <= OutboxDepth,
           outbox' = [outbox EXCEPT ![t] = box]
    PROVE  /\ outbox' \in [Targets -> Seq(Message)]
           /\ \A u \in Targets : Len((outbox[u])') <= OutboxDepth
           /\ (outbox[t])' = box
<1>1. outbox \in [Targets -> Seq(Message)] /\ \A u \in Targets : Len(outbox[u]) <= OutboxDepth
  BY DEF TypeOK
<1>2. outbox' \in [Targets -> Seq(Message)] /\ (outbox[t])' = box
  BY <1>1
<1>3. \A u \in Targets : (outbox[u])' = IF u = t THEN box ELSE outbox[u]
  BY <1>1
<1> QED BY <1>1, <1>2, <1>3

\* A rebuilt target is a new one; the others are as the options say.
LEMMA ActiveIsBuilt ==
    ASSUME TypeOK
    PROVE  (active \ Rebuilt(source)) \cup (Rebuilt(source) \cap Built(source)) = Built(source)
<1>1. source \in Configs /\ options \in Configs /\ active = Built(options)
  BY DEF TypeOK
<1>2. \A t \in Targets \ Rebuilt(source) : source.own[t] = options.own[t]
  BY <1>1, ConfigsAssumption DEF Rebuilt
<1> QED BY <1>1, <1>2 DEF Built, Rebuilt

\* What a first attempt, made or suppressed, leaves.
LEMMA AttemptType ==
    ASSUME TypeOK, NEW t \in Targets, NEW mine \in SUBSET Event,
           Attempt(t, mine) \/ Suppress(t)
    PROVE  /\ used' \in [Targets -> 0..MaxCap]
           /\ suppressed' \in [Targets -> Nat] /\ owed' \in [Targets -> Nat]
           /\ outbox' \in [Targets -> Seq(Message)]
           /\ \A u \in Targets : Len((outbox[u])') <= OutboxDepth
           /\ landed' \in [Targets -> Counts] /\ heard' \in [Targets -> SUBSET Event]
           /\ sent' \in [Targets -> Seq(0..(Hour - 1))]
<1>1. /\ used[t] \in 0..MaxCap /\ suppressed[t] \in Nat /\ owed[t] \in Nat
      /\ sent[t] \in Seq(0..(Hour - 1))
      /\ outbox[t] \in Seq(Message) /\ Len(outbox[t]) <= OutboxDepth
  BY BoxTypes
<1>2. options.cap \in 0..MaxCap
  BY ConfigsAssumption DEF TypeOK
<1>3. UsedNow(t) \in 0..MaxCap /\ Suppressed(t) \in Nat
  BY <1>1, Numbers DEF UsedNow, Suppressed
<1>4. CASE Attempt(t, mine)
  <2>1. UsedNow(t) + 1 \in 0..MaxCap
    BY <1>2, <1>3, <1>4, Numbers DEF Attempt, Allowed
  <2>2. used' \in [Targets -> 0..MaxCap]
    BY <1>4, <2>1 DEF Attempt, TypeOK
  <2>3. suppressed' \in [Targets -> Nat] /\ owed' \in [Targets -> Nat]
    BY <1>1, <1>4 DEF Attempt, TypeOK
  <2>4. 0 \in 0..(Hour - 1) /\ Append(sent[t], 0) \in Seq(0..(Hour - 1))
    BY <1>1, Numbers, AppendProperties
  <2>5. sent' \in [Targets -> Seq(0..(Hour - 1))]
    BY <1>4, <2>4 DEF Attempt, TypeOK
  <2>6. CASE Accepted(t, mine) /\ UNCHANGED outbox
    <3>1. landed' \in [Targets -> Counts] /\ heard' \in [Targets -> SUBSET Event]
      BY <2>6, AnswerType
    <3> QED BY <2>2, <2>3, <2>5, <2>6, <3>1 DEF TypeOK
  <2>7. CASE Failed(t, mine)
    <3> DEFINE m == [events |-> mine, attempts |-> 1]
               box == Pushed(outbox[t], m)
    <3>1. m \in Message
      BY Numbers DEF Message
    <3>2. box \in Seq(Message) /\ Len(box) <= OutboxDepth
      <4> HIDE DEF m
      <4>1. Pushed(outbox[t], m) \in Seq(Message) /\ Len(Pushed(outbox[t], m)) \in 1..OutboxDepth
        BY <1>1, <3>1, PushedType
      <4> QED BY <4>1, Numbers
    <3>3. outbox' = [outbox EXCEPT ![t] = box] /\ Unanswered(t, mine)
      BY <2>7 DEF Failed
    <3>5. landed' \in [Targets -> Counts] /\ heard' \in [Targets -> SUBSET Event]
      BY <3>3, AnswerType
    <3> HIDE DEF box
    <3>4. outbox' \in [Targets -> Seq(Message)] /\ \A u \in Targets : Len((outbox[u])') <= OutboxDepth
      BY <3>2, <3>3, BoxReplaced
    <3> QED BY <2>2, <2>3, <2>5, <3>4, <3>5
  <2> QED BY <1>4, <2>6, <2>7 DEF Attempt
<1>5. CASE Suppress(t)
  <2>1. used' \in [Targets -> 0..MaxCap]
    BY <1>3, <1>5 DEF Suppress, TypeOK
  <2>2. suppressed' \in [Targets -> Nat] /\ owed' \in [Targets -> Nat]
    <3>1. Suppressed(t) + 1 \in Nat /\ owed[t] + 1 \in Nat
      BY <1>1, <1>3
    <3> QED BY <1>5, <3>1 DEF Suppress, TypeOK
  <2> QED BY <1>5, <2>1, <2>2 DEF Suppress, arrivals, TypeOK, Counts
<1> QED BY <1>4, <1>5

\* What a retried message leaves.
LEMMA ResendType ==
    ASSUME TypeOK, NEW t \in Targets, Resend(t)
    PROVE  /\ t \in active /\ job.left \in 1..Len(outbox[t]) /\ Len(outbox[t]) \in Nat
           /\ t \notin job.todo /\ job.todo \subseteq active
           /\ outbox' \in [Targets -> Seq(Message)]
           /\ \A u \in Targets : Len((outbox[u])') <= OutboxDepth
           /\ Len((outbox[t])') >= job.left - 1 /\ Len((outbox[t])') \in Nat
           /\ landed' \in [Targets -> Counts] /\ heard' \in [Targets -> SUBSET Event]
<1>1. /\ outbox[t] \in Seq(Message) /\ Len(outbox[t]) <= OutboxDepth
      /\ Len(outbox[t]) \in Nat
  BY BoxTypes, LenProperties
<1>2. /\ t \in active /\ job.left \in 1..Len(outbox[t])
      /\ t \notin job.todo /\ job.todo \subseteq active
  <2>1. job.at = "resend" /\ t = job.to
    BY DEF Resend
  <2>2. PICK T \in SUBSET active : \E u \in active \ T :
            \E n \in 1..Len(outbox[u]) : job = Resending(u, n, T)
    BY <2>1 DEF TypeOK, Top, Select, Delivering, Retrying
  <2>6. PICK u \in active \ T : \E n \in 1..Len(outbox[u]) : job = Resending(u, n, T)
    BY <2>2
  <2>3. PICK n \in 1..Len(outbox[u]) : job = Resending(u, n, T)
    BY <2>6
  <2>4. n # 0
    OBVIOUS
  <2>5. job = [at |-> "resend", to |-> u, left |-> n, todo |-> T]
    BY <2>3, <2>4 DEF Resending
  <2> QED BY <2>1, <2>3, <2>5
<1> DEFINE m == Head(outbox[t])
           others == Tail(outbox[t])
           again == Append(others, Counted(m))
<1>3. /\ m \in Message /\ others \in Seq(Message) /\ Len(others) = Len(outbox[t]) - 1
  BY <1>1, <1>2, Behead
<1>6. Len(others) <= OutboxDepth /\ Len(others) \in Nat
  BY <1>1, <1>2, <1>3, Numbers
<1>4. landed' \in [Targets -> Counts] /\ heard' \in [Targets -> SUBSET Event]
  <2>1. Accepted(t, m.events) \/ Unanswered(t, m.events)
    BY DEF Resend
  <2>2. m.events \in SUBSET Event
    BY <1>3 DEF Message
  <2> HIDE DEF m
  <2> QED BY <2>1, <2>2, AnswerType
<1>5. CASE outbox' = [outbox EXCEPT ![t] = others]
  <2> HIDE DEF m, others
  <2>1. /\ outbox' \in [Targets -> Seq(Message)]
        /\ \A u \in Targets : Len((outbox[u])') <= OutboxDepth
        /\ (outbox[t])' = others
    BY <1>3, <1>5, <1>6, BoxReplaced
  <2> QED BY <1>1, <1>2, <1>3, <1>4, <2>1
<1>7. CASE ~Spent(m) /\ outbox' = [outbox EXCEPT ![t] = again]
  <2>1. Counted(m) \in Message
    <3>1. m.events \in SUBSET Event /\ m.attempts \in 1..(MaxAttempts - 1)
      BY <1>3 DEF Message
    <3>2. m.attempts + 1 \in 1..(MaxAttempts - 1)
      BY <1>7, <3>1, Numbers DEF Spent
    <3> HIDE DEF m
    <3> QED BY <1>3, <3>1, <3>2 DEF Counted, Message
  <2>2. again \in Seq(Message) /\ Len(again) = Len(outbox[t]) /\ Len(again) <= OutboxDepth
    BY <1>1, <1>3, <2>1, AppendProperties
  <2> HIDE DEF m, others, again
  <2>3. /\ outbox' \in [Targets -> Seq(Message)]
        /\ \A u \in Targets : Len((outbox[u])') <= OutboxDepth
        /\ (outbox[t])' = again
    BY <1>7, <2>2, BoxReplaced
  <2> QED BY <1>1, <1>2, <1>4, <2>2, <2>3
<1> QED BY <1>5, <1>7 DEF Resend

-----------------------------------------------------------------------------
LEMMA InitType == Init => TypeOK
<1> SUFFICES ASSUME Init PROVE TypeOK
  OBVIOUS
<1>1. \A S : <<>> \in Seq(S) /\ Len(<<>>) = 0
  BY EmptySeq
<1>2. channel \in Seq(Event) /\ Len(channel) <= QueueDepth
  BY <1>1, Numbers DEF Init
<1>3. /\ outbox \in [Targets -> Seq(Message)]
      /\ landed \in [Targets -> Counts] /\ heard \in [Targets -> SUBSET Event]
      /\ sent \in [Targets -> Seq(0..(Hour - 1))]
      /\ \A t \in Targets : Len(outbox[t]) <= OutboxDepth
  BY <1>1, Numbers DEF Init, Counts
<1>4. /\ used \in [Targets -> 0..MaxCap] /\ sinceRoll \in [Targets -> 0..Hour]
      /\ suppressed \in [Targets -> Nat] /\ owed \in [Targets -> Nat]
      /\ nextEvent \in 1..(MaxEvents + 1) /\ summaries \in 0..MaxSummaries
  BY Numbers DEF Init
<1> QED BY <1>2, <1>3, <1>4 DEF Init, TypeOK, Counts

LEMMA StepType == TypeOK /\ [Next]_vars => TypeOK'
<1> SUFFICES ASSUME TypeOK, [Next]_vars PROVE TypeOK'
  OBVIOUS
<1>1. ASSUME UNCHANGED vars PROVE TypeOK'
  BY <1>1 DEF vars, limitVars, arrivals, TypeOK, Counts
<1>2. ASSUME Send PROVE TypeOK'
  <2>1. nextEvent \in 1..(MaxEvents + 1) /\ nextEvent <= MaxEvents /\ channel \in Seq(Event)
    BY <1>2 DEF TypeOK, Send
  <2>2. nextEvent' \in 1..(MaxEvents + 1) /\ nextEvent \in Event
    BY <1>2, <2>1, Numbers DEF Send, Event
  <2>3. channel' \in Seq(Event) /\ Len(channel') <= QueueDepth
    <3>1. CASE Len(channel) < QueueDepth
      <4>1. channel' = Append(channel, nextEvent)
        BY <1>2, <3>1 DEF Send
      <4>2. Append(channel, nextEvent) \in Seq(Event)
            /\ Len(Append(channel, nextEvent)) = Len(channel) + 1
        BY <2>1, <2>2, AppendProperties
      <4>3. Len(channel) \in Nat
        BY <2>1, LenProperties
      <4> QED BY <4>1, <4>2, <4>3, <3>1, Numbers
    <3>2. CASE ~(Len(channel) < QueueDepth)
      BY <1>2, <3>2 DEF Send, TypeOK
    <3> QED BY <3>1, <3>2
  <2> QED BY <1>2, <2>2, <2>3 DEF Send, limitVars, arrivals, TypeOK, Counts
<1>3. ASSUME Refresh PROVE TypeOK'
  <2>1. job' = Select
    BY <1>3 DEF Refresh
  <2>2. CASE source = options
    BY <1>3, <2>1, <2>2 DEF Refresh, limitVars, arrivals, TypeOK, Counts
  <2>3. CASE source # options
    <3>1. active' = Built(source) /\ options' = source /\ source' = source
      BY <1>3, <2>3, ActiveIsBuilt DEF Refresh
    <3>2. active' = (Built(options))'
      BY <3>1 DEF Built
    <3>3. /\ used' = Reset(used, 0) /\ sinceRoll' = Reset(sinceRoll, 0)
          /\ suppressed' = Reset(suppressed, 0) /\ owed' = Reset(owed, 0)
          /\ sent' = Reset(sent, <<>>) /\ outbox' = Reset(outbox, <<>>)
      BY <1>3, <2>3 DEF Refresh
    <3>4. /\ used' \in [Targets -> 0..MaxCap] /\ sinceRoll' \in [Targets -> 0..Hour]
          /\ suppressed' \in [Targets -> Nat] /\ owed' \in [Targets -> Nat]
      BY <3>3, Numbers DEF TypeOK, Reset
    <3>5. /\ sent' \in [Targets -> Seq(0..(Hour - 1))] /\ outbox' \in [Targets -> Seq(Message)]
      BY <3>3, EmptySeq DEF TypeOK, Reset
    <3>6. \A t \in Targets : (outbox[t])' = outbox[t] \/ (outbox[t])' = <<>>
      BY <3>3 DEF TypeOK, Reset
    <3>7. \A t \in Targets : Len((outbox[t])') <= OutboxDepth
      BY <3>6, EmptySeq, Numbers DEF TypeOK
    <3> QED BY <1>3, <2>1, <3>1, <3>2, <3>4, <3>5, <3>7 DEF Refresh, arrivals, TypeOK, Counts
  <2> QED BY <2>2, <2>3
<1>4. ASSUME Recv PROVE TypeOK'
  <2>1. channel \in Seq(Event) /\ channel # <<>> /\ channel' = Tail(channel)
    BY <1>4 DEF Recv, arrivals, TypeOK, Counts
  <2>2. Head(channel) \in Event /\ channel' \in Seq(Event) /\ Len(channel') = Len(channel) - 1
        /\ Len(channel) \in Nat
    BY <2>1, HeadTailProperties, LenProperties
  <2>3. Len(channel') <= QueueDepth
    BY <2>2, Numbers DEF TypeOK
  <2>4. buffer' \subseteq Event
    BY <1>4, <2>2 DEF Recv, arrivals, TypeOK, Counts
  <2>5. job' = Top \/ (job' = Delivering({Head(channel)}, active))
    BY <1>4 DEF Recv
  <2>6. job' = Top \/ \E E \in SUBSET Event, T \in SUBSET active : job' = Delivering(E, T)
    BY <2>2, <2>5
  <2> QED BY <1>4, <2>2, <2>3, <2>4, <2>6 DEF Recv, limitVars, arrivals, TypeOK, Counts
<1>5. ASSUME Flush PROVE TypeOK'
  <2>1. job' = Top \/ \E E \in SUBSET Event, T \in SUBSET active : job' = Delivering(E, T)
    BY <1>5 DEF Flush, TypeOK
  <2> QED BY <1>5, <2>1 DEF Flush, AfterFlush, limitVars, arrivals, TypeOK, Counts
<1>6. ASSUME RetryTick PROVE TypeOK'
  BY <1>6 DEF RetryTick, limitVars, arrivals, TypeOK, Counts
<1>7. ASSUME SummaryDue PROVE TypeOK'
  <2>1. job' \in {Delivering(E, T) : E \in SUBSET Event, T \in SUBSET active}
    BY <1>7 DEF SummaryDue
  <2>2. summaries' \in 0..MaxSummaries
    BY <1>7, Numbers DEF SummaryDue, TypeOK
  <2> QED BY <1>7, <2>1, <2>2 DEF SummaryDue, limitVars, arrivals, TypeOK, Counts
<1>8. ASSUME NEW t \in Targets, DeliverTo(t) PROVE TypeOK'
  <2>1. PICK E \in SUBSET Event, T \in SUBSET active : job = Delivering(E, T)
    <3>1. job.at = "deliver"
      BY <1>8 DEF DeliverTo
    <3>2. job \notin {Top, Select} /\ \A T : job # Retrying(T) /\ \A u, n : job # Resending(u, n, T)
      BY <3>1 DEF Top, Select, Retrying, Resending
    <3>3. \E E \in SUBSET Event, T \in SUBSET active : job \in {Delivering(E, T), Retrying(T)}
      BY <3>2 DEF TypeOK
    <3> QED BY <3>2, <3>3
  <2>2. job = [at |-> "deliver", events |-> E, todo |-> T] /\ t \in T
    BY <1>8, <2>1 DEF DeliverTo, Delivering, Top
  <2>3. job' = Delivering(E, T \ {t}) \/ job' = Top
    BY <1>8, <2>2 DEF DeliverTo, Rest, Delivering
  <2>4. /\ used' \in [Targets -> 0..MaxCap] /\ sinceRoll' \in [Targets -> 0..Hour]
        /\ suppressed' \in [Targets -> Nat] /\ owed' \in [Targets -> Nat]
        /\ outbox' \in [Targets -> Seq(Message)]
        /\ \A u \in Targets : Len((outbox[u])') <= OutboxDepth
        /\ landed' \in [Targets -> Counts] /\ heard' \in [Targets -> SUBSET Event]
        /\ sent' \in [Targets -> Seq(0..(Hour - 1))]
    <3> DEFINE mine == {e \in job.events : Enabled(options, t, e)}
    <3>1. mine \in SUBSET Event
      BY <2>2
    <3>2. CASE job.events # {} /\ mine = {}
      BY <1>8, <3>2 DEF DeliverTo, limitVars, arrivals, TypeOK, Counts
    <3>3. CASE ~(job.events # {} /\ mine = {})
      <4>1. /\ Attempt(t, mine) \/ Suppress(t)
            /\ sinceRoll' = [sinceRoll EXCEPT ![t] = IF Expired(t) THEN 0 ELSE @]
        BY <1>8, <3>3 DEF DeliverTo
      <4> HIDE DEF mine
      <4>2. sinceRoll' \in [Targets -> 0..Hour]
        BY <4>1, Numbers DEF TypeOK
      <4> QED BY <3>1, <4>1, <4>2, AttemptType
    <3> QED BY <3>2, <3>3
  <2>5. job' = Top \/ \E F \in SUBSET Event, U \in SUBSET active : job' = Delivering(F, U)
    BY <2>3
  <2> QED BY <1>8, <2>4, <2>5 DEF DeliverTo, arrivals, TypeOK, Counts
<1>9. ASSUME NEW t \in Targets, RetryOutbox(t) PROVE TypeOK'
  <2>1. PICK T \in SUBSET active : job = Retrying(T)
    <3>1. job.at = "retry"
      BY <1>9 DEF RetryOutbox
    <3> QED BY <3>1 DEF TypeOK, Top, Select, Delivering, Resending
  <2>2. job.todo = T /\ t \in T
    BY <1>9, <2>1 DEF RetryOutbox, Retrying, Top
  <2>3. Len(outbox[t]) \in Nat
    BY BoxTypes, LenProperties
  <2>4. \/ job' = Retrying(T \ {t})
        \/ Len(outbox[t]) \in 1..Len(outbox[t]) /\ job' = Resending(t, Len(outbox[t]), T \ {t})
    BY <1>9, <2>2, <2>3 DEF RetryOutbox, Resending
  <2> QED BY <1>9, <2>2, <2>4 DEF RetryOutbox, limitVars, arrivals, TypeOK, Counts
<1>10. ASSUME NEW t \in Targets, Resend(t) PROVE TypeOK'
  <2>1. /\ t \in active /\ job.left \in 1..Len(outbox[t]) /\ Len(outbox[t]) \in Nat
        /\ t \notin job.todo /\ job.todo \subseteq active
        /\ outbox' \in [Targets -> Seq(Message)]
        /\ \A u \in Targets : Len((outbox[u])') <= OutboxDepth
        /\ Len((outbox[t])') >= job.left - 1 /\ Len((outbox[t])') \in Nat
        /\ landed' \in [Targets -> Counts] /\ heard' \in [Targets -> SUBSET Event]
    BY <1>10, ResendType
  <2>2. job' = Resending(t, job.left - 1, job.todo) /\ active' = active
    BY <1>10 DEF Resend
  <2>3. CASE job.left - 1 = 0
    <3>1. job' = Retrying(job.todo)
      BY <2>2, <2>3 DEF Resending
    <3> QED BY <1>10, <2>1, <2>2, <3>1 DEF Resend, limitVars, arrivals, TypeOK, Counts
  <2>4. CASE job.left - 1 # 0
    <3>1. job.left - 1 \in 1..Len((outbox[t])')
      BY <2>1, <2>4
    <3>2. \E T \in SUBSET active' : \E u \in active' \ T :
              \E n \in 1..Len((outbox[u])') : job' = Resending(u, n, T)
      BY <2>1, <2>2, <3>1
    <3> QED BY <1>10, <2>1, <2>2, <3>2 DEF Resend, limitVars, arrivals, TypeOK, Counts
  <2> QED BY <2>3, <2>4
<1>11. ASSUME Edit PROVE TypeOK'
  BY <1>11 DEF Edit, limitVars, arrivals, TypeOK, Counts
<1>12. ASSUME Tick PROVE TypeOK'
  <2>1. sinceRoll' \in [Targets -> 0..Hour]
    <3>1. \A t \in Targets : (IF sinceRoll[t] < Hour THEN sinceRoll[t] + 1 ELSE Hour) \in 0..Hour
      BY Numbers DEF TypeOK
    <3> QED BY <1>12, <3>1 DEF Tick
  <2>2. ASSUME NEW t \in Targets
        PROVE  Recent([i \in DOMAIN sent[t] |-> sent[t][i] + 1]) \in Seq(0..(Hour - 1))
    <3>1. sent[t] \in Seq(0..(Hour - 1))
      BY DEF TypeOK
    <3>2. [i \in DOMAIN sent[t] |-> sent[t][i] + 1] \in Seq(Nat)
      <4>1. Len(sent[t]) \in Nat /\ DOMAIN sent[t] = 1..Len(sent[t])
            /\ \A i \in 1..Len(sent[t]) : sent[t][i] \in 0..(Hour - 1)
        BY <3>1, LenProperties, ElementOfSeq
      <4> QED BY <4>1, SeqDef
    <3> QED BY <3>2, RecentForgets
  <2>3. sent' \in [Targets -> Seq(0..(Hour - 1))]
    BY <1>12, <2>2 DEF Tick
  <2> QED BY <1>12, <2>1, <2>3 DEF Tick, arrivals, TypeOK, Counts
<1> QED
  BY <1>1, <1>2, <1>3, <1>4, <1>5, <1>6, <1>7, <1>8, <1>9, <1>10, <1>11, <1>12
  DEF Next, Deliver

\* Channel and outboxes keep within their bounds, and every variable to its
\* type, whatever is sent, edited, refused or retried (notify.rs).
THEOREM TypeCorrect == Spec => []TypeOK
BY InitType, StepType, PTL DEF Spec

-----------------------------------------------------------------------------
(* The ceiling. *)

\* s are the ages of the attempts an Hour can see, oldest first: k of the
\* window before, at least as old as the present one, which is r ticks old
\* and has seen the rest, of which it counted u.
TwoWindows(s, u, r) ==
    \E k \in 0..Len(s) :
        /\ k <= MaxCap /\ Len(s) - k <= u
        /\ \A i \in 1..k : s[i] >= r

Ceilings == \A t \in Targets : TwoWindows(sent[t], used[t], sinceRoll[t])

Ages == Seq(0..(Hour - 1))

\* When the window has passed, everything an Hour still sees is of that window.
LEMMA WindowPasses ==
    ASSUME NEW s \in Ages, NEW u \in 0..MaxCap, TwoWindows(s, u, Hour)
    PROVE  TwoWindows(s, 0, 0)
<1>1. Len(s) \in Nat /\ \A i \in 1..Len(s) : s[i] \in 0..(Hour - 1)
  BY LenProperties, ElementOfSeq DEF Ages
<1>2. PICK k \in 0..Len(s) : Len(s) - k <= u /\ \A i \in 1..k : s[i] >= Hour
  BY DEF TwoWindows
<1>3. k = 0
  <2> SUFFICES ASSUME k # 0 PROVE FALSE
    OBVIOUS
  <2>1. 1 \in 1..k /\ 1 \in 1..Len(s)
    BY <1>1
  <2> QED BY <2>1, <1>1, <1>2, Numbers
<1>4. Len(s) <= MaxCap /\ \A i \in 1..Len(s) : s[i] >= 0
  BY <1>1, <1>2, <1>3, Numbers
<1> QED BY <1>1, <1>4 DEF TwoWindows

\* An attempt is counted in the present window.
LEMMA WindowCounts ==
    ASSUME NEW s \in Ages, NEW u \in 0..MaxCap, NEW r \in 0..Hour, TwoWindows(s, u, r)
    PROVE  TwoWindows(Append(s, 0), u + 1, r)
<1>1. Len(s) \in Nat
  BY LenProperties DEF Ages
<1>2. PICK k \in 0..Len(s) : /\ k <= MaxCap /\ Len(s) - k <= u
                             /\ \A i \in 1..k : s[i] >= r
  BY DEF TwoWindows
<1>3. Len(Append(s, 0)) = Len(s) + 1 /\ \A i \in 1..Len(s) : Append(s, 0)[i] = s[i]
  BY AppendProperties DEF Ages
<1>4. k \in 0..Len(Append(s, 0)) /\ Len(Append(s, 0)) - k <= u + 1
  BY <1>1, <1>2, <1>3
<1>5. \A i \in 1..k : Append(s, 0)[i] >= r
  BY <1>1, <1>2, <1>3
<1> QED BY <1>2, <1>4, <1>5 DEF TwoWindows

\* With a tick all grow older, and what is an Hour old is forgotten.
LEMMA WindowAges ==
    ASSUME NEW s \in Ages, NEW u \in 0..MaxCap, NEW r \in 0..Hour, TwoWindows(s, u, r)
    PROVE  TwoWindows(Recent([i \in DOMAIN s |-> s[i] + 1]), u, IF r < Hour THEN r + 1 ELSE Hour)
<1> DEFINE older == [i \in DOMAIN s |-> s[i] + 1]
           n == Len(s)
           q == Recent(older)
           next == IF r < Hour THEN r + 1 ELSE Hour
<1>1. n \in Nat /\ DOMAIN s = 1..n /\ \A i \in 1..n : s[i] \in 0..(Hour - 1)
  BY LenProperties, ElementOfSeq DEF Ages
<1>2. older \in Seq(Nat) /\ Len(older) = n /\ \A i \in 1..n : older[i] = s[i] + 1
  BY <1>1, SeqDef, LenProperties
<1>3. PICK k \in 0..n : /\ k <= MaxCap /\ n - k <= u
                        /\ \A i \in 1..k : s[i] >= r
  BY DEF TwoWindows
<1> HIDE DEF older
<1>4. \E d \in 0..n : Len(q) = n - d /\ \A i \in 1..(n - d) : q[i] = older[i + d]
  BY <1>2, RecentForgets
<1>5. PICK d \in 0..n : Len(q) = n - d /\ \A i \in 1..(n - d) : q[i] = older[i + d]
  BY <1>4
<1> HIDE DEF n, q
<1>6. next <= r + 1
  BY Numbers
<1> HIDE DEF next
<1>7. CASE k >= d
  <2>1. k - d \in 0..Len(q) /\ k - d <= MaxCap /\ Len(q) - (k - d) <= u
    BY <1>1, <1>3, <1>5, <1>7, Numbers
  <2>2. ASSUME NEW i \in 1..(k - d) PROVE q[i] >= next
    <3>1. i \in 1..(n - d) /\ i + d \in 1..k /\ i + d \in 1..n
      BY <1>1, <1>7
    <3>2. q[i] = s[i + d] + 1 /\ s[i + d] >= r /\ s[i + d] \in 0..(Hour - 1)
      BY <3>1, <1>1, <1>2, <1>3, <1>5
    <3>3. next \in Int
      BY Numbers DEF next
    <3> QED BY <3>2, <3>3, <1>6
  <2> QED BY <2>1, <2>2 DEF TwoWindows, q, next, older
<1>8. CASE k < d
  <2>1. 0 \in 0..Len(q) /\ 0 <= MaxCap /\ Len(q) - 0 <= u
    BY <1>1, <1>3, <1>5, <1>8, Numbers
  <2>2. \A i \in 1..0 : q[i] >= next
    OBVIOUS
  <2> QED BY <2>1, <2>2 DEF TwoWindows, q, next, older
<1> QED BY <1>1, <1>3, <1>5, <1>7, <1>8

LEMMA InitCeilings == Init => Ceilings
<1> SUFFICES ASSUME Init, NEW t \in Targets PROVE TwoWindows(sent[t], used[t], sinceRoll[t])
  BY DEF Ceilings
<1>1. sent[t] = <<>> /\ Len(<<>>) = 0 /\ used[t] = 0
  BY EmptySeq DEF Init
<1>2. 0 \in 0..0 /\ 0 <= MaxCap
  BY Numbers
<1> QED BY <1>1, <1>2 DEF TwoWindows

LEMMA StepCeilings == TypeOK /\ Ceilings /\ [Next]_vars => Ceilings'
<1> SUFFICES ASSUME TypeOK, Ceilings, [Next]_vars,
                    NEW t \in Targets
             PROVE  TwoWindows((sent[t])', (used[t])', (sinceRoll[t])')
  BY DEF Ceilings
<1> DEFINE s == sent[t]
           u == used[t]
           r == sinceRoll[t]
<1>1. s \in Ages /\ u \in 0..MaxCap /\ r \in 0..Hour /\ TwoWindows(s, u, r)
  BY BoxTypes DEF Ages, Ceilings
<1>2. CASE UNCHANGED <<sent, used, sinceRoll>>
  BY <1>1, <1>2
<1>3. CASE Refresh
  <2>1. UNCHANGED <<sent, used, sinceRoll>> \/ (/\ used' = Reset(used, 0)
                                              /\ sinceRoll' = Reset(sinceRoll, 0)
                                              /\ sent' = Reset(sent, <<>>))
    BY <1>3 DEF Refresh, limitVars
  <2>2. \/ (sent[t])' = s /\ (used[t])' = u /\ (sinceRoll[t])' = r
        \/ (sent[t])' = <<>> /\ (used[t])' = 0 /\ (sinceRoll[t])' = 0
    BY <2>1 DEF Reset
  <2>3. TwoWindows(<<>>, 0, 0)
    <3>1. Len(<<>>) = 0 /\ 0 \in 0..0 /\ 0 <= MaxCap
      BY EmptySeq, Numbers
    <3> QED BY <3>1 DEF TwoWindows
  <2> QED BY <1>1, <2>2, <2>3
<1>4. ASSUME NEW v \in Targets, DeliverTo(v)
      PROVE  TwoWindows((sent[t])', (used[t])', (sinceRoll[t])')
  <2> DEFINE mine == {e \in job.events : Enabled(options, v, e)}
  <2>1. CASE UNCHANGED limitVars
    BY <1>2, <2>1 DEF limitVars
  <2>2. CASE /\ Attempt(v, mine) \/ Suppress(v)
             /\ sinceRoll' = [sinceRoll EXCEPT ![v] = IF Expired(v) THEN 0 ELSE @]
    <3> HIDE DEF mine
    <3>1. CASE t # v
      <4>1. (sent[t])' = s /\ (used[t])' = u /\ (sinceRoll[t])' = r
        BY <2>2, <3>1 DEF Attempt, Suppress, TypeOK
      <4> QED BY <1>1, <4>1
    <3>2. CASE t = v
      <4>1. (sinceRoll[t])' = IF Expired(t) THEN 0 ELSE r
        BY <2>2, <3>2 DEF TypeOK
      <4>2. \/ (used[t])' = UsedNow(t) + 1 /\ (sent[t])' = Append(s, 0)
            \/ (used[t])' = UsedNow(t) /\ (sent[t])' = s
        BY <2>2, <3>2 DEF Attempt, Suppress, TypeOK
      <4>3. TwoWindows(s, UsedNow(t), (sinceRoll[t])') /\ UsedNow(t) \in 0..MaxCap
            /\ (sinceRoll[t])' \in 0..Hour
        <5>1. CASE Expired(t)
          <6>1. r = Hour
            BY <5>1, <1>1, Numbers DEF Expired
          <6> QED BY <5>1, <6>1, <1>1, <4>1, WindowPasses, Numbers DEF UsedNow
        <5>2. CASE ~Expired(t)
          BY <5>2, <1>1, <4>1 DEF UsedNow
        <5> QED BY <5>1, <5>2
      <4>4. TwoWindows(Append(s, 0), UsedNow(t) + 1, (sinceRoll[t])')
        <5> HIDE DEF s
        <5> QED BY <1>1, <4>3, WindowCounts
      <4> QED BY <4>2, <4>3, <4>4
    <3> QED BY <3>1, <3>2
  <2> QED BY <1>4, <2>1, <2>2 DEF DeliverTo
<1>5. CASE Tick
  <2>1. /\ (sent[t])' = Recent([i \in DOMAIN s |-> s[i] + 1])
        /\ (sinceRoll[t])' = IF r < Hour THEN r + 1 ELSE Hour
        /\ (used[t])' = u
    BY <1>5 DEF Tick
  <2> HIDE DEF s, u, r
  <2> QED BY <1>1, <2>1, WindowAges
<1> QED
  BY <1>2, <1>3, <1>4, <1>5 DEF Next, Deliver, Send, Recv, Flush, RetryTick, SummaryDue,
     RetryOutbox, Resend, Edit, vars, limitVars

\* The window of RateLimit::allow is fixed: no hour sees more than two
\* ceilings of messages begun, one of each window it touches, for any ceiling,
\* edited at any time (notify.rs).
THEOREM CeilingCorrect == Spec => []CeilingHolds
<1>1. TypeOK /\ Ceilings => CeilingHolds
  <2> SUFFICES ASSUME TypeOK, Ceilings, NEW t \in Targets PROVE Len(sent[t]) <= 2 * MaxCap
    BY DEF CeilingHolds
  <2>1. Len(sent[t]) \in Nat /\ used[t] \in 0..MaxCap
    BY BoxTypes, LenProperties
  <2>2. PICK k \in 0..Len(sent[t]) : k <= MaxCap /\ Len(sent[t]) - k <= used[t]
    BY DEF Ceilings, TwoWindows
  <2> QED BY <2>1, <2>2, Numbers
<1> QED
  BY <1>1, InitType, StepType, InitCeilings, StepCeilings, PTL DEF Spec

-----------------------------------------------------------------------------
(* What lands twice. *)

\* An event among those held in the box B; one that was answered with success
\* (H), has landed (L) or is held.
Box(B, e) == \E i \in DOMAIN B : e \in B[i].events
In(L, H, B, e) == L[e] > 0 \/ e \in H \/ Box(B, e)

Exact(L, H, B) ==
    /\ \A e \in Event : L[e] <= MaxAttempts
    /\ \A i \in DOMAIN B :
           /\ B[i].events \cap H = {}
           /\ \A e \in B[i].events : L[e] <= B[i].attempts
           /\ \A j \in DOMAIN B : i # j => B[i].events \cap B[j].events = {}

Reached(t, e) == In(landed[t], heard[t], outbox[t], e)

\* Not yet taken up by a delivery.
Ahead(e) == e >= nextEvent \/ e \in buffer \/ \E i \in DOMAIN channel : channel[i] = e

\* What is ahead is there once.
Upstream ==
    /\ \A i, j \in DOMAIN channel : channel[i] = channel[j] => i = j
    /\ \A i \in DOMAIN channel : channel[i] < nextEvent /\ channel[i] \notin buffer
    /\ \A e \in buffer : e < nextEvent

\* What is being delivered has left the queue, and has not reached those who
\* are still to get it.
Flowing ==
    /\ job.at = "deliver" => \A e \in job.events : ~Ahead(e)
    /\ \A t \in Targets, e \in Event :
           Reached(t, e) =>
               /\ ~Ahead(e)
               /\ job.at = "deliver" => (t \notin job.todo \/ e \notin job.events)

EventInv ==
    /\ Upstream /\ Flowing
    /\ \A t \in Targets : Exact(landed[t], heard[t], outbox[t])

\* One more copy lands of events that are not held, some answered with success.
LEMMA ExactLands ==
    ASSUME NEW L \in Counts, NEW H, NEW B \in Seq(Message), Exact(L, H, B),
           NEW P \in SUBSET Event, \A e \in P : L[e] < MaxAttempts /\ ~Box(B, e),
           NEW E, \A e \in E : ~Box(B, e)
    PROVE  /\ Exact(More(L, P), H, B) /\ Exact(More(L, P), H \cup E, B)
           /\ \A e \in Event \ P : More(L, P)[e] = L[e]
<1>1. \A e \in Event : L[e] \in Nat
  BY DEF Counts
<1>2. /\ \A e \in Event \ P : More(L, P)[e] = L[e]
      /\ \A e \in P : More(L, P)[e] <= L[e] + 1
      /\ \A e \in Event : More(L, P)[e] \in Nat
  BY MoreCopies DEF Counts
<1>3. \A e \in Event : More(L, P)[e] <= MaxAttempts
  BY <1>1, <1>2, Numbers DEF Exact
<1>4. ASSUME NEW i \in DOMAIN B, NEW e \in B[i].events PROVE More(L, P)[e] <= B[i].attempts
  <2>1. e \in Event /\ e \notin P
    <3>1. B[i] \in Message /\ Box(B, e)
      BY ElementOfSeq, LenProperties DEF Box
    <3> QED BY <3>1 DEF Message
  <2>2. More(L, P)[e] = L[e]
    BY <1>2, <2>1
  <2> QED BY <2>2 DEF Exact
<1> QED BY <1>2, <1>3, <1>4 DEF Exact, Box

\* A message is held of events that are held nowhere.
LEMMA ExactHolds ==
    ASSUME NEW L, NEW H, NEW B \in Seq(Message), Exact(L, H, B),
           NEW m \in Message,
           \A e \in m.events : ~Box(B, e) /\ e \notin H /\ L[e] <= m.attempts
    PROVE  /\ Exact(L, H, Append(B, m))
           /\ \A e \in Event : Box(Append(B, m), e) => Box(B, e) \/ e \in m.events
<1> DEFINE C == Append(B, m)
           n == Len(B)
<1>1. n \in Nat /\ DOMAIN B = 1..n
  BY LenProperties
<1>2. /\ DOMAIN C = 1..(n + 1) /\ C[n + 1] = m
      /\ \A i \in 1..n : C[i] = B[i]
  BY <1>1, AppendProperties, LenProperties
<1> HIDE DEF C, n
<1>3. \A i \in DOMAIN C : (i \in DOMAIN B /\ C[i] = B[i]) \/ (i = n + 1 /\ C[i] = m)
  BY <1>1, <1>2
<1>4. \A i \in DOMAIN B : B[i].events \cap m.events = {}
  BY DEF Box
<1>5. Exact(L, H, C)
  BY <1>3, <1>4 DEF Exact
<1>6. \A e \in Event : Box(C, e) => Box(B, e) \/ e \in m.events
  BY <1>3 DEF Box
<1> QED BY <1>5, <1>6 DEF C

\* The oldest held message is taken out.
LEMMA ExactTakes ==
    ASSUME NEW L, NEW H, NEW B \in Seq(Message), Exact(L, H, B), Len(B) >= 1
    PROVE  /\ Exact(L, H, Tail(B))
           /\ \A e \in Event : Box(Tail(B), e) => Box(B, e)
           /\ \A e \in Head(B).events :
                  Box(B, e) /\ ~Box(Tail(B), e) /\ e \notin H /\ L[e] <= Head(B).attempts
<1> DEFINE C == Tail(B)
           n == Len(B)
<1>1. n \in Nat /\ DOMAIN B = 1..n /\ n >= 1
  BY LenProperties
<1>2. /\ Head(B) = B[1] /\ DOMAIN C = 1..(n - 1)
      /\ \A i \in 1..(n - 1) : C[i] = B[i + 1]
  BY <1>1, Behead, LenProperties
<1> HIDE DEF C, n
<1>3. \A i \in DOMAIN C : i + 1 \in DOMAIN B /\ C[i] = B[i + 1] /\ i + 1 # 1
  BY <1>1, <1>2
<1>4. \A i, j \in DOMAIN C : i # j => i + 1 # j + 1
  BY <1>1, <1>2
<1>5. Exact(L, H, C)
  BY <1>3, <1>4 DEF Exact
<1>6. \A e \in Event : Box(C, e) => Box(B, e)
  BY <1>3 DEF Box
<1>7. 1 \in DOMAIN B
  BY <1>1
<1>8. ASSUME NEW e \in B[1].events
      PROVE  Box(B, e) /\ ~Box(C, e) /\ e \notin H /\ L[e] <= B[1].attempts
  BY <1>3, <1>7 DEF Exact, Box
<1> QED BY <1>2, <1>5, <1>6, <1>8 DEF C

\* A message is held; the oldest may have to make room.
LEMMA ExactPushes ==
    ASSUME NEW L, NEW H, NEW B \in Seq(Message), Exact(L, H, B),
           NEW m \in Message,
           \A e \in m.events : ~Box(B, e) /\ e \notin H /\ L[e] <= m.attempts
    PROVE  /\ Exact(L, H, Pushed(B, m))
           /\ \A e \in Event : Box(Pushed(B, m), e) => Box(B, e) \/ e \in m.events
<1>1. m.events \subseteq Event
  BY DEF Message
<1>2. CASE Len(B) >= OutboxDepth
  <2>1. Len(B) >= 1
    BY <1>2, Numbers, LenProperties
  <2>2. Exact(L, H, Tail(B)) /\ \A e \in Event : Box(Tail(B), e) => Box(B, e)
    BY <2>1, ExactTakes
  <2>3. Tail(B) \in Seq(Message)
    BY <2>1, Behead
  <2>4. \A e \in m.events : ~Box(Tail(B), e)
    BY <1>1, <2>2
  <2>5. Pushed(B, m) = Append(Tail(B), m)
    BY <1>2 DEF Pushed
  <2>6. /\ Exact(L, H, Append(Tail(B), m))
        /\ \A e \in Event : Box(Append(Tail(B), m), e) => Box(Tail(B), e) \/ e \in m.events
    BY <2>2, <2>3, <2>4, ExactHolds
  <2> QED BY <2>2, <2>5, <2>6
<1>3. CASE ~(Len(B) >= OutboxDepth)
  BY <1>3, ExactHolds DEF Pushed
<1> QED BY <1>2, <1>3

\* What a target's records are to be after a step that delivers nothing new.
LEMMA NoneReached ==
    ASSUME EventInv, TypeOK, Upstream', (job.at = "deliver" => \A e \in job.events : ~Ahead(e))',
           \A e \in Event : Ahead(e)' => Ahead(e),
           \A t \in Targets : /\ Exact((landed[t])', (heard[t])', (outbox[t])')
                              /\ \A e \in Event : Reached(t, e)' => Reached(t, e),
           \A t \in Targets, e \in Event :
               Reached(t, e) => (job.at = "deliver" => (t \notin job.todo \/ e \notin job.events))'
    PROVE  EventInv'
<1>1. \A t \in Targets, e \in Event : Reached(t, e)' => ~Ahead(e)'
  BY DEF EventInv, Flowing
<1> QED BY <1>1 DEF EventInv, Flowing
LEMMA InitEvents == Init => EventInv
<1> SUFFICES ASSUME Init PROVE EventInv
  OBVIOUS
<1>1. DOMAIN <<>> = {}
  BY EmptySeq, LenProperties
<1>2. Upstream
  BY <1>1 DEF Init, Upstream
<1>3. job.at # "deliver"
  BY DEF Init, Top
<1>4. \A t \in Targets : Exact(landed[t], heard[t], outbox[t]) /\ \A e \in Event : ~Reached(t, e)
  BY <1>1, Numbers DEF Init, Reached, In, Box, Exact
<1>5. Flowing
  BY <1>3, <1>4 DEF Flowing
<1> QED BY <1>2, <1>4, <1>5 DEF EventInv

\* Steps that leave what has landed and what is held alone, and bring no event
\* into a delivery.
LEMMA Elsewhere ==
    ASSUME TypeOK, EventInv, Upstream', UNCHANGED arrivals,
           \A t \in Targets : (outbox[t])' = outbox[t] \/ (outbox[t])' = <<>>,
           \A e \in Event : Ahead(e)' => Ahead(e),
           job' = job \/ job'.at # "deliver" \/ job'.events = {}
    PROVE  EventInv'
<1>1. DOMAIN <<>> = {}
  BY EmptySeq, LenProperties
<1>2. ASSUME NEW t \in Targets
      PROVE  /\ Exact((landed[t])', (heard[t])', (outbox[t])')
             /\ \A e \in Event : Reached(t, e)' => Reached(t, e)
  BY <1>1 DEF EventInv, Exact, Reached, In, Box, arrivals
<1>3. (job.at = "deliver" => \A e \in job.events : ~Ahead(e))'
  <2> SUFFICES ASSUME job'.at = "deliver", NEW e \in job'.events PROVE ~Ahead(e)'
    OBVIOUS
  <2>1. job' = job
    OBVIOUS
  <2>2. job.events \subseteq Event
    BY <2>1 DEF TypeOK, Top, Select, Delivering, Retrying, Resending
  <2> QED BY <2>1, <2>2 DEF EventInv, Flowing
<1>4. \A t \in Targets, e \in Event :
          Reached(t, e) => (job.at = "deliver" => (t \notin job.todo \/ e \notin job.events))'
  BY DEF EventInv, Flowing
<1> QED BY <1>2, <1>3, <1>4, NoneReached

LEMMA StepEvents == TypeOK /\ EventInv /\ [Next]_vars => EventInv'
<1> SUFFICES ASSUME TypeOK, EventInv, [Next]_vars PROVE EventInv'
  OBVIOUS
<1> USE DEF Event
<1>0. channel \in Seq(Event) /\ Len(channel) \in Nat /\ DOMAIN channel = 1..Len(channel)
      /\ (\A i \in 1..Len(channel) : channel[i] \in Event) /\ buffer \subseteq Event
      /\ nextEvent \in Nat
  <2>1. channel \in Seq(Event) /\ buffer \subseteq Event /\ nextEvent \in Nat
    BY Numbers DEF TypeOK
  <2>2. Len(channel) \in Nat /\ DOMAIN channel = 1..Len(channel)
    BY <2>1, LenProperties
  <2>3. \A i \in 1..Len(channel) : channel[i] \in Event
    BY <2>1, ElementOfSeq
  <2> QED BY <2>1, <2>2, <2>3
<1>1. CASE UNCHANGED <<nextEvent, channel, buffer, job, outbox, landed, heard>>
  BY <1>1 DEF EventInv, Upstream, Flowing, Reached, Ahead
<1>2. CASE Send
  <2>1. nextEvent' = nextEvent + 1 /\ buffer' = buffer
    BY <1>2 DEF Send
  <2>2. CASE channel' = channel
    <3>1. Upstream'
      BY <1>0, <2>1, <2>2 DEF EventInv, Upstream
    <3>2. \A e \in Event : Ahead(e)' => Ahead(e)
      BY <1>0, <2>1, <2>2 DEF Ahead
    <3> QED BY <1>2, <3>1, <3>2, Elsewhere DEF Send
  <2>3. CASE channel' = Append(channel, nextEvent)
    <3>1. /\ DOMAIN channel' = 1..(Len(channel) + 1)
          /\ \A i \in 1..Len(channel) : channel'[i] = channel[i]
          /\ channel'[Len(channel) + 1] = nextEvent
      <4>1. nextEvent \in Event
        BY <1>2, Numbers DEF Send, TypeOK
      <4> QED BY <1>0, <2>3, <4>1, AppendProperties, LenProperties
    <3>2. Upstream'
      <4>1. /\ \A i \in 1..Len(channel) : channel[i] < nextEvent /\ channel[i] \notin buffer
            /\ \A i, j \in 1..Len(channel) : channel[i] = channel[j] => i = j
            /\ \A e \in buffer : e < nextEvent
        BY <1>0 DEF EventInv, Upstream
      <4>2. \A i \in DOMAIN channel' : \/ i \in 1..Len(channel) /\ channel'[i] = channel[i]
                                       \/ i = Len(channel) + 1 /\ channel'[i] = nextEvent
        BY <1>0, <3>1
      <4>3. \A i, j \in DOMAIN channel' : channel'[i] = channel'[j] => i = j
        BY <1>0, <4>1, <4>2
      <4>4. \A i \in DOMAIN channel' : channel'[i] < nextEvent + 1 /\ channel'[i] \notin buffer
        BY <1>0, <4>1, <4>2
      <4>5. \A e \in buffer : e < nextEvent + 1
        BY <1>0, <4>1
      <4> QED BY <2>1, <4>3, <4>4, <4>5 DEF Upstream
    <3>3. \A e \in Event : Ahead(e)' => Ahead(e)
      BY <1>0, <2>1, <3>1 DEF Ahead
    <3> QED BY <1>2, <3>2, <3>3, Elsewhere DEF Send
  <2> QED BY <1>2, <2>2, <2>3 DEF Send
<1>3. CASE Refresh
  <2>1. job' = Select /\ UNCHANGED arrivals /\ UNCHANGED <<nextEvent, channel, buffer>>
    BY <1>3 DEF Refresh
  <2>2. \A t \in Targets : (outbox[t])' = outbox[t] \/ (outbox[t])' = <<>>
    BY <1>3 DEF Refresh, Reset
  <2>3. job'.at # "deliver"
    BY <2>1 DEF Select
  <2>4. Upstream' /\ \A e \in Event : Ahead(e)' => Ahead(e)
    BY <2>1 DEF EventInv, Upstream, Ahead
  <2> QED BY <2>1, <2>2, <2>3, <2>4, Elsewhere DEF arrivals
<1>4. CASE Recv
  <2>0. PICK h : h = Head(channel)
    OBVIOUS
  <2>1. /\ channel' = Tail(channel) /\ nextEvent' = nextEvent
        /\ Len(channel) >= 1 /\ UNCHANGED <<outbox, landed, heard>>
        /\ \/ job' = Delivering({h}, active) /\ buffer' = buffer
           \/ job' = Top /\ buffer' \in {buffer, buffer \cup {h}}
    BY <1>0, <1>4, <2>0, EmptySeq DEF Recv, arrivals
  <2>2. /\ h = channel[1] /\ h \in Event
        /\ DOMAIN channel' = 1..(Len(channel) - 1)
        /\ \A i \in 1..(Len(channel) - 1) : channel'[i] = channel[i + 1]
    BY <1>0, <2>0, <2>1, Behead, LenProperties
  <2>3. 1 \in DOMAIN channel /\ \A i \in DOMAIN channel' : i + 1 \in DOMAIN channel /\ i + 1 # 1
    BY <1>0, <2>1, <2>2
  <2>4. /\ h < nextEvent /\ h \notin buffer
        /\ \A i \in DOMAIN channel' : channel'[i] # h
    BY <2>2, <2>3 DEF EventInv, Upstream
  <2>5. Upstream'
    <3>1. \A i, j \in DOMAIN channel' : channel'[i] = channel'[j] => i = j
      <4> TAKE i, j \in DOMAIN channel'
      <4>1. channel'[i] = channel[i + 1] /\ channel'[j] = channel[j + 1]
            /\ i + 1 \in DOMAIN channel /\ j + 1 \in DOMAIN channel /\ i \in Int /\ j \in Int
        BY <1>0, <2>2, <2>3
      <4>2. channel[i + 1] = channel[j + 1] => i + 1 = j + 1
        BY <4>1 DEF EventInv, Upstream
      <4> QED BY <4>1, <4>2
    <3>2. \A i \in DOMAIN channel' : channel'[i] < nextEvent /\ channel'[i] \notin buffer
      BY <2>2, <2>3 DEF EventInv, Upstream
    <3> QED BY <2>1, <2>4, <3>1, <3>2 DEF EventInv, Upstream
  <2>6. \A e \in Event : Ahead(e)' => Ahead(e)
    BY <2>1, <2>2, <2>3 DEF Ahead
  <2>7. CASE job' = Top
    <3>1. job'.at # "deliver"
      BY <2>7 DEF Top
    <3> QED BY <2>1, <2>5, <2>6, <3>1, Elsewhere DEF arrivals
  <2>8. CASE job' = Delivering({h}, active) /\ buffer' = buffer
    <3>1. Ahead(h) /\ ~Ahead(h)'
      <4>1. Ahead(h)
        BY <2>2, <2>3 DEF Ahead
      <4>2. ~(h >= nextEvent')
        BY <1>0, <2>1, <2>2, <2>4
      <4> QED BY <2>4, <2>8, <4>1, <4>2 DEF Ahead
    <3>2. job' = Top \/ (job'.at = "deliver" /\ job'.events = {h})
      BY <2>8 DEF Delivering
    <3>3. (job.at = "deliver" => \A e \in job.events : ~Ahead(e))'
      <4> SUFFICES ASSUME job'.at = "deliver", NEW e \in job'.events PROVE ~Ahead(e)'
        OBVIOUS
      <4>1. e = h
        BY <3>2 DEF Top
      <4> QED BY <3>1, <4>1
    <3>4. \A t \in Targets, e \in Event :
              Reached(t, e) => (job.at = "deliver" => (t \notin job.todo \/ e \notin job.events))'
      BY <3>1, <3>2 DEF EventInv, Flowing, Top
    <3>5. \A t \in Targets : /\ Exact((landed[t])', (heard[t])', (outbox[t])')
                             /\ \A e \in Event : Reached(t, e)' => Reached(t, e)
      BY <2>1 DEF EventInv, Reached
    <3> QED BY <2>5, <2>6, <3>3, <3>4, <3>5, NoneReached
  <2> QED BY <2>1, <2>7, <2>8
<1>5. CASE Flush
  <2>1. /\ buffer' = {} /\ UNCHANGED <<nextEvent, channel, outbox, landed, heard>>
        /\ job' = Top \/ job' = Delivering(buffer, active)
    BY <1>5 DEF Flush, AfterFlush, arrivals
  <2>2. Upstream' /\ \A e \in Event : Ahead(e)' => Ahead(e)
    BY <2>1 DEF EventInv, Upstream, Ahead
  <2>3. \A e \in buffer : Ahead(e) /\ ~Ahead(e)'
    BY <1>0, <2>1 DEF EventInv, Upstream, Ahead
  <2>4. job'.at # "deliver" \/ job'.events = buffer
    BY <2>1 DEF Delivering, Top
  <2>5. (job.at = "deliver" => \A e \in job.events : ~Ahead(e))'
    BY <2>3, <2>4
  <2>6. \A t \in Targets, e \in Event :
            Reached(t, e) => (job.at = "deliver" => (t \notin job.todo \/ e \notin job.events))'
    BY <2>3, <2>4 DEF EventInv, Flowing
  <2>7. \A t \in Targets : /\ Exact((landed[t])', (heard[t])', (outbox[t])')
                           /\ \A e \in Event : Reached(t, e)' => Reached(t, e)
    BY <2>1 DEF EventInv, Reached
  <2> QED BY <2>2, <2>5, <2>6, <2>7, NoneReached
<1>6. CASE RetryTick \/ SummaryDue
  <2>1. UNCHANGED <<nextEvent, channel, buffer, outbox, landed, heard>>
    BY <1>6 DEF RetryTick, SummaryDue, arrivals
  <2>2. job'.at # "deliver" \/ job'.events = {}
    BY <1>6 DEF RetryTick, SummaryDue, Retrying, Delivering, Top
  <2>3. Upstream' /\ \A e \in Event : Ahead(e)' => Ahead(e)
    BY <2>1 DEF EventInv, Upstream, Ahead
  <2> QED BY <2>1, <2>2, <2>3, Elsewhere DEF arrivals
<1>7. ASSUME NEW t \in Targets, DeliverTo(t) PROVE EventInv'
  <2>1. /\ UNCHANGED <<nextEvent, channel, buffer>>
        /\ job.at = "deliver" /\ t \in job.todo
        /\ job' = Top \/ job' = [job EXCEPT !.todo = @ \ {t}]
    BY <1>7 DEF DeliverTo, Rest
  <2>2. PICK E \in SUBSET Event, T \in SUBSET active : job = [at |-> "deliver", events |-> E, todo |-> T]
    <3>1. job \notin {Top, Select} /\ \A T : job # Retrying(T) /\ \A u, n : job # Resending(u, n, T)
      BY <2>1 DEF Top, Select, Retrying, Resending
    <3>2. \E E \in SUBSET Event, T \in SUBSET active : job \in {Delivering(E, T), Retrying(T)}
      BY <3>1 DEF TypeOK
    <3> QED BY <3>1, <3>2 DEF Delivering
  <2>3. Upstream' /\ \A e \in Event : Ahead(e)' <=> Ahead(e)
    BY <2>1 DEF EventInv, Upstream, Ahead
  <2>4. job' = Top \/ job' = [at |-> "deliver", events |-> E, todo |-> T \ {t}]
    BY <2>1, <2>2
  <2>5. ASSUME NEW u \in Targets
        PROVE  /\ Exact((landed[u])', (heard[u])', (outbox[u])')
               /\ \A e \in Event : Reached(u, e)' => Reached(u, e) \/ (u = t /\ e \in E)
    <3> DEFINE mine == {e \in job.events : Enabled(options, t, e)}
               L == landed[t]
               H == heard[t]
               B == outbox[t]
    <3>1. L \in Counts /\ H \in SUBSET Event /\ B \in Seq(Message) /\ Exact(L, H, B)
      BY BoxTypes DEF EventInv
    <3>2. /\ mine \in SUBSET E /\ mine \in SUBSET Event
          /\ \A e \in mine : L[e] = 0 /\ e \notin H /\ ~Box(B, e)
      <4>1. mine \in SUBSET E /\ mine \in SUBSET Event
        BY <2>2
      <4>2. ASSUME NEW e \in mine PROVE L[e] = 0 /\ e \notin H /\ ~Box(B, e)
        <5>1. ~Reached(t, e)
          BY <2>1, <2>2, <4>1 DEF EventInv, Flowing
        <5>2. L[e] \in Nat
          BY <3>1, <4>1, CountsAreNumbers
        <5>3. ~(L[e] > 0)
          BY <5>1 DEF Reached, In
        <5> QED BY <5>1, <5>2, <5>3 DEF Reached, In
      <4> QED BY <4>1, <4>2
    <3>3. CASE UNCHANGED <<outbox, landed, heard>>
      BY <3>3 DEF EventInv, Reached
    <3>4. CASE Accepted(t, mine) /\ UNCHANGED outbox
      <4>1. /\ (landed[u])' = IF u = t THEN More(L, mine) ELSE landed[u]
            /\ (heard[u])' = (IF u = t THEN H \cup mine ELSE heard[u]) /\ outbox' = outbox
        BY <3>2, <3>4, LandedType DEF Accepted, TypeOK
      <4> HIDE DEF mine, L, H, B
      <4>2. /\ Exact(More(L, mine), H \cup mine, B)
            /\ \A e \in Event \ mine : More(L, mine)[e] = L[e]
        <5>1. \A e \in mine : L[e] < MaxAttempts
          BY <3>2, Numbers
        <5> QED BY <3>1, <3>2, <5>1, ExactLands
      <4> QED BY <3>2, <4>1, <4>2 DEF EventInv, Reached, In, L, H, B
    <3>5. CASE Failed(t, mine)
      <4> DEFINE m == [events |-> mine, attempts |-> 1]
      <4>1. m \in Message /\ m.events = mine /\ m.attempts = 1
        BY <3>2, Numbers DEF Message
      <4>2. PICK P \in SUBSET mine : Landed(t, P)
        BY <3>5 DEF Failed, Unanswered
      <4>3. /\ (landed[u])' = IF u = t THEN More(L, P) ELSE landed[u]
            /\ (outbox[u])' = (IF u = t THEN Pushed(B, m) ELSE outbox[u]) /\ heard' = heard
        BY <3>2, <3>5, <4>2, LandedType DEF Failed, Unanswered, TypeOK
      <4> HIDE DEF mine, m, L, H, B
      <4>4. P \in SUBSET Event /\ \A e \in P : L[e] < MaxAttempts /\ ~Box(B, e)
        BY <3>2, Numbers
      <4>5. Exact(More(L, P), H, B) /\ \A e \in Event \ P : More(L, P)[e] = L[e]
        BY <3>1, <4>4, ExactLands
      <4>6. ASSUME NEW e \in mine PROVE More(L, P)[e] <= 1
        <5>1. L[e] = 0 /\ (More(L, P)[e] = L[e] \/ More(L, P)[e] <= L[e] + 1)
          BY <3>1, <3>2, <4>4, MoreCopies
        <5> QED BY <5>1
      <4>7. /\ Exact(More(L, P), H, Pushed(B, m))
            /\ \A e \in Event : Box(Pushed(B, m), e) => Box(B, e) \/ e \in m.events
        BY <3>1, <3>2, <4>1, <4>5, <4>6, ExactPushes
      <4> QED BY <3>2, <4>1, <4>3, <4>5, <4>7 DEF EventInv, Reached, In, L, H, B
    <3> HIDE DEF mine
    <3>6. UNCHANGED <<outbox, landed, heard>> \/ Attempt(t, mine) \/ Suppress(t)
      BY <1>7 DEF DeliverTo, arrivals, mine
    <3> QED BY <3>3, <3>4, <3>5, <3>6 DEF Attempt, Suppress, arrivals
  <2>6. (job.at = "deliver" => \A e \in job.events : ~Ahead(e))'
    <3>1. \A e \in E : ~Ahead(e)
      BY <2>1, <2>2 DEF EventInv, Flowing
    <3>2. job'.at = "deliver" => job'.events = E
      BY <2>4 DEF Top
    <3> QED BY <2>3, <3>1, <3>2
  <2>7. ASSUME NEW u \in Targets, NEW e \in Event, Reached(u, e)'
        PROVE  ~Ahead(e)' /\ (job'.at = "deliver" => (u \notin job'.todo \/ e \notin job'.events))
    <3>1. job'.at = "deliver" => job'.events = E /\ job'.todo = T \ {t}
      BY <2>4 DEF Top
    <3>2. CASE Reached(u, e)
      <4>1. ~Ahead(e) /\ (u \notin T \/ e \notin E)
        BY <2>1, <2>2, <3>2 DEF EventInv, Flowing
      <4> QED BY <2>3, <3>1, <4>1
    <3>3. CASE u = t /\ e \in E
      <4>1. ~Ahead(e)
        BY <2>1, <2>2, <3>3 DEF EventInv, Flowing
      <4> QED BY <2>3, <3>1, <3>3, <4>1
    <3> QED BY <2>5, <2>7, <3>2, <3>3
  <2> QED BY <2>3, <2>5, <2>6, <2>7 DEF EventInv, Flowing
<1>8. ASSUME NEW t \in Targets, RetryOutbox(t) PROVE EventInv'
  <2>1. UNCHANGED <<nextEvent, channel, buffer, outbox, landed, heard>>
    BY <1>8 DEF RetryOutbox, arrivals
  <2>2. job'.at # "deliver"
    BY <1>8 DEF RetryOutbox, Resending, Retrying, Top
  <2>3. Upstream' /\ \A e \in Event : Ahead(e)' => Ahead(e)
    BY <2>1 DEF EventInv, Upstream, Ahead
  <2> QED BY <2>1, <2>2, <2>3, Elsewhere DEF arrivals
<1>9. ASSUME NEW t \in Targets, Resend(t) PROVE EventInv'
  <2>1. UNCHANGED <<nextEvent, channel, buffer>>
    BY <1>9 DEF Resend
  <2>2. job'.at # "deliver"
    BY <1>9 DEF Resend, Resending, Retrying, Top
  <2>3. Upstream' /\ \A e \in Event : Ahead(e)' => Ahead(e)
    BY <2>1 DEF EventInv, Upstream, Ahead
  <2>4. ASSUME NEW u \in Targets
        PROVE  /\ Exact((landed[u])', (heard[u])', (outbox[u])')
               /\ \A e \in Event : Reached(u, e)' => Reached(u, e)
    <3> DEFINE L == landed[t]
               H == heard[t]
               B == outbox[t]
               m == Head(B)
               C == Tail(B)
    <3>1. /\ L \in Counts /\ H \in SUBSET Event /\ B \in Seq(Message) /\ Exact(L, H, B)
          /\ Len(B) >= 1
      <4>1. L \in Counts /\ H \in SUBSET Event /\ B \in Seq(Message) /\ Exact(L, H, B)
        BY BoxTypes DEF EventInv
      <4>2. job.left \in 1..Len(B) /\ Len(B) \in Nat
        BY <1>9, ResendType
      <4> QED BY <4>1, <4>2
    <3>2. m \in Message /\ C \in Seq(Message)
      BY <3>1, Behead
    <3>3. /\ m.events \in SUBSET Event /\ m.attempts \in 1..(MaxAttempts - 1)
      BY <3>2 DEF Message
    <3>4. PICK P \in SUBSET m.events :
              /\ Landed(t, P)
              /\ \/ /\ heard' = [heard EXCEPT ![t] = H \cup m.events]
                    /\ outbox' = [outbox EXCEPT ![t] = C]
                 \/ heard' = heard /\ outbox' = [outbox EXCEPT ![t] = C]
                 \/ /\ heard' = heard /\ ~Spent(m)
                    /\ outbox' = [outbox EXCEPT ![t] = Append(C, Counted(m))]
      BY <1>9 DEF Resend, Accepted, Unanswered
    <3>5. /\ (landed[u])' = IF u = t THEN More(L, P) ELSE landed[u]
          /\ \/ /\ (heard[u])' = IF u = t THEN H \cup m.events ELSE heard[u]
                /\ (outbox[u])' = IF u = t THEN C ELSE outbox[u]
             \/ (heard[u])' = heard[u] /\ (outbox[u])' = IF u = t THEN C ELSE outbox[u]
             \/ /\ (heard[u])' = heard[u] /\ ~Spent(m)
                /\ (outbox[u])' = IF u = t THEN Append(C, Counted(m)) ELSE outbox[u]
      <4>1. outbox \in [Targets -> Seq(Message)] /\ heard \in [Targets -> SUBSET Event]
        BY DEF TypeOK
      <4>2. (landed[u])' = IF u = t THEN More(L, P) ELSE landed[u]
        BY <3>3, <3>4, LandedType
      <4> HIDE DEF L, H, B, m, C
      <4> QED BY <3>4, <4>1, <4>2
    <3> HIDE DEF L, H, B
    <3>6. /\ Exact(L, H, C)
          /\ \A e \in Event : Box(C, e) => Box(B, e)
          /\ \A e \in m.events : Box(B, e) /\ ~Box(C, e) /\ e \notin H /\ L[e] <= m.attempts
      BY <3>1, ExactTakes
    <3> HIDE DEF m, C
    <3>7. /\ Exact(More(L, P), H, C) /\ Exact(More(L, P), H \cup m.events, C)
          /\ \A e \in Event \ P : More(L, P)[e] = L[e]
          /\ \A e \in m.events : More(L, P)[e] <= m.attempts + 1
      <4>1. P \in SUBSET Event /\ \A e \in P : L[e] < MaxAttempts /\ ~Box(C, e)
        BY <3>1, <3>3, <3>6, Numbers DEF Counts
      <4>2. /\ Exact(More(L, P), H, C) /\ Exact(More(L, P), H \cup m.events, C)
            /\ \A e \in Event \ P : More(L, P)[e] = L[e]
        BY <3>1, <3>2, <3>3, <3>6, <4>1, ExactLands
      <4>3. ASSUME NEW e \in m.events PROVE More(L, P)[e] <= m.attempts + 1
        <5>1. L[e] \in Nat /\ L[e] <= m.attempts /\ m.attempts \in Nat
          BY <3>1, <3>3, <3>6 DEF Counts
        <5>2. More(L, P)[e] = L[e] \/ More(L, P)[e] <= L[e] + 1
          BY <3>1, <3>3, <4>1, MoreCopies
        <5>3. e \in Event /\ More(L, P) \in Counts
          BY <3>1, <3>3, <4>1, MoreCopies
        <5>4. More(L, P)[e] \in Nat
          BY <5>3, CountsAreNumbers
        <5> QED BY <5>1, <5>2, <5>4
      <4> QED BY <4>2, <4>3
    <3>8. ASSUME ~Spent(m)
          PROVE  /\ Exact(More(L, P), H, Append(C, Counted(m)))
                 /\ \A e \in Event : Box(Append(C, Counted(m)), e) => Box(C, e) \/ e \in m.events
      <4>1. m.attempts + 1 \in 1..(MaxAttempts - 1)
        BY <3>3, <3>8, Numbers DEF Spent
      <4>2. /\ Counted(m) \in Message /\ Counted(m).events = m.events
            /\ Counted(m).attempts = m.attempts + 1
        BY <3>2, <3>3, <4>1 DEF Counted, Message
      <4> QED BY <3>2, <3>6, <3>7, <4>2, ExactHolds
    <3>9. CASE u # t
      <4>1. (landed[u])' = landed[u] /\ (heard[u])' = heard[u] /\ (outbox[u])' = outbox[u]
        BY <3>5, <3>9
      <4> QED BY <4>1 DEF EventInv, Reached
    <3>10. CASE u = t
      <4>1. /\ (landed[u])' = More(L, P)
            /\ \/ (heard[u])' = H \cup m.events /\ (outbox[u])' = C
               \/ (heard[u])' = H /\ (outbox[u])' = C
               \/ ~Spent(m) /\ (heard[u])' = H /\ (outbox[u])' = Append(C, Counted(m))
        BY <3>5, <3>10 DEF H
      <4>2. \A e : Reached(u, e) <=> In(L, H, B, e)
        BY <3>10 DEF Reached, L, H, B
      <4>3. \A e \in Event : Reached(u, e)' => Reached(u, e)
        BY <3>4, <3>6, <3>7, <3>8, <4>1, <4>2 DEF Reached, In
      <4> QED BY <3>7, <3>8, <4>1, <4>3
    <3> QED BY <3>9, <3>10
  <2> QED BY <2>2, <2>3, <2>4, NoneReached
<1>10. CASE Edit \/ Tick
  BY <1>1, <1>10 DEF Edit, Tick, arrivals
<1> QED
  BY <1>1, <1>2, <1>3, <1>4, <1>5, <1>6, <1>7, <1>8, <1>9, <1>10
  DEF Next, Deliver, vars, arrivals

LEMMA EventsHold == Spec => [](TypeOK /\ EventInv)
BY InitType, StepType, InitEvents, StepEvents, PTL DEF Spec

\* A message held for retry is held once, was never answered with success, and
\* has landed at most as often as it was tried, however retries, lost answers,
\* digests, tests and reloads interleave (deliver_to, retry_outboxes, refresh).
THEOREM RepeatsCorrect == Spec => []RepeatsAreRetries
<1>1. EventInv => RepeatsAreRetries
  BY DEF EventInv, Exact, RepeatsAreRetries
<1> QED BY <1>1, EventsHold, PTL

\* What a backend has acknowledged it is never sent again.
THEOREM HeardCorrect == Spec => HeardIsFinal
<1> DEFINE Final == \A t \in Targets : \A e \in heard[t] : (landed[t][e])' = landed[t][e]
<1>1. TypeOK /\ EventInv /\ [Next]_vars => [Final]_vars
  <2> SUFFICES ASSUME TypeOK, EventInv, Next, NEW t \in Targets, NEW e \in heard[t]
               PROVE  (landed[t][e])' = landed[t][e]
    OBVIOUS
  <2>0. e \in Event /\ Reached(t, e)
    BY DEF TypeOK, Reached, In
  <2>1. ASSUME NEW u \in Targets, NEW E \in SUBSET Event, u = t => e \notin E,
               NEW P \in SUBSET E, Landed(u, P)
        PROVE  (landed[t][e])' = landed[t][e]
    <3>1. (landed[t])' = IF t = u THEN More(landed[u], P) ELSE landed[t]
      BY <2>1, LandedType
    <3> QED BY <2>0, <2>1, <3>1 DEF More
  <2>2. ASSUME NEW u \in Targets, DeliverTo(u) PROVE (landed[t][e])' = landed[t][e]
    <3> DEFINE mine == {d \in job.events : Enabled(options, u, d)}
    <3>1. mine \in SUBSET Event
      BY <2>2 DEF DeliverTo, TypeOK, Top, Select, Delivering, Retrying, Resending
    <3>2. u = t => e \notin mine
      BY <2>0, <2>2 DEF DeliverTo, EventInv, Flowing
    <3> HIDE DEF mine
    <3>3. UNCHANGED landed \/ Attempt(u, mine) \/ Suppress(u)
      BY <2>2 DEF DeliverTo, arrivals, mine
    <3>4. UNCHANGED landed \/ \E P \in SUBSET mine : Landed(u, P)
      BY <3>3 DEF Attempt, Suppress, Accepted, Failed, Unanswered, arrivals
    <3> QED BY <2>1, <3>1, <3>2, <3>4
  <2>3. ASSUME NEW u \in Targets, Resend(u) PROVE (landed[t][e])' = landed[t][e]
    <3> DEFINE m == Head(outbox[u])
    <3>1. /\ outbox[u] \in Seq(Message) /\ Exact(landed[u], heard[u], outbox[u])
          /\ Len(outbox[u]) >= 1
      <4>1. job.left \in 1..Len(outbox[u]) /\ Len(outbox[u]) \in Nat
        BY <2>3, ResendType
      <4> QED BY <4>1, BoxTypes DEF EventInv
    <3>2. m \in Message /\ \A d \in m.events : d \notin heard[u]
      BY <3>1, Behead, ExactTakes
    <3>3. m.events \in SUBSET Event /\ (u = t => e \notin m.events)
      BY <3>2 DEF Message
    <3>4. \E P \in SUBSET m.events : Landed(u, P)
      BY <2>3 DEF Resend, Accepted, Unanswered
    <3> HIDE DEF m
    <3> QED BY <2>1, <3>3, <3>4
  <2> QED
    BY <2>2, <2>3
       DEF Next, Deliver, Send, Refresh, Recv, Flush, RetryTick, SummaryDue, RetryOutbox, Edit, Tick,
           arrivals
<1> QED BY <1>1, EventsHold, PTL DEF Spec, HeardIsFinal

\* Both together: lost answers, partial failures and reloads (deliver_to,
\* retry_outboxes, refresh) repeat nothing but what was not answered for.
THEOREM OnlyRetriesCorrect == Spec => OnlyRetriesRepeat
BY RepeatsCorrect, HeardCorrect, PTL DEF OnlyRetriesRepeat
=============================================================================
