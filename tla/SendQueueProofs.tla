-------------------------- MODULE SendQueueProofs --------------------------
(***************************************************************************)
(* Proofs about SendQueue, for every set of limits and every bound.        *)
(***************************************************************************)
EXTENDS SendQueue, SequenceTheorems, TLAPS

Age == 0..MaxWindow

\* One tick ages a sequence of ages element by element.
LEMMA AgedSeq ==
    ASSUME NEW s \in Seq(Age)
    PROVE  LET t == [i \in DOMAIN s |-> Older(s[i])]
           IN  /\ t \in Seq(Age)
               /\ Len(t) = Len(s)
               /\ \A i \in 1..Len(s) : t[i] = Older(s[i]) /\ t[i] >= s[i]
<1> DEFINE t == [i \in DOMAIN s |-> Older(s[i])]
<1>1. Len(s) \in Nat /\ DOMAIN s = 1..Len(s) /\ \A i \in 1..Len(s) : s[i] \in Age
  BY LenProperties, ElementOfSeq
<1>2. \A a \in Age : Older(a) \in Age /\ Older(a) >= a
  BY LimitsAssumption DEF Age, Older
<1>3. t \in [1..Len(s) -> Age]
  BY <1>1, <1>2
<1>4. t \in Seq(Age)
  BY <1>1, <1>3, SeqDef
<1>5. Len(t) = Len(s)
  BY <1>1, <1>3, <1>4, LenProperties
<1> QED
  BY <1>1, <1>2, <1>4, <1>5

\* What a limit may be.
LEMMA LimitType ==
    ASSUME NEW l \in Limits
    PROVE  /\ l.window \in MinWindow..MaxWindow /\ l.window \in Nat
           /\ l.max \in 1..MaxBurst /\ l.max \in Nat
BY LimitsAssumption

\* Forgetting a prefix of a sequence.
LEMMA Suffix ==
    ASSUME NEW S, NEW s \in Seq(S), NEW k \in 0..Len(s)
    PROVE  LET t == SubSeq(s, k + 1, Len(s))
           IN  /\ t \in Seq(S)
               /\ Len(t) = Len(s) - k
               /\ \A i \in 1..Len(t) : t[i] = s[i + k]
<1>1. Len(s) \in Nat /\ \A i \in 1..Len(s) : s[i] \in S
  BY LenProperties, ElementOfSeq
<1>2. k + 1 \in Int /\ Len(s) \in Int /\ \A i \in (k + 1)..Len(s) : s[i] \in S
  BY <1>1
<1>3. /\ SubSeq(s, k + 1, Len(s)) \in Seq(S)
      /\ Len(SubSeq(s, k + 1, Len(s))) = IF k + 1 <= Len(s) THEN Len(s) - (k + 1) + 1 ELSE 0
      /\ \A i \in 1..(Len(s) - (k + 1) + 1) :
             SubSeq(s, k + 1, Len(s))[i] = s[(k + 1) + i - 1]
  <2> DEFINE m == k + 1
             n == Len(s)
  <2>1. m \in Int /\ n \in Int /\ \A i \in m..n : s[i] \in S
    BY <1>2
  <2> HIDE DEF m, n
  <2>2. /\ SubSeq(s, m, n) \in Seq(S)
        /\ Len(SubSeq(s, m, n)) = IF m <= n THEN n - m + 1 ELSE 0
        /\ \A i \in 1..(n - m + 1) : SubSeq(s, m, n)[i] = s[m + i - 1]
    BY <2>1, SubSeqProperties
  <2> QED BY <2>2 DEF m, n
<1> QED
  BY <1>1, <1>3

-----------------------------------------------------------------------------
(* Type correctness. *)

\* The counters are machine words whatever is added to or taken from them.
LEMMA CounterType ==
    /\ \A n \in 0..(Word - 1) : Plus(n) \in 0..(Word - 1) /\ Minus(n) \in 0..(Word - 1)
    /\ 0 \in 0..(Word - 1)
    /\ Plus(0) \in 0..(Word - 1)
<1>1. ASSUME NEW n \in Int PROVE n % Word \in 0..(Word - 1)
  BY <1>1, BoundsAssumption
<1>2. \A n \in 0..(Word - 1) : n + 1 \in Int /\ n + Word - 1 \in Int
  BY BoundsAssumption
<1> QED
  BY <1>1, <1>2, BoundsAssumption DEF Plus, Minus

\* Queue appends a well-typed message or, with the pacer dead, nothing.
LEMMA QueueType ==
    ASSUME TypeOK, NEW note \in BOOLEAN, Queue(note)
    PROVE  queue' \in Seq(Msg) /\ nextId' \in 1..(MaxMsgs + 1)
<1>1. [id |-> nextId, note |-> note, epoch |-> epoch] \in Msg
  BY BoundsAssumption DEF TypeOK, Queue, Msg
<1>2. queue' \in Seq(Msg)
  BY <1>1 DEF TypeOK, Queue
<1> QED
  BY <1>2, BoundsAssumption DEF TypeOK, Queue

LEMMA InitType == Init => TypeOK
<1> SUFFICES ASSUME Init PROVE TypeOK
  OBVIOUS
<1>1. queue \in Seq(Msg) /\ recent \in Seq(0..MaxWindow)
      /\ wire \in Seq(1..MaxMsgs) /\ ages \in Seq(0..MaxWindow)
  BY EmptySeq DEF Init
<1>2. nextId \in 1..(MaxMsgs + 1) /\ epoch \in 0..MaxStops /\ nap \in 0..MaxWindow
      /\ drops \in 0..MaxDrops /\ pending \in 0..(Word - 1) /\ reported \in 0..(Word - 1)
  BY LimitsAssumption, BoundsAssumption, CounterType DEF Init
<1> QED
  BY <1>1, <1>2 DEF Init, TypeOK

LEMMA StepType == TypeOK /\ [Next]_vars => TypeOK'
<1> SUFFICES ASSUME TypeOK, [Next]_vars PROVE TypeOK'
  OBVIOUS
<1> USE DEF TypeOK
<1>1. CASE Reply
  BY <1>1, QueueType, CounterType DEF Reply, pacerVars, stopVars, linkVars, wireVars
<1>2. CASE Notify
  BY <1>2, QueueType DEF Notify, pacerVars, stopVars, linkVars, wireVars
<1>3. CASE StopBump
  <2>1. \A m \in Unsent : ~m.note => m \in Msg
    BY ElementOfSeq, LenProperties DEF Unsent, NoMsg
  <2>2. withdrawn' \subseteq Msg /\ stragglers' = 0
    BY <1>3, <2>1 DEF StopBump
  <2>3. epoch' \in 0..MaxStops /\ stop' \in BOOLEAN
    BY <1>3, BoundsAssumption DEF StopBump
  <2>4. UNCHANGED <<queue, nextId, pending, reported, pacer, cur, limit, lim, nap,
                    recent, link, drops, wire, ages>>
    BY <1>3 DEF StopBump, channelVars, pacerVars, linkVars
  <2> QED BY <2>2, <2>3, <2>4
<1>4. CASE StopAnswer
  BY <1>4, QueueType, CounterType DEF StopAnswer, channelVars, pacerVars, linkVars, wireVars
<1>5. CASE PacerRecv
  <2>1. Head(queue) \in Msg /\ Tail(queue) \in Seq(Msg)
    BY <1>5, HeadTailProperties DEF PacerRecv
  <2>2. pending' \in 0..(Word - 1)
    BY <1>5, CounterType DEF PacerRecv
  <2> QED
    BY <1>5, <2>1, <2>2 DEF PacerRecv, stopVars, linkVars, wireVars
<1>6. CASE PacerSkip
  BY <1>6 DEF PacerSkip, channelVars, stopVars, linkVars, wireVars
<1>7. CASE PacerAdmit
  <2>1. recent' \in Seq(0..MaxWindow)
    BY <1>7, Suffix DEF PacerAdmit
  <2>2. nap' \in 0..MaxWindow
    <3>1. CASE Len(recent') >= limit.max
      <4>1. PICK k \in 0..Len(recent) :
                /\ AgedOut(k, limit.window)
                /\ recent' = SubSeq(recent, k + 1, Len(recent))
        BY <1>7 DEF PacerAdmit
      <4>2. Len(recent') = Len(recent) - k /\ \A i \in 1..Len(recent') : recent'[i] = recent[i + k]
        BY <4>1, Suffix
      <4>3. limit.max \in 1..MaxBurst /\ limit.window \in 0..MaxWindow /\ Len(recent) \in Nat
        BY LimitType, LimitsAssumption, LenProperties
      <4>4. 1 \in 1..Len(recent') /\ k < Len(recent)
        <5> DEFINE n == Len(recent)
                   m == Len(recent')
                   l == limit.max
        <5>1. m = n - k /\ m >= l /\ n \in Nat /\ k \in 0..n
          BY <3>1, <4>2, <4>3
        <5>3. l \in 1..MaxBurst
          BY <4>3
        <5> HIDE DEF n, m, l
        <5>2. 1 \in 1..m /\ k < n
          BY <5>1, <5>3, LimitsAssumption
        <5> QED BY <5>2 DEF n, m
      <4>5. recent'[1] = recent[k + 1] /\ recent[k + 1] < limit.window
        BY <4>1, <4>2, <4>4 DEF AgedOut
      <4>6. recent'[1] \in 0..MaxWindow
        BY <2>1, <4>4, ElementOfSeq
      <4>7. nap' = limit.window - recent'[1]
        BY <1>7, <3>1 DEF PacerAdmit, Nap
      <4>8. \A w, a \in 0..MaxWindow : a < w => w - a \in 0..MaxWindow
        BY LimitsAssumption
      <4> QED
        BY <4>3, <4>5, <4>6, <4>7, <4>8
    <3>2. CASE ~(Len(recent') >= limit.max)
      BY <1>7, <3>2, LimitsAssumption DEF PacerAdmit, Nap
    <3> QED BY <3>1, <3>2
  <2> QED
    BY <1>7, <2>1, <2>2 DEF PacerAdmit, channelVars, stopVars, linkVars, wireVars
<1>8. CASE PacerRecheck
  <2>1. recent' \in Seq(0..MaxWindow)
    <3>1. CASE Len(recent) >= lim.max
      <4>1. recent # <<>>
        BY <3>1, LimitType
      <4> QED BY <1>8, <3>1, <4>1, HeadTailProperties DEF PacerRecheck
    <3>2. CASE ~(Len(recent) >= lim.max)
      BY <1>8, <3>2 DEF PacerRecheck
    <3> QED BY <3>1, <3>2
  <2> QED
    BY <1>8, <2>1 DEF PacerRecheck, channelVars, stopVars, linkVars, wireVars
<1>9. CASE PacerSend
  <2>1. cur.id \in 1..MaxMsgs
    BY <1>9 DEF PacerSend, Msg, NoMsg
  <2> QED BY <1>9, <2>1, LimitsAssumption DEF PacerSend, channelVars, stopVars, linkVars
<1>10. CASE PacerSendLost
  <2>5. queue' = queue \/ queue' = <<>>
    BY <1>10 DEF PacerSendLost
  <2>1. queue' \in Seq(Msg)
    BY <2>5, EmptySeq
  <2>3. recent' = Append(recent, 0) \/ recent' = recent
    BY <1>10 DEF PacerSendLost
  <2>6. 0 \in 0..MaxWindow
    BY LimitsAssumption
  <2>7. recent \in Seq(0..MaxWindow)
    OBVIOUS
  <2>8. Append(recent, 0) \in Seq(0..MaxWindow)
    BY <2>6, <2>7, AppendProperties
  <2>4. recent' \in Seq(0..MaxWindow)
    BY <2>3, <2>7, <2>8
  <2>2. pacer' \in {"idle", "dead"} /\ cur' = NoMsg
    BY <1>10 DEF PacerSendLost
  <2> QED
    BY <1>10, <2>1, <2>2, <2>4 DEF PacerSendLost, stopVars, linkVars, wireVars
<1>11. CASE EditLimit
  BY <1>11 DEF EditLimit, channelVars, pacerVars, stopVars, linkVars, wireVars
<1>12. CASE Drop
  <2>1. drops' \in 0..MaxDrops
    BY <1>12, BoundsAssumption DEF Drop
  <2>2. link' \in BOOLEAN
    BY <1>12 DEF Drop
  <2> QED
    BY <1>12, <2>1, <2>2 DEF Drop, channelVars, pacerVars, stopVars, wireVars
<1>13. CASE Reconnect
  BY <1>13, BoundsAssumption, LimitsAssumption, CounterType DEF Reconnect
<1>14. CASE Tick
  <2>1. recent' \in Seq(0..MaxWindow) /\ ages' \in Seq(0..MaxWindow)
    BY <1>14, AgedSeq DEF Tick, Age
  <2>2. nap' \in 0..MaxWindow
    BY <1>14, LimitsAssumption DEF Tick
  <2> QED
    BY <1>14, <2>1, <2>2 DEF Tick, channelVars, stopVars, linkVars
<1>15. CASE UNCHANGED vars
  BY <1>15 DEF vars, channelVars, pacerVars, stopVars, linkVars, wireVars
<1> QED
  BY <1>1, <1>2, <1>3, <1>4, <1>5, <1>6, <1>7, <1>8, <1>9, <1>10, <1>11, <1>12,
     <1>13, <1>14, <1>15 DEF Next, PacerStep

\* Every reachable state of the queue is well typed; in particular the
\* reply counter is always a machine word, however often it wraps.
THEOREM TypeCorrect == Spec => []TypeOK
BY InitType, StepType, PTL DEF Spec

-----------------------------------------------------------------------------
(* At most one reply outlives the stop! that withdrew it. *)

\* No message bears a later epoch than the current one.
Stamped == cur.epoch <= epoch /\ \A i \in DOMAIN queue : queue[i].epoch <= epoch

\* What a stop! withdrew is discarded at the next look; and once a straggler
\* has left, the message in hand, if past its second look, was queued later.
StragglerInv ==
    /\ Stamped
    /\ \A m \in withdrawn : Discards(m, epoch)
    /\ stragglers \in {0, 1}
    /\ stragglers = 1 /\ pacer = "cleared" => cur \notin withdrawn

\* What is queued bears the current epoch.
LEMMA StampedQueue ==
    ASSUME TypeOK, Stamped, NEW note \in BOOLEAN, Queue(note)
    PROVE  \A i \in DOMAIN queue' : queue'[i].epoch <= epoch
<1> DEFINE m == [id |-> nextId, note |-> note, epoch |-> epoch]
<1>1. m \in Msg
  BY BoundsAssumption DEF TypeOK, Queue, Msg
<1>2. CASE queue' = queue
  BY <1>2 DEF Stamped
<1>3. CASE queue' = Append(queue, m)
  <2>1. queue \in Seq(Msg) /\ m.epoch = epoch /\ epoch \in Nat
    BY DEF TypeOK
  <2> HIDE DEF m
  <2>2. /\ Len(Append(queue, m)) = Len(queue) + 1
        /\ \A i \in 1..Len(queue) : Append(queue, m)[i] = queue[i]
        /\ Append(queue, m)[Len(queue) + 1] = m
        /\ DOMAIN Append(queue, m) = 1..(Len(queue) + 1)
        /\ DOMAIN queue = 1..Len(queue) /\ Len(queue) \in Nat
    BY <1>1, <2>1, AppendProperties, LenProperties
  <2>3. \A i \in 1..(Len(queue) + 1) : i \in 1..Len(queue) \/ i = Len(queue) + 1
    BY <2>2
  <2> QED BY <1>3, <2>1, <2>2, <2>3 DEF Stamped
<1> QED BY <1>2, <1>3 DEF Queue

\* The message in hand and those queued carry a number for an epoch.
LEMMA EpochType ==
    TypeOK => cur.epoch \in Nat /\ \A i \in DOMAIN queue : queue[i].epoch \in Nat
<1> SUFFICES ASSUME TypeOK PROVE cur.epoch \in Nat /\ \A i \in DOMAIN queue : queue[i].epoch \in Nat
  OBVIOUS
<1>1. \A m \in Msg : m.epoch \in Nat
  BY DEF Msg
<1>2. queue \in Seq(Msg) /\ (cur \in Msg \/ cur = NoMsg) /\ NoMsg.epoch = 0
  BY DEF TypeOK, NoMsg
<1>3. \A i \in DOMAIN queue : queue[i] \in Msg
  <2> SUFFICES ASSUME NEW i \in DOMAIN queue PROVE queue[i] \in Msg
    OBVIOUS
  <2>1. i \in 1..Len(queue)
    BY <1>2, LenProperties
  <2> QED BY <1>2, <2>1, ElementOfSeq
<1> QED BY <1>1, <1>2, <1>3

\* Only a stop! moves the epoch, and it moves it up.
LEMMA StepStamped == TypeOK /\ Stamped /\ [Next]_vars => Stamped'
<1> SUFFICES ASSUME TypeOK, Stamped, [Next]_vars PROVE Stamped'
  OBVIOUS
<1>1. CASE Reply
  BY <1>1, StampedQueue DEF Reply, Stamped, pacerVars, stopVars
<1>2. CASE Notify
  BY <1>2, StampedQueue DEF Notify, Stamped, pacerVars, stopVars
<1>3. CASE StopBump
  <2>1. /\ epoch \in Nat /\ epoch' = epoch + 1 /\ cur' = cur /\ queue' = queue
    BY <1>3 DEF StopBump, TypeOK, channelVars, pacerVars
  <2> QED BY <2>1, EpochType DEF Stamped
<1>4. CASE StopAnswer
  <2>1. Queue(FALSE) \/ queue' = queue
    BY <1>4 DEF StopAnswer, channelVars
  <2>2. cur' = cur /\ epoch' = epoch
    BY <1>4 DEF StopAnswer, pacerVars
  <2> QED BY <2>1, <2>2, StampedQueue DEF Stamped
<1>5. CASE PacerRecv
  <2>1. queue \in Seq(Msg) /\ queue # <<>> /\ cur' = Head(queue) /\ queue' = Tail(queue)
        /\ epoch' = epoch
    BY <1>5 DEF PacerRecv, TypeOK, stopVars
  <2>2. /\ Head(queue) = queue[1] /\ 1 \in DOMAIN queue
        /\ \A i \in DOMAIN Tail(queue) : i + 1 \in DOMAIN queue /\ Tail(queue)[i] = queue[i + 1]
    BY <2>1, HeadTailProperties, LenProperties
  <2> QED BY <2>1, <2>2 DEF Stamped
<1>6. CASE PacerSend \/ PacerSendLost \/ PacerSkip \/ PacerRecheck \/ Reconnect
  <2>1. queue' = queue \/ queue' = <<>>
    BY <1>6 DEF PacerSend, PacerSendLost, PacerSkip, PacerRecheck, Reconnect, channelVars
  <2>2. cur' = cur \/ cur' = NoMsg
    BY <1>6 DEF PacerSend, PacerSendLost, PacerSkip, PacerRecheck, Reconnect
  <2>3. epoch' = epoch \/ (epoch' = 0 /\ queue' = <<>> /\ cur' = NoMsg)
    BY <1>6 DEF PacerSend, PacerSendLost, PacerSkip, PacerRecheck, Reconnect, stopVars
  <2>4. NoMsg.epoch = 0 /\ epoch \in Nat
    BY DEF NoMsg, TypeOK
  <2> QED BY <2>1, <2>2, <2>3, <2>4 DEF Stamped
<1>7. CASE PacerAdmit \/ EditLimit \/ Drop \/ Tick \/ UNCHANGED vars
  <2>1. UNCHANGED <<queue, cur, epoch>>
    BY <1>7 DEF PacerAdmit, EditLimit, Drop, Tick, vars, channelVars, pacerVars, stopVars
  <2> QED BY <2>1 DEF Stamped
<1> QED
  BY <1>1, <1>2, <1>3, <1>4, <1>5, <1>6, <1>7 DEF Next, PacerStep

\* Every step keeps what a stop! withdrew within reach of the next look.
LEMMA StepStraggler == TypeOK /\ StragglerInv /\ [Next]_vars => StragglerInv'
<1> SUFFICES ASSUME TypeOK, StragglerInv, [Next]_vars PROVE StragglerInv'
  OBVIOUS
<1> Stamped'
  BY StepStamped DEF StragglerInv
<1>1. CASE UNCHANGED <<withdrawn, stragglers, pacer, cur, epoch>>
  BY <1>1 DEF StragglerInv, Discards
<1>2. CASE StopBump
  <2>1. \A m \in Unsent : m.epoch <= epoch /\ m.epoch \in Nat
    BY EpochType DEF StragglerInv, Stamped, Unsent
  <2>2. epoch \in Nat /\ epoch' = epoch + 1 /\ stragglers' = 0
        /\ withdrawn' = {m \in Unsent : ~m.note}
    BY <1>2 DEF StopBump, TypeOK
  <2>3. \A m \in withdrawn' : Discards(m, epoch')
    BY <2>1, <2>2 DEF Discards
  <2> QED BY <2>2, <2>3 DEF StragglerInv
<1>3. CASE PacerRecv \/ PacerSkip \/ PacerAdmit \/ PacerSendLost
  BY <1>3 DEF StragglerInv, PacerRecv, PacerSkip, PacerAdmit, PacerSendLost, stopVars, wireVars
<1>4. CASE PacerRecheck
  <2>1. pacer' = "cleared" => cur' = cur /\ ~Discards(cur, epoch)
    BY <1>4 DEF PacerRecheck, SecondLook
  <2>2. UNCHANGED <<withdrawn, stragglers, epoch>>
    BY <1>4 DEF PacerRecheck, stopVars, wireVars
  <2> QED BY <2>1, <2>2 DEF StragglerInv
<1>5. CASE PacerSend
  <2>1. stragglers' = stragglers + (IF cur \in withdrawn THEN 1 ELSE 0) /\ pacer' = "idle"
        /\ pacer = "cleared" /\ UNCHANGED <<withdrawn, epoch>>
    BY <1>5 DEF PacerSend, stopVars
  <2>2. stragglers' \in {0, 1}
    BY <2>1 DEF StragglerInv
  <2> QED BY <2>1, <2>2 DEF StragglerInv
<1>6. CASE Reconnect
  BY <1>6 DEF StragglerInv, Reconnect
<1>7. CASE Reply \/ Notify \/ StopAnswer \/ EditLimit \/ Drop \/ Tick \/ UNCHANGED vars
  <2>1. UNCHANGED <<withdrawn, stragglers, pacer, cur, epoch>>
    BY <1>7 DEF Reply, Notify, StopAnswer, EditLimit, Drop, Tick, vars, channelVars,
                pacerVars, stopVars, linkVars, wireVars
  <2> QED BY <1>1, <2>1
<1> QED
  BY <1>2, <1>3, <1>4, <1>5, <1>6, <1>7 DEF Next, PacerStep

\* Whatever is queued, stopped or edited, a stop! lets at most one of the
\* replies it withdrew leave: the one past the pacer's second check.
THEOREM StragglerCorrect == Spec => []AtMostOneStraggler
<1>1. Init => StragglerInv
  BY EmptySeq DEF Init, StragglerInv, Stamped, NoMsg
<1>2. StragglerInv => AtMostOneStraggler
  BY DEF StragglerInv, AtMostOneStraggler
<1> QED
  BY <1>1, <1>2, InitType, StepType, StepStraggler, PTL DEF Spec

-----------------------------------------------------------------------------
(* The burst bound. *)

\* r mirrors the youngest sends of a, and every send of a that r no longer
\* holds is MinWindow old.
Mirrors(a, r) ==
    LET d == Len(a) - Len(r)
    IN  /\ d >= 0
        /\ \A i \in 1..Len(r) : a[i + d] = r[i]
        /\ \A i \in 1..d : a[i] >= MinWindow

Bounded(a) == \A i \in 1..(Len(a) - MaxBurst) : a[i] >= MinWindow

\* A mirror of at most MaxBurst sends bounds what it mirrors.
LEMMA MirrorBounds ==
    ASSUME NEW a \in Seq(Age), NEW r \in Seq(Age), Mirrors(a, r), Len(r) <= MaxBurst
    PROVE  Bounded(a)
<1>1. Len(a) \in Nat /\ Len(r) \in Nat
  BY LenProperties
<1>2. ASSUME NEW i \in 1..(Len(a) - MaxBurst)
      PROVE  i \in 1..(Len(a) - Len(r))
  BY <1>1, <1>2, LimitsAssumption
<1> QED
  BY <1>2 DEF Mirrors, Bounded

\* Forgetting sends that are MinWindow old keeps the mirror.
LEMMA MirrorSuffix ==
    ASSUME NEW a \in Seq(Age), NEW r \in Seq(Age), Mirrors(a, r),
           NEW k \in 0..Len(r), \A i \in 1..k : r[i] >= MinWindow
    PROVE  Mirrors(a, SubSeq(r, k + 1, Len(r)))
<1> DEFINE t == SubSeq(r, k + 1, Len(r))
           n == Len(a)
           m == Len(r)
<1>1. n \in Nat /\ m \in Nat /\ k \in 0..m /\ n - m >= 0
  BY LenProperties DEF Mirrors
<1>2. Len(t) = m - k /\ \A i \in 1..Len(t) : t[i] = r[i + k]
  BY Suffix
<1>3. \A i \in 1..m : a[i + (n - m)] = r[i]
  BY DEF Mirrors
<1>4. \A i \in 1..(n - m) : a[i] >= MinWindow
  BY DEF Mirrors
<1> HIDE DEF t, n, m
<1>5. n - Len(t) = (n - m) + k /\ n - Len(t) >= 0
  BY <1>1, <1>2
<1>6. ASSUME NEW i \in 1..Len(t) PROVE a[i + (n - Len(t))] = t[i]
  <2>1. i + k \in 1..m /\ (i + k) + (n - m) = i + (n - Len(t))
    BY <1>1, <1>2, <1>5
  <2> QED BY <2>1, <1>2, <1>3
<1>7. ASSUME NEW i \in 1..(n - Len(t)) PROVE a[i] >= MinWindow
  <2>1. CASE i <= n - m
    BY <2>1, <1>1, <1>4, <1>5
  <2>2. CASE i > n - m
    <3>1. i - (n - m) \in 1..k /\ i - (n - m) \in 1..m /\ (i - (n - m)) + (n - m) = i
      BY <2>2, <1>1, <1>5
    <3> QED BY <3>1, <1>3
  <2> QED BY <2>1, <2>2, <1>1
<1>8. Mirrors(a, t)
  BY <1>5, <1>6, <1>7 DEF Mirrors, n
<1> QED BY <1>8 DEF t

\* A send is recorded on both sides.
LEMMA MirrorAppend ==
    ASSUME NEW a \in Seq(Age), NEW r \in Seq(Age), Mirrors(a, r), 0 \in Age
    PROVE  Mirrors(Append(a, 0), Append(r, 0))
<1> DEFINE b == Append(a, 0)
           t == Append(r, 0)
           n == Len(a)
           m == Len(r)
<1>1. n \in Nat /\ m \in Nat /\ n - m >= 0
  BY LenProperties DEF Mirrors
<1>2. Len(b) = n + 1 /\ (\A i \in 1..n : b[i] = a[i]) /\ b[n + 1] = 0
  BY AppendProperties
<1>3. Len(t) = m + 1 /\ (\A i \in 1..m : t[i] = r[i]) /\ t[m + 1] = 0
  BY AppendProperties
<1>4. \A i \in 1..m : a[i + (n - m)] = r[i]
  BY DEF Mirrors
<1>5. \A i \in 1..(n - m) : a[i] >= MinWindow
  BY DEF Mirrors
<1> HIDE DEF b, t, n, m
<1>6. Len(b) - Len(t) = n - m
  BY <1>1, <1>2, <1>3
<1>7. ASSUME NEW i \in 1..Len(t) PROVE b[i + (n - m)] = t[i]
  <2>1. CASE i = m + 1
    <3>1. i + (n - m) = n + 1
      BY <2>1, <1>1
    <3> QED BY <2>1, <3>1, <1>2, <1>3
  <2>2. CASE i # m + 1
    <3>1. i \in 1..m /\ i + (n - m) \in 1..n
      BY <2>2, <1>1, <1>3
    <3> QED BY <3>1, <1>2, <1>3, <1>4
  <2> QED BY <2>1, <2>2
<1>8. ASSUME NEW i \in 1..(n - m) PROVE b[i] >= MinWindow
  <2>1. i \in 1..n
    BY <1>1
  <2> QED BY <2>1, <1>2, <1>5
<1>9. Mirrors(b, t)
  BY <1>1, <1>6, <1>7, <1>8 DEF Mirrors
<1> QED BY <1>9 DEF b, t

\* Both sides age together.
LEMMA MirrorTick ==
    ASSUME NEW a \in Seq(Age), NEW r \in Seq(Age), Mirrors(a, r)
    PROVE  Mirrors([i \in DOMAIN a |-> Older(a[i])], [i \in DOMAIN r |-> Older(r[i])])
<1> DEFINE b == [i \in DOMAIN a |-> Older(a[i])]
           t == [i \in DOMAIN r |-> Older(r[i])]
           n == Len(a)
           m == Len(r)
<1>1. n \in Nat /\ m \in Nat /\ n - m >= 0
  BY LenProperties DEF Mirrors
<1>2. Len(b) = n /\ \A i \in 1..n : b[i] = Older(a[i]) /\ b[i] >= a[i]
  BY AgedSeq
<1>3. Len(t) = m /\ \A i \in 1..m : t[i] = Older(r[i])
  BY AgedSeq
<1>4. \A i \in 1..m : a[i + (n - m)] = r[i]
  BY DEF Mirrors
<1>5. \A i \in 1..(n - m) : a[i] >= MinWindow
  BY DEF Mirrors
<1>6. b \in Seq(Age)
  BY AgedSeq
<1>10. \A i \in 1..n : a[i] \in Age /\ b[i] \in Age
  BY <1>2, <1>6, ElementOfSeq
<1> HIDE DEF b, t, n, m
<1>7. ASSUME NEW i \in 1..m PROVE b[i + (n - m)] = t[i]
  <2>1. i + (n - m) \in 1..n
    BY <1>1
  <2> QED BY <2>1, <1>2, <1>3, <1>4
<1>8. ASSUME NEW i \in 1..(n - m) PROVE b[i] >= MinWindow
  <2>1. i \in 1..n
    BY <1>1
  <2> QED BY <2>1, <1>2, <1>5, <1>10, LimitsAssumption DEF Age
<1>9. Mirrors(b, t)
  BY <1>1, <1>2, <1>3, <1>7, <1>8 DEF Mirrors
<1> QED BY <1>9 DEF b, t

\* The wait of a message that found no slot ends when the oldest send counted
\* against it has aged out.
WaitCovers ==
    pacer = "waiting" /\ Len(recent) >= lim.max => recent[1] + nap >= lim.window

\* While the connection holds, the pacer's own record mirrors the wire; it
\* never counts more than MaxBurst sends and, past its wait, has room for one.
BurstInv ==
    /\ link => Mirrors(ages, recent)
    /\ Len(recent) <= MaxBurst
    /\ pacer = "cleared" => Len(recent) < MaxBurst
    /\ WaitCovers
    /\ Bounded(ages)

LEMMA BurstInit == Init => BurstInv
<1> SUFFICES ASSUME Init PROVE BurstInv
  OBVIOUS
<1>1. ages = <<>> /\ recent = <<>> /\ pacer = "idle"
  BY DEF Init
<1>2. Mirrors(<<>>, <<>>) /\ Bounded(<<>>) /\ Len(<<>>) <= MaxBurst
  BY LimitsAssumption DEF Mirrors, Bounded
<1> QED
  BY <1>1, <1>2 DEF BurstInv, WaitCovers

\* What type correctness says of the variables the burst bound is about.
LEMMA BurstTypes ==
    TypeOK => /\ ages \in Seq(Age) /\ recent \in Seq(Age)
              /\ Len(ages) \in Nat /\ Len(recent) \in Nat
              /\ lim \in Limits /\ limit \in Limits /\ nap \in Age
BY LenProperties DEF TypeOK, Age

\* A limit the pacer read, and with it the window it prunes and waits by.
LEMMA LimitBounds ==
    ASSUME NEW l \in Limits, NEW x \in Age
    PROVE  /\ x >= l.window => x >= MinWindow
           /\ \A n \in Nat : n < l.max => n < MaxBurst
           /\ \A n \in Nat : n <= MaxBurst => n - 1 < MaxBurst
BY LimitType, LimitsAssumption DEF Age

LEMMA BurstAdmit == TypeOK /\ BurstInv /\ PacerAdmit => BurstInv'
<1> SUFFICES ASSUME TypeOK, BurstInv, PacerAdmit PROVE BurstInv'
  OBVIOUS
<1>1. PICK k \in 0..Len(recent) :
          /\ AgedOut(k, limit.window)
          /\ recent' = SubSeq(recent, k + 1, Len(recent))
  BY DEF PacerAdmit
<1>2. /\ recent' \in Seq(Age) /\ Len(recent') = Len(recent) - k
      /\ \A i \in 1..Len(recent') : recent'[i] = recent[i + k]
  BY <1>1, BurstTypes, Suffix
<1>3. \A i \in 1..k : recent[i] >= MinWindow
  <2> SUFFICES ASSUME NEW i \in 1..k PROVE recent[i] >= MinWindow
    OBVIOUS
  <2>1. i \in 1..Len(recent)
    BY <1>1, BurstTypes
  <2>2. recent[i] \in Age
    BY <2>1, BurstTypes, ElementOfSeq
  <2>3. recent[i] >= limit.window
    BY <1>1 DEF AgedOut
  <2> QED BY <2>2, <2>3, LimitBounds, BurstTypes
<1>4. link' => Mirrors(ages', recent')
  <2>1. link' = link /\ ages' = ages
    BY DEF PacerAdmit, linkVars, wireVars
  <2> SUFFICES ASSUME link PROVE Mirrors(ages, recent')
    BY <2>1
  <2>2. Mirrors(ages, recent)
    BY DEF BurstInv
  <2> QED BY <1>1, <1>3, <2>2, BurstTypes, MirrorSuffix
<1>5. Len(recent') <= MaxBurst
  <2>1. Len(recent) <= MaxBurst
    BY DEF BurstInv
  <2> QED BY <1>2, <2>1, BurstTypes, LimitsAssumption
<1>6. WaitCovers'
  <2> SUFFICES ASSUME Len(recent') >= limit.max
               PROVE  recent'[1] + nap' >= limit.window
    BY DEF PacerAdmit, WaitCovers
  <2>1. 1 \in 1..Len(recent')
    BY <1>2, BurstTypes, LimitType, LenProperties
  <2>2. recent'[1] \in Age
    BY <1>2, <2>1, ElementOfSeq
  <2>3. nap' = limit.window - recent'[1]
    BY DEF PacerAdmit, Nap
  <2>4. limit.window \in Nat
    BY BurstTypes, LimitType
  <2> QED BY <2>2, <2>3, <2>4, LimitsAssumption DEF Age
<1>7. pacer' = "waiting" /\ ages' = ages
  BY DEF PacerAdmit, wireVars
<1> QED
  BY <1>4, <1>5, <1>6, <1>7 DEF BurstInv, Bounded

LEMMA BurstRecheck == TypeOK /\ BurstInv /\ PacerRecheck => BurstInv'
<1> SUFFICES ASSUME TypeOK, BurstInv, PacerRecheck PROVE BurstInv'
  OBVIOUS
<1>1. pacer = "waiting" /\ nap = 0 /\ ages' = ages /\ link' = link /\ lim' = lim
      /\ pacer' \in {"idle", "cleared"}
  BY DEF PacerRecheck, linkVars, wireVars
<1>2. lim.max \in 1..MaxBurst /\ lim.window \in Nat /\ Len(recent) \in Nat
      /\ Len(recent) <= MaxBurst
  BY BurstTypes, LimitType DEF BurstInv
<1>3. CASE Len(recent) >= lim.max
  <2>1. recent # <<>> /\ 1 \in 1..Len(recent) /\ 1 \in 0..Len(recent)
    BY <1>2, <1>3
  <2>2. recent' = SubSeq(recent, 1 + 1, Len(recent))
    <3>1. Tail(recent) = SubSeq(recent, 2, Len(recent))
      BY <2>1, BurstTypes, TailIsSubSeq
    <3> QED BY <1>3, <3>1 DEF PacerRecheck
  <2>3. recent[1] \in Age
    BY <2>1, BurstTypes, ElementOfSeq
  <2>4. recent[1] + 0 >= lim.window
    BY <1>1, <1>3 DEF BurstInv, WaitCovers
  <2>5. recent[1] >= MinWindow
    <3>1. recent[1] >= lim.window
      BY <2>3, <2>4 DEF Age
    <3> QED BY <2>3, <3>1, LimitBounds, BurstTypes
  <2>6. \A i \in 1..1 : recent[i] >= MinWindow
    BY <2>5
  <2>7. link => Mirrors(ages, recent')
    BY <2>1, <2>2, <2>6, BurstTypes, MirrorSuffix DEF BurstInv
  <2>8. Len(recent') = Len(recent) - 1
    BY <2>1, <2>2, BurstTypes, Suffix
  <2>9. Len(recent') < MaxBurst /\ Len(recent') <= MaxBurst
    BY <1>2, <2>8, LimitsAssumption
  <2> QED
    BY <1>1, <2>7, <2>9 DEF BurstInv, WaitCovers, Bounded
<1>4. CASE ~(Len(recent) >= lim.max)
  <2>1. recent' = recent
    BY <1>4 DEF PacerRecheck
  <2>2. Len(recent) < MaxBurst
    BY <1>2, <1>4, LimitsAssumption
  <2> QED
    BY <1>1, <2>1, <2>2 DEF BurstInv, WaitCovers, Bounded
<1> QED BY <1>3, <1>4

LEMMA BurstSend == TypeOK /\ BurstInv /\ PacerSend => BurstInv'
<1> SUFFICES ASSUME TypeOK, BurstInv, PacerSend PROVE BurstInv'
  OBVIOUS
<1>1. link /\ pacer' = "idle" /\ recent' = Append(recent, 0) /\ ages' = Append(ages, 0)
  BY DEF PacerSend
<1>2. 0 \in Age
  BY LimitsAssumption DEF Age
<1>3. Mirrors(ages', recent')
  BY <1>1, <1>2, BurstTypes, MirrorAppend DEF BurstInv
<1>4. recent' \in Seq(Age) /\ ages' \in Seq(Age) /\ Len(recent') = Len(recent) + 1
  BY <1>1, <1>2, BurstTypes, AppendProperties
<1>5. Len(recent') <= MaxBurst
  <2>1. Len(recent) < MaxBurst
    BY DEF PacerSend, BurstInv
  <2> QED BY <1>4, <2>1, BurstTypes, LimitsAssumption
<1>6. Bounded(ages')
  BY <1>3, <1>4, <1>5, MirrorBounds
<1> QED
  BY <1>1, <1>3, <1>5, <1>6 DEF BurstInv, WaitCovers

LEMMA BurstSendLost == TypeOK /\ BurstInv /\ PacerSendLost => BurstInv'
<1> SUFFICES ASSUME TypeOK, BurstInv, PacerSendLost PROVE BurstInv'
  OBVIOUS
<1>1. ~link' /\ ages' = ages /\ pacer' \in {"idle", "dead"}
  BY DEF PacerSendLost, linkVars, wireVars
<1>2. recent' = recent \/ recent' = Append(recent, 0)
  BY DEF PacerSendLost
<1>3. 0 \in Age
  BY LimitsAssumption DEF Age
<1>4. Len(Append(recent, 0)) = Len(recent) + 1
  BY <1>3, BurstTypes, AppendProperties
<1>5. Len(recent) < MaxBurst
  BY DEF PacerSendLost, BurstInv
<1>6. Len(recent') <= MaxBurst
  BY <1>2, <1>4, <1>5, BurstTypes, LimitsAssumption
<1> QED
  BY <1>1, <1>6 DEF BurstInv, WaitCovers, Bounded

LEMMA BurstTick == TypeOK /\ BurstInv /\ Tick => BurstInv'
<1> SUFFICES ASSUME TypeOK, BurstInv, Tick PROVE BurstInv'
  OBVIOUS
<1>1. /\ recent' = [i \in DOMAIN recent |-> Older(recent[i])]
      /\ ages' = [i \in DOMAIN ages |-> Older(ages[i])]
      /\ link' = link /\ pacer' = pacer /\ lim' = lim
      /\ nap' = IF nap > 0 THEN nap - 1 ELSE 0
  BY DEF Tick, linkVars
<1>2. /\ Len(recent') = Len(recent)
      /\ \A i \in 1..Len(recent) : recent'[i] = Older(recent[i])
  BY <1>1, BurstTypes, AgedSeq
<1>3. /\ ages' \in Seq(Age) /\ Len(ages') = Len(ages)
      /\ \A i \in 1..Len(ages) : ages'[i] >= ages[i]
  BY <1>1, BurstTypes, AgedSeq
<1>4. link' => Mirrors(ages', recent')
  BY <1>1, BurstTypes, MirrorTick DEF BurstInv
<1>5. WaitCovers'
  <2> SUFFICES ASSUME pacer = "waiting", Len(recent) >= lim.max
               PROVE  recent'[1] + nap' >= lim.window
    BY <1>1, <1>2 DEF WaitCovers
  <2>1. recent[1] + nap >= lim.window
    BY DEF BurstInv, WaitCovers
  <2>2. 1 \in 1..Len(recent)
    BY BurstTypes, LimitType
  <2>3. recent[1] \in Age /\ recent'[1] = Older(recent[1])
    BY <1>2, <2>2, BurstTypes, ElementOfSeq
  <2>4. lim.window \in MinWindow..MaxWindow /\ nap \in Age
    BY BurstTypes, LimitType
  <2>5. \A x, n \in Age, w \in MinWindow..MaxWindow :
            x + n >= w => Older(x) + (IF n > 0 THEN n - 1 ELSE 0) >= w
    BY LimitsAssumption DEF Age, Older
  <2> QED BY <1>1, <2>1, <2>3, <2>4, <2>5
<1>6. Bounded(ages')
  <2> SUFFICES ASSUME NEW i \in 1..(Len(ages) - MaxBurst) PROVE ages'[i] >= MinWindow
    BY <1>3 DEF Bounded
  <2>1. i \in 1..Len(ages)
    BY BurstTypes, LimitsAssumption
  <2>2. ages[i] >= MinWindow /\ ages'[i] >= ages[i]
    BY <1>3, <2>1 DEF BurstInv, Bounded
  <2>3. ages[i] \in Age /\ ages'[i] \in Age
    BY <1>3, <2>1, BurstTypes, ElementOfSeq
  <2> QED BY <2>2, <2>3, LimitsAssumption DEF Age
<1> QED
  BY <1>1, <1>2, <1>4, <1>5, <1>6 DEF BurstInv

LEMMA StepBurst == TypeOK /\ BurstInv /\ [Next]_vars => BurstInv'
<1> SUFFICES ASSUME TypeOK, BurstInv, [Next]_vars PROVE BurstInv'
  OBVIOUS
<1>1. CASE Reply \/ Notify \/ StopBump \/ StopAnswer \/ EditLimit \/ UNCHANGED vars
  <2>1. UNCHANGED <<link, ages, recent, pacer, lim, nap>>
    BY <1>1 DEF Reply, Notify, StopBump, StopAnswer, EditLimit, vars, pacerVars,
                linkVars, wireVars
  <2> QED BY <2>1 DEF BurstInv, WaitCovers, Bounded, Mirrors
<1>2. CASE PacerRecv \/ PacerSkip
  <2>1. UNCHANGED <<link, ages, recent>> /\ pacer' \in {"popped", "idle"}
    BY <1>2 DEF PacerRecv, PacerSkip, linkVars, wireVars
  <2> QED BY <2>1 DEF BurstInv, WaitCovers, Bounded, Mirrors
<1>3. CASE Drop
  <2>1. UNCHANGED <<ages, recent, pacer, lim, nap>> /\ ~link'
    BY <1>3 DEF Drop, pacerVars, wireVars
  <2> QED BY <2>1 DEF BurstInv, WaitCovers, Bounded
<1>4. CASE Reconnect
  <2>1. ages' = <<>> /\ recent' = <<>> /\ pacer' = "idle"
    BY <1>4 DEF Reconnect
  <2>2. Mirrors(<<>>, <<>>) /\ Bounded(<<>>) /\ Len(<<>>) <= MaxBurst
    BY LimitsAssumption DEF Mirrors, Bounded
  <2> QED BY <2>1, <2>2 DEF BurstInv, WaitCovers
<1> QED
  BY <1>1, <1>2, <1>3, <1>4, BurstAdmit, BurstRecheck, BurstSend, BurstSendLost,
     BurstTick DEF Next, PacerStep

\* For every set of limits the file may hold and every history of edits,
\* stops and reconnects: no MinWindow of a connection's life sees more than
\* MaxBurst messages leave.  With a single limit this is the limit itself.
THEOREM BurstCorrect == Spec => []BurstBound
<1>1. BurstInv => BurstBound
  BY DEF BurstInv, Bounded, BurstBound
<1> QED
  BY <1>1, InitType, StepType, BurstInit, StepBurst, PTL DEF Spec

-----------------------------------------------------------------------------
(* The queue implements what OutboundPromise promises. *)

EntryType == [id : 1..MaxMsgs, keep : BOOLEAN, void : BOOLEAN]

\* What OutboundPromise sees of the messages h, under an epoch, when the first
\* of them may be past its second look.
View(m, e, safe) == [id |-> m.id, keep |-> m.note, void |-> Discards(m, e) /\ ~safe]
Shown(h, e, safe) == [i \in DOMAIN h |-> View(h[i], e, i = 1 /\ safe)]

Backlog == [i \in DOMAIN Held |-> Entry(i)]

LEMMA BacklogIsShown == Backlog = Shown(Held, epoch, pacer = "cleared")
BY DEF Backlog, Entry, Shown, View

LEMMA ViewType ==
    ASSUME NEW m \in Msg, NEW e, NEW safe
    PROVE  /\ View(m, e, safe) \in EntryType
           /\ View(m, e, safe).id = m.id /\ View(m, e, safe).keep = m.note
           /\ View(m, e, safe).void <=> Discards(m, e) /\ ~safe
BY DEF View, EntryType, Msg

\* What is shown of a sequence of messages.
LEMMA ShownType ==
    ASSUME NEW h \in Seq(Msg), NEW e, NEW safe
    PROVE  /\ Shown(h, e, safe) \in Seq(EntryType)
           /\ Len(Shown(h, e, safe)) = Len(h)
           /\ DOMAIN Shown(h, e, safe) = 1..Len(h)
           /\ \A i \in 1..Len(h) : Shown(h, e, safe)[i] = View(h[i], e, i = 1 /\ safe)
<1> DEFINE t == Shown(h, e, safe)
<1>1. Len(h) \in Nat /\ DOMAIN h = 1..Len(h) /\ \A i \in 1..Len(h) : h[i] \in Msg
  BY LenProperties, ElementOfSeq
<1>2. DOMAIN t = 1..Len(h) /\ \A i \in 1..Len(h) : t[i] = View(h[i], e, i = 1 /\ safe)
  BY <1>1 DEF Shown
<1>3. t \in [1..Len(h) -> EntryType]
  <2>1. \A i \in 1..Len(h) : View(h[i], e, i = 1 /\ safe) \in EntryType
    BY <1>1, ViewType
  <2> QED BY <1>1, <2>1 DEF Shown
<1>4. t \in Seq(EntryType)
  BY <1>1, <1>3, SeqDef
<1>5. Len(t) = Len(h)
  BY <1>1, <1>2, <1>4, LenProperties
<1> QED BY <1>2, <1>4, <1>5

\* A message is added behind the others, where no stop! has been yet.
LEMMA ShownAppend ==
    ASSUME NEW h \in Seq(Msg), NEW m \in Msg, NEW e, NEW safe,
           ~Discards(m, e)
    PROVE  Shown(Append(h, m), e, safe)
             = Append(Shown(h, e, safe), [id |-> m.id, keep |-> m.note, void |-> FALSE])
<1> DEFINE g == Append(h, m)
           r == [id |-> m.id, keep |-> m.note, void |-> FALSE]
           t == Append(Shown(h, e, safe), r)
<1>1. /\ g \in Seq(Msg) /\ Len(g) = Len(h) + 1 /\ g[Len(h) + 1] = m
      /\ \A i \in 1..Len(h) : g[i] = h[i]
  BY AppendProperties
<1>2. r \in EntryType
  BY DEF EntryType, Msg
<1>3. Len(h) \in Nat
  BY LenProperties
<1>4. /\ t \in Seq(EntryType) /\ Len(t) = Len(h) + 1 /\ t[Len(h) + 1] = r
      /\ \A i \in 1..Len(h) : t[i] = View(h[i], e, i = 1 /\ safe)
  <2> HIDE DEF r
  <2>1. /\ Shown(h, e, safe) \in Seq(EntryType) /\ Len(Shown(h, e, safe)) = Len(h)
        /\ \A i \in 1..Len(h) : Shown(h, e, safe)[i] = View(h[i], e, i = 1 /\ safe)
    BY ShownType
  <2> QED BY <1>2, <2>1, AppendProperties
<1>5. View(m, e, Len(h) + 1 = 1 /\ safe) = r
  BY Zenon DEF View
<1> HIDE DEF g, r, t
<1>6. /\ Shown(g, e, safe) \in Seq(EntryType) /\ Len(Shown(g, e, safe)) = Len(g)
      /\ \A i \in 1..Len(g) : Shown(g, e, safe)[i] = View(g[i], e, i = 1 /\ safe)
  BY <1>1, ShownType
<1>7. \A i \in 1..Len(g) : Shown(g, e, safe)[i] = t[i]
  <2> TAKE i \in 1..Len(g)
  <2>1. CASE i \in 1..Len(h)
    BY <1>1, <1>4, <1>6, <2>1
  <2>2. CASE i = Len(h) + 1
    BY <1>1, <1>4, <1>5, <1>6, <2>2
  <2> QED BY <1>1, <1>3, <2>1, <2>2
<1>8. Shown(g, e, safe) = t
  BY <1>1, <1>4, <1>6, <1>7, SeqEqual
<1> QED BY <1>8 DEF g, r, t

\* The first of them leaves.
LEMMA ShownTail ==
    ASSUME NEW h \in Seq(Msg), h # <<>>, NEW e, NEW safe, NEW later, ~later
    PROVE  /\ Shown(h, e, safe) # <<>>
           /\ Head(Shown(h, e, safe)) = View(Head(h), e, safe)
           /\ Tail(Shown(h, e, safe)) = Shown(Tail(h), e, later)
<1> DEFINE s == Shown(h, e, safe)
           u == Shown(Tail(h), e, later)
<1>1. Len(h) \in Nat /\ Len(h) >= 1
  BY EmptySeq
<1>2. s \in Seq(EntryType) /\ Len(s) = Len(h) /\ \A i \in 1..Len(h) : s[i] = View(h[i], e, i = 1 /\ safe)
  BY ShownType
<1>3. Tail(h) \in Seq(Msg) /\ Len(Tail(h)) = Len(h) - 1 /\ \A i \in 1..Len(Tail(h)) : Tail(h)[i] = h[i + 1]
  BY HeadTailProperties
<1>4. u \in Seq(EntryType) /\ Len(u) = Len(h) - 1
      /\ \A i \in 1..(Len(h) - 1) : u[i] = View(h[i + 1], e, i = 1 /\ later)
  <2>1. /\ u \in Seq(EntryType) /\ Len(u) = Len(Tail(h))
        /\ \A i \in 1..Len(Tail(h)) : u[i] = View(Tail(h)[i], e, i = 1 /\ later)
    <3>1. PICK g \in Seq(Msg) : g = Tail(h)
      BY <1>3
    <3>2. /\ Shown(g, e, later) \in Seq(EntryType) /\ Len(Shown(g, e, later)) = Len(g)
          /\ \A i \in 1..Len(g) : Shown(g, e, later)[i] = View(g[i], e, i = 1 /\ later)
      BY ShownType
    <3> QED BY <3>1, <3>2
  <2> HIDE DEF u
  <2> QED BY <1>3, <2>1
<1> HIDE DEF s, u
<1>5. s # <<>>
  BY <1>1, <1>2, EmptySeq
<1>6. Tail(s) \in Seq(EntryType) /\ Len(Tail(s)) = Len(h) - 1 /\ \A i \in 1..(Len(h) - 1) : Tail(s)[i] = s[i + 1]
  BY <1>2, <1>5, HeadTailProperties
<1>7. \A i \in 1..(Len(h) - 1) : Tail(s)[i] = u[i]
  <2> TAKE i \in 1..(Len(h) - 1)
  <2>1. i + 1 \in 1..Len(h) /\ ~(i + 1 = 1)
    BY <1>1
  <2>2. Tail(s)[i] = View(h[i + 1], e, (i + 1) = 1 /\ safe)
    BY <1>2, <1>6, <2>1
  <2>3. View(h[i + 1], e, (i + 1) = 1 /\ safe) = View(h[i + 1], e, i = 1 /\ later)
    BY <2>1, Zenon DEF View
  <2> QED BY <1>4, <2>2, <2>3
<1>8. Tail(s) = u
  BY <1>4, <1>6, <1>7, SeqEqual
<1>9. Head(s) = View(Head(h), e, safe)
  <2>1. Head(s) = s[1] /\ Head(h) = h[1] /\ 1 \in 1..Len(h)
    BY <1>1, <1>2
  <2>2. View(h[1], e, 1 = 1 /\ safe) = View(h[1], e, safe)
    BY Zenon DEF View
  <2> QED BY <1>2, <2>1, <2>2
<1> QED BY <1>5, <1>8, <1>9 DEF s, u

\* A first message that no stop! reached looks the same past its second look.
LEMMA ShownCleared ==
    ASSUME NEW h \in Seq(Msg), NEW e, ~Discards(h[1], e), NEW safe, NEW later
    PROVE  Shown(h, e, safe) = Shown(h, e, later)
<1>1. \A i \in DOMAIN h : View(h[i], e, i = 1 /\ safe) = View(h[i], e, i = 1 /\ later)
  BY Zenon DEF View
<1> QED BY <1>1 DEF Shown

\* A stop! withdraws all the replies, but for one past its second look.
LEMMA ShownWithdrawn ==
    ASSUME NEW h \in Seq(Msg), NEW e \in Nat, NEW safe \in BOOLEAN,
           \A i \in 1..Len(h) : h[i].epoch <= e
    PROVE  LET s == Shown(h, e, safe)
               spared == IF safe THEN 1 ELSE 0
           IN  Shown(h, e + 1, safe)
                 = [i \in DOMAIN s |-> [s[i] EXCEPT !.void = @ \/ (~s[i].keep /\ i > spared)]]
<1> DEFINE s == Shown(h, e, safe)
           u == Shown(h, e + 1, safe)
           spared == IF safe THEN 1 ELSE 0
           New(i) == [s[i] EXCEPT !.void = @ \/ (~s[i].keep /\ i > spared)]
<1>1. /\ DOMAIN s = 1..Len(h) /\ \A i \in 1..Len(h) : s[i] = View(h[i], e, i = 1 /\ safe)
      /\ DOMAIN u = 1..Len(h) /\ \A i \in 1..Len(h) : u[i] = View(h[i], e + 1, i = 1 /\ safe)
  BY ShownType
<1>2. Len(h) \in Nat /\ \A i \in 1..Len(h) : h[i] \in Msg
  BY LenProperties, ElementOfSeq
<1>3. ASSUME NEW i \in 1..Len(h) PROVE New(i) = u[i]
  <2>1. h[i].epoch <= e /\ h[i].epoch \in Nat /\ h[i].note \in BOOLEAN
    BY <1>2 DEF Msg
  <2>2. (Discards(h[i], e + 1) <=> ~h[i].note) /\ (Discards(h[i], e) => ~h[i].note)
    BY <2>1 DEF Discards
  <2>3. (i > spared) <=> ~(i = 1 /\ safe)
    BY <1>2
  <2>4. New(i) = [id |-> h[i].id, keep |-> h[i].note,
                  void |-> (Discards(h[i], e) /\ ~(i = 1 /\ safe)) \/ (~h[i].note /\ i > spared)]
    <3>1. s[i] = [id |-> h[i].id, keep |-> h[i].note, void |-> Discards(h[i], e) /\ ~(i = 1 /\ safe)]
      BY <1>1 DEF View
    <3>2. Discards(h[i], e) \in BOOLEAN /\ (i > spared) \in BOOLEAN
      BY <1>2 DEF Discards
    <3>3. (Discards(h[i], e) /\ ~(i = 1 /\ safe)) \in BOOLEAN
      OBVIOUS
    <3>4. PICK c \in BOOLEAN : c = (Discards(h[i], e) /\ ~(i = 1 /\ safe))
      BY <3>3
    <3>5. PICK d \in BOOLEAN : d = (~h[i].note /\ i > spared)
      OBVIOUS
    <3>6. s[i] = [id |-> h[i].id, keep |-> h[i].note, void |-> c]
      BY <3>1, <3>4, Zenon
    <3>9. s[i].keep = h[i].note
      <4> HIDE DEF s
      <4> QED BY <3>6
    <3>7. New(i) = [s[i] EXCEPT !.void = @ \/ d]
      BY <3>5, <3>9, Zenon
    <3>8. [s[i] EXCEPT !.void = @ \/ d] = [id |-> h[i].id, keep |-> h[i].note, void |-> c \/ d]
      <4> HIDE DEF s
      <4> QED BY <3>6
    <3> QED BY <3>4, <3>5, <3>7, <3>8, Zenon
  <2>5. ((Discards(h[i], e) /\ ~(i = 1 /\ safe)) \/ (~h[i].note /\ i > spared))
          = (Discards(h[i], e + 1) /\ ~(i = 1 /\ safe))
    BY <2>2, <2>3
  <2>6. u[i] = [id |-> h[i].id, keep |-> h[i].note, void |-> Discards(h[i], e + 1) /\ ~(i = 1 /\ safe)]
    BY <1>1 DEF View
  <2> QED BY <2>4, <2>5, <2>6
<1>4. u = [i \in 1..Len(h) |-> u[i]]
  BY <1>1 DEF Shown
<1> QED BY <1>1, <1>3, <1>4
-----------------------------------------------------------------------------

\* A dead pacer leaves no queue behind, and dies with its connection.
PromiseInv == TypeOK /\ Stamped /\ (pacer = "dead" => ~link /\ queue = <<>>)

LEMMA PromiseInvInit == Init => PromiseInv
<1> SUFFICES ASSUME Init PROVE PromiseInv
  OBVIOUS
<1>1. TypeOK
  BY InitType
<1>2. Stamped
  BY EmptySeq DEF Init, Stamped, NoMsg
<1>3. pacer = "idle"
  BY DEF Init
<1> QED BY <1>1, <1>2, <1>3 DEF PromiseInv

LEMMA PromiseInvStep == PromiseInv /\ [Next]_vars => PromiseInv'
<1> SUFFICES ASSUME PromiseInv, [Next]_vars PROVE PromiseInv'
  OBVIOUS
<1>1. TypeOK' /\ Stamped'
  BY StepType, StepStamped DEF PromiseInv
<1>2. CASE Reply \/ Notify \/ StopAnswer
  <2>1. pacer' = pacer /\ link' = link /\ (pacer = "dead" => queue' = queue)
    BY <1>2 DEF Reply, Notify, StopAnswer, Queue, pacerVars, linkVars, channelVars
  <2> QED BY <1>1, <2>1 DEF PromiseInv
<1>3. CASE PacerStep
  <2>1. pacer' # "dead" \/ (~link /\ link' = link /\ queue' = <<>>)
    BY <1>3 DEF PacerStep, PacerRecv, PacerSkip, PacerAdmit, PacerRecheck, PacerSend, PacerSendLost,
                linkVars
  <2> QED BY <1>1, <2>1 DEF PromiseInv
<1>4. CASE StopBump \/ EditLimit \/ Tick \/ UNCHANGED vars
  <2>1. UNCHANGED <<pacer, link, queue>>
    BY <1>4 DEF StopBump, EditLimit, Tick, vars, pacerVars, channelVars, linkVars
  <2> QED BY <1>1, <2>1 DEF PromiseInv
<1>5. CASE Drop
  BY <1>1, <1>5 DEF Drop, PromiseInv, pacerVars, channelVars
<1>6. CASE Reconnect
  BY <1>1, <1>6 DEF Reconnect, PromiseInv
<1> QED BY <1>2, <1>3, <1>4, <1>5, <1>6 DEF Next

\* The backlog: the message in hand, then the queue.
LEMMA HeldType ==
    ASSUME TypeOK
    PROVE  /\ queue \in Seq(Msg) /\ Held \in Seq(Msg)
           /\ cur = NoMsg => Held = queue
           /\ cur # NoMsg =>
                 /\ cur \in Msg /\ pacer \notin {"idle", "dead"}
                 /\ Held = <<cur>> \o queue /\ Held # <<>>
                 /\ Held[1] = cur /\ Head(Held) = cur /\ Tail(Held) = queue
           /\ pacer \in {"idle", "dead"} <=> cur = NoMsg
<1>1. queue \in Seq(Msg) /\ (pacer \in {"idle", "dead"} => cur = NoMsg)
      /\ (pacer \notin {"idle", "dead"} => cur \in Msg)
  BY DEF TypeOK
<1>2. NoMsg \notin Msg
  BY DEF NoMsg, Msg
<1>3. CASE cur = NoMsg
  BY <1>1, <1>2, <1>3 DEF Held
<1>4. CASE cur # NoMsg
  <2>1. cur \in Msg /\ pacer \notin {"idle", "dead"}
    BY <1>1, <1>4
  <2>2. Held = <<cur>> \o queue
    BY <1>4 DEF Held
  <2>3. <<cur>> \in Seq(Msg) /\ Len(<<cur>>) = 1 /\ <<cur>>[1] = cur /\ Len(queue) \in Nat
    BY <1>1, <2>1, LenProperties
  <2>4. /\ Held \in Seq(Msg) /\ Len(Held) = Len(queue) + 1
        /\ \A i \in 1..(1 + Len(queue)) : Held[i] = IF i <= 1 THEN <<cur>>[i] ELSE queue[i - 1]
    BY <1>1, <2>2, <2>3, ConcatProperties
  <2>5. Held[1] = cur /\ Held # <<>>
    BY <2>3, <2>4, EmptySeq
  <2>6. Head(Held) = cur
    BY <2>4, <2>5
  <2>7. Tail(Held) = queue
    <3>1. Tail(Held) \in Seq(Msg) /\ Len(Tail(Held)) = Len(queue)
          /\ \A i \in 1..Len(queue) : Tail(Held)[i] = Held[i + 1]
      BY <2>3, <2>4, <2>5, HeadTailProperties
    <3>2. \A i \in 1..Len(queue) : Held[i + 1] = queue[i]
      BY <2>3, <2>4
    <3> QED BY <1>1, <3>1, <3>2, SeqEqual
  <2> QED BY <1>1, <1>4, <2>1, <2>2, <2>4, <2>5, <2>6, <2>7
<1> QED BY <1>3, <1>4

\* The message in hand and those behind it bear no later epoch.
LEMMA HeldStamped ==
    ASSUME TypeOK, Stamped
    PROVE  \A i \in 1..Len(Held) : Held[i].epoch <= epoch
<1>1. queue \in Seq(Msg) /\ Len(queue) \in Nat /\ DOMAIN queue = 1..Len(queue)
  BY LenProperties, HeldType
<1>2. CASE cur = NoMsg
  BY <1>1, <1>2, HeldType DEF Stamped
<1>3. CASE cur # NoMsg
  <2>1. Held \in Seq(Msg) /\ Held # <<>> /\ Held[1] = cur /\ Tail(Held) = queue
    BY <1>3, HeldType
  <2>2. Len(queue) = Len(Held) - 1 /\ \A i \in 1..Len(queue) : queue[i] = Held[i + 1]
    BY <2>1, HeadTailProperties
  <2>3. Len(Held) \in Nat
    BY <2>1, LenProperties
  <2> SUFFICES ASSUME NEW i \in 1..Len(Held) PROVE Held[i].epoch <= epoch
    OBVIOUS
  <2>4. CASE i = 1
    BY <2>1, <2>4 DEF Stamped
  <2>5. CASE i # 1
    <3>1. i - 1 \in 1..Len(queue) /\ Held[i] = queue[i - 1]
      BY <2>2, <2>3, <2>5
    <3> QED BY <1>1, <3>1 DEF Stamped
  <2> QED BY <2>4, <2>5
<1> QED BY <1>2, <1>3

\* What joins the queue joins the backlog.
LEMMA HeldAppend ==
    ASSUME TypeOK, NEW m \in Msg, queue' = Append(queue, m), cur' = cur
    PROVE  Held' = Append(Held, m)
<1>1. queue \in Seq(Msg)
  BY HeldType
<1>2. CASE cur = NoMsg
  BY <1>2 DEF Held
<1>3. CASE cur # NoMsg
  <2>1. <<cur>> \in Seq(Msg) /\ <<m>> \in Seq(Msg) /\ Held = <<cur>> \o queue /\ Held \in Seq(Msg)
    BY <1>3, HeldType
  <2>2. Held' = <<cur>> \o Append(queue, m)
    BY <1>3 DEF Held
  <2>3. Append(queue, m) = queue \o <<m>> /\ Append(Held, m) = Held \o <<m>>
    BY <1>1, <2>1, AppendIsConcat
  <2>4. <<cur>> \o (queue \o <<m>>) = (<<cur>> \o queue) \o <<m>>
    BY <1>1, <2>1, ConcatAssociative
  <2> QED BY <2>1, <2>2, <2>3, <2>4
<1> QED BY <1>2, <1>3

\* Where a stop! finds nothing behind, the view of the backlog stays.
LEMMA BacklogStays ==
    ASSUME TypeOK, UNCHANGED <<epoch, wire, link, nextId>>, Held' = Held,
           pacer' = "cleared" <=> pacer = "cleared"
    PROVE  UNCHANGED Promise!vars
<1>1. Backlog' = Backlog
  <2>1. (pacer' = "cleared") = (pacer = "cleared")
    OBVIOUS
  <2> QED BY <2>1 DEF Backlog, Entry
<1> QED BY <1>1 DEF Promise!vars, Backlog

\* Outbound::queue accepts the message, or finds the receiver gone.
LEMMA QueueKeepsPromise ==
    ASSUME PromiseInv, NEW note \in BOOLEAN, Queue(note),
           UNCHANGED <<epoch, pacer, cur, wire, link>>
    PROVE  Promise!Next
<1>1. TypeOK /\ nextId' = nextId + 1
  BY DEF PromiseInv, Queue
<1>2. CASE pacer = "dead"
  <2>1. ~link /\ queue' = queue
    BY <1>2 DEF PromiseInv, Queue
  <2>2. Backlog' = Backlog
    BY <2>1 DEF Backlog, Entry, Held
  <2>3. Promise!Refuse
    BY <1>1, <2>1, <2>2 DEF Promise!Refuse, Backlog
  <2> QED BY <2>3 DEF Promise!Next
<1>3. CASE pacer # "dead"
  <2> DEFINE m == [id |-> nextId, note |-> note, epoch |-> epoch]
  <2>1. queue' = Append(queue, m)
    BY <1>3 DEF Queue
  <2>2. m \in Msg /\ ~Discards(m, epoch)
    <3>1. epoch \in Nat /\ ~(epoch < epoch)
      BY <1>1 DEF TypeOK
    <3>2. m \in Msg
      BY <1>1, BoundsAssumption DEF TypeOK, Queue, Msg
    <3> QED BY <3>1, <3>2 DEF Discards
  <2>3. m.id = nextId /\ m.note = note
    OBVIOUS
  <2> HIDE DEF m
  <2>4. Held' = Append(Held, m) /\ Held \in Seq(Msg)
    BY <1>1, <2>1, <2>2, HeldAppend, HeldType
  <2>5. Backlog' = Shown(Append(Held, m), epoch, pacer = "cleared")
    BY <2>4 DEF Backlog, Entry, Shown, View
  <2>6. Backlog' = Append(Backlog, [id |-> nextId, keep |-> note, void |-> FALSE])
    BY <2>2, <2>3, <2>4, <2>5, BacklogIsShown, ShownAppend
  <2>7. Promise!Accept(note)
    BY <1>1, <2>6 DEF Promise!Accept, Backlog
  <2> QED BY <2>7 DEF Promise!Next
<1> QED BY <1>2, <1>3

LEMMA StopKeepsPromise ==
    ASSUME PromiseInv, StopBump
    PROVE  Promise!Next
<1>1. TypeOK /\ Stamped /\ epoch \in Nat /\ epoch' = epoch + 1
      /\ UNCHANGED <<queue, nextId, cur, pacer, wire, link>>
  BY DEF PromiseInv, StopBump, TypeOK, channelVars, pacerVars, linkVars
<1>2. Held' = Held /\ Held \in Seq(Msg)
  BY <1>1, HeldType DEF Held
<1>3. PICK safe \in BOOLEAN : safe <=> pacer = "cleared"
  OBVIOUS
<1>4. PICK spared \in {0, 1} : spared = IF safe THEN 1 ELSE 0
  OBVIOUS
<1>5. Backlog = Shown(Held, epoch, safe)
  <2>1. safe = (pacer = "cleared")
    BY <1>3
  <2> QED BY <2>1, BacklogIsShown
<1>6. Backlog' = Shown(Held, epoch + 1, safe)
  <2>1. safe = (pacer = "cleared")
    BY <1>3
  <2> QED BY <1>1, <1>2, <2>1 DEF Backlog, Entry, Shown, View
<1>7. Backlog' = [i \in DOMAIN Backlog |->
                    [Backlog[i] EXCEPT !.void = @ \/ (~Backlog[i].keep /\ i > spared)]]
  BY <1>1, <1>2, <1>4, <1>5, <1>6, HeldStamped, ShownWithdrawn
<1>8. Promise!Withdraw(spared)
  BY <1>1, <1>7 DEF Promise!Withdraw, Backlog
<1> QED BY <1>8 DEF Promise!Next

\* The message in hand is dropped, sent or lost: the backlog loses its first.
LEMMA HandLeaves ==
    ASSUME TypeOK, cur # NoMsg, UNCHANGED <<queue, epoch>>, cur' = NoMsg, pacer' # "cleared"
    PROVE  /\ Backlog # <<>> /\ Backlog' = Tail(Backlog)
           /\ Head(Backlog) = View(cur, epoch, pacer = "cleared")
<1>1. Held \in Seq(Msg) /\ Held # <<>> /\ Head(Held) = cur /\ Tail(Held) = queue
  BY HeldType
<1>2. Held' = queue
  BY DEF Held
<1>3. Backlog' = Shown(queue, epoch, pacer' = "cleared")
  BY <1>2 DEF Backlog, Entry, Shown, View
<1>4. PICK h \in Seq(Msg) : h = Held
  BY <1>1
<1>5. PICK safe : safe = (pacer = "cleared")
  OBVIOUS
<1>6. PICK later : later = (pacer' = "cleared")
  OBVIOUS
<1>7. h # <<>> /\ Head(h) = cur /\ Tail(h) = queue /\ ~later
  BY <1>1, <1>4, <1>6
<1>8. /\ Shown(h, epoch, safe) # <<>>
      /\ Head(Shown(h, epoch, safe)) = View(Head(h), epoch, safe)
      /\ Tail(Shown(h, epoch, safe)) = Shown(Tail(h), epoch, later)
  BY <1>7, ShownTail
<1>9. Backlog = Shown(h, epoch, safe)
  BY <1>4, <1>5, BacklogIsShown
<1>10. Backlog' = Shown(Tail(h), epoch, later)
  BY <1>3, <1>6, <1>7
<1> QED BY <1>5, <1>7, <1>8, <1>9, <1>10

\* Forgotten is only what a stop! reached, before the second look.
LEMMA SkipKeepsPromise ==
    ASSUME PromiseInv, PacerSkip \/ (PacerRecheck /\ SecondLook)
    PROVE  Promise!Next
<1>1. /\ TypeOK /\ pacer \in {"popped", "waiting"} /\ Discards(cur, epoch)
      /\ pacer' = "idle" /\ cur' = NoMsg /\ UNCHANGED <<queue, nextId, epoch, wire, link>>
  BY DEF PromiseInv, PacerSkip, PacerRecheck, SecondLook, channelVars, stopVars, linkVars, wireVars
<1>2. cur # NoMsg /\ cur \in Msg
  BY <1>1, HeldType
<1>3. Backlog # <<>> /\ Backlog' = Tail(Backlog) /\ Head(Backlog) = View(cur, epoch, pacer = "cleared")
  BY <1>1, <1>2, HandLeaves
<1>4. Head(Backlog).void
  <2>1. PICK safe : safe = (pacer = "cleared")
    OBVIOUS
  <2>2. ~safe
    BY <1>1, <2>1
  <2>3. View(cur, epoch, safe).void
    BY <1>1, <1>2, <2>2, ViewType
  <2> QED BY <1>3, <2>1, <2>3
<1>5. Promise!Forget
  BY <1>1, <1>3, <1>4 DEF Promise!Forget, Backlog
<1> QED BY <1>5 DEF Promise!Next

\* What is sent comes first, and no stop! reached it in time.
LEMMA SendKeepsPromise ==
    ASSUME PromiseInv, PacerSend
    PROVE  Promise!Next
<1>1. /\ TypeOK /\ pacer = "cleared" /\ link /\ pacer' = "idle" /\ cur' = NoMsg
      /\ wire' = Append(wire, cur.id) /\ UNCHANGED <<queue, nextId, epoch, link>>
  BY DEF PromiseInv, PacerSend, channelVars, stopVars, linkVars
<1>2. cur # NoMsg /\ cur \in Msg
  BY <1>1, HeldType
<1>3. Backlog # <<>> /\ Backlog' = Tail(Backlog) /\ Head(Backlog) = View(cur, epoch, pacer = "cleared")
  BY <1>1, <1>2, HandLeaves
<1>4. ~Head(Backlog).void /\ Head(Backlog).id = cur.id
  <2>1. PICK safe : safe = (pacer = "cleared")
    OBVIOUS
  <2>2. safe
    BY <1>1, <2>1
  <2>3. ~View(cur, epoch, safe).void /\ View(cur, epoch, safe).id = cur.id
    BY <1>2, <2>2, ViewType
  <2> QED BY <1>3, <2>1, <2>3
<1>5. Promise!Deliver
  BY <1>1, <1>3, <1>4 DEF Promise!Deliver, Backlog
<1> QED BY <1>5 DEF Promise!Next

LEMMA LossKeepsPromise ==
    ASSUME PromiseInv, PacerSendLost
    PROVE  Promise!Next
<1>1. /\ TypeOK /\ pacer = "cleared" /\ ~link /\ pacer' \in {"idle", "dead"} /\ cur' = NoMsg
      /\ UNCHANGED <<nextId, epoch, wire, link>>
      /\ queue' = queue \/ queue' = <<>>
  BY DEF PromiseInv, PacerSendLost, stopVars, linkVars, wireVars
<1>2. cur # NoMsg
  BY <1>1, HeldType
<1>3. Backlog # <<>> /\ Backlog' \in {Tail(Backlog), <<>>}
  <2>1. CASE queue' = queue
    BY <1>1, <1>2, <2>1, HandLeaves
  <2>2. CASE queue' = <<>>
    <3>1. Held' = <<>> /\ DOMAIN <<>> = {}
      BY <1>1, <2>2, EmptySeq DEF Held
    <3>2. Backlog' = <<>>
      BY <3>1 DEF Backlog
    <3>3. Held \in Seq(Msg) /\ Held # <<>>
      BY <1>1, <1>2, HeldType
    <3>4. Backlog # <<>>
      BY <3>3, BacklogIsShown, ShownType, EmptySeq
    <3> QED BY <3>2, <3>4
  <2> QED BY <1>1, <2>1, <2>2
<1>4. Promise!Lose
  BY <1>1, <1>3 DEF Promise!Lose, Backlog
<1> QED BY <1>4 DEF Promise!Next

LEMMA LinkKeepsPromise ==
    ASSUME PromiseInv, Drop \/ Reconnect
    PROVE  Promise!Next
<1>1. CASE Drop
  <2>1. link /\ ~link' /\ link' = FALSE /\ UNCHANGED <<queue, nextId, epoch, pacer, cur, wire>>
    BY <1>1 DEF Drop, channelVars, pacerVars, stopVars, wireVars
  <2>2. Backlog' = Backlog
    BY <2>1 DEF Backlog, Entry, Held
  <2>3. Promise!Drop
    BY <2>1, <2>2 DEF Promise!Drop, Backlog
  <2> QED BY <2>3 DEF Promise!Next
<1>2. CASE Reconnect
  <2>1. ~link /\ link' = TRUE /\ queue' = <<>> /\ cur' = NoMsg /\ wire' = <<>> /\ UNCHANGED nextId
    BY <1>2 DEF Reconnect
  <2>2. Held' = <<>> /\ DOMAIN <<>> = {}
    BY <2>1, EmptySeq DEF Held
  <2>3. Backlog' = <<>>
    BY <2>2 DEF Backlog
  <2>4. Promise!Reconnect
    BY <2>1, <2>3 DEF Promise!Reconnect, Backlog
  <2> QED BY <2>4 DEF Promise!Next
<1> QED BY <1>1, <1>2

\* What the pacer does before a message settles is its own affair.
LEMMA PacerKeepsPromise ==
    ASSUME PromiseInv, PacerRecv \/ PacerAdmit \/ (PacerRecheck /\ ~SecondLook)
    PROVE  UNCHANGED Promise!vars
<1>1. TypeOK /\ UNCHANGED <<epoch, nextId, wire, link>>
  BY DEF PromiseInv, PacerRecv, PacerAdmit, PacerRecheck, channelVars, stopVars, linkVars, wireVars
<1>2. CASE PacerRecv
  <2>1. pacer = "idle" /\ pacer' = "popped" /\ queue # <<>> /\ cur' = Head(queue) /\ queue' = Tail(queue)
    BY <1>2 DEF PacerRecv
  <2>2. Held = queue /\ queue \in Seq(Msg)
    BY <1>1, <2>1, HeldType
  <2>3. Head(queue) \in Msg /\ Head(queue) # NoMsg
    <3>1. Head(queue) \in Msg
      BY <2>1, <2>2, HeadTailProperties
    <3>2. NoMsg \notin Msg
      BY DEF NoMsg, Msg
    <3> QED BY <3>1, <3>2
  <2>4. <<Head(queue)>> \o Tail(queue) = queue
    <3> DEFINE c == Head(queue)
               r == Tail(queue)
    <3>1. /\ r \in Seq(Msg) /\ Len(r) = Len(queue) - 1 /\ \A i \in 1..Len(r) : r[i] = queue[i + 1]
          /\ c = queue[1] /\ Len(queue) \in Nat /\ Len(queue) >= 1 /\ c \in Msg
      BY <2>1, <2>2, <2>3, HeadTailProperties, EmptySeq
    <3> HIDE DEF c, r
    <3>2. <<c>> \in Seq(Msg) /\ Len(<<c>>) = 1 /\ <<c>>[1] = c
      BY <3>1
    <3>3. /\ <<c>> \o r \in Seq(Msg) /\ Len(<<c>> \o r) = Len(queue)
          /\ \A i \in 1..Len(queue) : (<<c>> \o r)[i] = IF i <= 1 THEN <<c>>[i] ELSE r[i - 1]
      BY <3>1, <3>2, ConcatProperties
    <3>4. \A i \in 1..Len(queue) : (<<c>> \o r)[i] = queue[i]
      BY <3>1, <3>2, <3>3
    <3>5. <<c>> \o r = queue
      BY <2>2, <3>3, <3>4, SeqEqual
    <3> QED BY <3>5 DEF c, r
  <2>5. Held' = Held
    BY <2>1, <2>2, <2>3, <2>4 DEF Held
  <2> QED BY <1>1, <2>1, <2>5, BacklogStays
<1>3. CASE PacerAdmit
  <2>1. pacer = "popped" /\ pacer' = "waiting" /\ UNCHANGED <<queue, cur>>
    BY <1>3 DEF PacerAdmit, channelVars
  <2>2. Held' = Held
    BY <2>1 DEF Held
  <2> QED BY <1>1, <2>1, <2>2, BacklogStays
<1>4. CASE PacerRecheck /\ ~SecondLook
  <2>1. ~Discards(cur, epoch) /\ pacer = "waiting" /\ UNCHANGED <<queue, cur>>
    BY <1>4 DEF PacerRecheck, SecondLook, channelVars
  <2>2. Held \in Seq(Msg) /\ Held[1] = cur
    BY <1>1, <2>1, HeldType
  <2>3. Held' = Held
    BY <2>1 DEF Held
  <2>4. Backlog' = Shown(Held, epoch, pacer' = "cleared")
    BY <1>1, <2>3 DEF Backlog, Entry, Shown, View
  <2>5. Backlog' = Backlog
    BY <2>1, <2>2, <2>4, BacklogIsShown, ShownCleared
  <2> QED BY <1>1, <2>5 DEF Promise!vars, Backlog
<1> QED BY <1>2, <1>3, <1>4

LEMMA PromiseInit == Init => Promise!Init
<1> SUFFICES ASSUME Init PROVE Promise!Init
  OBVIOUS
<1>1. Held = <<>> /\ DOMAIN <<>> = {} /\ wire = <<>> /\ link = TRUE /\ nextId = 1
  BY EmptySeq DEF Init, Held
<1>2. Backlog = <<>>
  BY <1>1 DEF Backlog
<1> QED BY <1>1, <1>2 DEF Promise!Init, Backlog

LEMMA PromiseStep == PromiseInv /\ [Next]_vars => [Promise!Next]_(Promise!vars)
<1> SUFFICES ASSUME PromiseInv, [Next]_vars PROVE Promise!Next \/ UNCHANGED Promise!vars
  OBVIOUS
<1>1. CASE Reply \/ Notify \/ (StopAnswer /\ Queue(FALSE))
  <2>1. UNCHANGED <<epoch, pacer, cur, wire, link>>
    BY <1>1 DEF Reply, Notify, StopAnswer, pacerVars, stopVars, linkVars, wireVars
  <2>2. Queue(TRUE) \/ Queue(FALSE)
    BY <1>1 DEF Reply, Notify
  <2> QED BY <2>1, <2>2, QueueKeepsPromise
<1>2. CASE (StopAnswer /\ UNCHANGED channelVars) \/ EditLimit \/ Tick \/ UNCHANGED vars
  <2>1. UNCHANGED <<queue, nextId, epoch, pacer, cur, wire, link>>
    BY <1>2 DEF StopAnswer, EditLimit, Tick, vars, channelVars, pacerVars, stopVars, linkVars, wireVars
  <2>2. Held' = Held /\ TypeOK
    BY <2>1 DEF Held, PromiseInv
  <2> QED BY <2>1, <2>2, BacklogStays
<1>3. CASE StopAnswer
  <2>1. Queue(FALSE) \/ UNCHANGED channelVars
    BY <1>3 DEF StopAnswer
  <2> QED BY <1>1, <1>2, <1>3, <2>1
<1> QED
  BY <1>1, <1>2, <1>3, StopKeepsPromise, SkipKeepsPromise, SendKeepsPromise, LossKeepsPromise,
     LinkKeepsPromise, PacerKeepsPromise
  DEF Next, PacerStep

\* The queue keeps OutboundPromise, for all limits, edits, stops and lost
\* connections: messages leave in the order they were accepted, none twice,
\* and none is withheld that neither a stop! nor the connection took.
THEOREM PromiseCorrect == Spec => PromiseKept
BY PromiseInvInit, PromiseInvStep, PromiseInit, PromiseStep, PTL DEF Spec, PromiseKept, Promise!Spec
=============================================================================
