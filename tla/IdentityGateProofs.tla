------------------------- MODULE IdentityGateProofs -------------------------
(***************************************************************************)
(* Proofs about IdentityGate, for every set of nicks, every configuration  *)
(* and every limit.                                                        *)
(***************************************************************************)
EXTENDS IdentityGate, SequenceTheorems, FiniteSetTheorems, TLAPS

\* The two functions of auth.rs agree: the gate never declines what the
\* check made at the end would allow, for any options, nick and message.
THEOREM GateAgrees ==
    \A c \in Configs : \A n \in Nicks : \A direct, password \in BOOLEAN :
        Authorized(c, n, direct, password) => Gate(c, n, direct) = "proceed"
BY DEF Authorized, Gate

-----------------------------------------------------------------------------
(* Cooling nicks have nothing parked, and failures are remembered. *)

Entry == [failures : 0..(FailureLimit - 1), left : 0..Cooldown]

\* The part of type correctness the two invariants need.
GateTypes ==
    /\ pending \in [Nicks -> Batch]
    /\ cooldowns \in [Nicks -> Entry]
    /\ streak \in [Nicks -> 0..(FailureLimit - 1)]
    /\ asked \in Seq(Nicks)

\* The inductive invariant.
IInv == GateTypes /\ CoolingIsSilent /\ FailuresAreRemembered

LEMMA Numbers ==
    /\ FailureLimit \in Nat \ {0} /\ Cooldown \in Nat \ {0} /\ CommandLimit \in Nat \ {0}
    /\ WhoisTimeout \in Nat \ {0} /\ SweepInterval \in Nat \ {0} /\ Late \in Nat \ {0}
BY BoundsAssumption DEF Late

LEMMA Empties == Fresh \in Entry /\ NoBatch \in Batch /\ NoBatch.cmds = 0
BY Numbers DEF Fresh, Entry, NoBatch, Batch, Accounts

\* One more failure counts on, or starts a cooldown and counts from zero.
LEMMA OneFailure ==
    ASSUME NEW e \in Entry, NEW k \in 0..(FailureLimit - 1), e.failures = k
    PROVE  /\ Failed(e) \in Entry
           /\ Failed(e).failures = IF k + 1 = FailureLimit THEN 0 ELSE k + 1
<1>1. CASE e.failures + 1 < FailureLimit
  <2>1. Failed(e) = [e EXCEPT !.failures = @ + 1]
    BY <1>1 DEF Failed
  <2> QED BY <1>1, <2>1, Numbers DEF Entry
<1>2. CASE ~(e.failures + 1 < FailureLimit)
  <2>1. Failed(e) = [failures |-> 0, left |-> Cooldown]
    BY <1>2 DEF Failed
  <2> QED BY <1>2, <2>1, Numbers DEF Entry
<1> QED BY <1>1, <1>2

LEMMA InitIInv == Init => IInv
BY Empties, Numbers, EmptySeq
   DEF Init, IInv, GateTypes, CoolingIsSilent, FailuresAreRemembered, Cooling, Parked, Fresh

\* Parking a command: only a nick that is not being left alone gets here.
LEMMA ParkIInv ==
    ASSUME NEW n \in Nicks, IInv, ParkBehind(n) \/ ParkAndAsk(n)
    PROVE  IInv'
<1>1. ~Cooling(n) /\ cooldowns' = cooldowns /\ streak' = streak
  BY DEF ParkBehind, ParkAndAsk, LeftAlone
<1>2. pending' \in [Nicks -> Batch] /\ \A m \in Nicks \ {n} : pending'[m] = pending[m]
  <2>1. CASE ParkBehind(n)
    <3>1. pending[n] \in Batch
      BY DEF IInv, GateTypes
    <3>2. Joined(pending[n]) \in Batch
      BY <3>1, Numbers DEF Joined, Batch
    <3> QED BY <2>1, <3>2 DEF ParkBehind, IInv, GateTypes
  <2>2. CASE ParkAndAsk(n)
    <3>1. [cmds |-> 1, account |-> Nobody, age |-> 0] \in Batch
      BY Numbers DEF Batch, Accounts
    <3> QED BY <2>2, <3>1 DEF ParkAndAsk, IInv, GateTypes
  <2> QED BY <2>1, <2>2
<1>3. asked' \in Seq(Nicks)
  <2>1. asked' = asked \/ asked' = Append(asked, n)
    BY DEF ParkBehind, ParkAndAsk
  <2>2. asked \in Seq(Nicks)
    BY DEF IInv, GateTypes
  <2>3. Append(asked, n) \in Seq(Nicks)
    BY <2>2, AppendProperties
  <2> QED BY <2>1, <2>2, <2>3
<1>4. GateTypes'
  BY <1>1, <1>2, <1>3 DEF IInv, GateTypes
<1>5. CoolingIsSilent'
  BY <1>1, <1>2 DEF IInv, CoolingIsSilent, Cooling, Parked
<1>6. FailuresAreRemembered'
  BY <1>1 DEF IInv, FailuresAreRemembered
<1> QED BY <1>4, <1>5, <1>6 DEF IInv

LEMMA AccountIInv == ASSUME NEW a \in Accounts, IInv, AccountReply(a) PROVE IInv'
<1> DEFINE n == Head(asked)
<1>1. n \in Nicks
  BY HeadTailProperties DEF AccountReply, IInv, GateTypes
<1>2. /\ Parked(n) /\ pending' = [pending EXCEPT ![n].account = a]
      /\ cooldowns' = cooldowns /\ streak' = streak /\ asked' = asked
  BY DEF AccountReply
<1>3. pending[n] \in Batch
  BY <1>1 DEF IInv, GateTypes
<1>4. [pending[n] EXCEPT !.account = a] \in Batch
  BY <1>3 DEF Batch
<1>5. pending' \in [Nicks -> Batch]
  BY <1>1, <1>2, <1>4 DEF IInv, GateTypes
<1>6. \A m \in Nicks : pending'[m].cmds = pending[m].cmds
  BY <1>1, <1>2, <1>3 DEF IInv, GateTypes, Batch
<1> QED
  BY <1>2, <1>5, <1>6 DEF IInv, GateTypes, CoolingIsSilent, FailuresAreRemembered, Cooling, Parked

LEMMA EndIInv == ASSUME IInv, EndOfWhois PROVE IInv'
<1> DEFINE n == Head(asked)
<1>1. n \in Nicks /\ asked' \in Seq(Nicks)
  BY HeadTailProperties DEF EndOfWhois, IInv, GateTypes
<1>2. EndUnheeded(n) \/ EndVerified(n) \/ EndRefused(n)
  BY DEF EndOfWhois
<1>3. pending' = [pending EXCEPT ![n] = NoBatch]
  BY DEF EndOfWhois
<1>4. pending' \in [Nicks -> Batch] /\ pending'[n].cmds = 0
      /\ \A m \in Nicks \ {n} : pending'[m] = pending[m]
  BY <1>1, <1>3, Empties DEF IInv, GateTypes
<1>5. /\ cooldowns' \in [Nicks -> Entry] /\ streak' \in [Nicks -> 0..(FailureLimit - 1)]
      /\ \A m \in Nicks \ {n} : cooldowns'[m] = cooldowns[m] /\ streak'[m] = streak[m]
      /\ cooldowns'[n].failures = streak'[n]
  <2>1. CASE EndUnheeded(n)
    BY <1>1, <2>1 DEF EndUnheeded, IInv, GateTypes, FailuresAreRemembered
  <2>2. CASE EndVerified(n)
    BY <1>1, <2>2, Empties, Numbers DEF EndVerified, IInv, GateTypes, Fresh
  <2>3. CASE EndRefused(n)
    <3>1. cooldowns[n] \in Entry /\ streak[n] \in 0..(FailureLimit - 1)
          /\ cooldowns[n].failures = streak[n]
      BY <1>1 DEF IInv, GateTypes, FailuresAreRemembered
    <3>2. Failed(cooldowns[n]) \in Entry /\ Failed(cooldowns[n]).failures = NextStreak(n)
      BY <3>1, OneFailure DEF NextStreak
    <3>3. NextStreak(n) \in 0..(FailureLimit - 1)
      BY <3>1, Numbers DEF NextStreak
    <3> QED
      BY <1>1, <2>3, <3>2, <3>3 DEF EndRefused, Refuse, IInv, GateTypes
  <2> QED BY <1>2, <2>1, <2>2, <2>3
<1>6. GateTypes'
  BY <1>1, <1>4, <1>5 DEF GateTypes
<1>7. CoolingIsSilent'
  <2> SUFFICES ASSUME NEW m \in Nicks, Cooling(m)' PROVE ~Parked(m)'
    BY DEF CoolingIsSilent
  <2>1. CASE m = n
    BY <1>4, <2>1 DEF Parked
  <2>2. CASE m # n
    BY <1>4, <1>5, <2>2 DEF IInv, CoolingIsSilent, Cooling, Parked
  <2> QED BY <2>1, <2>2
<1>8. FailuresAreRemembered'
  <2> SUFFICES ASSUME NEW m \in Nicks PROVE cooldowns'[m].failures = streak'[m]
    BY DEF FailuresAreRemembered
  <2> QED BY <1>5 DEF IInv, FailuresAreRemembered
<1> QED BY <1>6, <1>7, <1>8 DEF IInv

\* A sweep: the nicks it expires fail once more, and pruning forgets nothing
\* that still counts.
LEMMA SweepIInv == ASSUME IInv, Sweep PROVE IInv'
<1>1. \A n \in Nicks :
          /\ cooldowns[n] \in Entry /\ streak[n] \in 0..(FailureLimit - 1)
          /\ cooldowns[n].failures = streak[n]
          /\ pending[n] \in Batch
  BY DEF IInv, GateTypes, FailuresAreRemembered
<1> DEFINE c == [n \in Nicks |-> IF Expired(n) THEN Failed(cooldowns[n]) ELSE cooldowns[n]]
<1>2. \A n \in Nicks : c[n] \in Entry /\ c[n].failures = streak'[n]
                       /\ streak'[n] \in 0..(FailureLimit - 1)
  <2> SUFFICES ASSUME NEW n \in Nicks
               PROVE  c[n] \in Entry /\ c[n].failures = streak'[n]
                      /\ streak'[n] \in 0..(FailureLimit - 1)
    OBVIOUS
  <2>1. CASE Expired(n)
    <3>1. c[n] = Failed(cooldowns[n]) /\ streak'[n] = NextStreak(n)
      BY <2>1 DEF Sweep
    <3>2. NextStreak(n) = IF streak[n] + 1 = FailureLimit THEN 0 ELSE streak[n] + 1
      BY DEF NextStreak
    <3> QED BY <1>1, <3>1, <3>2, OneFailure, Numbers
  <2>2. CASE ~Expired(n)
    <3>1. c[n] = cooldowns[n] /\ streak'[n] = streak[n]
      BY <2>2 DEF Sweep
    <3> QED BY <1>1, <3>1
  <2> QED BY <2>1, <2>2
<1>3. \A n \in Nicks : Prune(c)[n] \in Entry /\ Prune(c)[n].failures = c[n].failures
                       /\ (Prune(c)[n].left > 0 => c[n].left > 0)
  <2> SUFFICES ASSUME NEW n \in Nicks
               PROVE  Prune(c)[n] \in Entry /\ Prune(c)[n].failures = c[n].failures
                      /\ (Prune(c)[n].left > 0 => c[n].left > 0)
    OBVIOUS
  <2>1. Prune(c)[n] = IF c[n].failures > 0 \/ c[n].left > 0 THEN c[n] ELSE Fresh
    BY DEF Prune
  <2>2. c[n] \in Entry
    BY <1>2
  <2> HIDE DEF c
  <2>3. ~(c[n].failures > 0) => c[n].failures = 0
    BY <2>2, Numbers DEF Entry
  <2> QED BY <2>1, <2>2, <2>3, Empties DEF Fresh
<1>4. cooldowns' = Prune(c)
  BY DEF Sweep
<1>5. \A n \in Nicks : pending'[n] = IF Expired(n) THEN NoBatch ELSE pending[n]
  BY DEF Sweep
<1>6. GateTypes'
  <2>1. pending' \in [Nicks -> Batch]
    BY <1>1, Empties DEF Sweep
  <2>2. cooldowns' \in [Nicks -> Entry]
    <3>1. DOMAIN Prune(c) = Nicks /\ Prune(c) = [n \in Nicks |-> Prune(c)[n]]
      BY DEF Prune
    <3> QED BY <1>3, <1>4, <3>1
  <2>3. streak' \in [Nicks -> 0..(FailureLimit - 1)]
    <3>1. streak' = [n \in Nicks |-> streak'[n]]
      BY DEF Sweep
    <3> QED BY <1>2, <3>1
  <2>4. asked' = asked
    BY DEF Sweep
  <2> QED BY <2>1, <2>2, <2>3, <2>4 DEF IInv, GateTypes
<1>7. CoolingIsSilent'
  <2> SUFFICES ASSUME NEW n \in Nicks, Cooling(n)' PROVE ~Parked(n)'
    BY DEF CoolingIsSilent
  <2>1. CASE Expired(n)
    BY <1>5, <2>1, Empties DEF Parked
  <2>2. CASE ~Expired(n)
    <3>1. c[n] = cooldowns[n] /\ c[n].left > 0
      BY <1>3, <1>4, <2>2 DEF Cooling
    <3>2. ~Parked(n)
      BY <3>1 DEF IInv, CoolingIsSilent, Cooling
    <3> QED BY <1>5, <2>2, <3>2 DEF Parked
  <2> QED BY <2>1, <2>2
<1>8. FailuresAreRemembered'
  BY <1>2, <1>3, <1>4 DEF FailuresAreRemembered
<1> QED BY <1>6, <1>7, <1>8 DEF IInv

LEMMA TickIInv == ASSUME IInv, Tick PROVE IInv'
<1>1. \A n \in Nicks :
          /\ pending[n] \in Batch
          /\ cooldowns[n] \in Entry
  BY DEF IInv, GateTypes
<1>2. \A n \in Nicks : pending'[n] \in Batch /\ (pending'[n].cmds > 0 => Parked(n))
  <2> SUFFICES ASSUME NEW n \in Nicks
               PROVE  pending'[n] \in Batch /\ (pending'[n].cmds > 0 => Parked(n))
    OBVIOUS
  <2>1. CASE Parked(n)
    <3>1. pending'[n] = [pending[n] EXCEPT !.age = Older(@, Late)]
      BY <2>1 DEF Tick
    <3>2. \A a \in 0..Late : Older(a, Late) \in 0..Late
      BY Numbers DEF Older
    <3> QED BY <1>1, <2>1, <3>1, <3>2 DEF Batch
  <2>2. CASE ~Parked(n)
    <3>1. pending'[n] = NoBatch
      BY <2>2 DEF Tick
    <3> QED BY <3>1, Empties
  <2> QED BY <2>1, <2>2
<1>3. \A n \in Nicks : /\ cooldowns'[n] \in Entry
                       /\ cooldowns'[n].failures = cooldowns[n].failures
                       /\ (cooldowns'[n].left > 0 => cooldowns[n].left > 0)
  <2> SUFFICES ASSUME NEW n \in Nicks
               PROVE  /\ cooldowns'[n] \in Entry
                      /\ cooldowns'[n].failures = cooldowns[n].failures
                      /\ (cooldowns'[n].left > 0 => cooldowns[n].left > 0)
    OBVIOUS
  <2>1. cooldowns'[n] = [cooldowns[n] EXCEPT !.left = IF @ > 0 THEN @ - 1 ELSE 0]
    BY DEF Tick
  <2>2. \A x \in 0..Cooldown : LET y == IF x > 0 THEN x - 1 ELSE 0
                               IN  y \in 0..Cooldown /\ (y > 0 => x > 0)
    BY Numbers
  <2> QED BY <1>1, <2>1, <2>2 DEF Entry
<1>4. pending' = [n \in Nicks |-> pending'[n]] /\ cooldowns' = [n \in Nicks |-> cooldowns'[n]]
      /\ streak' = streak /\ asked' = asked
  BY DEF Tick
<1>5. GateTypes'
  BY <1>2, <1>3, <1>4 DEF IInv, GateTypes
<1>6. CoolingIsSilent'
  BY <1>2, <1>3 DEF IInv, CoolingIsSilent, Cooling, Parked
<1>7. FailuresAreRemembered'
  BY <1>3, <1>4 DEF IInv, FailuresAreRemembered
<1> QED BY <1>5, <1>6, <1>7 DEF IInv

LEMMA StepIInv == IInv /\ [Next]_vars => IInv'
<1> SUFFICES ASSUME IInv, [Next]_vars PROVE IInv'
  OBVIOUS
<1>1. ASSUME UNCHANGED <<pending, cooldowns, streak, asked>> PROVE IInv'
  BY <1>1 DEF IInv, GateTypes, CoolingIsSilent, FailuresAreRemembered, Cooling, Parked
<1>2. CASE Command
  <2>1. CASE \E n \in Nicks, direct \in BOOLEAN : Arrive(n, direct)
    BY <1>1, <2>1 DEF Arrive
  <2>2. CASE \E n \in Nicks : RunUnchecked(n) \/ TurnAway(n)
    BY <1>1, <2>2 DEF RunUnchecked, TurnAway
  <2>3. CASE \E n \in Nicks : ParkBehind(n) \/ ParkAndAsk(n)
    BY <2>3, ParkIInv
  <2>4. CASE RunNext
    BY <1>1, <2>4 DEF RunNext
  <2> QED BY <1>2, <2>1, <2>2, <2>3, <2>4 DEF Command
<1>3. CASE \E a \in Accounts \ {Nobody} : AccountReply(a)
  BY <1>3, AccountIInv
<1>4. CASE EndOfWhois
  BY <1>4, EndIInv
<1>5. CASE Sweep
  BY <1>5, SweepIInv
<1>6. CASE Tick
  BY <1>6, TickIInv
<1>7. CASE Drop
  <2>1. pending' \in [Nicks -> Batch] /\ \A n \in Nicks : pending'[n].cmds = 0
    BY <1>7, Empties DEF Drop
  <2>2. asked' \in Seq(Nicks)
    BY <1>7, EmptySeq DEF Drop
  <2>3. cooldowns' = cooldowns /\ streak' = streak
    BY <1>7 DEF Drop
  <2> QED
    BY <2>1, <2>2, <2>3
       DEF IInv, GateTypes, CoolingIsSilent, FailuresAreRemembered, Cooling, Parked
<1>8. CASE Reconnect \/ EditConfig \/ UNCHANGED vars
  BY <1>1, <1>8 DEF Reconnect, EditConfig, vars
<1> QED
  BY <1>2, <1>3, <1>4, <1>5, <1>6, <1>7, <1>8 DEF Next

\* A nick that is being left alone has nothing parked, whatever the server
\* answers, whenever the options change and however often the link drops.
THEOREM CoolingCorrect == Spec => []CoolingIsSilent
BY InitIInv, StepIInv, PTL DEF Spec, IInv

\* Failures count on until a success or a cooldown, whatever is pruned.
THEOREM FailuresCorrect == Spec => []FailuresAreRemembered
BY InitIInv, StepIInv, PTL DEF Spec, IInv

\* For the options of every reachable state the gate declines only what the
\* real check would refuse.
THEOREM GateCorrect == Spec => []GateAgreesWithCheck
<1>1. Init => config \in Configs
  BY DEF Init
<1>2. config \in Configs /\ [Next]_vars => (config \in Configs)'
  BY DEF Next, Command, Arrive, RunUnchecked, TurnAway, ParkBehind, ParkAndAsk, RunNext,
         AccountReply, EndOfWhois, Sweep, Tick, Drop, Reconnect, EditConfig, vars
<1>3. config \in Configs => GateAgreesWithCheck
  BY GateAgrees DEF GateAgreesWithCheck
<1> QED
  BY <1>1, <1>2, <1>3, PTL DEF Spec
-----------------------------------------------------------------------------
(* The rate of WHOISes. *)

Loops ==
    {Idle} \cup {[at |-> "gated", nick |-> n] : n \in Nicks}
           \cup {[at |-> "running", left |-> k] : k \in 1..CommandLimit}

\* What GateTypes leaves out.
OtherTypes ==
    /\ config \in Configs /\ up \in BOOLEAN /\ loop \in Loops
    /\ used \in 0..Budget /\ sinceRoll \in 0..Minute /\ asks \in Seq(0..(Minute - 1))
    /\ phase \in 1..SweepInterval /\ due \in BOOLEAN

\* The WHOISes a Minute can see: k of the window before, at least as old as
\* the present one, and those the present one has counted.
WindowInv ==
    \E k \in 0..Len(asks) :
        /\ k <= Budget /\ Len(asks) - k <= used
        /\ \A i \in 1..k : asks[i] >= sinceRoll

LEMMA Limits ==
    /\ Budget \in Nat /\ Budget >= 1 /\ Minute \in Nat /\ Minute >= 1
    /\ SweepInterval \in Nat /\ SweepInterval >= 1 /\ CommandLimit \in Nat /\ CommandLimit >= 1
BY BoundsAssumption

LEMMA LoopTypes ==
    /\ Idle \in Loops
    /\ \A n \in Nicks : [at |-> "gated", nick |-> n] \in Loops
    /\ \A k \in 1..CommandLimit : [at |-> "running", left |-> k] \in Loops
BY DEF Loops

LEMMA InitOther == Init => OtherTypes /\ WindowInv
<1> SUFFICES ASSUME Init PROVE OtherTypes /\ WindowInv
  OBVIOUS
<1>1. asks \in Seq(0..(Minute - 1)) /\ Len(asks) = 0
  BY EmptySeq DEF Init
<1>2. OtherTypes
  <2>1. used \in 0..Budget /\ sinceRoll \in 0..Minute /\ phase \in 1..SweepInterval
    BY Limits DEF Init
  <2> QED BY <1>1, <2>1, LoopTypes DEF Init, OtherTypes
<1>3. WindowInv
  <2>1. 0 \in 0..Len(asks) /\ 0 <= Budget /\ Len(asks) - 0 <= used
    BY <1>1, Limits DEF Init
  <2> QED BY <2>1 DEF WindowInv
<1> QED BY <1>2, <1>3

\* A check that is paid for is counted in its window.
LEMMA TakeWindow ==
    ASSUME OtherTypes, WindowInv, Take
    PROVE  /\ used' \in 0..Budget /\ sinceRoll' \in 0..Minute
           /\ asks' \in Seq(0..(Minute - 1)) /\ WindowInv'
<1> DEFINE n == Len(asks)
<1>1. /\ n \in Nat /\ (\A i \in 1..n : asks[i] \in 0..(Minute - 1))
      /\ used \in 0..Budget /\ sinceRoll \in 0..Minute
  BY LenProperties, ElementOfSeq DEF OtherTypes
<1>2. /\ asks' \in Seq(0..(Minute - 1)) /\ Len(asks') = n + 1
      /\ \A i \in 1..n : asks'[i] = asks[i]
  <2>1. 0 \in 0..(Minute - 1) /\ asks \in Seq(0..(Minute - 1)) /\ asks' = Append(asks, 0)
    BY Limits DEF OtherTypes, Take
  <2> QED BY <2>1, AppendProperties
<1>3. PICK k \in 0..n : k <= Budget /\ n - k <= used /\ \A i \in 1..k : asks[i] >= sinceRoll
  BY DEF WindowInv
<1> HIDE DEF n
<1>4. CASE Rolled
  <2>1. used' = 1 /\ sinceRoll' = 0
    BY <1>4 DEF Take
  <2>2. k = 0
    <3> SUFFICES ASSUME k # 0 PROVE FALSE
      OBVIOUS
    <3>1. 1 \in 1..k /\ 1 \in 1..n
      BY <1>1
    <3> QED BY <3>1, <1>1, <1>3, <1>4, Limits DEF Rolled
  <2>3. n <= Budget /\ \A i \in 1..n : asks'[i] >= sinceRoll'
    BY <1>1, <1>2, <1>3, <2>1, <2>2, Limits
  <2>4. n \in 0..Len(asks') /\ Len(asks') - n <= used'
    BY <1>1, <1>2, <2>1
  <2> QED BY <1>2, <2>1, <2>3, <2>4, Limits DEF WindowInv
<1>5. CASE ~Rolled
  <2>1. used' = used + 1 /\ sinceRoll' = sinceRoll /\ used < Budget
    BY <1>5 DEF Take, Affordable
  <2>2. k \in 0..Len(asks') /\ Len(asks') - k <= used'
    BY <1>1, <1>2, <1>3, <2>1
  <2>3. \A i \in 1..k : asks'[i] >= sinceRoll'
    BY <1>1, <1>2, <1>3, <2>1
  <2>4. used' \in 0..Budget /\ sinceRoll' \in 0..Minute
    BY <1>1, <2>1, Limits
  <2>5. WindowInv'
    BY <1>3, <2>2, <2>3 DEF WindowInv
  <2> QED BY <1>2, <2>4, <2>5
<1> QED BY <1>4, <1>5

\* With a tick all grow older, and what is a Minute old is forgotten.
LEMMA TickWindow ==
    ASSUME OtherTypes, WindowInv, Tick
    PROVE  sinceRoll' \in 0..Minute /\ asks' \in Seq(0..(Minute - 1)) /\ WindowInv'
<1> DEFINE n == Len(asks)
<1>1. /\ n \in Nat /\ (\A i \in 1..n : asks[i] \in 0..(Minute - 1))
      /\ used \in 0..Budget /\ sinceRoll \in 0..Minute
  BY LenProperties, ElementOfSeq DEF OtherTypes
<1>2. sinceRoll' \in 0..Minute /\ sinceRoll' <= sinceRoll + 1 /\ used' = used
  BY <1>1, Limits DEF Tick, Older
<1>3. PICK d \in 0..n : Forgotten(d) /\ asks' = [i \in 1..(n - d) |-> asks[i + d] + 1]
  BY DEF Tick
<1>4. \A i \in 1..(n - d) : asks'[i] = asks[i + d] + 1 /\ i + d \in (d + 1)..n
  BY <1>1, <1>3
<1>5. \A i \in 1..(n - d) : asks'[i] \in 0..(Minute - 1)
  <2> TAKE i \in 1..(n - d)
  <2>1. asks[i + d] + 1 < Minute /\ i + d \in 1..n
    BY <1>1, <1>3, <1>4 DEF Forgotten
  <2> QED BY <1>1, <1>4, <2>1, Limits
<1>6. asks' \in Seq(0..(Minute - 1)) /\ Len(asks') = n - d
  <2>1. n - d \in Nat
    BY <1>1
  <2>2. asks' \in [1..(n - d) -> 0..(Minute - 1)]
    <3>1. DOMAIN asks' = 1..(n - d) /\ asks' = [i \in 1..(n - d) |-> asks'[i]]
      BY <1>3
    <3> HIDE DEF n
    <3> QED BY <1>5, <3>1
  <2>3. asks' \in Seq(0..(Minute - 1))
    BY <2>1, <2>2, SeqDef
  <2> QED BY <2>1, <2>2, <2>3, LenProperties
<1>7. PICK k \in 0..n : k <= Budget /\ n - k <= used /\ \A i \in 1..k : asks[i] >= sinceRoll
  BY DEF WindowInv
<1> HIDE DEF n
<1>8. CASE k >= d
  <2>1. k - d \in 0..Len(asks') /\ k - d <= Budget /\ Len(asks') - (k - d) <= used'
    BY <1>1, <1>2, <1>6, <1>7, <1>8, Limits
  <2>2. ASSUME NEW i \in 1..(k - d) PROVE asks'[i] >= sinceRoll'
    <3>1. i \in 1..(n - d) /\ i + d \in 1..k /\ i + d \in 1..n
      BY <1>1, <1>8
    <3>2. asks'[i] = asks[i + d] + 1 /\ asks[i + d] >= sinceRoll /\ asks[i + d] \in 0..(Minute - 1)
      BY <3>1, <1>1, <1>4, <1>7
    <3> QED BY <3>2, <1>1, <1>2
  <2> QED BY <1>2, <1>6, <2>1, <2>2 DEF WindowInv
<1>9. CASE k < d
  <2>1. 0 \in 0..Len(asks') /\ 0 <= Budget /\ Len(asks') - 0 <= used'
    BY <1>1, <1>2, <1>6, <1>7, <1>9, Limits
  <2>2. \A i \in 1..0 : asks'[i] >= sinceRoll'
    OBVIOUS
  <2> QED BY <1>2, <1>6, <2>1, <2>2 DEF WindowInv
<1> QED BY <1>1, <1>7, <1>8, <1>9

LEMMA StepOther ==
    IInv /\ OtherTypes /\ WindowInv /\ [Next]_vars => OtherTypes' /\ WindowInv'
<1> SUFFICES ASSUME IInv, OtherTypes, WindowInv, [Next]_vars PROVE OtherTypes' /\ WindowInv'
  OBVIOUS
<1>1. ASSUME UNCHANGED <<up, phase, due, budgetVars>>, config' \in Configs, loop' \in Loops
      PROVE  OtherTypes' /\ WindowInv'
  BY <1>1 DEF OtherTypes, WindowInv, budgetVars
<1>2. config \in Configs /\ loop \in Loops /\ up \in BOOLEAN /\ phase \in 1..SweepInterval
      /\ due \in BOOLEAN
  BY DEF OtherTypes
<1>3. ASSUME NEW n \in Nicks, NEW direct \in BOOLEAN, Arrive(n, direct)
      PROVE  OtherTypes' /\ WindowInv'
  BY <1>1, <1>2, <1>3, LoopTypes DEF Arrive, sweepVars
<1>4. ASSUME NEW n \in Nicks, RunUnchecked(n) \/ TurnAway(n) \/ ParkBehind(n)
      PROVE  OtherTypes' /\ WindowInv'
  <2>1. loop' \in Loops
    BY <1>4, LoopTypes, Limits DEF RunUnchecked, TurnAway, ParkBehind
  <2> QED BY <1>1, <1>2, <1>4, <2>1 DEF RunUnchecked, TurnAway, ParkBehind, sweepVars
<1>5. ASSUME NEW n \in Nicks, ParkAndAsk(n) PROVE OtherTypes' /\ WindowInv'
  <2>1. loop' \in Loops /\ UNCHANGED <<config, up, phase, due>> /\ Take
    BY <1>5, LoopTypes DEF ParkAndAsk, sweepVars
  <2> QED BY <1>2, <2>1, TakeWindow DEF OtherTypes
<1>6. CASE RunNext
  <2>1. loop' \in Loops
    <3>1. PICK k \in 1..CommandLimit : loop = [at |-> "running", left |-> k]
      BY <1>2, <1>6 DEF RunNext, Loops, Idle
    <3>2. loop' = Idle \/ (k > 1 /\ loop' = [at |-> "running", left |-> k - 1])
      BY <1>6, <3>1 DEF RunNext
    <3>3. k > 1 => k - 1 \in 1..CommandLimit
      BY Limits
    <3> QED BY <3>2, <3>3, LoopTypes
  <2> QED BY <1>1, <1>2, <1>6, <2>1 DEF RunNext, sweepVars
<1>7. ASSUME NEW a \in Accounts, AccountReply(a) PROVE OtherTypes' /\ WindowInv'
  BY <1>1, <1>2, <1>7 DEF AccountReply, sweepVars
<1>8. CASE EndOfWhois
  <2>1. Head(asked) \in Nicks
    <3>1. asked \in Seq(Nicks) /\ asked # <<>>
      BY <1>8 DEF EndOfWhois, IInv, GateTypes
    <3> QED BY <3>1, HeadTailProperties
  <2>2. PICK n \in Nicks : EndUnheeded(n) \/ EndVerified(n) \/ EndRefused(n)
    BY <1>8, <2>1 DEF EndOfWhois
  <2>3. loop' \in Loops
    <3>1. CASE EndVerified(n)
      <4>1. pending[n].cmds \in 1..CommandLimit
        BY <3>1, Limits DEF EndVerified, Parked, IInv, GateTypes, Batch
      <4> QED BY <3>1, <4>1, LoopTypes DEF EndVerified
    <3> QED BY <1>2, <2>2, <3>1 DEF EndUnheeded, EndRefused
  <2> QED BY <1>1, <1>2, <1>8, <2>3 DEF EndOfWhois, sweepVars
<1>9. CASE Sweep
  <2>1. UNCHANGED <<config, up, loop, budgetVars, phase>> /\ due' \in BOOLEAN
    BY <1>9 DEF Sweep
  <2> QED BY <2>1 DEF OtherTypes, WindowInv, budgetVars
<1>10. CASE Tick
  <2>1. UNCHANGED <<config, up, loop, used>>
    BY <1>10 DEF Tick
  <2>2. phase' \in 1..SweepInterval /\ due' \in BOOLEAN
    <3>1. NextPhase \in 1..SweepInterval
      BY <1>2, Limits DEF NextPhase
    <3>2. CASE up
      BY <1>2, <1>10, <3>1, <3>2 DEF Tick
    <3>3. CASE ~up
      BY <1>2, <1>10, <3>3 DEF Tick, sweepVars
    <3> QED BY <3>2, <3>3
  <2>3. sinceRoll' \in 0..Minute /\ asks' \in Seq(0..(Minute - 1)) /\ WindowInv'
    BY <1>10, TickWindow
  <2> QED BY <2>1, <2>2, <2>3 DEF OtherTypes
<1>11. CASE Drop
  <2>1. UNCHANGED <<config, loop, budgetVars, phase, due>> /\ up' \in BOOLEAN
    BY <1>11 DEF Drop, sweepVars
  <2> QED BY <2>1 DEF OtherTypes, WindowInv, budgetVars
<1>12. CASE Reconnect
  <2>1. UNCHANGED <<config, loop, budgetVars>> /\ up' \in BOOLEAN
        /\ phase' = SweepInterval /\ due' = FALSE
    BY <1>12 DEF Reconnect
  <2>2. SweepInterval \in 1..SweepInterval
    BY Limits
  <2> QED BY <2>1, <2>2 DEF OtherTypes, WindowInv, budgetVars
<1>13. CASE EditConfig
  BY <1>1, <1>2, <1>13 DEF EditConfig, sweepVars
<1>14. CASE UNCHANGED vars
  BY <1>1, <1>2, <1>14 DEF vars, sweepVars
<1> QED
  BY <1>3, <1>4, <1>5, <1>6, <1>7, <1>8, <1>9, <1>10, <1>11, <1>12, <1>13, <1>14
  DEF Next, Command

\* Batches keep within their limit, and every variable to its type.
THEOREM TypeCorrect == Spec => []TypeOK
<1>1. IInv /\ OtherTypes => TypeOK
  BY DEF IInv, GateTypes, OtherTypes, Loops, Entry, TypeOK
<1> QED
  BY <1>1, InitIInv, StepIInv, InitOther, StepOther, PTL DEF Spec

\* WhoisBudget's window is fixed: no minute sees more than two budgets of
\* WHOISes, one of each window it touches, for any budget and any minute.
THEOREM RateCorrect == Spec => []WhoisRateBounded
<1>1. OtherTypes /\ WindowInv => WhoisRateBounded
  <2> SUFFICES ASSUME OtherTypes, WindowInv PROVE Len(asks) <= 2 * Budget
    BY DEF WhoisRateBounded
  <2>1. Len(asks) \in Nat /\ used \in 0..Budget
    BY LenProperties DEF OtherTypes
  <2>2. PICK k \in 0..Len(asks) : k <= Budget /\ Len(asks) - k <= used
    BY DEF WindowInv
  <2> QED BY <2>1, <2>2, Limits
<1> QED
  BY <1>1, InitIInv, StepIInv, InitOther, StepOther, PTL DEF Spec
=============================================================================
