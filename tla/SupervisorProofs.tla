-------------------------- MODULE SupervisorProofs --------------------------
(***************************************************************************)
(* Proofs about Supervisor, for any services, pids and delays.             *)
(***************************************************************************)
EXTENDS Supervisor, SequenceTheorems, TLAPS

LEMMA Numbers ==
    /\ BackoffMin \in Nat \ {0} /\ BackoffMax \in Nat \ {0} /\ BackoffMin <= BackoffMax
    /\ ShutdownGrace \in Nat
    /\ BackoffMin \in NotDue..BackoffMax /\ BackoffMax \in 0..BackoffMax
BY BoundsAssumption DEF NotDue

\* A process the kernel still knows, and whose it is.
Stands(p, s) == fate[p] # "free" /\ owner[p] = s

\* No exit waits twice in the channel, and none whose pid is free again.
ReaperInv ==
    /\ \A i \in DOMAIN reaped : fate[reaped[i]] = "reaped"
    /\ \A i, j \in DOMAIN reaped : reaped[i] = reaped[j] => i = j

\* Until the shutdown the two tables and the kernel agree, and what is to be
\* restarted has no process.
TableInv ==
    phase \in {"starting", "running"} =>
        /\ \A p \in Pids : byPid[p] = IF fate[p] = "free" THEN Orphan ELSE owner[p]
        /\ \A p \in Pids : \A s \in Services : Stands(p, s) <=> child[s] = p
        /\ \A s \in Services : restartAt[s] # NotDue => child[s] = NoPid

\* What has not been started has no process, and rTorrent no lock to fear.
StartInv ==
    phase = "starting" =>
        /\ \A s \in Services : restartAt[s] = NotDue
        /\ \A i \in (started + 1)..Len(Order) :
              /\ child[Order[i]] = NoPid /\ pace[Order[i]] = BackoffMax
              /\ Order[i] = Locker => lock \in {Unlocked, Tried, Foreign}

OneInv == \A p, q \in Pids : \A s \in Services : Stands(p, s) /\ Stands(q, s) => p = q

\* The lock is held by a process that runs.
LockInv == (lock \in Pids => Runs(lock, Locker)) /\ NoStaleLock

\* The delay that is left and the time since the start make up the last delay.
PaceInv ==
    \A s \in Services : restartAt[s] # NotDue => 2 * (restartAt[s] + pace[s]) >= backoff[s]

OurOwn == {p \in Pids : fate[p] # "free" /\ owner[p] \in Services}

\* From the first signal on, the children that are left are accounted for.
DownInv ==
    /\ phase = "stopping" => /\ outstanding = OurOwn
                             /\ outstanding \subseteq {child[s] : s \in Services}
    /\ ShutdownIsExact

Books ==
    ReaperInv /\ TableInv /\ StartInv /\ OneInv /\ LockInv /\ PaceInv /\ DownInv

\* The inductive invariant.
SupInv == TypeOK /\ Books

LEMMA InitSup == Init => SupInv
<1> SUFFICES ASSUME Init PROVE SupInv
  OBVIOUS
<1>1. TypeOK
  <2>1. Len(Order) \in Nat
    BY NamesAssumption, LenProperties
  <2>2. reaped \in Seq(Pids)
    BY EmptySeq DEF Init
  <2>3. bot \in [up : BOOLEAN, wait : 0..BackoffMax, backoff : BackoffMin..BackoffMax]
    BY Numbers DEF Init
  <2>4. /\ restartAt \in [Services -> NotDue..BackoffMax]
        /\ backoff \in [Services -> BackoffMin..BackoffMax]
        /\ pace \in [Services -> 0..BackoffMax] /\ graceLeft \in 0..ShutdownGrace
    BY Numbers DEF Init, NotDue
  <2>5. /\ fate \in [Pids -> {"free", "runs", "zombie", "reaped"}]
        /\ owner \in [Pids -> Owners] /\ byPid \in [Pids -> Owners]
        /\ child \in [Services -> Pids \cup {NoPid}]
    BY DEF Init, Owners
  <2>6. /\ phase \in {"starting", "running", "stopping", "gone"} /\ started \in 0..Len(Order)
        /\ signalled \in BOOLEAN /\ outstanding \subseteq Pids /\ killed \subseteq Pids
        /\ lock \in Pids \cup {Unlocked, Stale, Tried, Foreign}
    <3>1. started \in 0..Len(Order)
      BY <2>1 DEF Init
    <3> QED BY <3>1 DEF Init
  <2> QED BY <2>2, <2>3, <2>4, <2>5, <2>6 DEF TypeOK
<1>2. TableInv /\ StartInv
  BY NamesAssumption, Numbers, ElementOfSeq DEF Init, TableInv, StartInv, Stands, Unlocked, Foreign, Tried
<1>3. ReaperInv /\ OneInv /\ PaceInv /\ DownInv
  BY DEF Init, ReaperInv, OneInv, PaceInv, DownInv, Stands, ShutdownIsExact
<1>4. LockInv
  BY LockAssumption DEF Init, LockInv, NoStaleLock, Runs, Unlocked, Foreign, Stale, Tried
<1> QED BY <1>1, <1>2, <1>3, <1>4 DEF SupInv, Books

-----------------------------------------------------------------------------
(* Starting processes. *)

\* A pid that is given to a service, and one that is not; the same of a service.
Placed(p, which, pid) ==
    \/ UNCHANGED <<fate[p], owner[p], byPid[p]>> /\ \A s \in which : pid[s] # p
    \/ /\ fate[p] = "free" /\ fate'[p] = "runs"
       /\ \E s \in which : pid[s] = p /\ owner'[p] = s /\ byPid'[p] = s

Begun(s, which, pid) ==
    \/ UNCHANGED <<child[s], pace[s]>> /\ (s \in which => pid[s] = NoPid)
    \/ s \in which /\ pid[s] \in Pids /\ child'[s] = pid[s] /\ pace'[s] = 0

\* A pid that is spawned was free and is now the one service's it is given to;
\* the others, and the services that are not started, are left alone.
LEMMA SpawnFacts ==
    ASSUME TypeOK, NEW which \in SUBSET Services, NEW pid \in [which -> Free \cup {NoPid}],
           Spawned(which, pid)
    PROVE  /\ \A p \in Pids : Placed(p, which, pid)
           /\ \A s \in Services : Begun(s, which, pid)
           /\ \A s, t \in which : pid[s] = pid[t] /\ pid[s] # NoPid => s = t
<1> DEFINE ok == {s \in which : pid[s] # NoPid}
           of(p) == CHOOSE s \in ok : pid[s] = p
           new == {pid[s] : s \in ok}
<1>1. /\ \A s, t \in ok : s # t => pid[s] # pid[t]
      /\ fate'  = [p \in Pids |-> IF p \in new THEN "runs" ELSE fate[p]]
      /\ owner' = [p \in Pids |-> IF p \in new THEN of(p) ELSE owner[p]]
      /\ byPid' = [p \in Pids |-> IF p \in new THEN of(p) ELSE byPid[p]]
      /\ child' = [s \in Services |-> IF s \in ok THEN pid[s] ELSE child[s]]
      /\ pace'  = [s \in Services |-> IF s \in ok THEN 0 ELSE pace[s]]
  BY DEF Spawned
<1>2. ASSUME NEW p \in new PROVE of(p) \in ok /\ pid[of(p)] = p /\ fate[p] = "free"
  <2>1. PICK s \in ok : pid[s] = p
    OBVIOUS
  <2>2. p \in Free
    BY <2>1 DEF Free
  <2> QED BY <2>1, <2>2 DEF Free
<1>3. ASSUME NEW p \in Pids PROVE Placed(p, which, pid)
  <2>1. CASE p \in new
    BY <1>1, <1>2, <2>1 DEF Placed
  <2>2. CASE p \notin new
    <3>1. \A s \in which : pid[s] # p
      BY <2>2, NamesAssumption
    <3> QED BY <1>1, <2>2, <3>1 DEF Placed
  <2> QED BY <2>1, <2>2
<1>4. ASSUME NEW s \in Services PROVE Begun(s, which, pid)
  BY <1>1 DEF Free, Begun
<1> QED BY <1>1, <1>3, <1>4

LEMMA SpawnTypes ==
    ASSUME TypeOK, NEW which \in SUBSET Services, NEW pid \in [which -> Free \cup {NoPid}],
           Spawned(which, pid)
    PROVE  /\ fate' \in [Pids -> {"free", "runs", "zombie", "reaped"}]
           /\ owner' \in [Pids -> Owners] /\ byPid' \in [Pids -> Owners]
           /\ child' \in [Services -> Pids \cup {NoPid}] /\ pace' \in [Services -> 0..BackoffMax]
<1>1. /\ fate' = [p \in Pids |-> fate'[p]] /\ owner' = [p \in Pids |-> owner'[p]]
      /\ byPid' = [p \in Pids |-> byPid'[p]]
      /\ child' = [s \in Services |-> child'[s]] /\ pace' = [s \in Services |-> pace'[s]]
  BY DEF Spawned
<1>2. ASSUME NEW p \in Pids
      PROVE  /\ fate'[p] \in {"free", "runs", "zombie", "reaped"}
             /\ owner'[p] \in Owners /\ byPid'[p] \in Owners
  <2>1. Placed(p, which, pid)
    BY SpawnFacts
  <2> QED BY <2>1 DEF Placed, TypeOK, Owners
<1>3. ASSUME NEW s \in Services
      PROVE  child'[s] \in Pids \cup {NoPid} /\ pace'[s] \in 0..BackoffMax
  <2>1. Begun(s, which, pid)
    BY SpawnFacts
  <2> QED BY <2>1, Numbers DEF Begun, TypeOK
<1> QED BY <1>1, <1>2, <1>3

\* The tables agree after a spawn of services that had no process.
LEMMA SpawnKeeps ==
    ASSUME TypeOK, ReaperInv, TableInv, OneInv, PaceInv, phase \in {"starting", "running"},
           NEW which \in SUBSET Services, NEW pid \in [which -> Free \cup {NoPid}],
           Spawned(which, pid), \A s \in which : child[s] = NoPid
    PROVE  /\ \A p \in Pids : byPid'[p] = IF fate'[p] = "free" THEN Orphan ELSE owner'[p]
           /\ \A p \in Pids : \A s \in Services : Stands(p, s)' <=> child'[s] = p
           /\ \A p \in Pids : fate[p] # "free" => UNCHANGED <<fate[p], owner[p]>>
           /\ \A s \in Services \ which : UNCHANGED <<child[s], pace[s]>>
           /\ OneInv'
<1>0. /\ \A p \in Pids : Placed(p, which, pid)
      /\ \A s \in Services : Begun(s, which, pid)
      /\ \A s, t \in which : pid[s] = pid[t] /\ pid[s] # NoPid => s = t
  BY SpawnFacts
<1>1. \A p \in Pids : byPid'[p] = IF fate'[p] = "free" THEN Orphan ELSE owner'[p]
  BY <1>0 DEF TableInv, Placed
<1>2. ASSUME NEW p \in Pids, NEW s \in Services PROVE Stands(p, s)' <=> child'[s] = p
  <2>1. CASE UNCHANGED <<fate[p], owner[p], byPid[p]>> /\ \A t \in which : pid[t] # p
    <3>1. child'[s] = p <=> child[s] = p
      BY <1>0, <2>1, NamesAssumption DEF Begun
    <3>2. Stands(p, s)' <=> Stands(p, s)
      BY <2>1 DEF Stands
    <3> QED BY <3>1, <3>2 DEF TableInv
  <2>2. CASE /\ fate[p] = "free" /\ fate'[p] = "runs"
             /\ \E t \in which : pid[t] = p /\ owner'[p] = t /\ byPid'[p] = t
    <3>1. PICK t \in which : pid[t] = p /\ owner'[p] = t
      BY <2>2
    <3>2. child[s] # p
      BY <2>2 DEF TableInv, Stands
    <3>3. child'[s] = p <=> s = t
      <4>1. t \in Services /\ child'[t] = p
        BY <1>0, <3>1, NamesAssumption DEF Begun
      <4>2. ASSUME child'[s] = p PROVE s = t
        BY <1>0, <3>1, <3>2, <4>2, NamesAssumption DEF Begun
      <4> QED BY <4>1, <4>2
    <3> QED BY <2>2, <3>1, <3>3 DEF Stands
  <2> QED BY <1>0, <2>1, <2>2 DEF Placed
<1>3. \A p \in Pids : fate[p] # "free" => UNCHANGED <<fate[p], owner[p]>>
  BY <1>0 DEF Placed
<1>4. \A s \in Services \ which : UNCHANGED <<child[s], pace[s]>>
  BY <1>0 DEF Begun
<1>5. OneInv'
  BY <1>2 DEF OneInv
<1> QED BY <1>1, <1>2, <1>3, <1>4, <1>5

-----------------------------------------------------------------------------
(* Types. *)

LEMMA HeadTail ==
    ASSUME TypeOK, reaped # <<>>
    PROVE  /\ Head(reaped) \in Pids /\ Head(reaped) = reaped[1]
           /\ Tail(reaped) \in Seq(Pids) /\ Len(reaped) \in Nat /\ Len(reaped) >= 1
           /\ DOMAIN reaped = 1..Len(reaped) /\ DOMAIN Tail(reaped) = 1..(Len(reaped) - 1)
           /\ \A i \in 1..(Len(reaped) - 1) : Tail(reaped)[i] = reaped[i + 1]
<1>1. reaped \in Seq(Pids)
  BY DEF TypeOK
<1>2. /\ Head(reaped) \in Pids /\ Tail(reaped) \in Seq(Pids)
      /\ Len(Tail(reaped)) = Len(reaped) - 1
      /\ \A i \in 1..Len(Tail(reaped)) : Tail(reaped)[i] = reaped[i + 1]
  BY <1>1, HeadTailProperties
<1>3. Len(reaped) \in Nat /\ DOMAIN reaped = 1..Len(reaped)
      /\ DOMAIN Tail(reaped) = 1..Len(Tail(reaped))
  BY <1>1, <1>2, LenProperties
<1>4. Len(reaped) # 0
  BY <1>1, EmptySeq
<1> QED BY <1>1, <1>2, <1>3, <1>4

LEMMA Doubling == \A b \in BackoffMin..BackoffMax : Doubled(b) \in BackoffMin..BackoffMax
BY Numbers DEF Doubled, Smaller

LEMMA StepType == TypeOK /\ [Next]_vars => TypeOK'
<1> SUFFICES ASSUME TypeOK, [Next]_vars PROVE TypeOK'
  OBVIOUS
<1>1. CASE StartNext
  <2> DEFINE s == Order[started + 1]
  <2>1. s \in Services /\ started' \in 0..Len(Order)
    BY <1>1, NamesAssumption, ElementOfSeq, LenProperties DEF StartNext, TypeOK
  <2>2. PICK p \in Free \cup {NoPid} : Spawned({s}, [t \in {s} |-> p])
    BY <1>1 DEF StartNext
  <2>3. [t \in {s} |-> p] \in [{s} -> Free \cup {NoPid}]
    OBVIOUS
  <2>4. /\ fate' \in [Pids -> {"free", "runs", "zombie", "reaped"}]
        /\ owner' \in [Pids -> Owners] /\ byPid' \in [Pids -> Owners]
        /\ child' \in [Services -> Pids \cup {NoPid}] /\ pace' \in [Services -> 0..BackoffMax]
    BY <2>1, <2>2, <2>3, SpawnTypes
  <2> QED BY <1>1, <2>1, <2>4 DEF StartNext, TypeOK, stopVars
<1>2. CASE Restart
  <2>1. PICK pid \in [Due -> Free \cup {NoPid}] : Spawned(Due, pid)
    BY <1>2 DEF Restart
  <2>2. Due \in SUBSET Services
    BY DEF Due
  <2>3. /\ fate' \in [Pids -> {"free", "runs", "zombie", "reaped"}]
        /\ owner' \in [Pids -> Owners] /\ byPid' \in [Pids -> Owners]
        /\ child' \in [Services -> Pids \cup {NoPid}] /\ pace' \in [Services -> 0..BackoffMax]
    BY <2>1, <2>2, SpawnTypes
  <2>4. restartAt' \in [Services -> NotDue..BackoffMax]
    BY <1>2, Numbers DEF Restart, TypeOK, NotDue
  <2>5. lock' \in Pids \cup {Unlocked, Stale, Tried, Foreign}
    BY <1>2 DEF Restart, LockAfter, Cleared, TypeOK
  <2> QED BY <1>2, <2>3, <2>4, <2>5 DEF Restart, TypeOK, stopVars
<1>3. CASE ReadExit
  <2> DEFINE p == Head(reaped)
             s == Whose(p)
  <2>1. p \in Pids /\ Tail(reaped) \in Seq(Pids)
    BY <1>3, HeadTail DEF ReadExit
  <2>2. s \in Owners
    BY <2>1 DEF Whose, TypeOK
  <2>3. fate' \in [Pids -> {"free", "runs", "zombie", "reaped"}]
    BY <1>3, <2>1 DEF ReadExit, TypeOK
  <2>4. /\ byPid' \in [Pids -> Owners] /\ child' \in [Services -> Pids \cup {NoPid}]
        /\ restartAt' \in [Services -> NotDue..BackoffMax]
        /\ backoff' \in [Services -> BackoffMin..BackoffMax]
    <3>1. CASE s = Orphan
      BY <1>3, <3>1 DEF ReadExit, TypeOK
    <3>2. CASE s # Orphan
      <4>1. s \in Services
        BY <2>2, <3>2 DEF Owners
      <4>2. /\ byPid' = Forgotten(p) /\ child' = [child EXCEPT ![s] = NoPid]
            /\ restartAt' = [restartAt EXCEPT ![s] = backoff[s]]
            /\ backoff' = [backoff EXCEPT ![s] = Doubled(backoff[s])]
        BY <1>3, <3>2 DEF ReadExit, Delay
      <4>3. backoff[s] \in BackoffMin..BackoffMax
        BY <4>1 DEF TypeOK
      <4>4. Doubled(backoff[s]) \in BackoffMin..BackoffMax
        BY <4>3, Doubling
      <4>5. backoff[s] \in NotDue..BackoffMax
        BY <4>3, Numbers DEF NotDue
      <4> QED BY <2>1, <4>1, <4>2, <4>4, <4>5 DEF TypeOK, Forgotten, Owners
    <3> QED BY <3>1, <3>2
  <2> QED BY <1>3, <2>1, <2>3, <2>4 DEF ReadExit, TypeOK, stopVars
<1>4. CASE BotStops
  <2>1. bot.backoff \in 0..BackoffMax
    BY Numbers DEF TypeOK
  <2>2. bot' \in [up : BOOLEAN, wait : 0..BackoffMax, backoff : BackoffMin..BackoffMax]
    BY <1>4, <2>1 DEF BotStops, BotWait, TypeOK
  <2> QED BY <1>4, <2>2 DEF BotStops, TypeOK, kernelVars, tableVars, stopVars
<1>5. CASE BotReturns
  <2>1. Doubled(bot.backoff) \in BackoffMin..BackoffMax /\ 0 \in 0..BackoffMax
    BY Doubling, Numbers DEF TypeOK
  <2>2. bot' \in [up : BOOLEAN, wait : 0..BackoffMax, backoff : BackoffMin..BackoffMax]
    BY <1>5, <2>1 DEF BotReturns
  <2> QED BY <1>5, <2>2 DEF BotReturns, TypeOK, kernelVars, tableVars, stopVars
<1>6. CASE ReadExitStopping
  <2>1. Head(reaped) \in Pids /\ Tail(reaped) \in Seq(Pids)
    BY <1>6, HeadTail DEF ReadExitStopping
  <2> QED BY <1>6, <2>1 DEF ReadExitStopping, TypeOK, tableVars
<1>7. CASE BeginShutdown
  <2>1. {child[s] : s \in Services} \ {NoPid} \subseteq Pids
    BY DEF TypeOK
  <2>2. ShutdownGrace \in 0..ShutdownGrace
    BY Numbers
  <2> QED BY <1>7, <2>1, <2>2 DEF BeginShutdown, TypeOK, kernelVars, tableVars
<1>8. CASE EndShutdown
  BY <1>8 DEF EndShutdown, Survivors, TypeOK, kernelVars, tableVars
<1>9. ASSUME NEW p \in Pids, TakeLock(p) \/ Exit(p) \/ OrphanArrives(p) PROVE TypeOK'
  BY <1>9 DEF TakeLock, Exit, OrphanArrives, TypeOK, Owners, kernelVars, tableVars, stopVars
<1>10. ASSUME NEW p \in Pids, Reap(p) PROVE TypeOK'
  <2>1. Append(reaped, p) \in Seq(Pids)
    BY AppendProperties DEF TypeOK
  <2> QED BY <1>10, <2>1 DEF Reap, TypeOK, tableVars, stopVars
<1>11. CASE Tick
  <2>1. restartAt' \in [Services -> NotDue..BackoffMax]
    BY <1>11, Numbers DEF Tick, TypeOK, NotDue
  <2>2. pace' \in [Services -> 0..BackoffMax]
    BY <1>11, Numbers DEF Tick, TypeOK, Smaller
  <2>3. graceLeft' \in 0..ShutdownGrace
    BY <1>11, Numbers DEF Tick, TypeOK
  <2>4. bot' \in [up : BOOLEAN, wait : 0..BackoffMax, backoff : BackoffMin..BackoffMax]
    <3>1. (IF bot.wait > 0 THEN bot.wait - 1 ELSE 0) \in 0..BackoffMax
      BY Numbers DEF TypeOK
    <3> QED BY <1>11, <3>1 DEF Tick, TypeOK
  <2> QED BY <1>11, <2>1, <2>2, <2>3, <2>4 DEF Tick, TypeOK, kernelVars
<1>12. CASE InstallHandlers \/ Terminate \/ OtherHost
  BY <1>12 DEF InstallHandlers, Terminate, OtherHost, TypeOK, kernelVars, tableVars, stopVars
<1>13. CASE UNCHANGED vars
  BY <1>13 DEF TypeOK, vars, kernelVars, tableVars, stopVars
<1> QED
  BY <1>1, <1>2, <1>3, <1>4, <1>5, <1>6, <1>7, <1>8, <1>9, <1>10, <1>11, <1>12, <1>13
     DEF Next, Loop

-----------------------------------------------------------------------------
(* The books, action by action. *)

\* Most steps leave all of it alone.
LEMMA Untouched ==
    ASSUME Books, UNCHANGED <<phase, started, fate, owner, reaped, byPid, child, restartAt,
                              backoff, pace, outstanding, killed, lock>>
    PROVE  Books'
BY DEF Books, ReaperInv, TableInv, StartInv, OneInv, LockInv, PaceInv, DownInv, Stands, Runs,
       NoStaleLock, ShutdownIsExact, OurOwn

LEMMA StartBooks == ASSUME TypeOK, Books, StartNext PROVE Books'
<1> DEFINE s == Order[started + 1]
<1>1. /\ s \in Services /\ started \in Nat /\ started < Len(Order) /\ Len(Order) \in Nat
      /\ \A i \in (started + 1)..Len(Order) : Order[i] \in Services
      /\ \A i \in (started + 2)..Len(Order) : Order[i] # s
  BY NamesAssumption, ElementOfSeq, LenProperties DEF StartNext, TypeOK
<1>2. PICK p \in Free \cup {NoPid} : Spawned({s}, [t \in {s} |-> p])
  BY DEF StartNext
<1>3. [t \in {s} |-> p] \in [{s} -> Free \cup {NoPid}]
  OBVIOUS
<1>4. phase = "starting" /\ child[s] = NoPid /\ (s = Locker => lock \in {Unlocked, Tried, Foreign})
  BY <1>1 DEF StartNext, Books, StartInv
<1>5. /\ \A q \in Pids : byPid'[q] = IF fate'[q] = "free" THEN Orphan ELSE owner'[q]
      /\ \A q \in Pids : \A t \in Services : Stands(q, t)' <=> child'[t] = q
      /\ \A q \in Pids : fate[q] # "free" => UNCHANGED <<fate[q], owner[q]>>
      /\ \A t \in Services \ {s} : UNCHANGED <<child[t], pace[t]>>
      /\ OneInv'
  BY <1>1, <1>2, <1>3, <1>4, SpawnKeeps DEF Books
<1>6. /\ started' = started + 1
      /\ UNCHANGED <<phase, reaped, restartAt, backoff, outstanding, killed, lock>>
  BY DEF StartNext, stopVars
<1>7. ReaperInv'
  <2>1. \A i \in DOMAIN reaped : reaped[i] \in Pids
    BY ElementOfSeq, LenProperties DEF TypeOK
  <2> QED BY <1>5, <1>6, <2>1 DEF Books, ReaperInv
<1>8. TableInv'
  <2>1. \A t \in Services : restartAt[t] = NotDue
    BY <1>4 DEF Books, StartInv
  <2> QED BY <1>5, <1>6, <2>1 DEF TableInv
<1>9. StartInv'
  <2>1. ASSUME NEW i \in (started + 2)..Len(Order)
        PROVE  /\ child'[Order[i]] = NoPid /\ pace'[Order[i]] = BackoffMax
               /\ Order[i] = Locker => lock' \in {Unlocked, Tried, Foreign}
    <3>1. i \in (started + 1)..Len(Order) /\ Order[i] \in Services \ {s}
      BY <1>1, <2>1
    <3> QED BY <1>4, <1>5, <1>6, <3>1 DEF Books, StartInv
  <2> QED BY <1>1, <1>4, <1>6, <2>1 DEF Books, StartInv
<1>10. LockInv'
  <2>1. lock \in Pids => Runs(lock, Locker)'
    BY <1>5, <1>6 DEF Books, LockInv, Runs
  <2>2. ASSUME NEW q \in Pids, Runs(q, Locker)' PROVE lock # Stale
    <3>1. CASE Runs(q, Locker)
      BY <3>1 DEF Books, LockInv, NoStaleLock
    <3>2. CASE ~Runs(q, Locker)
      <4>1. fate[q] = "free"
        BY <1>5, <2>2, <3>2 DEF Runs
      <4>2. Placed(q, {s}, [t \in {s} |-> p])
        BY <1>1, <1>2, <1>3, SpawnFacts
      <4>3. Locker = s
        BY <2>2, <4>1, <4>2 DEF Placed, Runs
      <4> QED BY <1>4, <4>3 DEF Unlocked, Foreign, Stale, Tried
    <3> QED BY <3>1, <3>2
  <2> QED BY <1>6, <2>1, <2>2 DEF LockInv, NoStaleLock
<1>11. PaceInv'
  BY <1>4, <1>6 DEF Books, StartInv, PaceInv
<1>12. DownInv'
  BY <1>4, <1>6 DEF DownInv, ShutdownIsExact
<1> QED BY <1>5, <1>7, <1>8, <1>9, <1>10, <1>11, <1>12 DEF Books

LEMMA RestartBooks == ASSUME TypeOK, Books, Restart PROVE Books'
<1>1. PICK pid \in [Due -> Free \cup {NoPid}] : Spawned(Due, pid)
  BY DEF Restart
<1>2. Due \in SUBSET Services /\ phase = "running" /\ (\A s \in Due : child[s] = NoPid)
  BY DEF Due, Restart, Books, TableInv, NotDue
<1>3. /\ \A q \in Pids : byPid'[q] = IF fate'[q] = "free" THEN Orphan ELSE owner'[q]
      /\ \A q \in Pids : \A t \in Services : Stands(q, t)' <=> child'[t] = q
      /\ \A q \in Pids : fate[q] # "free" => UNCHANGED <<fate[q], owner[q]>>
      /\ \A t \in Services \ Due : UNCHANGED <<child[t], pace[t]>>
      /\ OneInv'
  BY <1>1, <1>2, SpawnKeeps DEF Books
<1>4. /\ UNCHANGED <<phase, started, reaped, backoff, outstanding, killed>>
      /\ restartAt' = [s \in Services |-> IF s \in Due THEN NotDue ELSE restartAt[s]]
      /\ \E fails \in {FALSE, ClearsFail} : lock' = LockAfter(Due, fails)
  BY DEF Restart, stopVars
<1>5. ReaperInv'
  <2>1. \A i \in DOMAIN reaped : reaped[i] \in Pids
    BY ElementOfSeq, LenProperties DEF TypeOK
  <2> QED BY <1>3, <1>4, <2>1 DEF Books, ReaperInv
<1>6. TableInv'
  <2>1. \A s \in Services : restartAt'[s] # NotDue => child'[s] = NoPid
    BY <1>2, <1>3, <1>4 DEF Books, TableInv
  <2> QED BY <1>3, <2>1 DEF TableInv
<1>7. StartInv' /\ DownInv'
  BY <1>2, <1>4 DEF StartInv, DownInv, ShutdownIsExact
<1>8. LockInv'
  <2>1. CASE Locker \in Due
    <3>1. lock' \in {Unlocked, Tried, Foreign}
      BY <1>4, <2>1 DEF LockAfter, Cleared
    <3> QED BY <3>1, LockAssumption DEF LockInv, NoStaleLock, Unlocked, Foreign, Stale, Tried
  <2>2. CASE Locker \notin Due
    <3>1. lock' = lock
      BY <1>4, <2>2 DEF LockAfter
    <3>2. lock \in Pids => Runs(lock, Locker)'
      BY <1>3, <3>1 DEF Books, LockInv, Runs
    <3>3. ASSUME NEW q \in Pids, Runs(q, Locker)' PROVE Runs(q, Locker)
      <4>1. Placed(q, Due, pid)
        BY <1>1, <1>2, SpawnFacts
      <4> QED BY <2>2, <3>3, <4>1 DEF Placed, Runs
    <3> QED BY <3>1, <3>2, <3>3 DEF Books, LockInv, NoStaleLock
  <2> QED BY <2>1, <2>2
<1>9. PaceInv'
  BY <1>3, <1>4 DEF Books, PaceInv
<1> QED BY <1>3, <1>5, <1>6, <1>7, <1>8, <1>9 DEF Books

LEMMA ReadBooks == ASSUME TypeOK, Books, ReadExit PROVE Books'
<1> DEFINE p == Head(reaped)
           s == Whose(p)
<1>1. /\ p \in Pids /\ p = reaped[1] /\ DOMAIN reaped = 1..Len(reaped)
      /\ Len(reaped) \in Nat /\ Len(reaped) >= 1
      /\ DOMAIN Tail(reaped) = 1..(Len(reaped) - 1)
      /\ \A i \in 1..(Len(reaped) - 1) : Tail(reaped)[i] = reaped[i + 1]
  BY HeadTail DEF ReadExit
<1>2. /\ phase = "running" /\ fate' = [fate EXCEPT ![p] = "free"] /\ reaped' = Tail(reaped)
      /\ UNCHANGED <<phase, started, owner, pace, outstanding, killed, lock>>
  BY DEF ReadExit, stopVars
<1>3. /\ fate[p] = "reaped" /\ fate'[p] = "free"
      /\ \A q \in Pids \ {p} : fate'[q] = fate[q]
      /\ DOMAIN fate = Pids
  BY <1>1, <1>2 DEF Books, ReaperInv, TypeOK
<1>4. s = owner[p] /\ s \in Services \cup {Orphan}
  BY <1>1, <1>2, <1>3 DEF Whose, Books, TableInv, TypeOK, Owners
<1>5. ReaperInv'
  <2>1. \A i \in 1..(Len(reaped) - 1) : reaped[i + 1] # p /\ fate[reaped[i + 1]] = "reaped"
    BY <1>1 DEF Books, ReaperInv
  <2>2. \A i \in 1..(Len(reaped) - 1) : reaped[i + 1] \in Pids
    BY <1>1, ElementOfSeq DEF TypeOK
  <2>3. \A i \in 1..(Len(reaped) - 1) : fate'[reaped[i + 1]] = "reaped"
    BY <1>3, <2>1, <2>2
  <2>4. \A i, j \in 1..(Len(reaped) - 1) : reaped[i + 1] = reaped[j + 1] => i = j
    BY <1>1 DEF Books, ReaperInv
  <2>5. DOMAIN reaped' = 1..(Len(reaped) - 1)
        /\ \A i \in 1..(Len(reaped) - 1) : reaped'[i] = reaped[i + 1]
    BY <1>1, <1>2
  <2> QED BY <2>3, <2>4, <2>5 DEF ReaperInv
<1>6. /\ byPid'[p] = Orphan /\ \A q \in Pids \ {p} : byPid'[q] = byPid[q]
      /\ \A t \in Services \ {s} : UNCHANGED <<child[t], restartAt[t], backoff[t]>>
      /\ s \in Services => /\ child'[s] = NoPid /\ restartAt'[s] = backoff[s]
                           /\ backoff'[s] = Doubled(backoff[s])
  <2>1. CASE s = Orphan
    <3>1. UNCHANGED <<byPid, child, restartAt, backoff>>
      BY <2>1 DEF ReadExit
    <3> QED BY <2>1, <3>1, NamesAssumption DEF Whose
  <2>2. CASE s # Orphan
    <3>1. /\ byPid' = [byPid EXCEPT ![p] = Orphan] /\ child' = [child EXCEPT ![s] = NoPid]
          /\ restartAt' = [restartAt EXCEPT ![s] = backoff[s]]
          /\ backoff' = [backoff EXCEPT ![s] = Doubled(backoff[s])]
      BY <2>2 DEF ReadExit, Delay, Forgotten
    <3> HIDE DEF p, s
    <3> QED BY <1>1, <1>4, <2>2, <3>1 DEF TypeOK
  <2> QED BY <2>1, <2>2
<1> HIDE DEF p, s
<1>7. TableInv'
  <2>1. ASSUME NEW q \in Pids
        PROVE  byPid'[q] = IF fate'[q] = "free" THEN Orphan ELSE owner'[q]
    BY <1>2, <1>3, <1>6 DEF Books, TableInv
  <2>2. ASSUME NEW q \in Pids, NEW t \in Services PROVE Stands(q, t)' <=> child'[t] = q
    <3>1. CASE t = s
      <4>1. ~Stands(q, t)'
        <5>1. CASE q = p
          BY <1>3, <5>1 DEF Stands
        <5>2. CASE q # p
          <6>1. Stands(p, t) /\ (Stands(q, t) => q = p)
            BY <1>1, <1>3, <1>4, <3>1 DEF Stands, Books, OneInv
          <6> QED BY <1>2, <1>3, <5>2, <6>1 DEF Stands
        <5> QED BY <5>1, <5>2
      <4> QED BY <1>6, <3>1, <4>1, NamesAssumption
    <3>2. CASE t # s
      <4>1. Stands(q, t)' <=> Stands(q, t)
        BY <1>2, <1>3, <1>4, <3>2 DEF Stands
      <4> QED BY <1>2, <1>6, <3>2, <4>1 DEF Books, TableInv
    <3> QED BY <3>1, <3>2
  <2>3. \A t \in Services : restartAt'[t] # NotDue => child'[t] = NoPid
    BY <1>2, <1>6 DEF Books, TableInv
  <2> QED BY <2>1, <2>2, <2>3 DEF TableInv
<1>8. StartInv' /\ DownInv'
  BY <1>2 DEF StartInv, DownInv, ShutdownIsExact
<1>9. OneInv'
  BY <1>2, <1>3 DEF Books, OneInv, Stands
<1>10. LockInv'
  BY <1>2, <1>3 DEF Books, LockInv, NoStaleLock, Runs
<1>11. PaceInv'
  <2> SUFFICES ASSUME NEW t \in Services, restartAt'[t] # NotDue
               PROVE  2 * (restartAt'[t] + pace'[t]) >= backoff'[t]
    BY DEF PaceInv
  <2>1. CASE t = s
    <3>1. /\ backoff[t] \in Nat /\ pace[t] \in Nat /\ restartAt'[t] = backoff[t]
          /\ pace'[t] = pace[t] /\ backoff'[t] = Doubled(backoff[t])
      BY <1>2, <1>6, <2>1, Numbers DEF TypeOK
    <3>2. Doubled(backoff[t]) <= 2 * backoff[t]
      BY <3>1, Numbers DEF Doubled, Smaller
    <3>3. Doubled(backoff[t]) \in Int
      BY <3>1, Numbers DEF Doubled, Smaller
    <3> QED BY <3>1, <3>2, <3>3
  <2>2. CASE t # s
    BY <1>2, <1>6, <2>2 DEF Books, PaceInv
  <2> QED BY <2>1, <2>2
<1> QED BY <1>5, <1>7, <1>8, <1>9, <1>10, <1>11 DEF Books

LEMMA BeginBooks == ASSUME TypeOK, Books, BeginShutdown PROVE Books'
<1>1. /\ phase = "running" /\ phase' = "stopping"
      /\ outstanding' = {child[s] : s \in Services} \ {NoPid}
      /\ UNCHANGED <<started, fate, owner, reaped, byPid, child, restartAt, backoff, pace,
                     killed, lock>>
  BY DEF BeginShutdown, kernelVars, tableVars
<1>2. outstanding' = OurOwn'
  <2>1. OurOwn' = {p \in Pids : \E s \in Services : Stands(p, s)}
    BY <1>1 DEF OurOwn, Stands
  <2>2. outstanding' = {p \in Pids : \E s \in Services : child[s] = p}
    BY <1>1, NamesAssumption DEF TypeOK
  <2> QED BY <1>1, <2>1, <2>2 DEF Books, TableInv
<1>3. DownInv'
  BY <1>1, <1>2 DEF DownInv, ShutdownIsExact
<1> QED
  BY <1>1, <1>3 DEF Books, ReaperInv, TableInv, StartInv, OneInv, LockInv, PaceInv, Stands, Runs,
                    NoStaleLock

LEMMA StoppingBooks == ASSUME TypeOK, Books, ReadExitStopping PROVE Books'
<1> DEFINE p == Head(reaped)
<1>1. /\ p \in Pids /\ p = reaped[1] /\ DOMAIN reaped = 1..Len(reaped)
      /\ Len(reaped) \in Nat /\ Len(reaped) >= 1
      /\ DOMAIN Tail(reaped) = 1..(Len(reaped) - 1)
      /\ \A i \in 1..(Len(reaped) - 1) : Tail(reaped)[i] = reaped[i + 1]
  BY HeadTail DEF ReadExitStopping
<1>2. /\ phase = "stopping" /\ fate' = [fate EXCEPT ![p] = "free"] /\ reaped' = Tail(reaped)
      /\ outstanding' = outstanding \ {p}
      /\ UNCHANGED <<phase, started, owner, byPid, child, restartAt, backoff, pace, killed, lock>>
  BY DEF ReadExitStopping, tableVars
<1>3. /\ fate[p] = "reaped" /\ fate'[p] = "free"
      /\ \A q \in Pids \ {p} : fate'[q] = fate[q]
  BY <1>1, <1>2 DEF Books, ReaperInv, TypeOK
<1>4. ReaperInv'
  <2>1. \A i \in 1..(Len(reaped) - 1) : reaped[i + 1] # p /\ fate[reaped[i + 1]] = "reaped"
    BY <1>1 DEF Books, ReaperInv
  <2>2. \A i \in 1..(Len(reaped) - 1) : reaped[i + 1] \in Pids
    BY <1>1, ElementOfSeq DEF TypeOK
  <2>3. \A i \in 1..(Len(reaped) - 1) : fate'[reaped[i + 1]] = "reaped"
    BY <1>3, <2>1, <2>2
  <2>4. \A i, j \in 1..(Len(reaped) - 1) : reaped[i + 1] = reaped[j + 1] => i = j
    BY <1>1 DEF Books, ReaperInv
  <2>5. DOMAIN reaped' = 1..(Len(reaped) - 1)
        /\ \A i \in 1..(Len(reaped) - 1) : reaped'[i] = reaped[i + 1]
    BY <1>1, <1>2
  <2> QED BY <2>3, <2>4, <2>5 DEF ReaperInv
<1> HIDE DEF p
<1>5. DownInv'
  <2>1. OurOwn' = OurOwn \ {p}
    BY <1>1, <1>2, <1>3 DEF OurOwn
  <2> QED BY <1>2, <2>1 DEF Books, DownInv, ShutdownIsExact
<1>6. TableInv' /\ StartInv' /\ PaceInv'
  BY <1>2 DEF Books, TableInv, StartInv, PaceInv
<1>7. OneInv' /\ LockInv'
  BY <1>2, <1>3 DEF Books, OneInv, LockInv, Stands, Runs, NoStaleLock
<1> QED BY <1>4, <1>5, <1>6, <1>7 DEF Books

LEMMA EndBooks == ASSUME TypeOK, Books, EndShutdown PROVE Books'
<1>1. /\ phase = "stopping" /\ phase' = "gone" /\ killed' = Survivors
      /\ UNCHANGED <<started, fate, owner, reaped, byPid, child, restartAt, backoff, pace,
                     outstanding, lock>>
  BY DEF EndShutdown, kernelVars, tableVars
<1>2. killed' = OurOwn
  BY <1>1 DEF Survivors, Books, DownInv
<1>3. DownInv'
  BY <1>1, <1>2 DEF DownInv, ShutdownIsExact, OurOwn
<1> QED
  BY <1>1, <1>3 DEF Books, ReaperInv, TableInv, StartInv, OneInv, LockInv, PaceInv, Stands, Runs,
                    NoStaleLock

LEMMA TakeBooks == ASSUME TypeOK, Books, NEW p \in Pids, TakeLock(p) PROVE Books'
<1>1. /\ Runs(p, Locker) /\ lock = Unlocked /\ lock' = p
      /\ UNCHANGED <<phase, started, fate, owner, reaped, byPid, child, restartAt, backoff, pace,
                     outstanding, killed>>
  BY DEF TakeLock, kernelVars, tableVars, stopVars
<1>2. LockInv'
  <2>1. lock' # Stale
    BY <1>1, LockAssumption
  <2>2. Runs(p, Locker)'
    BY <1>1 DEF Runs
  <2> QED BY <1>1, <2>1, <2>2 DEF LockInv, NoStaleLock
<1>3. StartInv'
  <2> SUFFICES ASSUME phase = "starting", NEW i \in (started + 1)..Len(Order), Order[i] = Locker
               PROVE  FALSE
    BY <1>1 DEF Books, StartInv
  <2>1. Locker \in Services /\ child[Locker] = NoPid
    BY NamesAssumption, ElementOfSeq, LenProperties DEF Books, StartInv, TypeOK
  <2>2. child[Locker] = p
    BY <1>1, <2>1 DEF Books, TableInv, Stands, Runs
  <2> QED BY <2>1, <2>2, NamesAssumption
<1> QED
  BY <1>1, <1>2, <1>3 DEF Books, ReaperInv, TableInv, OneInv, PaceInv, DownInv, Stands, OurOwn,
                          ShutdownIsExact

LEMMA ExitBooks == ASSUME TypeOK, Books, NEW p \in Pids, Exit(p) PROVE Books'
<1>1. /\ phase # "gone" /\ fate[p] = "runs" /\ fate'[p] = "zombie"
      /\ \A q \in Pids \ {p} : fate'[q] = fate[q]
      /\ UNCHANGED <<phase, started, owner, reaped, byPid, child, restartAt, backoff, pace,
                     outstanding, killed>>
  BY DEF Exit, tableVars, stopVars, TypeOK
<1>2. \/ lock = p /\ lock' \in {Unlocked, Stale}
      \/ lock = Tried /\ lock' = Stale /\ Runs(p, Locker)
      \/ lock # p /\ lock' = lock
  BY DEF Exit, Runs
<1>3. \A q \in Pids : \A s : Stands(q, s)' <=> Stands(q, s)
  BY <1>1 DEF Stands
<1>4. ReaperInv'
  <2>1. \A i \in DOMAIN reaped : reaped[i] \in Pids
    BY ElementOfSeq, LenProperties DEF TypeOK
  <2> QED BY <1>1, <2>1 DEF Books, ReaperInv
<1>5. TableInv' /\ OneInv' /\ PaceInv'
  BY <1>1, <1>3 DEF Books, TableInv, OneInv, PaceInv
<1>6. DownInv'
  BY <1>1 DEF Books, DownInv, ShutdownIsExact, OurOwn
<1>7. LockInv'
  <2>1. CASE Runs(p, Locker) /\ lock' \in {Unlocked, Stale}
    <3>1. Runs(p, Locker)
      BY <2>1
    <3>2. ASSUME NEW q \in Pids, Runs(q, Locker)' PROVE FALSE
      <4>1. q # p /\ Runs(q, Locker)
        BY <1>1, <3>2 DEF Runs
      <4>2. CASE Locker \in Services
        BY <3>1, <4>1, <4>2 DEF Runs, Stands, Books, OneInv
      <4>3. CASE Locker \notin Services
        BY <3>1, <4>3, NamesAssumption DEF Runs, TypeOK, Owners
      <4> QED BY <4>2, <4>3
    <3> QED BY <2>1, <3>2, LockAssumption DEF LockInv, NoStaleLock
  <2>2. CASE lock # p /\ lock' = lock
    BY <1>1, <2>2 DEF Books, LockInv, NoStaleLock, Runs
  <2> QED BY <1>2, <2>1, <2>2 DEF Books, LockInv
<1>8. StartInv'
  <2> SUFFICES ASSUME phase = "starting", NEW i \in (started + 1)..Len(Order), Order[i] = Locker
               PROVE  lock' \in {Unlocked, Tried, Foreign}
    BY <1>1 DEF Books, StartInv
  <2>1. lock \in {Unlocked, Tried, Foreign} /\ child[Locker] = NoPid
    BY DEF Books, StartInv
  <2>2. ~Runs(p, Locker)
    <3>1. Locker \in Services
      BY NamesAssumption, ElementOfSeq, LenProperties DEF TypeOK
    <3> QED BY <1>1, <2>1, <3>1, NamesAssumption DEF Books, TableInv, Stands, Runs
  <2> QED BY <1>2, <2>1, <2>2, LockAssumption
<1> QED BY <1>4, <1>5, <1>6, <1>7, <1>8 DEF Books

LEMMA OrphanBooks == ASSUME TypeOK, Books, NEW p \in Pids, OrphanArrives(p) PROVE Books'
<1>1. /\ fate[p] = "free" /\ fate'[p] = "runs" /\ owner'[p] = Orphan /\ phase # "gone"
      /\ \A q \in Pids \ {p} : UNCHANGED <<fate[q], owner[q]>>
      /\ UNCHANGED <<phase, started, reaped, byPid, child, restartAt, backoff, pace, outstanding,
                     killed, lock>>
  BY DEF OrphanArrives, Free, tableVars, stopVars, TypeOK
<1>2. \A q \in Pids : \A s \in Services : Stands(q, s)' <=> Stands(q, s)
  BY <1>1, NamesAssumption DEF Stands
<1>3. ReaperInv'
  <2>1. \A i \in DOMAIN reaped : reaped[i] \in Pids
    BY ElementOfSeq, LenProperties DEF TypeOK
  <2> QED BY <1>1, <2>1 DEF Books, ReaperInv
<1>4. TableInv'
  <2>1. phase \in {"starting", "running"} =>
            \A q \in Pids : byPid'[q] = IF fate'[q] = "free" THEN Orphan ELSE owner'[q]
    BY <1>1 DEF Books, TableInv
  <2> QED BY <1>1, <1>2, <2>1 DEF Books, TableInv
<1>5. OneInv' /\ PaceInv' /\ StartInv'
  BY <1>1, <1>2 DEF Books, OneInv, PaceInv, StartInv
<1>6. DownInv'
  <2>1. OurOwn' = OurOwn
    BY <1>1, NamesAssumption DEF OurOwn
  <2> QED BY <1>1, <2>1 DEF Books, DownInv, ShutdownIsExact
<1>7. LockInv'
  BY <1>1, NamesAssumption DEF Books, LockInv, NoStaleLock, Runs
<1> QED BY <1>3, <1>4, <1>5, <1>6, <1>7 DEF Books

LEMMA ReapBooks == ASSUME TypeOK, Books, NEW p \in Pids, Reap(p) PROVE Books'
<1>1. /\ phase # "gone" /\ fate[p] = "zombie" /\ fate'[p] = "reaped"
      /\ \A q \in Pids \ {p} : fate'[q] = fate[q]
      /\ reaped' = Append(reaped, p)
      /\ UNCHANGED <<phase, started, owner, byPid, child, restartAt, backoff, pace, outstanding,
                     killed, lock>>
  BY DEF Reap, Waited, tableVars, stopVars, TypeOK
<1>2. \A q \in Pids : \A s : Stands(q, s)' <=> Stands(q, s)
  BY <1>1 DEF Stands
<1>3. ReaperInv'
  <2>1. /\ DOMAIN reaped = 1..Len(reaped) /\ Len(reaped) \in Nat
        /\ \A i \in DOMAIN reaped : reaped[i] \in Pids
    BY ElementOfSeq, LenProperties DEF TypeOK
  <2>2. /\ DOMAIN reaped' = 1..(Len(reaped) + 1) /\ reaped'[Len(reaped) + 1] = p
        /\ \A i \in 1..Len(reaped) : reaped'[i] = reaped[i]
    <3>1. Append(reaped, p) \in Seq(Pids) /\ Len(Append(reaped, p)) = Len(reaped) + 1
      BY AppendProperties DEF TypeOK
    <3>2. DOMAIN Append(reaped, p) = 1..(Len(reaped) + 1)
      BY <3>1, LenProperties
    <3> QED BY <1>1, <3>2, AppendProperties DEF TypeOK
  <2>3. \A i \in 1..Len(reaped) : reaped[i] # p /\ fate'[reaped[i]] = "reaped"
    BY <1>1, <2>1 DEF Books, ReaperInv
  <2> QED BY <1>1, <2>1, <2>2, <2>3 DEF Books, ReaperInv
<1>4. TableInv' /\ OneInv' /\ PaceInv' /\ StartInv'
  BY <1>1, <1>2 DEF Books, TableInv, OneInv, PaceInv, StartInv
<1>5. DownInv'
  BY <1>1 DEF Books, DownInv, ShutdownIsExact, OurOwn
<1>6. LockInv'
  BY <1>1 DEF Books, LockInv, NoStaleLock, Runs
<1> QED BY <1>3, <1>4, <1>5, <1>6 DEF Books

LEMMA TickBooks == ASSUME TypeOK, Books, Tick PROVE Books'
<1>1. UNCHANGED <<phase, started, fate, owner, reaped, byPid, child, backoff, outstanding, killed,
                  lock>>
  BY DEF Tick, kernelVars
<1>2. ASSUME NEW s \in Services
      PROVE  /\ restartAt'[s] = (IF restartAt[s] > 0 THEN restartAt[s] - 1 ELSE restartAt[s])
             /\ pace'[s] = (IF pace[s] + 1 < BackoffMax THEN pace[s] + 1 ELSE BackoffMax)
             /\ restartAt[s] \in Int /\ pace[s] \in Nat /\ backoff[s] \in Nat
             /\ backoff[s] <= BackoffMax
  BY Numbers DEF Tick, Smaller, TypeOK, NotDue
<1>3. \A s \in Services : (restartAt'[s] # NotDue <=> restartAt[s] # NotDue)
                          /\ (pace[s] = BackoffMax => pace'[s] = BackoffMax)
  BY <1>2, Numbers DEF NotDue
<1>4. PaceInv'
  <2> SUFFICES ASSUME NEW s \in Services, restartAt'[s] # NotDue
               PROVE  2 * (restartAt'[s] + pace'[s]) >= backoff'[s]
    BY DEF PaceInv
  <2>1. 2 * (restartAt[s] + pace[s]) >= backoff[s] /\ restartAt[s] >= 0
    BY <1>3, Numbers DEF Books, PaceInv, TypeOK, NotDue
  <2>2. backoff'[s] = backoff[s]
    BY <1>1
  <2> QED BY <1>2, <2>1, <2>2, Numbers
<1>5. TableInv'
  BY <1>1, <1>3 DEF Books, TableInv, Stands
<1>6. StartInv'
  <2>1. ASSUME NEW i \in (started + 1)..Len(Order) PROVE Order[i] \in Services
    BY NamesAssumption, ElementOfSeq, LenProperties DEF TypeOK
  <2> QED BY <1>1, <1>3, <2>1 DEF Books, StartInv
<1>7. ReaperInv' /\ OneInv' /\ LockInv' /\ DownInv'
  BY <1>1 DEF Books, ReaperInv, OneInv, LockInv, DownInv, Stands, Runs, NoStaleLock,
              ShutdownIsExact, OurOwn
<1> QED BY <1>4, <1>5, <1>6, <1>7 DEF Books

LEMMA InstallBooks == ASSUME TypeOK, Books, InstallHandlers PROVE Books'
<1>1. /\ phase = "starting" /\ phase' = "running"
      /\ UNCHANGED <<started, fate, owner, reaped, byPid, child, restartAt, backoff, pace,
                     outstanding, killed, lock>>
  BY DEF InstallHandlers, kernelVars, tableVars, stopVars
<1> QED
  BY <1>1 DEF Books, ReaperInv, TableInv, StartInv, OneInv, LockInv, PaceInv, DownInv, Stands,
              Runs, NoStaleLock, ShutdownIsExact, OurOwn

LEMMA OtherHostBooks == ASSUME TypeOK, Books, OtherHost PROVE Books'
<1>1. /\ lock \in {Foreign, Unlocked} /\ lock' \in {Foreign, Unlocked}
      /\ UNCHANGED <<phase, started, fate, owner, reaped, byPid, child, restartAt, backoff, pace,
                     outstanding, killed>>
  BY DEF OtherHost, kernelVars, tableVars, stopVars
<1>2. LockInv'
  BY <1>1, LockAssumption DEF LockInv, NoStaleLock, Unlocked, Foreign, Stale
<1> QED
  BY <1>1, <1>2 DEF Books, ReaperInv, TableInv, StartInv, OneInv, PaceInv, DownInv, Stands,
                    ShutdownIsExact, OurOwn

LEMMA StepSup == SupInv /\ [Next]_vars => SupInv'
<1> SUFFICES ASSUME SupInv, [Next]_vars PROVE Books'
  BY StepType DEF SupInv
<1> USE DEF SupInv
<1>1. CASE StartNext \/ InstallHandlers
  BY <1>1, StartBooks, InstallBooks
<1>2. CASE Loop
  <2>1. CASE BotReturns
    BY <2>1, Untouched DEF BotReturns, kernelVars, tableVars, stopVars
  <2> QED
    BY <1>2, <2>1, RestartBooks, ReadBooks, BeginBooks, StoppingBooks, EndBooks DEF Loop
<1>3. CASE BotStops \/ Terminate
  BY <1>3, Untouched DEF BotStops, Terminate, kernelVars, tableVars, stopVars
<1>4. ASSUME NEW p \in Pids, TakeLock(p) \/ Exit(p) \/ OrphanArrives(p) \/ Reap(p) PROVE Books'
  BY <1>4, TakeBooks, ExitBooks, OrphanBooks, ReapBooks
<1>5. CASE OtherHost \/ Tick
  BY <1>5, OtherHostBooks, TickBooks
<1>6. CASE UNCHANGED vars
  BY <1>6, Untouched DEF vars, kernelVars, tableVars, stopVars
<1> QED BY <1>1, <1>2, <1>3, <1>4, <1>5, <1>6 DEF Next

-----------------------------------------------------------------------------
(* What follows. *)

LEMMA SupHolds == Spec => []SupInv
BY InitSup, StepSup, PTL DEF Spec

\* Every variable keeps its type: no delay leaves its bounds, however often
\* a service crashes.
THEOREM SupTypeCorrect == Spec => []TypeOK
BY SupHolds, PTL DEF SupInv

\* While services may be restarted, every pid the kernel knows stands in the
\* table for the service that it was spawned for, or for nobody.
THEOREM MatchedCorrect == Spec => []ExitsAreMatched
<1>1. SupInv => ExitsAreMatched
  BY DEF SupInv, Books, TableInv, ExitsAreMatched
<1> QED BY <1>1, SupHolds, PTL

\* No service runs twice, in any order of exits, restarts and failed spawns.
THEOREM OneProcessCorrect == Spec => []OneProcessPerService
<1>1. SupInv => OneProcessPerService
  BY DEF SupInv, Books, OneInv, OneProcessPerService, Stands, Runs
<1> QED BY <1>1, SupHolds, PTL

\* Every start of rTorrent comes after an attempt to remove a stale lock of this
\* host: it finds one only where that attempt has failed.
THEOREM StaleLockCorrect == Spec => []NoStaleLock
BY SupHolds, PTL DEF SupInv, Books, LockInv

\* SIGKILL goes to the children that are left and to nobody else.
THEOREM ShutdownCorrect == Spec => []ShutdownIsExact
BY SupHolds, PTL DEF SupInv, Books, DownInv

\* A lock that a live rTorrent holds is not cleared.
THEOREM LockCorrect == Spec => LockIsRespected
<1> DEFINE Respected == \A p \in Pids : lock = p /\ lock' # p => (fate[p])' # "runs"
<1>1. SupInv /\ [Next]_vars => [Respected]_vars
  <2> SUFFICES ASSUME SupInv, Next, NEW p \in Pids, lock = p, lock' # p PROVE fate'[p] # "runs"
    OBVIOUS
  <2>1. lock \notin {Unlocked, Stale, Tried, Foreign} /\ Runs(p, Locker)
    BY LockAssumption DEF SupInv, Books, LockInv
  <2>2. CASE Restart
    <3>1. Locker \in Due
      BY <2>2 DEF Restart, LockAfter
    <3>2. Locker \in Services /\ child[Locker] = NoPid /\ phase = "running"
      BY <2>2, <3>1 DEF Due, Restart, SupInv, Books, TableInv, NotDue
    <3> QED BY <2>1, <3>2, NamesAssumption DEF SupInv, Books, TableInv, Stands, Runs
  <2>3. ASSUME NEW q \in Pids, Exit(q) PROVE fate'[p] # "runs"
    BY <2>1, <2>3 DEF Exit, SupInv, TypeOK
  <2>4. ~OtherHost /\ \A q \in Pids : ~TakeLock(q)
    BY <2>1 DEF OtherHost, TakeLock
  <2> QED
    BY <2>2, <2>3, <2>4
       DEF Next, Loop, StartNext, InstallHandlers, ReadExit, BeginShutdown, BotReturns,
           ReadExitStopping, EndShutdown, BotStops, OrphanArrives, Reap, Terminate, Tick
<1> QED BY <1>1, SupHolds, PTL DEF Spec, LockIsRespected

\* From one start to the next passes half of the delay to come, or more.
THEOREM CrashLoopsCorrect == Spec => CrashLoopsSlowDown
<1> DEFINE Paced == \A s \in Services : (child[s])' \notin {child[s], NoPid} => 2 * pace[s] >= backoff[s]
<1>1. SupInv /\ [Next]_vars => [Paced]_vars
  <2> SUFFICES ASSUME SupInv, Next, NEW s \in Services, child'[s] \notin {child[s], NoPid}
               PROVE  2 * pace[s] >= backoff[s]
    OBVIOUS
  <2>1. pace[s] \in Nat /\ backoff[s] \in Nat /\ backoff[s] <= BackoffMax
    BY Numbers DEF SupInv, TypeOK
  <2>2. CASE StartNext
    <3> DEFINE n == Order[started + 1]
    <3>1. /\ n \in Services /\ started + 1 \in (started + 1)..Len(Order) /\ phase = "starting"
      BY <2>2, NamesAssumption, ElementOfSeq, LenProperties DEF StartNext, SupInv, TypeOK
    <3>2. PICK p \in Free \cup {NoPid} : Spawned({n}, [t \in {n} |-> p])
      BY <2>2 DEF StartNext
    <3>3. [t \in {n} |-> p] \in [{n} -> Free \cup {NoPid}]
      OBVIOUS
    <3>4. Begun(s, {n}, [t \in {n} |-> p])
      BY <3>1, <3>2, <3>3, SpawnFacts DEF SupInv
    <3>5. s = n
      BY <3>4 DEF Begun
    <3>6. pace[s] = BackoffMax
      BY <3>1, <3>5 DEF SupInv, Books, StartInv
    <3> QED BY <2>1, <3>6, Numbers
  <2>3. CASE Restart
    <3>1. PICK pid \in [Due -> Free \cup {NoPid}] : Spawned(Due, pid)
      BY <2>3 DEF Restart
    <3>2. Begun(s, Due, pid)
      <4>1. Due \in SUBSET Services
        BY DEF Due
      <4> QED BY <3>1, <4>1, SpawnFacts DEF SupInv
    <3>3. restartAt[s] = 0
      BY <3>2 DEF Begun, Due
    <3> QED BY <2>1, <3>3 DEF SupInv, Books, PaceInv, NotDue
  <2>4. CASE ReadExit
    <3>1. child' = child \/ child' = [child EXCEPT ![Whose(Head(reaped))] = NoPid]
      BY <2>4 DEF ReadExit
    <3> QED BY <3>1 DEF SupInv, TypeOK
  <2> QED
    BY <2>2, <2>3, <2>4
       DEF Next, Loop, InstallHandlers, BeginShutdown, BotReturns, ReadExitStopping, EndShutdown,
           BotStops, TakeLock, Exit, OrphanArrives, Reap, Terminate, OtherHost, Tick, tableVars
<1> QED BY <1>1, SupHolds, PTL DEF Spec, CrashLoopsSlowDown
=============================================================================
