-------------------------- MODULE ConfigStoreProofs --------------------------
(* What ConfigStore guarantees for any arms, patterns and saves. *)
EXTENDS ConfigStore, SequenceTheorems, TLAPS

\* Taking one element out of a list leaves a list of the same set.
LEMMA RemoveType ==
    ASSUME NEW list \in Lists, NEW i \in DOMAIN list
    PROVE  Remove(list, i) \in Lists
<1>1. i \in 1..Len(list) /\ Len(list) \in Nat
  BY LenProperties DEF Lists
<1>2. SubSeq(list, 1, i - 1) \in Seq(Patterns)
  <2>1. 1 \in 1..(Len(list) + 1) /\ i - 1 \in (1 - 1)..Len(list)
    BY <1>1
  <2> QED BY <2>1, SubSeqProperties DEF Lists
<1>3. SubSeq(list, i + 1, Len(list)) \in Seq(Patterns)
  <2>1. i + 1 \in 1..(Len(list) + 1) /\ Len(list) \in ((i + 1) - 1)..Len(list)
    BY <1>1
  <2> QED BY <2>1, SubSeqProperties DEF Lists
<1> QED BY <1>2, <1>3, ConcatProperties DEF Remove, Lists

LEMMA InitType == Init => TypeOK
<1> SUFFICES ASSUME Init PROVE TypeOK
  OBVIOUS
<1>1. options \in Lists /\ file \in Lists
  BY NamesAssumption DEF Init, Lists
<1>2. Idle \in WriterState
  BY DEF WriterState
<1>3. writer \in [Writers -> WriterState]
  BY <1>2 DEF Init
<1>4. 0 \in 0..MaxChanges /\ 0 \in 0..MaxSaves
  BY BoundsAssumption
<1> QED BY <1>1, <1>3, <1>4 DEF Init, TypeOK

LEMMA ChangeType ==
    ASSUME TypeOK, NEW a \in Arms, NEW list \in Lists, Change(a, list)
    PROVE  TypeOK'
<1>1. Queued(list) \in WriterState
  BY DEF Queued, WriterState
<1>2. writer' \in [Writers -> WriterState]
  BY <1>1 DEF Change, TypeOK, Writers
<1>3. changes' \in 0..MaxChanges
  BY BoundsAssumption DEF Change, TypeOK
<1> QED BY <1>2, <1>3 DEF Change, TypeOK, Settling, Idle

LEMMA TypeStep == TypeOK /\ [Next]_vars => TypeOK'
<1> SUFFICES ASSUME TypeOK, [Next]_vars PROVE TypeOK'
  OBVIOUS
<1>1. ASSUME NEW a \in Arms, Add(a) PROVE TypeOK'
  <2>1. PICK p \in Patterns : Change(a, Append(options, p))
    BY <1>1 DEF Add
  <2>2. Append(options, p) \in Lists
    BY AppendProperties DEF TypeOK, Lists
  <2> QED BY <1>1, <2>1, <2>2, ChangeType DEF Add, TypeOK
<1>2. ASSUME NEW a \in Arms, Name(a) PROVE TypeOK'
  <2>1. PICK i \in DOMAIN options : writer' = [writer EXCEPT ![a] = Named(i)]
    BY <1>2 DEF Name
  <2>2. i \in Nat /\ options[i] \in Patterns
    BY <2>1, LenProperties, ElementOfSeq DEF TypeOK, Lists
  <2>3. Named(i) \in WriterState
    BY <2>2 DEF Named, WriterState
  <2>4. writer' \in [Writers -> WriterState]
    BY <2>1, <2>3 DEF TypeOK, Writers
  <2> QED BY <1>2, <2>4 DEF Name, TypeOK
<1>3. ASSUME NEW a \in Arms, RemoveNamed(a) PROVE TypeOK'
  <2> DEFINE i == writer[a].index
  <2>1. CASE i \in DOMAIN options
    <3>1. Remove(options, i) \in Lists
      BY <2>1, RemoveType DEF TypeOK
    <3>2. Change(a, Remove(options, i))
      BY <1>3, <2>1 DEF RemoveNamed
    <3> QED BY <3>1, <3>2, ChangeType
  <2>2. CASE i \notin DOMAIN options
    <3>1. Change(a, options)
      BY <1>3, <2>2 DEF RemoveNamed, TypeOK
    <3>2. options \in Lists
      BY DEF TypeOK
    <3> QED BY <3>1, <3>2, ChangeType
  <2> QED BY <2>1, <2>2
<1>4. ASSUME NEW w \in Writers, Open(w) PROVE TypeOK'
  <2>1. Opened(writer[w].content) \in WriterState
    BY <1>4 DEF Open, Opened, TypeOK, WriterState, Idle, Orphaned
  <2>2. writer' \in [Writers -> WriterState]
    BY <1>4, <2>1 DEF Open, TypeOK
  <2> QED BY <1>4, <2>2 DEF Open, Written, TypeOK
<1>5. ASSUME NEW w \in Writers, Write(w) PROVE TypeOK'
  <2>1. writer[w].content \in Lists
    BY <1>5 DEF Write, TypeOK, WriterState, Idle, Orphaned
  <2>2. file' \in Lists \cup {Empty, Broken, Unreadable}
    BY <1>5, <2>1 DEF Write, Overlaid, TypeOK
  <2>3. writer' \in [Writers -> WriterState]
    BY <1>5 DEF Write, TypeOK, WriterState
  <2> QED BY <1>5, <2>2, <2>3 DEF Write, Written, TypeOK
<1>6. ASSUME NEW a \in Arms, SaveFails(a) \/ WriteUnseen(a) PROVE TypeOK'
  <2>1. writer' \in [Writers -> WriterState]
    BY <1>6 DEF SaveFails, WriteUnseen, TypeOK, WriterState
  <2> QED BY <1>6, <2>1 DEF SaveFails, WriteUnseen, TypeOK
<1>7. CASE SaveByRename
  <2>1. file' \in Lists \cup {Empty, Broken, Unreadable}
    BY <1>7, NamesAssumption DEF SaveByRename, Lists
  <2>2. writer' \in [Writers -> WriterState]
    BY <1>7 DEF SaveByRename, TypeOK, WriterState
  <2>3. saves' \in 0..MaxSaves
    BY <1>7, BoundsAssumption DEF SaveByRename, TypeOK
  <2>4. UNCHANGED <<options, watcher, told, changes>> /\ event' = TRUE /\ unsaved' = FALSE
    BY <1>7 DEF SaveByRename, Written
  <2> QED BY <2>1, <2>2, <2>3, <2>4 DEF TypeOK
<1>8. CASE SaveInPlace
  <2>1. PICK s \in Saves : writer' = [writer EXCEPT ![Operator] = Queued(s)]
    BY <1>8 DEF SaveInPlace
  <2>2. Queued(s) \in WriterState
    BY NamesAssumption DEF Queued, WriterState, Lists
  <2>3. writer' \in [Writers -> WriterState]
    BY <2>1, <2>2 DEF TypeOK, Writers
  <2>4. saves' \in 0..MaxSaves
    BY <1>8, BoundsAssumption DEF SaveInPlace, TypeOK
  <2> QED BY <1>8, <2>3, <2>4 DEF SaveInPlace, TypeOK
<1>9. CASE Wake \/ Settle
  BY <1>9 DEF Wake, Settle, TypeOK
<1>10. CASE Read
  <2>1. CASE Loads
    <3>1. Comparing(file) \in [at : {"read", "install"}, content : Lists]
      BY <2>1 DEF Loads, Comparing
    <3> QED BY <1>10, <2>1, <3>1 DEF Read, TypeOK
  <2>2. CASE ~Loads
    BY <1>10, <2>2 DEF Read, Reported, TypeOK
  <2> QED BY <2>1, <2>2
<1>11. CASE Compare
  BY <1>11 DEF Compare, Installing, Idle, Settling, TypeOK
<1>12. CASE Install
  BY <1>12 DEF Install, StillUnheard, Idle, Settling, TypeOK
<1>13. CASE UNCHANGED vars
  BY <1>13 DEF vars, TypeOK
<1> QED
  BY <1>1, <1>2, <1>3, <1>4, <1>5, <1>6, <1>7, <1>8, <1>9, <1>10, <1>11, <1>12, <1>13
  DEF Next, Command, Save, Watch

\* The watchlist that runs is always a list of patterns that compile, and
\* every variable keeps its type, for any arms, patterns and saves.
THEOREM TypeCorrect == Spec => []TypeOK
BY InitType, TypeStep, PTL DEF Spec

-----------------------------------------------------------------------------

\* No write that will be heard of is under way.
NoneToCome == \A w \in Writers : writer[w].at \notin {"queued", "opened"}

\* Once the last write has been heard of, the watcher thread is either still
\* to read the file, or holds what the file holds, or has nothing left to do.
Heard ==
    NoneToCome /\ ~event /\ ~unsaved =>
        /\ watcher = Idle => file \in {options, Unreadable} \/ (~Loads /\ told)
        /\ watcher.at \in {"read", "install"} => watcher.content = file

LEMMA InitHeard == Init => Heard
BY DEF Init, Heard, Idle

\* Steps that leave a write to come, or one to be heard of.
LEMMA WriteToCome ==
    ASSUME TypeOK, Heard, NEW w \in Writers, NEW content,
           writer' = [writer EXCEPT ![w] = Queued(content)]
    PROVE  Heard'
BY DEF TypeOK, Heard, NoneToCome, Queued

\* Only the arms' and the operator's own steps touch the writers.
LEMMA HeardStep == TypeOK /\ Heard /\ [Next]_vars => Heard'
<1> SUFFICES ASSUME TypeOK, Heard, [Next]_vars PROVE Heard'
  OBVIOUS
<1>1. ASSUME NEW a \in Arms, Add(a) \/ RemoveNamed(a) PROVE Heard'
  <2>1. PICK list : Change(a, list)
    BY <1>1 DEF Add, RemoveNamed
  <2>2. writer' = [writer EXCEPT ![a] = Queued(list)]
    BY <2>1 DEF Change
  <2> QED BY <2>2, WriteToCome DEF Writers
<1>2. ASSUME NEW a \in Arms, Name(a) PROVE Heard'
  <2>1. NoneToCome' => NoneToCome
    BY <1>2 DEF Name, NoneToCome, TypeOK, Writers, Idle
  <2> QED BY <1>2, <2>1 DEF Name, Heard, Loads
<1>3. ASSUME NEW w \in Writers, Open(w) \/ Write(w) PROVE Heard'
  BY <1>3 DEF Open, Write, Written, Heard
<1>4. ASSUME NEW a \in Arms, SaveFails(a) PROVE Heard'
  BY <1>4 DEF SaveFails, Heard
<1>5. ASSUME NEW a \in Arms, WriteUnseen(a) PROVE Heard'
  <2>1. NoneToCome' => NoneToCome
    BY <1>5 DEF WriteUnseen, NoneToCome, TypeOK, Writers, Orphaned
  <2> QED BY <1>5, <2>1 DEF WriteUnseen, Heard, Loads
<1>6. CASE SaveByRename
  BY <1>6 DEF SaveByRename, Written, Heard
<1>7. CASE SaveInPlace
  <2>1. PICK s \in Saves : writer' = [writer EXCEPT ![Operator] = Queued(s)]
    BY <1>7 DEF SaveInPlace
  <2> QED BY <2>1, WriteToCome DEF Writers
<1>8. CASE Wake \/ Settle
  BY <1>8 DEF Wake, Settle, Heard, Settling, Idle
<1>9. CASE Read
  BY <1>9 DEF Read, Reported, Comparing, Idle, Heard, NoneToCome, Loads
<1>10. CASE Compare
  BY <1>10 DEF Compare, Differs, Installing, Idle, Heard, NoneToCome, Loads
<1>11. CASE Install
  BY <1>11 DEF Install, StillUnheard, Idle, Heard, NoneToCome, Loads
<1>12. CASE UNCHANGED vars
  BY <1>12 DEF vars, Heard, NoneToCome, Loads
<1> QED
  BY <1>1, <1>2, <1>3, <1>4, <1>5, <1>6, <1>7, <1>8, <1>9, <1>10, <1>11, <1>12
  DEF Next, Command, Save, Watch

LEMMA HeardSettles == Heard => SettledAgrees
BY DEF Heard, SettledAgrees, Quiet, Unwritten, NoneToCome

\* However commands, saves and reloads overlap, and however many there are,
\* once all is quiet the program runs what options.toml says or has said that
\* it does not load, if the file can be read and the last change was saved.
THEOREM SettledCorrect == Spec => []SettledAgrees
<1>1. Init => TypeOK /\ Heard
  BY InitType, InitHeard
<1>2. TypeOK /\ Heard /\ [Next]_vars => (TypeOK /\ Heard)'
  BY TypeStep, HeardStep
<1> QED BY <1>1, <1>2, HeardSettles, PTL DEF Spec
=============================================================================
