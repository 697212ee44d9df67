------------------------------ MODULE TextProofs ------------------------------
(***************************************************************************)
(* Proofs about what comes and goes as text, for all patterns, texts and   *)
(* lengths: the announced lines as they are read (Announcing) and what is  *)
(* decided and done about them (AddPath, with Filters), the answers to the *)
(* commands (Replies, with Commands), and the digests (Digest).            *)
(*                                                                         *)
(* The models compute texts from one place to the next, by functions that  *)
(* refer to themselves; the first part shows what such functions are, and  *)
(* what selecting from a sequence and flattening one give.                 *)
(***************************************************************************)
EXTENDS AddPath, Announcing, Replies, Digest,
        SequenceTheorems, FiniteSetTheorems, WellFoundedInduction, TLAPS

-----------------------------------------------------------------------------
\* Numbers.

\* A set of numbers has a least one: what a number has no room to fall below,
\* an interval has no room to shrink within.
LEMMA LeastOf ==
    ASSUME NEW S, S \subseteq Nat, S # {}
    PROVE  \E n \in S : \A m \in S : n <= m
<1> DEFINE T == {1..n : n \in S}
<1>1. T \subseteq FiniteSubsetsOf(Nat)
  <2>1. \A n \in Nat : IsFiniteSet(1..n) /\ 1..n \subseteq Nat
    BY FS_Interval
  <2>2. \A n \in S : 1..n \in FiniteSubsetsOf(Nat)
    BY <2>1 DEF FiniteSubsetsOf
  <2> QED BY <2>2
<1>2. T # {}
  OBVIOUS
<1>3. IsWellFoundedOn(StrictSubsetOrdering(Nat), FiniteSubsetsOf(Nat))
  BY FS_StrictSubsetOrderingWellFounded
<1>4. PICK x \in T : \A y \in T : ~ (<<y, x>> \in StrictSubsetOrdering(Nat))
  <2> HIDE DEF T
  <2> QED BY <1>1, <1>2, <1>3, WFMin
<1>5. PICK n \in S : x = 1..n
  OBVIOUS
<1>6. ASSUME NEW m \in S, m < n PROVE FALSE
  <2>1. 1..m \in T /\ 1..m \subseteq Nat /\ x \subseteq Nat
    BY <1>5
  <2>2. 1..m \subseteq x /\ 1..m # x
    BY <1>5, <1>6
  <2> QED BY <1>4, <2>1, <2>2 DEF StrictSubsetOrdering
<1> QED BY <1>6

\* What holds of 0, and of n + 1 with n, holds of every number.
LEMMA StepByStep ==
    ASSUME NEW S, 0 \in S, \A n \in Nat : n \in S => n + 1 \in S
    PROVE  Nat \subseteq S
<1> DEFINE T == Nat \ S
<1> SUFFICES ASSUME T # {} PROVE FALSE
  OBVIOUS
<1>1. PICK n \in T : \A m \in T : n <= m
  BY LeastOf
<1>2. n - 1 \in Nat /\ n - 1 \notin T
  BY <1>1
<1> QED BY <1>1, <1>2

-----------------------------------------------------------------------------
\* Some places of a sequence.

\* How many of the places come up to one of them.
CountedTo(places, i) == {j \in places : j <= i}

\* Counting them is counting up, by one at each: so each has its number, and
\* each number up to how many there are its place.
LEMMA PlacesAreNumbered ==
    ASSUME NEW n \in Nat, NEW places \in SUBSET (1..n)
    PROVE  /\ IsFiniteSet(places) /\ Cardinality(places) \in Nat
           /\ \A k \in 1..Cardinality(places) :
                  Nth(places, k) \in places /\ Cardinality(CountedTo(places, Nth(places, k))) = k
           /\ \A i \in places : /\ Cardinality(CountedTo(places, i)) \in 1..Cardinality(places)
                               /\ Nth(places, Cardinality(CountedTo(places, i))) = i
<1> DEFINE C(i) == Cardinality(CountedTo(places, i))
<1>0. places \subseteq 1..n /\ \A p \in places : p \in 1..n /\ p \in Nat
  OBVIOUS
<1>a. \A i, p : p \in CountedTo(places, i) <=> p \in places /\ p <= i
  BY DEF CountedTo
<1>1. IsFiniteSet(places) /\ Cardinality(places) \in Nat
  <2>1. IsFiniteSet(1..n)
    BY FS_Interval
  <2> QED BY <1>0, <2>1, FS_Subset, FS_CardinalityType
<1>2. \A i : /\ CountedTo(places, i) \subseteq places /\ IsFiniteSet(CountedTo(places, i))
             /\ C(i) \in Nat /\ C(i) <= Cardinality(places)
  BY <1>1, FS_Subset, FS_CardinalityType DEF CountedTo
<1>3. ASSUME NEW i \in places
      PROVE  C(i) = C(i - 1) + 1
  <2>a. \A p \in places : (p <= i <=> p <= i - 1 \/ p = i) /\ ~(i <= i - 1)
    BY <1>0
  <2>1. CountedTo(places, i) = CountedTo(places, i - 1) \cup {i} /\ i \notin CountedTo(places, i - 1)
    BY <1>a, <2>a
  <2> QED BY <1>2, <2>1, FS_AddElement
<1>4. ASSUME NEW i \in Nat, i + 1 \notin places
      PROVE  C(i + 1) = C(i)
  <2>a. \A p \in places : p <= i + 1 <=> p <= i
    BY <1>0, <1>4
  <2>b. \A p : p \in CountedTo(places, i + 1) <=> p \in CountedTo(places, i)
    BY <1>a, <2>a, Zenon
  <2>1. CountedTo(places, i + 1) = CountedTo(places, i)
    BY <2>b
  <2> QED BY <2>1
<1>5. ASSUME NEW i \in 0..n, NEW j \in 0..n, i <= j
      PROVE  C(i) <= C(j)
  <2>1. CountedTo(places, i) \subseteq CountedTo(places, j)
    <3>1. ASSUME NEW p \in places, p <= i PROVE p <= j
      BY <1>0, <1>5, <3>1
    <3> QED BY <1>a, <3>1
  <2> QED BY <1>2, <2>1, FS_Subset
<1>6. ASSUME NEW i \in places, NEW j \in places, C(i) = C(j)
      PROVE  i = j
  <2>1. ASSUME NEW x \in places, NEW y \in places, x < y PROVE C(x) < C(y)
    <3>1. y - 1 \in 0..n /\ x \in 0..n /\ x <= y - 1
      BY <2>1
    <3>2. C(x) <= C(y - 1) /\ C(y) = C(y - 1) + 1 /\ C(x) \in Nat /\ C(y - 1) \in Nat
      BY <1>2, <1>3, <1>5, <3>1
    <3> HIDE DEF C
    <3> QED BY <3>2
  <2>2. ~(i < j) /\ ~(j < i)
    <3> HIDE DEF C
    <3> QED BY <1>2, <1>6, <2>1
  <2> QED BY <2>2
<1>7. ASSUME NEW k \in 1..Cardinality(places)
      PROVE  \E i \in places : C(i) = k
  <2> DEFINE S == {i \in Nat : C(i) >= k}
  <2>a. \A p \in places : p <= n /\ ~(p <= 0)
    BY <1>0
  <2>1. CountedTo(places, n) = places /\ CountedTo(places, 0) = {}
    BY <1>a, <2>a
  <2>2. n \in S /\ C(0) = 0
    BY <1>1, <2>1, FS_EmptySet
  <2>3. PICK m \in S : \A x \in S : m <= x
    <3> HIDE DEF S
    <3>1. S \subseteq Nat
      BY DEF S
    <3> QED BY <2>2, <3>1, LeastOf
  <2>4. m \in Nat /\ C(m) >= k /\ m # 0
    <3>1. m \in Nat /\ C(m) >= k
      BY <2>3
    <3> HIDE DEF C, S
    <3> QED BY <2>2, <3>1
  <2>5. m - 1 \in Nat /\ m - 1 \notin S /\ (m - 1) + 1 = m
    BY <2>3, <2>4
  <2>6. C(m - 1) < k /\ C(m - 1) \in Nat
    <3>1. ~(C(m - 1) >= k) /\ C(m - 1) \in Nat
      BY <1>2, <2>5
    <3> HIDE DEF C
    <3> QED BY <3>1
  <2>7. m \in places
    <3>1. m \notin places => C(m) = C(m - 1)
      BY <1>4, <2>5
    <3> HIDE DEF C
    <3> QED BY <2>4, <2>6, <3>1
  <2>8. C(m) = C(m - 1) + 1
    BY <1>3, <2>7
  <2>9. C(m) = k
    <3> HIDE DEF C
    <3> QED BY <2>4, <2>6, <2>8
  <2> QED BY <2>7, <2>9
<1>8. \A k \in 1..Cardinality(places) : Nth(places, k) \in places /\ C(Nth(places, k)) = k
  BY <1>7 DEF Nth, CountedTo
<1>9. ASSUME NEW i \in places
      PROVE  C(i) \in 1..Cardinality(places) /\ Nth(places, C(i)) = i
  <2>1. C(i) \in 1..Cardinality(places)
    <3>1. C(i) = C(i - 1) + 1 /\ C(i - 1) \in Nat /\ C(i) <= Cardinality(places)
      BY <1>2, <1>3
    <3> HIDE DEF C
    <3> QED BY <1>1, <3>1
  <2>2. Nth(places, C(i)) \in places /\ C(Nth(places, C(i))) = C(i)
    BY <1>8, <2>1
  <2> QED BY <1>6, <2>1, <2>2
<1> QED BY <1>1, <1>8, <1>9

\* What is selected is as long as there are places, and holds what stands there.
LEMMA SelectionIs ==
    ASSUME NEW S, NEW s \in Seq(S), NEW places \in SUBSET (DOMAIN s)
    PROVE  /\ Selection(s, places) \in Seq(S)
           /\ Len(Selection(s, places)) = Cardinality(places) /\ Cardinality(places) \in Nat
           /\ DOMAIN Selection(s, places) = 1..Cardinality(places)
           /\ \A k \in 1..Cardinality(places) :
                  Nth(places, k) \in places /\ Selection(s, places)[k] = s[Nth(places, k)]
           /\ \A i \in places : \E k \in 1..Cardinality(places) : Nth(places, k) = i
           /\ \A k, l \in 1..Cardinality(places) : Nth(places, k) = Nth(places, l) => k = l
<1> DEFINE C == Cardinality(places)
<1>1. DOMAIN s = 1..Len(s) /\ Len(s) \in Nat /\ \A i \in DOMAIN s : s[i] \in S
  BY LenProperties, ElementOfSeq
<1>2. /\ C \in Nat
      /\ \A k \in 1..C : Nth(places, k) \in places /\ Cardinality(CountedTo(places, Nth(places, k))) = k
      /\ \A i \in places : /\ Cardinality(CountedTo(places, i)) \in 1..C
                          /\ Nth(places, Cardinality(CountedTo(places, i))) = i
  BY <1>1, PlacesAreNumbered
<1> HIDE DEF C
<1>3. Selection(s, places) = [k \in 1..C |-> s[Nth(places, k)]]
  BY DEF Selection, C
<1>4. \A k \in 1..C : s[Nth(places, k)] \in S
  BY <1>1, <1>2
<1>5. Selection(s, places) \in Seq(S) /\ Len(Selection(s, places)) = C
  <2>1. Selection(s, places) \in [1..C -> S]
    BY <1>3, <1>4
  <2> QED BY <1>2, <2>1, SeqDef, LenProperties
<1>6. \A i \in places : \E k \in 1..C : Nth(places, k) = i
  BY <1>2
<1>7. \A k, l \in 1..C : Nth(places, k) = Nth(places, l) => k = l
  BY <1>2
<1> QED BY <1>2, <1>3, <1>5, <1>6, <1>7 DEF C

\* Where all is selected, nothing changes.
LEMMA AllSelected ==
    ASSUME NEW S, NEW s \in Seq(S)
    PROVE  Selection(s, DOMAIN s) = s
<1> DEFINE n == Len(s)
<1>1. n \in Nat /\ DOMAIN s = 1..n /\ s = [i \in 1..n |-> s[i]]
  BY LenProperties
<1> HIDE DEF n
<1>2. Cardinality(1..n) = n
  <2>1. Cardinality(1..n) = IF 1 > n THEN 0 ELSE n - 1 + 1
    <3>1. 1 \in Int /\ n \in Int
      BY <1>1
    <3> QED BY <3>1, FS_Interval
  <2> QED BY <1>1, <2>1
<1>3. ASSUME NEW i \in 1..n PROVE Nth(1..n, i) = i
  <2>1. \A p : p \in CountedTo(1..n, i) <=> p \in 1..n /\ p <= i
    BY DEF CountedTo
  <2>2. \A p : p \in 1..n /\ p <= i <=> p \in 1..i
    BY <1>1
  <2>3. CountedTo(1..n, i) = 1..i
    BY <2>1, <2>2, Zenon
  <2>4. Cardinality(CountedTo(1..n, i)) = i
    BY <1>1, <2>3, FS_Interval
  <2>5. Nth(1..n, Cardinality(CountedTo(1..n, i))) = i
    BY <1>1, PlacesAreNumbered
  <2> QED BY <2>4, <2>5
<1> QED BY <1>1, <1>2, <1>3 DEF Selection

-----------------------------------------------------------------------------
\* What is computed from one place of a sequence to the next.

\* A start, and how to go on from there.
Steps(n, V, start, G) == n \in Nat /\ start \in V /\ G \in [(1..n) \X V -> V]

\* Who takes them.
Walks(f, n, V, start, G) ==
    f \in [0..n -> V] /\ f[0] = start /\ \A i \in 1..n : f[i] = G[<<i, f[i - 1]>>]

\* There is one who takes them.
LEMMA Iterates ==
    ASSUME NEW n, NEW V, NEW base, NEW G, Steps(n, V, base, G)
    PROVE  \E f : Walks(f, n, V, base, G)
<1>0. n \in Nat /\ base \in V /\ G \in [(1..n) \X V -> V]
  BY DEF Steps
<1> DEFINE Fits(f, k) == f[0] = base /\ \A i \in 1..k : f[i] = G[<<i, f[i - 1]>>]
           S == {k \in Nat : k <= n => \E f \in [0..k -> V] : Fits(f, k)}
<1>1. 0 \in S
  <2>1. [i \in 0..0 |-> base] \in [0..0 -> V] /\ Fits([i \in 0..0 |-> base], 0)
    BY <1>0
  <2> QED BY <2>1
<1>2. ASSUME NEW k \in Nat, k \in S PROVE k + 1 \in S
  <2> SUFFICES ASSUME k + 1 <= n PROVE \E f \in [0..(k + 1) -> V] : Fits(f, k + 1)
    OBVIOUS
  <2>1. PICK f \in [0..k -> V] : Fits(f, k)
    <3>1. k <= n
      BY <1>0
    <3> QED BY <1>2, <3>1
  <2> DEFINE g == [i \in 0..(k + 1) |-> IF i = k + 1 THEN G[<<k + 1, f[k]>>] ELSE f[i]]
  <2>2. <<k + 1, f[k]>> \in (1..n) \X V
    BY <1>0
  <2>3. g \in [0..(k + 1) -> V]
    <3>1. G[<<k + 1, f[k]>>] \in V
      BY <1>0, <2>2
    <3> QED BY <3>1
  <2>4. ASSUME NEW i \in 1..(k + 1) PROVE g[i] = G[<<i, g[i - 1]>>]
    <3>1. CASE i = k + 1
      <4>1. g[i] = G[<<k + 1, f[k]>>] /\ g[i - 1] = f[k]
        BY <3>1
      <4> QED BY <3>1, <4>1
    <3>2. CASE i # k + 1
      <4>1. i \in 1..k /\ i - 1 # k + 1 /\ i - 1 \in 0..(k + 1)
        BY <3>2
      <4>2. f[i] = G[<<i, f[i - 1]>>]
        BY <2>1, <4>1
      <4>3. g[i] = f[i] /\ g[i - 1] = f[i - 1]
        BY <3>2, <4>1
      <4> QED BY <4>2, <4>3
    <3> QED BY <3>1, <3>2
  <2>5. g[0] = base
    BY <2>1
  <2> HIDE DEF g
  <2>6. Fits(g, k + 1)
    BY <2>4, <2>5
  <2> QED BY <2>3, <2>6
<1>3. n \in S
  <2> HIDE DEF S
  <2> QED BY <1>0, <1>1, <1>2, StepByStep
<1>4. \E f \in [0..n -> V] : Fits(f, n)
  BY <1>0, <1>3
<1> QED BY <1>4 DEF Walks

\* Two that start the same and go on the same are the same.
Alike(n, f, g) == f[0] = g[0] /\ \A i \in 1..n : f[i - 1] = g[i - 1] => f[i] = g[i]

LEMMA SameAll ==
    ASSUME NEW n \in Nat, NEW f, NEW g, Alike(n, f, g)
    PROVE  \A i \in 0..n : f[i] = g[i]
<1> DEFINE S == {k \in Nat : k <= n => f[k] = g[k]}
<1>1. 0 \in S
  BY DEF Alike
<1>2. ASSUME NEW k \in Nat, k \in S PROVE k + 1 \in S
  <2> SUFFICES ASSUME k + 1 <= n PROVE f[k + 1] = g[k + 1]
    OBVIOUS
  <2>1. k + 1 \in 1..n /\ (k + 1) - 1 = k /\ f[k] = g[k]
    BY <1>2
  <2> QED BY <2>1 DEF Alike
<1>3. Nat \subseteq S
  <2> HIDE DEF S
  <2> QED BY <1>1, <1>2, StepByStep
<1> QED BY <1>3

\* Flattening puts one sequence behind the other.
Flattens(g, seqs, S) ==
    /\ g \in [0..Len(seqs) -> Seq(S)]
    /\ g[0] = <<>> /\ \A i \in 1..Len(seqs) : g[i] = g[i - 1] \o seqs[i]

LEMMA FlattenBy ==
    ASSUME NEW S, NEW seqs \in Seq(Seq(S))
    PROVE  \E g : Flattens(g, seqs, S) /\ FlattenSeq(seqs) = g[Len(seqs)]
<1> DEFINE n == Len(seqs)
           G == [p \in (1..n) \X Seq(S) |-> p[2] \o seqs[p[1]]]
<1>1. n \in Nat /\ \A i \in 1..n : seqs[i] \in Seq(S)
  BY LenProperties, ElementOfSeq
<1>2. <<>> \in Seq(S)
  BY EmptySeq
<1>3. G \in [(1..n) \X Seq(S) -> Seq(S)]
  <2>1. \A p \in (1..n) \X Seq(S) : p[2] \in Seq(S) /\ seqs[p[1]] \in Seq(S)
    BY <1>1
  <2>2. \A p \in (1..n) \X Seq(S) : p[2] \o seqs[p[1]] \in Seq(S)
    BY <2>1, ConcatProperties
  <2> QED BY <2>2
<1>4. PICK g : Walks(g, n, Seq(S), <<>>, G)
  <2> HIDE DEF n, G
  <2>1. Steps(n, Seq(S), <<>>, G)
    BY <1>1, <1>2, <1>3 DEF Steps
  <2> QED BY <2>1, Iterates
<1>a. g \in [0..n -> Seq(S)] /\ g[0] = <<>> /\ \A i \in 1..n : g[i] = G[<<i, g[i - 1]>>]
  BY <1>4 DEF Walks
<1>5. g[0] = <<>>
  BY <1>a
<1>6. ASSUME NEW i \in 1..n PROVE g[i] = g[i - 1] \o seqs[i]
  <2>1. i \in 0..n /\ i # 0 /\ i - 1 \in 0..n
    BY <1>1
  <2>2. g[i] = G[<<i, g[i - 1]>>]
    BY <1>a, <2>1
  <2>3. <<i, g[i - 1]>> \in (1..n) \X Seq(S)
    BY <1>a, <2>1
  <2> QED BY <2>2, <2>3
<1>b. Flattens(g, seqs, S)
  BY <1>a, <1>5, <1>6 DEF Flattens
<1> HIDE DEF G
<1>7. CASE n = 0
  <2>1. FlattenSeq(seqs) = seqs /\ seqs = <<>>
    BY <1>7, EmptySeq DEF FlattenSeq
  <2> QED BY <1>b, <1>5, <1>7, <2>1
<1>8. CASE n # 0
  <2> DEFINE Fits(f) == f = [i \in 1..n |-> IF i = 1 THEN seqs[i] ELSE f[i - 1] \o seqs[i]]
             f == CHOOSE h : Fits(h)
  <2>1. FlattenSeq(seqs) = f[n]
    BY <1>8 DEF FlattenSeq
  <2> DEFINE h == [i \in 1..n |-> g[i]]
  <2>2. Fits(h)
    <3>1. ASSUME NEW i \in 1..n PROVE h[i] = IF i = 1 THEN seqs[i] ELSE h[i - 1] \o seqs[i]
      <4>1. h[i] = g[i - 1] \o seqs[i]
        BY <1>6
      <4>2. i = 1 => g[i - 1] \o seqs[i] = seqs[i]
        <5>1. i = 1 => i - 1 = 0
          OBVIOUS
        <5>2. <<>> \o seqs[i] = seqs[i]
          BY <1>1, ConcatEmptySeq
        <5> QED BY <1>5, <5>1, <5>2
      <4>3. i # 1 => i - 1 \in 1..n
        BY <1>1
      <4> QED BY <4>1, <4>2, <4>3
    <3> QED BY <3>1
  <2>3. Fits(f)
    <3> HIDE DEF Fits, h
    <3> QED BY <2>2
  <2> HIDE DEF h, f
  <2> DEFINE f0 == [i \in 0..n |-> IF i = 0 THEN <<>> ELSE f[i]]
  <2>4. f0[0] = g[0]
    BY <1>1, <1>5
  <2>5. ASSUME NEW i \in 1..n, f0[i - 1] = g[i - 1] PROVE f0[i] = g[i]
    <3>1. f0[i] = f[i] /\ (i # 1 => f0[i - 1] = f[i - 1])
      BY <1>1
    <3>2. f[i] = IF i = 1 THEN seqs[i] ELSE f[i - 1] \o seqs[i]
      BY <2>3
    <3>3. i = 1 => g[i - 1] \o seqs[i] = seqs[i]
      <4>1. i = 1 => i - 1 = 0
        OBVIOUS
      <4>2. <<>> \o seqs[i] = seqs[i]
        BY <1>1, ConcatEmptySeq
      <4> QED BY <1>5, <4>1, <4>2
    <3> HIDE DEF f0
    <3> QED BY <1>6, <2>5, <3>1, <3>2, <3>3
  <2>6. f0[n] = g[n]
    <3> HIDE DEF f0, n
    <3>1. Alike(n, f0, g)
      BY <2>4, <2>5 DEF Alike
    <3>2. \A i \in 0..n : f0[i] = g[i]
      BY <1>1, <3>1, SameAll
    <3>3. n \in 0..n
      BY <1>1
    <3> QED BY <3>2, <3>3
  <2>7. f0[n] = f[n]
    BY <1>1, <1>8
  <2> HIDE DEF f0
  <2> QED BY <1>b, <2>1, <2>6, <2>7
<1> QED BY <1>7, <1>8

\* So it flattens what is in front, and then goes on.
LEMMA FlattenUpTo ==
    ASSUME NEW S, NEW seqs \in Seq(Seq(S))
    PROVE  \E g : Flattens(g, seqs, S) /\ \A m \in 0..Len(seqs) : FlattenSeq(SubSeq(seqs, 1, m)) = g[m]
<1> DEFINE n == Len(seqs)
<1>1. n \in Nat /\ \A i \in 1..n : seqs[i] \in Seq(S)
  BY LenProperties, ElementOfSeq
<1>0. PICK g : Flattens(g, seqs, S)
  BY FlattenBy
<1>2. g \in [0..n -> Seq(S)] /\ g[0] = <<>> /\ \A i \in 1..n : g[i] = g[i - 1] \o seqs[i]
  BY <1>0 DEF Flattens
<1>3. ASSUME NEW m \in 0..n PROVE FlattenSeq(SubSeq(seqs, 1, m)) = g[m]
  <2> DEFINE front == SubSeq(seqs, 1, m)
  <2>1. m \in Nat /\ m <= n
    BY <1>1
  <2>2. front \in Seq(Seq(S)) /\ Len(front) = m /\ \A i \in 1..m : front[i] = seqs[i]
    <3>1. \A i \in 1..m : seqs[i] \in Seq(S)
      BY <1>1, <2>1
    <3>2. /\ front \in Seq(Seq(S)) /\ Len(front) = (IF 1 <= m THEN m - 1 + 1 ELSE 0)
          /\ \A i \in 1..m - 1 + 1 : front[i] = seqs[1 + i - 1]
      BY <2>1, <3>1, SubSeqProperties
    <3> HIDE DEF front
    <3> QED BY <2>1, <3>2
  <2> HIDE DEF front
  <2>0. PICK h : Flattens(h, front, S) /\ FlattenSeq(front) = h[Len(front)]
    BY <2>2, FlattenBy
  <2>3. /\ h \in [0..m -> Seq(S)] /\ h[0] = <<>> /\ \A i \in 1..m : h[i] = h[i - 1] \o front[i]
        /\ FlattenSeq(front) = h[m]
    BY <2>0, <2>2 DEF Flattens
  <2>4. ASSUME NEW i \in 1..m, h[i - 1] = g[i - 1] PROVE h[i] = g[i]
    <3>1. i \in 1..n
      BY <1>1, <2>1
    <3>2. h[i] = h[i - 1] \o front[i] /\ g[i] = g[i - 1] \o seqs[i] /\ front[i] = seqs[i]
      BY <1>2, <2>2, <2>3, <3>1
    <3> QED BY <2>4, <3>2
  <2>5. \A i \in 0..m : h[i] = g[i]
    <3>1. h[0] = g[0]
      BY <1>2, <2>3
    <3>2. Alike(m, h, g)
      BY <2>4, <3>1 DEF Alike
    <3> QED BY <2>1, <3>2, SameAll
  <2> QED BY <2>1, <2>3, <2>5 DEF front
<1> QED BY <1>0, <1>3

LEMMA FlattenAppend ==
    ASSUME NEW S, NEW seqs \in Seq(Seq(S)), NEW e \in Seq(S)
    PROVE  /\ FlattenSeq(seqs) \in Seq(S)
           /\ FlattenSeq(Append(seqs, e)) = FlattenSeq(seqs) \o e
<1> DEFINE n == Len(seqs)
           more == Append(seqs, e)
<1>1. n \in Nat /\ SubSeq(seqs, 1, n) = seqs
  BY LenProperties, SubSeqFull
<1>2. more \in Seq(Seq(S)) /\ Len(more) = n + 1 /\ more[n + 1] = e /\ \A i \in 1..n : more[i] = seqs[i]
  BY AppendProperties
<1>3. SubSeq(more, 1, n + 1) = more
  BY <1>2, SubSeqFull
<1>4. SubSeq(more, 1, n) = seqs
  <2>1. SubSeq(more, 1, n) \in Seq(Seq(S)) /\ Len(SubSeq(more, 1, n)) = n
        /\ \A i \in 1..n : SubSeq(more, 1, n)[i] = more[i]
    <3>1. \A i \in 1..n : more[i] \in Seq(S)
      BY <1>2, ElementOfSeq
    <3>2. /\ SubSeq(more, 1, n) \in Seq(Seq(S))
          /\ Len(SubSeq(more, 1, n)) = (IF 1 <= n THEN n - 1 + 1 ELSE 0)
          /\ \A i \in 1..n - 1 + 1 : SubSeq(more, 1, n)[i] = more[1 + i - 1]
      BY <1>1, <3>1, SubSeqProperties
    <3> HIDE DEF more, n
    <3> QED BY <1>1, <3>2
  <2> HIDE DEF more
  <2> QED BY <1>2, <2>1, SeqEqual
<1> HIDE DEF n, more
<1>a. PICK g : /\ Flattens(g, more, S)
               /\ \A m \in 0..Len(more) : FlattenSeq(SubSeq(more, 1, m)) = g[m]
  BY <1>2, FlattenUpTo
<1>5. /\ g \in [0..Len(more) -> Seq(S)]
      /\ g[0] = <<>> /\ \A i \in 1..Len(more) : g[i] = g[i - 1] \o more[i]
      /\ \A m \in 0..Len(more) : FlattenSeq(SubSeq(more, 1, m)) = g[m]
  BY <1>a DEF Flattens
<1>6. g[n + 1] = g[n] \o more[n + 1] /\ g[n] \in Seq(S)
  <2>1. n + 1 \in 1..Len(more) /\ n \in 0..Len(more) /\ (n + 1) - 1 = n
    BY <1>1, <1>2
  <2> QED BY <1>5, <2>1
<1>7. FlattenSeq(more) = g[n + 1] /\ FlattenSeq(seqs) = g[n]
  <2>1. n + 1 \in 0..Len(more) /\ n \in 0..Len(more)
    BY <1>1, <1>2
  <2> QED BY <1>3, <1>4, <1>5, <2>1
<1> QED BY <1>2, <1>6, <1>7 DEF more

\* What comes first in flattening comes first in what is flattened.
LEMMA FlattenFront ==
    ASSUME NEW S, NEW seqs \in Seq(Seq(S)), NEW m \in 0..Len(seqs)
    PROVE  /\ FlattenSeq(SubSeq(seqs, 1, m)) \in Seq(S)
           /\ \E t \in Seq(S) : FlattenSeq(seqs) = FlattenSeq(SubSeq(seqs, 1, m)) \o t
<1> DEFINE n == Len(seqs)
<1>1. n \in Nat /\ SubSeq(seqs, 1, n) = seqs /\ \A i \in 1..n : seqs[i] \in Seq(S)
  BY LenProperties, SubSeqFull, ElementOfSeq
<1>a. PICK g : /\ Flattens(g, seqs, S)
               /\ \A k \in 0..n : FlattenSeq(SubSeq(seqs, 1, k)) = g[k]
  BY FlattenUpTo
<1>2. /\ g \in [0..n -> Seq(S)]
      /\ g[0] = <<>> /\ \A i \in 1..n : g[i] = g[i - 1] \o seqs[i]
      /\ \A k \in 0..n : FlattenSeq(SubSeq(seqs, 1, k)) = g[k]
  BY <1>a DEF Flattens
<1>3. g[m] \in Seq(S) /\ m \in Nat /\ m \in 0..n /\ m <= n
  <2>1. m \in 0..n /\ m \in Nat /\ m <= n
    BY <1>1
  <2> QED BY <1>2, <2>1
<1> HIDE DEF n
<1> DEFINE T == {k \in Nat : m + k <= n => \E t \in Seq(S) : g[m + k] = g[m] \o t}
<1>4. 0 \in T
  <2>1. g[m] = g[m] \o <<>> /\ <<>> \in Seq(S) /\ m + 0 = m
    BY <1>3, ConcatEmptySeq, EmptySeq
  <2> QED BY <2>1
<1>5. ASSUME NEW k \in Nat, k \in T PROVE k + 1 \in T
  <2>0. k + 1 \in Nat
    OBVIOUS
  <2> SUFFICES ASSUME m + (k + 1) <= n PROVE \E t \in Seq(S) : g[m + (k + 1)] = g[m] \o t
    BY <2>0
  <2>1. m + k <= n /\ m + (k + 1) \in 1..n /\ (m + (k + 1)) - 1 = m + k
    BY <1>1, <1>3
  <2>2. PICK t \in Seq(S) : g[m + k] = g[m] \o t
    BY <1>5, <2>1
  <2> DEFINE x == seqs[m + (k + 1)]
  <2>3. g[m + (k + 1)] = (g[m] \o t) \o x /\ x \in Seq(S)
    BY <1>1, <1>2, <2>1, <2>2
  <2> HIDE DEF x
  <2>4. (g[m] \o t) \o x = g[m] \o (t \o x)
    <3>1. \A a, b, c \in Seq(S) : (a \o b) \o c = a \o (b \o c)
      BY ConcatAssociative
    <3> QED BY <1>3, <2>3, <3>1
  <2>5. t \o x \in Seq(S)
    BY <2>3, ConcatProperties
  <2> QED BY <2>3, <2>4, <2>5
<1>6. Nat \subseteq T
  <2> HIDE DEF T
  <2> QED BY <1>4, <1>5, StepByStep
<1>7. n - m \in Nat /\ m + (n - m) = n /\ n \in 0..n
  BY <1>1, <1>3
<1>8. \E t \in Seq(S) : g[n] = g[m] \o t
  <2>1. n - m \in T
    BY <1>6, <1>7
  <2>2. m + (n - m) <= n => \E t \in Seq(S) : g[m + (n - m)] = g[m] \o t
    BY <2>1
  <2>3. n <= n
    BY <1>1
  <2> QED BY <1>7, <2>2, <2>3
<1>9. FlattenSeq(seqs) = g[n] /\ FlattenSeq(SubSeq(seqs, 1, m)) = g[m]
  BY <1>1, <1>2, <1>3, <1>7
<1> QED BY <1>3, <1>8, <1>9

\* Messages of one line each are those lines.
LEMMA FlattenSingles ==
    ASSUME NEW S, NEW s \in Seq(S)
    PROVE  FlattenSeq([i \in DOMAIN s |-> <<s[i]>>]) = s
<1> DEFINE n == Len(s)
           ones == [i \in DOMAIN s |-> <<s[i]>>]
<1>1. n \in Nat /\ DOMAIN s = 1..n /\ \A i \in 1..n : s[i] \in S
  BY LenProperties, ElementOfSeq
<1>2. ones \in Seq(Seq(S)) /\ Len(ones) = n /\ \A i \in 1..n : ones[i] = <<s[i]>>
  <2>1. \A i \in 1..n : <<s[i]>> \in Seq(S)
    BY <1>1
  <2>2. ones \in [1..n -> Seq(S)]
    BY <1>1, <2>1
  <2> QED BY <1>1, <2>2, SeqDef, LenProperties
<1> HIDE DEF ones
<1>a. PICK g : Flattens(g, ones, S) /\ FlattenSeq(ones) = g[Len(ones)]
  BY <1>2, FlattenBy
<1>3. /\ g[0] = <<>> /\ \A i \in 1..n : g[i] = g[i - 1] \o ones[i]
      /\ FlattenSeq(ones) = g[n]
  BY <1>2, <1>a DEF Flattens
<1> HIDE DEF n
<1> DEFINE h == [i \in 0..n |-> SubSeq(s, 1, i)]
<1>4. h[0] = g[0]
  <2>1. SubSeq(s, 1, 0) = <<>>
    BY SubSeqEmpty
  <2> QED BY <1>1, <1>3, <2>1
<1>5. ASSUME NEW i \in 1..n, h[i - 1] = g[i - 1] PROVE h[i] = g[i]
  <2>1. SubSeq(s, 1, i) = SubSeq(s, 1, i - 1) \o <<s[i]>>
    BY <1>1, SubSeqRecursiveSecond DEF n
  <2>a. i \in 0..n /\ i - 1 \in 0..n
    BY <1>1
  <2>2. h[i] = SubSeq(s, 1, i) /\ h[i - 1] = SubSeq(s, 1, i - 1)
    BY <2>a
  <2> HIDE DEF h
  <2> QED BY <1>2, <1>3, <1>5, <2>1, <2>2
<1>6. h[n] = g[n]
  <2> HIDE DEF h
  <2>0. n \in 0..n
    BY <1>1
  <2>1. \A i \in 0..n : h[i] = g[i]
    <3>1. Alike(n, h, g)
      BY <1>4, <1>5 DEF Alike
    <3> QED BY <1>1, <3>1, SameAll
  <2> QED BY <2>0, <2>1
<1>7. h[n] = s
  BY <1>1, SubSeqFull DEF n
<1> QED BY <1>2, <1>3, <1>6, <1>7 DEF ones

-----------------------------------------------------------------------------
\* Announces: what is decided and done about them.

\* The lists the code builds ask of each field what the rules in charge of it
\* ask: those of the matching entries that name it, else the global ones.
LEMMA VetoByField ==
    ASSUME NEW a \in Announce, NEW require \in SUBSET Fields,
           NEW filters \in SUBSET Filter, NEW entries \in SUBSET Watch
    PROVE  ~Vetoed(a, require, filters, entries) <=>
               \A f \in Fields :
                   LET own == {w \in entries : Names(w, f)}
                   IN  IF own = {} THEN Met(a, f, require, filters)
                       ELSE \A w \in own : Met(a, f, w.require, w.filters)
<1> DEFINE own(f) == {w \in entries : Names(w, f)}
           charge(f) == IF own(f) = {} THEN Met(a, f, require, filters)
                        ELSE \A w \in own(f) : Met(a, f, w.require, w.filters)
<1>1. \A w \in entries : w.require \subseteq Fields /\ w.filters \subseteq Filter
  BY DEF Watch
<1>2. \A r \in Filter : r.field \in Fields
  BY DEF Filter
<1>3. \A f : f \in Overridden(entries) <=> \E w \in entries : Names(w, f)
  BY DEF Overridden, Names
<1>4. \A f : f \in Overridden(entries) <=> own(f) # {}
  BY <1>3
<1>5. ASSUME ~Vetoed(a, require, filters, entries), NEW f \in Fields
      PROVE  charge(f)
  <2>1. \A g \in Required(require, entries) : g \in a.has
    BY <1>5 DEF Vetoed
  <2>2. \A r \in Applied(filters, entries) : Passes(a, r)
    BY <1>5 DEF Vetoed
  <2>3. CASE own(f) = {}
    <3>1. f \notin Overridden(entries)
      BY <1>4, <2>3
    <3>2. f \in require => f \in a.has
      BY <2>1, <3>1 DEF Required
    <3>3. \A r \in filters : r.field = f => Passes(a, r)
      BY <2>2, <3>1 DEF Applied
    <3> QED BY <2>3, <3>2, <3>3 DEF Met
  <2>4. CASE own(f) # {}
    <3>1. ASSUME NEW w \in own(f) PROVE Met(a, f, w.require, w.filters)
      <4>1. f \in w.require => f \in a.has
        BY <2>1, <3>1 DEF Required
      <4>2. \A r \in w.filters : Passes(a, r)
        BY <2>2, <3>1 DEF Applied
      <4> QED BY <4>1, <4>2 DEF Met
    <3> QED BY <2>4, <3>1
  <2> QED BY <2>3, <2>4
<1>6. ASSUME \A f \in Fields : charge(f)
      PROVE  ~Vetoed(a, require, filters, entries)
  <2>1. ASSUME NEW f \in Required(require, entries) PROVE f \in a.has
    <3>1. CASE f \in require \ Overridden(entries)
      <4>1. own(f) = {} /\ f \in Fields
        BY <1>4, <3>1
      <4>2. Met(a, f, require, filters)
        BY <1>6, <4>1
      <4> QED BY <3>1, <4>2 DEF Met
    <3>2. CASE \E w \in entries : f \in w.require
      <4>1. PICK w \in entries : f \in w.require
        BY <3>2
      <4>2. w \in own(f) /\ f \in Fields
        BY <1>1, <4>1 DEF Names
      <4>3. Met(a, f, w.require, w.filters)
        BY <1>6, <4>2
      <4> QED BY <4>1, <4>3 DEF Met
    <3> QED BY <2>1, <3>1, <3>2 DEF Required
  <2>2. ASSUME NEW r \in Applied(filters, entries) PROVE Passes(a, r)
    <3>1. CASE r \in filters /\ r.field \notin Overridden(entries)
      <4>1. own(r.field) = {} /\ r.field \in Fields
        BY <1>2, <1>4, <3>1
      <4>2. Met(a, r.field, require, filters)
        BY <1>6, <4>1
      <4> QED BY <3>1, <4>2 DEF Met
    <3>2. CASE \E w \in entries : r \in w.filters
      <4>1. PICK w \in entries : r \in w.filters
        BY <3>2
      <4>2. w \in own(r.field) /\ r.field \in Fields
        BY <1>1, <1>2, <4>1 DEF Names
      <4>3. Met(a, r.field, w.require, w.filters)
        BY <1>6, <4>2
      <4> QED BY <4>1, <4>3 DEF Met
    <3> QED BY <2>2, <3>1, <3>2 DEF Applied
  <2> QED BY <2>1, <2>2 DEF Vetoed
<1> QED BY <1>5, <1>6

\* `decide` takes an announcement exactly when the documented rules want it,
\* for every announcement and every rule set.
THEOREM DecideIsRight ==
    ASSUME NEW a \in Announce, NEW c \in RuleSet
    PROVE  Decide(a, c.watch, c.reject, c.require, c.filters) = "wanted" <=> Wanted(a, c)
<1>1. /\ c.require \in SUBSET Fields /\ c.filters \in SUBSET Filter
      /\ Matched(a, c.watch) \in SUBSET Watch
  BY DEF RuleSet, Matched
<1> DEFINE m == Matched(a, c.watch)
<1>2. ~Vetoed(a, c.require, c.filters, m) <=>
          \A f \in Fields :
              LET own == {w \in m : Names(w, f)}
              IN  IF own = {} THEN Met(a, f, c.require, c.filters)
                  ELSE \A w \in own : Met(a, f, w.require, w.filters)
  BY <1>1, VetoByField
<1>3. Wanted(a, c) <=>
          ~Rejected(a, c.reject) /\ m # {} /\ ~Vetoed(a, c.require, c.filters, m)
  BY <1>2 DEF Wanted
<1>4. Decide(a, c.watch, c.reject, c.require, c.filters) = "wanted" <=>
          ~Rejected(a, c.reject) /\ m # {} /\ ~Vetoed(a, c.require, c.filters, m)
  BY DEF Decide
<1> QED BY <1>3, <1>4

-----------------------------------------------------------------------------
(* Type correctness. *)

JobType == [at : Places, item : Announces, sound : BOOLEAN]
ReadType == [watch : SUBSET Watch, reject : SUBSET Patterns, require : SUBSET Fields]

\* Moving a loop to another place keeps the rest of its job.
LEMMA GoesType ==
    ASSUME job \in [Loops -> JobType], NEW l \in Loops, NEW where \in Places, Goes(l, where)
    PROVE  /\ job' \in [Loops -> JobType]
           /\ \A k \in Loops : job'[k].item = job[k].item
           /\ job'[l].at = where
           /\ \A k \in Loops \ {l} : job'[k] = job[k]
BY DEF Goes, JobType

\* What an upload may do to the types.
LEMMA UploadType ==
    ASSUME TypeOK, NEW l \in Loops, Upload(l)
    PROVE  /\ job' \in [Loops -> JobType]
           /\ told' \in [Loops -> {"nothing", "eaten", "added", "failed"}]
           /\ taken' \in [Loops -> BOOLEAN] /\ unheard' \in [Loops -> BOOLEAN]
<1>1. Stored \in Places /\ AfterLoss \in Places /\ "idle" \in Places
  BY DEF Stored, AfterLoss, Places
<1>2. job \in [Loops -> JobType] /\ job[l].item.name \in Texts
  BY AddPathAssumption DEF TypeOK, JobType, Announce
<1>3. \E where \in Places : Goes(l, where)
  BY <1>1 DEF Upload, Settles
<1>4. job' \in [Loops -> JobType]
  BY <1>2, <1>3, GoesType
<1>5. taken' \in [Loops -> BOOLEAN]
  BY <1>2 DEF Upload, TypeOK, uploadVars
<1>6. unheard' \in [Loops -> BOOLEAN]
  BY DEF Upload, TypeOK, uploadVars
<1>7. told' \in [Loops -> {"nothing", "eaten", "added", "failed"}]
  <2>1. \E what \in {"added", "nothing", "failed"} : Tells(l, what)
    BY DEF Upload, Settles
  <2> QED BY <2>1 DEF Tells, TypeOK
<1> QED BY <1>4, <1>5, <1>6, <1>7

LEMMA InitType == Init => TypeOK
<1> SUFFICES ASSUME Init PROVE TypeOK
  OBVIOUS
<1>1. job \in [Loops -> JobType]
  BY DEF Init, JobType, Places
<1>2. read \in [Loops -> ReadType]
  BY DEF Init, Nothing, ReadType
<1> QED BY <1>1, <1>2 DEF Init, TypeOK, JobType, ReadType

LEMMA StepType == TypeOK /\ [Next]_vars => TypeOK'
<1> SUFFICES ASSUME TypeOK, [Next]_vars PROVE TypeOK'
  OBVIOUS
<1>0. job \in [Loops -> JobType] /\ read \in [Loops -> ReadType]
  BY DEF TypeOK, JobType, ReadType
<1>1. ASSUME NEW l \in Loops, NEW a \in Announces, Begin(l, a) PROVE TypeOK'
  <2>1. PICK where \in {"watches", "fetching"} :
            job' = [job EXCEPT ![l] = [at |-> where, item |-> a, sound |-> TRUE]]
    BY <1>1 DEF Begin
  <2>2. job' \in [Loops -> JobType]
    BY <1>0, <2>1 DEF JobType, Places
  <2> QED BY <1>1, <2>2 DEF Begin, Tells, TypeOK, JobType, decisionVars
<1>2. ASSUME NEW l \in Loops, Decision(l) PROVE TypeOK'
  <2>0. options.watch \in SUBSET Watch /\ options.reject \in SUBSET Patterns
        /\ options.require \in SUBSET Fields
    BY AddPathAssumption DEF TypeOK, RuleSet
  <2>1. \E where \in Places : Goes(l, where)
    BY <1>2 DEF Decision, ReadWatches, ReadRejects, ReadRequires, ReadFiltersAndDecide, Places
  <2>2. job' \in [Loops -> JobType]
    BY <1>0, <2>1, GoesType
  <2>3. read' \in [Loops -> ReadType]
    BY <1>0, <1>2, <2>0 DEF Decision, ReadWatches, ReadRejects, ReadRequires,
       ReadFiltersAndDecide, ReadType, Nothing
  <2>4. inForce' \in [Loops -> SUBSET Configs]
    BY <1>2 DEF Decision, ReadWatches, ReadRejects, ReadRequires, ReadFiltersAndDecide, TypeOK
  <2>5. told' \in [Loops -> {"nothing", "eaten", "added", "failed"}]
    BY <1>2 DEF Decision, ReadWatches, ReadRejects, ReadRequires, ReadFiltersAndDecide,
       Tells, Eaten, TypeOK
  <2> QED
    BY <1>2, <2>2, <2>3, <2>4, <2>5 DEF Decision, ReadWatches, ReadRejects, ReadRequires,
       ReadFiltersAndDecide, TypeOK, JobType, ReadType, uploadVars, sessionVars
<1>3. ASSUME NEW l \in Loops, Fetch(l) PROVE TypeOK'
  <2>1. job' \in [Loops -> JobType]
    BY <1>0, <1>3 DEF Fetch, Settles, Goes, JobType, Places
  <2>2. told' \in [Loops -> {"nothing", "eaten", "added", "failed"}]
    BY <1>3 DEF Fetch, Settles, Tells, TypeOK
  <2> QED
    BY <1>3, <2>1, <2>2 DEF Fetch, TypeOK, JobType, decisionVars, uploadVars, sessionVars
<1>4. ASSUME NEW l \in Loops, Stamp(l) PROVE TypeOK'
  <2>1. Goes(l, "idle") /\ Tells(l, "added")
    BY <1>4 DEF Stamp, Stamped, Settles
  <2>2. job' \in [Loops -> JobType]
    BY <1>0, <2>1, GoesType DEF Places
  <2> QED
    BY <1>4, <2>1, <2>2 DEF Stamp, Tells, TypeOK, JobType, decisionVars, uploadVars, sessionVars
<1>5. ASSUME NEW l \in Loops, AddRtorrent(l) \/ AddQbittorrent(l) \/ Retry(l) PROVE TypeOK'
  <2>1. \/ Upload(l)
        \/ UNCHANGED uploadVars /\ Settles(l, "failed")
        \/ UNCHANGED uploadVars /\ Goes(l, "login") /\ UNCHANGED told
        \/ /\ Settles(l, "failed") /\ UNCHANGED unheard
           /\ taken' \in {taken, [taken EXCEPT ![l] = TRUE]}
    BY <1>5 DEF AddRtorrent, AddQbittorrent, Retry, uploadVars
  <2>2. /\ job' \in [Loops -> JobType]
        /\ told' \in [Loops -> {"nothing", "eaten", "added", "failed"}]
        /\ taken' \in [Loops -> BOOLEAN] /\ unheard' \in [Loops -> BOOLEAN]
    <3>1. CASE Upload(l)
      BY <3>1, UploadType
    <3>2. CASE UNCHANGED uploadVars /\ Settles(l, "failed")
      BY <1>0, <3>2, GoesType DEF Settles, Tells, TypeOK, uploadVars, Places
    <3>3. CASE UNCHANGED uploadVars /\ Goes(l, "login") /\ UNCHANGED told
      BY <1>0, <3>3, GoesType DEF TypeOK, uploadVars, Places
    <3>4. CASE /\ Settles(l, "failed") /\ UNCHANGED unheard
               /\ taken' \in {taken, [taken EXCEPT ![l] = TRUE]}
      BY <1>0, <3>4, GoesType DEF Settles, Tells, TypeOK, Places
    <3> QED BY <2>1, <3>1, <3>2, <3>3, <3>4
  <2>3. UNCHANGED <<client, options, read, inForce, signedIn, issued, fresh>>
    BY <1>5 DEF AddRtorrent, AddQbittorrent, Retry, decisionVars, sessionVars
  <2> QED BY <2>2, <2>3 DEF TypeOK, JobType
<1>6. ASSUME NEW l \in Loops, Login(l) \/ KeepCookie(l) PROVE TypeOK'
  <2>1. \/ Goes(l, "keeping") /\ UNCHANGED told
        \/ Goes(l, "retrying") /\ UNCHANGED told
        \/ Settles(l, "failed")
    BY <1>6 DEF Login, KeepCookie
  <2>2. /\ job' \in [Loops -> JobType]
        /\ told' \in [Loops -> {"nothing", "eaten", "added", "failed"}]
    <3>1. \E where \in Places : Goes(l, where)
      BY <2>1 DEF Settles, Places
    <3>2. job' \in [Loops -> JobType]
      BY <3>1, GoesType DEF TypeOK, JobType
    <3> QED BY <2>1, <3>2 DEF Settles, Tells, TypeOK
  <2>3. signedIn' \in BOOLEAN /\ issued' \in [Loops -> BOOLEAN] /\ fresh' \in [Loops -> BOOLEAN]
    BY <1>6 DEF Login, KeepCookie, TypeOK
  <2> QED
    BY <1>6, <2>2, <2>3 DEF Login, KeepCookie, TypeOK, JobType, decisionVars, uploadVars
<1>7. CASE EditOptions
  <2>1. inForce' \in [Loops -> SUBSET Configs] /\ options' \in Configs
    BY <1>7 DEF EditOptions, TypeOK
  <2> QED BY <1>7, <2>1 DEF EditOptions, TypeOK, uploadVars, sessionVars
<1>8. CASE OthersSignIn \/ Expire
  BY <1>8 DEF OthersSignIn, Expire, TypeOK, decisionVars, uploadVars
<1>9. CASE UNCHANGED vars
  BY <1>9 DEF vars, TypeOK, decisionVars, uploadVars, sessionVars
<1> QED
  BY <1>1, <1>2, <1>3, <1>4, <1>5, <1>6, <1>7, <1>8, <1>9 DEF Next

\* Every reachable state of the add path is well typed.
THEOREM AddTypeCorrect == Spec => []TypeOK
BY InitType, StepType, PTL DEF Spec

-----------------------------------------------------------------------------
(* Decisions follow the rules. *)

\* What a loop has read of the rules, each part from some set that has been in
\* force since it began; the one in force now is among them.
ReadFrom(l) ==
    /\ job[l].at \in {"rejects", "requires", "filters"} =>
          options \in inForce[l] /\ \E c \in inForce[l] : read[l].watch = c.watch
    /\ job[l].at \in {"requires", "filters"} =>
          \E c \in inForce[l] : read[l].reject = c.reject
    /\ job[l].at = "filters" =>
          \E c \in inForce[l] : read[l].require = c.require

ReadInv == \A l \in Loops : ReadFrom(l)

LEMMA StepRead == TypeOK /\ ReadInv /\ [Next]_vars => ReadInv'
<1> SUFFICES ASSUME TypeOK, ReadInv, [Next]_vars PROVE ReadInv'
  OBVIOUS
<1>0. job \in [Loops -> JobType] /\ read \in [Loops -> ReadType]
      /\ inForce \in [Loops -> SUBSET Configs]
  BY DEF TypeOK, JobType, ReadType
<1>1. ASSUME NEW l \in Loops, NEW k \in Loops,
             \/ \E a \in Announces : Begin(l, a)
             \/ Decision(l) \/ Fetch(l) \/ AddRtorrent(l) \/ Stamp(l)
             \/ AddQbittorrent(l) \/ Login(l) \/ KeepCookie(l) \/ Retry(l)
      PROVE  ReadFrom(k)'
  <2>0. options' = options
    BY <1>1 DEF Begin, Decision, ReadWatches, ReadRejects, ReadRequires,
       ReadFiltersAndDecide, Fetch, AddRtorrent, Stamp, AddQbittorrent, Login, KeepCookie, Retry
  <2>1. CASE k # l
    <3>1. job'[k] = job[k]
      BY <1>0, <1>1, <2>1 DEF Begin, Decision, ReadWatches, ReadRejects, ReadRequires,
         ReadFiltersAndDecide, Fetch, AddRtorrent, Stamp, AddQbittorrent, Login, KeepCookie, Retry,
         Upload, Settles, Goes
    <3>2. read'[k] = read[k] /\ inForce'[k] = inForce[k]
      BY <1>0, <1>1, <2>1 DEF Begin, Decision, ReadWatches, ReadRejects, ReadRequires,
         ReadFiltersAndDecide, Fetch, AddRtorrent, Stamp, AddQbittorrent, Login, KeepCookie, Retry,
         decisionVars
    <3> QED BY <2>0, <3>1, <3>2 DEF ReadInv, ReadFrom
  <2>2. CASE k = l
    <3>1. CASE ReadWatches(l)
      BY <1>0, <2>2, <3>1 DEF ReadWatches, Goes, ReadFrom, JobType, ReadType
    <3>2. CASE ReadRejects(l)
      BY <1>0, <2>2, <3>2 DEF ReadRejects, Goes, At, ReadFrom, ReadInv, JobType, ReadType
    <3>3. CASE ReadRequires(l)
      BY <1>0, <2>2, <3>3 DEF ReadRequires, Goes, At, ReadFrom, ReadInv, JobType, ReadType
    <3>4. CASE ~(ReadWatches(l) \/ ReadRejects(l) \/ ReadRequires(l))
      <4>1. job'[l].at \notin {"rejects", "requires", "filters"}
        BY <1>0, <1>1, <3>4 DEF Begin, Decision, ReadFiltersAndDecide, Fetch, AddRtorrent,
           Stamp, AddQbittorrent, Login, KeepCookie, Retry, Upload, Settles, Goes, Stored, AfterLoss, JobType
      <4> QED BY <2>2, <4>1 DEF ReadFrom
    <3> QED BY <3>1, <3>2, <3>3, <3>4
  <2> QED BY <2>1, <2>2
<1>2. CASE EditOptions
  <2> SUFFICES ASSUME NEW k \in Loops PROVE ReadFrom(k)'
    BY DEF ReadInv
  <2>1. PICK c \in Configs :
            /\ options' = c
            /\ inForce' = [l \in Loops |-> IF inForce[l] = {} THEN {} ELSE inForce[l] \cup {c}]
    BY <1>2 DEF EditOptions
  <2>2. UNCHANGED <<job, read>>
    BY <1>2 DEF EditOptions
  <2>3. inForce[k] # {} => inForce'[k] = inForce[k] \cup {c}
    BY <2>1
  <2> QED BY <2>1, <2>2, <2>3 DEF ReadInv, ReadFrom
<1>3. CASE OthersSignIn \/ Expire \/ UNCHANGED vars
  BY <1>3 DEF OthersSignIn, Expire, vars, decisionVars, ReadInv, ReadFrom
<1> QED
  BY <1>1, <1>2, <1>3 DEF Next, ReadInv

\* The step that decides does so by rules that have been in force.
LEMMA StepDecides ==
    ASSUME TypeOK, ReadInv, [Next]_vars, NEW l \in Loops, Decides(l)
    PROVE  /\ \A c \in Configs : inForce[l] = {c} => (Takes(l) <=> Wanted(job[l].item, c))
           /\ Takes(l) => /\ \E c \in inForce[l] : Matched(job[l].item, c.watch) # {}
                          /\ \E c \in inForce[l] : ~Rejected(job[l].item, c.reject)
<1>0. job \in [Loops -> JobType]
  BY DEF TypeOK, JobType
<1>1. job[l].at = "filters" /\ job'[l].at # "filters"
  BY DEF Decides, At
<1>2. ReadFiltersAndDecide(l)
  <2>1. ASSUME NEW k \in Loops, k # l,
               \/ \E a \in Announces : Begin(k, a)
               \/ Decision(k) \/ Fetch(k) \/ AddRtorrent(k) \/ Stamp(k)
               \/ AddQbittorrent(k) \/ Login(k) \/ KeepCookie(k) \/ Retry(k)
        PROVE  job'[l] = job[l]
    BY <1>0, <2>1 DEF Begin, Decision, ReadWatches, ReadRejects, ReadRequires,
       ReadFiltersAndDecide, Fetch, AddRtorrent, Stamp, AddQbittorrent, Login, KeepCookie, Retry,
       Upload, Settles, Goes
  <2>2. ~(EditOptions \/ OthersSignIn \/ Expire \/ UNCHANGED vars)
    BY <1>1 DEF EditOptions, OthersSignIn, Expire, vars
  <2>3. \/ \E a \in Announces : Begin(l, a)
        \/ Decision(l) \/ Fetch(l) \/ AddRtorrent(l) \/ Stamp(l)
        \/ AddQbittorrent(l) \/ Login(l) \/ KeepCookie(l) \/ Retry(l)
    BY <1>1, <2>1, <2>2 DEF Next
  <2> QED
    BY <1>1, <2>3 DEF At, Begin, Decision, ReadWatches, ReadRejects, ReadRequires, Fetch,
       AddRtorrent, Stamp, AddQbittorrent, Login, KeepCookie, Retry
<1> DEFINE a == job[l].item
           verdict == Decide(a, read[l].watch, read[l].reject, read[l].require, options.filters)
<1>3. Takes(l) <=> verdict = "wanted"
  <2>1. job'[l].at = IF verdict = "wanted" THEN "fetching" ELSE "idle"
    BY <1>0, <1>2 DEF ReadFiltersAndDecide, Goes, JobType
  <2> QED BY <2>1 DEF Takes
<1>4. /\ options \in inForce[l]
      /\ \E c \in inForce[l] : read[l].watch = c.watch
      /\ \E c \in inForce[l] : read[l].reject = c.reject
      /\ \E c \in inForce[l] : read[l].require = c.require
  BY <1>1 DEF ReadInv, ReadFrom
<1>5. ASSUME NEW c \in Configs, inForce[l] = {c}
      PROVE  Takes(l) <=> Wanted(a, c)
  <2>1. verdict = Decide(a, c.watch, c.reject, c.require, c.filters)
    <3>1. options = c /\ read[l].watch = c.watch /\ read[l].reject = c.reject
          /\ read[l].require = c.require
      BY <1>4, <1>5
    <3> QED BY <3>1
  <2>2. a \in Announce /\ c \in RuleSet
    BY <1>0, AddPathAssumption DEF JobType
  <2>3. Decide(a, c.watch, c.reject, c.require, c.filters) = "wanted" <=> Wanted(a, c)
    BY <2>2, DecideIsRight
  <2> QED BY <1>3, <2>1, <2>3
<1>6. Takes(l) => Matched(a, read[l].watch) # {} /\ ~Rejected(a, read[l].reject)
  BY <1>3 DEF Decide
<1>7. Takes(l) => /\ \E c \in inForce[l] : Matched(a, c.watch) # {}
                  /\ \E c \in inForce[l] : ~Rejected(a, c.reject)
  <2>1. PICK c \in inForce[l] : read[l].watch = c.watch
    BY <1>4
  <2>2. PICK d \in inForce[l] : read[l].reject = d.reject
    BY <1>4
  <2> QED BY <1>6, <2>1, <2>2
<1> QED BY <1>5, <1>7

\* Unattended, a release is taken exactly when the documented rules want it,
\* and under an edit in the middle of a decision never without an entry that
\* matched and a reject list that let it through.
THEOREM DecisionsCorrect == Spec => DecisionsFollowRules
<1>1. Init => ReadInv
  BY DEF Init, ReadInv, ReadFrom
<1>2. TypeOK /\ ReadInv /\ [Next]_vars =>
        [\A l \in Loops : Decides(l) =>
            /\ \A c \in Configs : inForce[l] = {c} => (Takes(l) <=> Wanted(job[l].item, c))
            /\ Takes(l) => /\ \E c \in inForce[l] : Matched(job[l].item, c.watch) # {}
                           /\ \E c \in inForce[l] : ~Rejected(job[l].item, c.reject)]_vars
  BY StepDecides
<1> QED
  BY <1>1, <1>2, InitType, StepType, StepRead, PTL DEF Spec, DecisionsFollowRules

-----------------------------------------------------------------------------
(* Reports and repeats. *)

\* Until it is told what came of it a loop's upload has not been taken, and
\* one being stamped has; nothing is told of a release still on its way.
ReportInv ==
    \A l \in Loops :
        /\ job[l].at \in Places \ {"idle", "stamping"} => ~taken[l]
        /\ job[l].at = "stamping" => taken[l]
        /\ job[l].at # "idle" => told[l] = "nothing"
        /\ told[l] = "added" => taken[l]
        /\ told[l] = "failed" => ~taken[l] \/ unheard[l] \/ Unparsed(l)

LEMMA StepReport == TypeOK /\ ReportInv /\ [Next]_vars => ReportInv'
<1> SUFFICES ASSUME TypeOK, ReportInv, [Next]_vars PROVE ReportInv'
  OBVIOUS
<1>0. job \in [Loops -> JobType] /\ taken \in [Loops -> BOOLEAN]
      /\ unheard \in [Loops -> BOOLEAN]
      /\ told \in [Loops -> {"nothing", "eaten", "added", "failed"}]
  BY DEF TypeOK, JobType
<1>c. client' = client
  BY DEF Next, Begin, Decision, ReadWatches, ReadRejects, ReadRequires, ReadFiltersAndDecide,
     Fetch, AddRtorrent, Stamp, AddQbittorrent, Login, KeepCookie, Retry, EditOptions,
     OthersSignIn, Expire, vars
<1>1. ASSUME NEW l \in Loops, NEW a \in Announces, Begin(l, a) PROVE ReportInv'
  BY <1>0, <1>1, <1>c DEF Begin, Tells, ReportInv, Unparsed
<1>2. ASSUME NEW l \in Loops, Decision(l) PROVE ReportInv'
  <2>1. UNCHANGED <<taken, unheard>>
    BY <1>2 DEF Decision, ReadWatches, ReadRejects, ReadRequires, ReadFiltersAndDecide,
       uploadVars, sessionVars
  <2>2. /\ job[l].at \in {"watches", "rejects", "requires", "filters"}
        /\ \A k \in Loops \ {l} : job'[k] = job[k] /\ told'[k] = told[k]
    BY <1>0, <1>2 DEF Decision, ReadWatches, ReadRejects, ReadRequires, ReadFiltersAndDecide,
       At, Goes, Tells
  <2>3. /\ job'[l].at \in Places \ {"stamping"}
        /\ told'[l] \in {"nothing", "eaten"}
        /\ job'[l].at # "idle" => told'[l] = "nothing"
    <3>1. CASE ReadFiltersAndDecide(l)
      BY <1>0, <3>1 DEF ReadFiltersAndDecide, Goes, Tells, Eaten, JobType, Places
    <3>2. CASE ReadWatches(l) \/ ReadRejects(l) \/ ReadRequires(l)
      BY <1>0, <2>2, <3>2 DEF ReadWatches, ReadRejects, ReadRequires, Goes, JobType, Places,
         ReportInv
    <3> QED BY <1>2, <3>1, <3>2 DEF Decision
  <2>4. ~taken[l]
    BY <2>2 DEF ReportInv, Places
  <2> QED BY <1>c, <2>1, <2>2, <2>3, <2>4 DEF ReportInv, Unparsed
<1>3. ASSUME NEW l \in Loops, Fetch(l) PROVE ReportInv'
  BY <1>0, <1>3, <1>c DEF Fetch, At, Settles, Goes, Tells, ReportInv, uploadVars, sessionVars,
     JobType, Places, Unparsed
<1>4. ASSUME NEW l \in Loops, Stamp(l) PROVE ReportInv'
  BY <1>0, <1>4, <1>c DEF Stamp, Stamped, At, Settles, Goes, Tells, ReportInv, uploadVars,
     sessionVars, JobType, Places, Unparsed
<1>5. ASSUME NEW l \in Loops, AddRtorrent(l) \/ AddQbittorrent(l) \/ Retry(l) PROVE ReportInv'
  <2>1. job[l].at \in {"uploading", "retrying"}
    BY <1>5 DEF AddRtorrent, AddQbittorrent, Retry, sessionVars, At
  <2>2. ~taken[l] /\ told[l] = "nothing"
    BY <2>1 DEF ReportInv, Places
  <2>3. \/ Upload(l)
        \/ UNCHANGED uploadVars /\ Settles(l, "failed")
        \/ UNCHANGED uploadVars /\ Goes(l, "login") /\ UNCHANGED told
        \/ Unparsed(l) /\ AddRtorrent(l) /\ Settles(l, "failed")
    BY <1>5 DEF AddRtorrent, AddQbittorrent, Retry, uploadVars, Unparsed
  <2>4. CASE UNCHANGED uploadVars /\ Settles(l, "failed")
    BY <1>0, <1>c, <2>1, <2>2, <2>4 DEF Settles, Goes, Tells, uploadVars, ReportInv, JobType,
       Places, Unparsed
  <2>5. CASE UNCHANGED uploadVars /\ Goes(l, "login") /\ UNCHANGED told
    BY <1>0, <1>c, <2>1, <2>2, <2>5 DEF Goes, uploadVars, ReportInv, JobType,
       Places, Unparsed
  <2>6. CASE Upload(l) /\ ~Settles(l, "failed")
    <3>1. taken' = [taken EXCEPT ![l] = TRUE]
      BY <2>6 DEF Upload, uploadVars
    <3>2. \/ Goes(l, Stored) /\ Tells(l, IF Stored = "idle" THEN "added" ELSE "nothing")
             /\ unheard' = unheard
          \/ Goes(l, "idle") /\ Tells(l, "failed") /\ unheard' = [unheard EXCEPT ![l] = TRUE]
      BY <2>6 DEF Upload, AfterLoss
    <3>3. Stored \in {"stamping", "idle"}
      BY DEF Stored
    <3> QED
      BY <1>0, <1>c, <2>1, <2>2, <3>1, <3>2, <3>3 DEF Goes, Tells, ReportInv, JobType,
         Places, Unparsed
  <2>7. CASE Upload(l) /\ Settles(l, "failed")
    <3>1. UNCHANGED uploadVars \/ (taken' = [taken EXCEPT ![l] = TRUE]
                                   /\ unheard' = [unheard EXCEPT ![l] = TRUE])
      <4>1. told'[l] = "failed"
        BY <1>0, <2>7 DEF Settles, Tells
      <4>2. \A what \in {"added", "nothing"} : ~Tells(l, what)
        BY <1>0, <4>1 DEF Tells
      <4> QED BY <2>7, <4>2 DEF Upload
    <3> QED
      BY <1>0, <1>c, <2>1, <2>2, <2>7, <3>1 DEF Settles, Goes, Tells, uploadVars, ReportInv,
         JobType, Places, Unparsed
  <2>8. CASE Unparsed(l) /\ AddRtorrent(l) /\ Settles(l, "failed")
    <3>1. /\ client' = client /\ UNCHANGED unheard
          /\ taken' \in {taken, [taken EXCEPT ![l] = TRUE]}
          /\ job[l].sound = FALSE
      BY <1>0, <2>8 DEF AddRtorrent, Unparsed, JobType
    <3>2. /\ job'[l].at = "idle" /\ job'[l].sound = FALSE /\ told'[l] = "failed"
          /\ \A k \in Loops \ {l} : job'[k] = job[k] /\ told'[k] = told[k] /\ taken'[k] = taken[k]
      BY <1>0, <2>8, <3>1 DEF Settles, Goes, Tells, JobType
    <3> QED BY <2>8, <3>1, <3>2 DEF ReportInv, Unparsed
  <2> QED BY <2>3, <2>4, <2>5, <2>6, <2>7, <2>8
<1>6. ASSUME NEW l \in Loops, Login(l) \/ KeepCookie(l) PROVE ReportInv'
  BY <1>0, <1>6, <1>c DEF Login, KeepCookie, At, Settles, Goes, Tells, ReportInv, uploadVars,
     JobType, Places, Unparsed
<1>7. CASE EditOptions \/ OthersSignIn \/ Expire \/ UNCHANGED vars
  BY <1>7, <1>c DEF EditOptions, OthersSignIn, Expire, vars, uploadVars, sessionVars,
     ReportInv, Unparsed
<1> QED
  BY <1>1, <1>2, <1>3, <1>4, <1>5, <1>6, <1>7 DEF Next

\* No report is false, but for what rTorrent loaded and the bot cannot parse:
\* for any number of loops, clients that refuse or lose answers, and sessions
\* that end at any moment.
THEOREM ReportsCorrect == Spec => []ReportsAreTrue
<1>1. Init => ReportInv
  BY DEF Init, ReportInv, Places
<1>2. ReportInv => ReportsAreTrue
  BY DEF ReportInv, ReportsAreTrue
<1> QED
  BY <1>1, <1>2, InitType, StepType, StepReport, PTL DEF Spec

\* As long as no session has ended, every answer to a login that is on its way
\* bears one that lives, so whichever comes last leaves such a one in the jar.
SessionInv ==
    \A l \in Loops : fresh[l] =>
        /\ job[l].at = "keeping" => issued[l]
        /\ job[l].at = "retrying" => signedIn
        /\ job[l].at \in {"keeping", "retrying"} =>
              \A k \in Loops : job[k].at = "keeping" => fresh[k]

LEMMA StepSession == TypeOK /\ SessionInv /\ [Next]_vars => SessionInv'
<1> SUFFICES ASSUME TypeOK, SessionInv, [Next]_vars PROVE SessionInv'
  OBVIOUS
<1>0. /\ job \in [Loops -> JobType] /\ signedIn \in BOOLEAN
      /\ issued \in [Loops -> BOOLEAN] /\ fresh \in [Loops -> BOOLEAN]
  BY DEF TypeOK, JobType
<1>1. ASSUME NEW l \in Loops,
             \/ \E a \in Announces : Begin(l, a)
             \/ Decision(l) \/ Fetch(l) \/ AddRtorrent(l) \/ Stamp(l)
             \/ AddQbittorrent(l) \/ Retry(l)
      PROVE  SessionInv'
  <2>1. UNCHANGED <<signedIn, issued>> /\ \A k \in Loops \ {l} : fresh'[k] = fresh[k]
    BY <1>0, <1>1 DEF Begin, Decision, ReadWatches, ReadRejects, ReadRequires,
       ReadFiltersAndDecide, Fetch, AddRtorrent, Stamp, AddQbittorrent, Retry, sessionVars
  <2>2. \A k \in Loops \ {l} : job'[k] = job[k]
    BY <1>0, <1>1 DEF Begin, Decision, ReadWatches, ReadRejects, ReadRequires,
       ReadFiltersAndDecide, Fetch, AddRtorrent, Stamp, AddQbittorrent, Retry, Upload, Settles, Goes
  <2>3. job'[l].at \notin {"keeping", "retrying"}
    BY <1>0, <1>1 DEF Begin, Decision, ReadWatches, ReadRejects, ReadRequires,
       ReadFiltersAndDecide, Fetch, AddRtorrent, Stamp, AddQbittorrent, Retry, Upload, Settles,
       Goes, Stored, AfterLoss, JobType
  <2> QED BY <2>1, <2>2, <2>3 DEF SessionInv
<1>2. ASSUME NEW l \in Loops, Login(l) PROVE SessionInv'
  <2>1. CASE Settles(l, "failed") /\ UNCHANGED <<issued, fresh>>
    BY <1>0, <1>2, <2>1 DEF Login, Settles, Goes, SessionInv, JobType
  <2>2. CASE /\ Goes(l, "keeping")
             /\ issued' = [issued EXCEPT ![l] = TRUE]
             /\ fresh' = [fresh EXCEPT ![l] = \A k \in Loops : At(k, "keeping") => fresh[k]]
    <3>1. \A k \in Loops \ {l} : job'[k] = job[k] /\ fresh'[k] = fresh[k] /\ issued'[k] = issued[k]
      BY <1>0, <2>2 DEF Goes
    <3>2. job'[l].at = "keeping" /\ issued'[l] /\ signedIn' = signedIn
      BY <1>0, <1>2, <2>2 DEF Goes, Login, JobType
    <3>3. fresh'[l] <=> \A k \in Loops : job[k].at = "keeping" => fresh[k]
      BY <1>0, <2>2 DEF At
    <3> QED BY <3>1, <3>2, <3>3 DEF SessionInv
  <2> QED BY <1>2, <2>1, <2>2 DEF Login
<1>3. ASSUME NEW l \in Loops, KeepCookie(l) PROVE SessionInv'
  <2>1. fresh' = fresh /\ signedIn' = issued[l] /\ job[l].at = "keeping"
    BY <1>3 DEF KeepCookie, At
  <2>2. /\ job'[l].at = "retrying"
        /\ \A k \in Loops \ {l} : job'[k] = job[k] /\ issued'[k] = issued[k]
    BY <1>0, <1>3 DEF KeepCookie, Goes, JobType
  <2>3. ASSUME NEW k \in Loops, fresh[k], job'[k].at = "retrying" PROVE issued[l]
    BY <2>1, <2>2, <2>3 DEF SessionInv
  <2> QED BY <2>1, <2>2, <2>3 DEF SessionInv
<1>4. CASE Expire
  BY <1>4 DEF Expire, SessionInv
<1>5. CASE EditOptions \/ OthersSignIn \/ UNCHANGED vars
  BY <1>5 DEF EditOptions, OthersSignIn, vars, sessionVars, SessionInv
<1> QED
  BY <1>1, <1>2, <1>3, <1>4, <1>5 DEF Next

\* A request is repeated only if it had no effect, and with a live session
\* unless one has ended since, however many loops sign in at once.
THEOREM RepeatCorrect == Spec => []RepeatIsSafe
<1>1. Init => ReportInv /\ SessionInv
  BY DEF Init, ReportInv, SessionInv, Places
<1>2. ReportInv /\ SessionInv => RepeatIsSafe
  BY DEF ReportInv, SessionInv, RepeatIsSafe, At, Places
<1> QED
  BY <1>1, <1>2, InitType, StepType, StepReport, StepSession, PTL DEF Spec

-----------------------------------------------------------------------------
\* Announced lines.

\* Where the characters of each sequence end up.
Lays(g, seqs, flat) ==
    /\ g[0] = <<>> /\ g[Len(seqs)] = flat
    /\ \A k \in 1..Len(seqs) :
          /\ Len(g[k]) = Len(g[k - 1]) + Len(seqs[k])
          /\ \A j \in 1..Len(seqs[k]) : flat[Len(g[k - 1]) + j] = seqs[k][j]
    /\ \A k \in 0..Len(seqs) : Len(g[k]) \in 0..Len(flat)

LEMMA FlattenPlaces ==
    ASSUME NEW S, NEW seqs \in Seq(Seq(S))
    PROVE  /\ FlattenSeq(seqs) \in Seq(S)
           /\ \E g : Flattens(g, seqs, S) /\ Lays(g, seqs, FlattenSeq(seqs))
<1> DEFINE n == Len(seqs)
           flat == FlattenSeq(seqs)
<1>1. n \in Nat /\ SubSeq(seqs, 1, n) = seqs /\ \A i \in 1..n : seqs[i] \in Seq(S)
  BY LenProperties, ElementOfSeq, SubSeqFull
<1>2. PICK g : Flattens(g, seqs, S) /\ \A m \in 0..n : FlattenSeq(SubSeq(seqs, 1, m)) = g[m]
  BY FlattenUpTo
<1>3. /\ g \in [0..n -> Seq(S)] /\ g[0] = <<>>
      /\ \A i \in 1..n : g[i] = g[i - 1] \o seqs[i]
  BY <1>2 DEF Flattens
<1>4. g[n] = flat /\ flat \in Seq(S)
  <2>1. n \in 0..n
    BY <1>1
  <2>2. FlattenSeq(SubSeq(seqs, 1, n)) = g[n]
    BY <1>2, <2>1
  <2> QED BY <1>1, <1>3, <2>1, <2>2
<1>5. ASSUME NEW m \in 0..n
      PROVE  /\ Len(g[m]) \in 0..Len(flat) /\ g[m] \in Seq(S)
             /\ \A i \in 1..Len(g[m]) : flat[i] = g[m][i]
  <2>1. g[m] \in Seq(S) /\ \E t \in Seq(S) : flat = g[m] \o t
    <3>1. \E t \in Seq(S) : flat = FlattenSeq(SubSeq(seqs, 1, m)) \o t
      BY FlattenFront
    <3>2. FlattenSeq(SubSeq(seqs, 1, m)) = g[m]
      BY <1>2
    <3> QED BY <1>3, <3>1, <3>2
  <2>2. PICK t \in Seq(S) : flat = g[m] \o t
    BY <2>1
  <2>3. Len(g[m]) \in Nat /\ Len(t) \in Nat
    BY <2>1, LenProperties
  <2>4. /\ Len(flat) = Len(g[m]) + Len(t)
        /\ \A i \in 1..Len(g[m]) + Len(t) : flat[i] = IF i <= Len(g[m]) THEN g[m][i] ELSE t[i - Len(g[m])]
    BY <2>1, <2>2, ConcatProperties
  <2> HIDE DEF flat
  <2>5. \A i \in 1..Len(g[m]) : i \in 1..Len(g[m]) + Len(t) /\ i <= Len(g[m])
    BY <2>3
  <2> QED BY <2>1, <2>3, <2>4, <2>5
<1>6. ASSUME NEW k \in 1..n
      PROVE  /\ Len(g[k]) = Len(g[k - 1]) + Len(seqs[k])
             /\ \A j \in 1..Len(seqs[k]) : flat[Len(g[k - 1]) + j] = seqs[k][j]
  <2>1. k \in 0..n /\ k - 1 \in 0..n
    BY <1>1
  <2>2. g[k - 1] \in Seq(S) /\ seqs[k] \in Seq(S) /\ g[k] = g[k - 1] \o seqs[k]
    BY <1>1, <1>3, <2>1
  <2>3. /\ Len(g[k]) = Len(g[k - 1]) + Len(seqs[k])
        /\ \A i \in 1..Len(g[k - 1]) + Len(seqs[k]) :
              g[k][i] = IF i <= Len(g[k - 1]) THEN g[k - 1][i] ELSE seqs[k][i - Len(g[k - 1])]
    <3> DEFINE a == g[k - 1]
               b == seqs[k]
    <3> HIDE DEF a, b
    <3>1. /\ Len(a \o b) = Len(a) + Len(b)
          /\ \A i \in 1..Len(a) + Len(b) :
                (a \o b)[i] = IF i <= Len(a) THEN a[i] ELSE b[i - Len(a)]
      <4>1. a \in Seq(S) /\ b \in Seq(S)
        BY <2>2 DEF a, b
      <4> QED BY <4>1, ConcatProperties
    <3>2. g[k] = a \o b
      BY <2>2 DEF a, b
    <3> QED BY <3>1, <3>2 DEF a, b
  <2>4. Len(g[k - 1]) \in Nat /\ Len(seqs[k]) \in Nat
    BY <2>2, LenProperties
  <2>5. \A i \in 1..Len(g[k]) : flat[i] = g[k][i]
    BY <1>5, <2>1
  <2> HIDE DEF flat, n
  <2>6. ASSUME NEW j \in 1..Len(seqs[k]) PROVE flat[Len(g[k - 1]) + j] = seqs[k][j]
    <3> DEFINE i == Len(g[k - 1]) + j
    <3>1. /\ i \in 1..Len(g[k]) /\ i \in 1..Len(g[k - 1]) + Len(seqs[k])
          /\ ~(i <= Len(g[k - 1])) /\ i - Len(g[k - 1]) = j
      <4>1. \A a, b \in Nat : \A l \in 1..b :
               a + l \in 1..(a + b) /\ ~(a + l <= a) /\ (a + l) - a = l
        OBVIOUS
      <4> QED BY <2>3, <2>4, <4>1
    <3> HIDE DEF i
    <3>2. flat[i] = seqs[k][j]
      BY <2>3, <2>5, <3>1
    <3> QED BY <3>2 DEF i
  <2> QED BY <2>3, <2>6
<1>7. Lays(g, seqs, flat)
  <2> HIDE DEF flat
  <2> QED BY <1>3, <1>4, <1>5, <1>6 DEF Lays
<1> QED BY <1>2, <1>4, <1>7

\* How many there are, up to so many.
Runs(line, from, max, accepted, n) ==
    /\ \A i \in from..from + n - 1 : i <= Len(line) /\ line[i] \in accepted
    /\ n < max => from + n > Len(line) \/ line[from + n] \notin accepted

LEMMA RunIs ==
    ASSUME NEW line, Len(line) \in Nat, NEW from \in Nat, NEW max \in Nat, NEW accepted
    PROVE  /\ Run(line, from, max, accepted) \in 0..max
           /\ \A i \in from..from + Run(line, from, max, accepted) - 1 :
                 i <= Len(line) /\ line[i] \in accepted
           /\ \A n \in 0..max : Runs(line, from, max, accepted, n) => Run(line, from, max, accepted) = n
<1> DEFINE run == Run(line, from, max, accepted)
           R(n) == Runs(line, from, max, accepted, n)
<1>1. \E n \in 0..max : R(n)
  <2> DEFINE Ends == {n \in Nat : n = max \/ from + n > Len(line) \/ line[from + n] \notin accepted}
  <2>1. max \in Ends /\ Ends \subseteq Nat
    OBVIOUS
  <2>2. PICK n \in Ends : \A m \in Ends : n <= m
    <3> HIDE DEF Ends
    <3> QED BY <2>1, LeastOf
  <2>3. n \in 0..max
    BY <2>1, <2>2
  <2>4. ASSUME NEW i \in from..from + n - 1 PROVE i <= Len(line) /\ line[i] \in accepted
    <3> DEFINE j == i - from
    <3>1. j \in Nat /\ j < n /\ from + j = i
      BY <2>3
    <3>2. j \notin Ends
      BY <2>2, <2>3, <3>1
    <3> HIDE DEF j
    <3>3. ~(from + j > Len(line)) /\ line[from + j] \in accepted
      BY <3>1, <3>2
    <3> QED BY <3>1, <3>3
  <2>5. n < max => from + n > Len(line) \/ line[from + n] \notin accepted
    BY <2>2, <2>3
  <2> QED BY <2>3, <2>4, <2>5 DEF Runs
<1>2. run = CHOOSE n \in 0..max : R(n)
  BY DEF Run, Runs
<1>3. run \in 0..max /\ R(run)
  <2> HIDE DEF R
  <2> QED BY <1>1, <1>2
<1> HIDE DEF run
<1>4. ASSUME NEW n \in 0..max, R(n) PROVE run = n
  <2>1. ~(run < n)
    <3> SUFFICES ASSUME run < n PROVE FALSE
      OBVIOUS
    <3>1. from + run \in from..from + n - 1 /\ run < max
      BY <1>3
    <3> QED BY <1>3, <1>4, <3>1 DEF Runs
  <2>2. ~(n < run)
    <3> SUFFICES ASSUME n < run PROVE FALSE
      OBVIOUS
    <3>1. from + n \in from..from + run - 1 /\ n < max
      BY <1>3
    <3> QED BY <1>3, <1>4, <3>1 DEF Runs
  <2> QED BY <1>3, <2>1, <2>2
<1>5. \A i \in from..from + run - 1 : i <= Len(line) /\ line[i] \in accepted
  BY <1>3 DEF Runs
<1> QED BY <1>3, <1>4, <1>5 DEF run

\* A run ends within the line.
LEMMA RunStays ==
    ASSUME NEW line, Len(line) \in Nat, NEW from \in Nat, from <= Len(line) + 1,
           NEW max \in Nat, NEW accepted
    PROVE  /\ Run(line, from, max, accepted) \in Nat
           /\ from + Run(line, from, max, accepted) <= Len(line) + 1
<1> DEFINE run == Run(line, from, max, accepted)
<1>1. /\ run \in 0..max
      /\ \A i \in from..from + run - 1 : i <= Len(line)
  BY RunIs
<1> HIDE DEF run
<1>2. CASE run = 0
  BY <1>2 DEF run
<1>3. CASE run # 0
  <2>1. from + run - 1 \in from..from + run - 1
    BY <1>1, <1>3
  <2>2. from + run - 1 <= Len(line)
    BY <1>1, <2>1
  <2> QED BY <1>1, <2>2 DEF run
<1> QED BY <1>2, <1>3

Continues(line, i, shade) == shade > 0 /\ i + shade < Len(line) /\ line[i + shade + 1] = Comma

LEMMA ColourIs ==
    ASSUME NEW text, NEW at \in Nat, text[at] = "colour",
           NEW shade \in Nat, shade = Run(text, at + 1, 2, Digits)
    PROVE  /\ Continues(text, at, shade) => CodeAt(text, at) = 1 + shade + Background(text, at + shade + 1)
           /\ ~Continues(text, at, shade) => CodeAt(text, at) = 1 + shade
<1>1. CodeAt(text, at)
         = 1 + shade + IF Continues(text, at, shade) THEN Background(text, at + shade + 1) ELSE 0
  BY DEF CodeAt, Continues
<1> QED BY <1>1

LEMMA OthersAre ==
    ASSUME NEW text, NEW at \in Nat
    PROVE  /\ text[at] = "hex" => CodeAt(text, at) = 1 + Run(text, at + 1, 6, HexDigits)
           /\ text[at] = "toggle" => CodeAt(text, at) = 1
           /\ text[at] \notin {"colour", "hex", "toggle"} => CodeAt(text, at) = 0
<1>1. text[at] = "hex" => CodeAt(text, at) = 1 + Run(text, at + 1, 6, HexDigits)
  BY DEF CodeAt
<1>2. text[at] = "toggle" => CodeAt(text, at) = 1
  BY DEF CodeAt
<1>3. text[at] \notin {"colour", "hex", "toggle"} => CodeAt(text, at) = 0
  BY DEF CodeAt
<1> QED BY <1>1, <1>2, <1>3

\* A code does too.
LEMMA CodeStays ==
    ASSUME NEW line, Len(line) \in Nat, NEW i \in 1..Len(line)
    PROVE  CodeAt(line, i) \in Nat /\ i + CodeAt(line, i) <= Len(line) + 1
<1> DEFINE at == i
<1>a. at \in Nat /\ at >= 1 /\ at <= Len(line) /\ at = i
  OBVIOUS
<1> HIDE DEF at
<1> DEFINE shade == Run(line, at + 1, 2, Digits)
           hex == Run(line, at + 1, 6, HexDigits)
           comma == Continues(line, at, shade)
           digits == Run(line, at + shade + 2, 2, Digits)
           back == IF comma THEN IF digits > 0 THEN 1 + digits ELSE 0 ELSE 0
<1>1. at + 1 \in Nat /\ at + 1 <= Len(line) + 1 /\ 2 \in Nat /\ 6 \in Nat
  BY <1>a
<1>2. /\ shade \in Nat /\ at + 1 + shade <= Len(line) + 1
      /\ hex \in Nat /\ at + 1 + hex <= Len(line) + 1
  BY <1>1, RunStays
<1>0. /\ line[at] = "colour" /\ comma => CodeAt(line, at) = 1 + shade + Background(line, at + shade + 1)
      /\ line[at] = "colour" /\ ~comma => CodeAt(line, at) = 1 + shade
      /\ line[at] = "hex" => CodeAt(line, at) = 1 + hex
      /\ line[at] = "toggle" => CodeAt(line, at) = 1
      /\ line[at] \notin {"colour", "hex", "toggle"} => CodeAt(line, at) = 0
  <2>0. /\ at \in Nat /\ shade = Run(line, at + 1, 2, Digits) /\ hex = Run(line, at + 1, 6, HexDigits)
        /\ shade \in Nat
    BY <1>a, <1>1, RunStays
  <2> HIDE DEF shade, hex
  <2>1. line[at] = "colour" => /\ comma => CodeAt(line, at) = 1 + shade + Background(line, at + shade + 1)
                               /\ ~comma => CodeAt(line, at) = 1 + shade
    BY <2>0, ColourIs
  <2>2. /\ line[at] = "hex" => CodeAt(line, at) = 1 + hex
        /\ line[at] = "toggle" => CodeAt(line, at) = 1
        /\ line[at] \notin {"colour", "hex", "toggle"} => CodeAt(line, at) = 0
    BY <2>0, OthersAre
  <2> HIDE DEF comma
  <2>3. line[at] = "colour" /\ comma => CodeAt(line, at) = 1 + shade + Background(line, at + shade + 1)
    BY <2>1
  <2>4. line[at] = "colour" /\ ~comma => CodeAt(line, at) = 1 + shade
    BY <2>1
  <2> QED BY <2>2, <2>3, <2>4
<1> HIDE DEF shade, hex
<1>3. comma => at + shade + 2 \in Nat /\ at + shade + 2 <= Len(line) + 1
  <2>1. at + shade < Len(line) => at + shade + 2 \in Nat /\ at + shade + 2 <= Len(line) + 1
    BY <1>2, <1>a
  <2>2. comma => at + shade < Len(line)
    BY DEF Continues
  <2> HIDE DEF comma
  <2> QED BY <2>1, <2>2
<1>4. comma => digits \in Nat /\ at + shade + 2 + digits <= Len(line) + 1
  BY <1>1, <1>3, <1>a, RunStays
<1>5. (at + shade + 1) + 1 = at + shade + 2
  BY <1>2, <1>a
<1>6. /\ comma /\ digits > 0 => Background(line, at + shade + 1) = 1 + digits /\ back = 1 + digits
      /\ comma /\ ~(digits > 0) => Background(line, at + shade + 1) = 0 /\ back = 0
      /\ ~comma => back = 0
  <2>1. Background(line, at + shade + 1) = IF digits > 0 THEN 1 + digits ELSE 0
    BY <1>5 DEF Background
  <2> HIDE DEF comma, digits
  <2> QED BY <2>1
<1>7. /\ line[at] = "colour" => CodeAt(line, at) = 1 + shade + back
      /\ line[at] = "hex" => CodeAt(line, at) = 1 + hex
      /\ line[at] = "toggle" => CodeAt(line, at) = 1
      /\ line[at] \notin {"colour", "hex", "toggle"} => CodeAt(line, at) = 0
  <2>1. comma => back = Background(line, at + shade + 1)
    <3> HIDE DEF comma, digits, back
    <3> QED BY <1>6
  <2>2. ~comma => back = 0 /\ 1 + shade + back = 1 + shade
    <3> HIDE DEF comma, back
    <3> QED BY <1>2, <1>6
  <2> HIDE DEF comma, back
  <2> QED BY <1>0, <2>1, <2>2
<1> HIDE DEF digits, comma
<1>8. back \in Nat /\ at + 1 + shade + back <= Len(line) + 1
  BY <1>2, <1>4, <1>a
<1> HIDE DEF back
<1> QED BY <1>2, <1>7, <1>8, <1>a

\* What is left from each place of a line on.
Strips(rest, line) ==
    /\ rest[Len(line) + 1] = <<>>
    /\ \A i \in 1..Len(line) :
          rest[i] = IF CodeAt(line, i) = 0 THEN <<line[i]>> \o rest[i + 1]
                    ELSE rest[i + CodeAt(line, i)]

LEMMA StripIs ==
    ASSUME NEW S, NEW line \in Seq(S)
    PROVE  \E rest \in [1..Len(line) + 1 -> Seq(S)] :
              Strips(rest, line) /\ StripFormatting(line) = rest[1]
<1> DEFINE n == Len(line)
           V == Seq(S)
           After(rest, i) == IF i > n THEN <<>>
                             ELSE IF CodeAt(line, i) = 0 THEN <<line[i]>> \o rest[i + 1]
                             ELSE rest[i + CodeAt(line, i)]
           Right(rest, k) == \A i \in n + 1 - k..n + 1 : rest[i] = After(rest, i)
           T == {k \in Nat : k <= n => \E rest \in [1..n + 1 -> V] : Right(rest, k)}
<1>1. /\ n \in Nat /\ \A i \in 1..n : line[i] \in S
      /\ \A i \in 1..n : CodeAt(line, i) \in Nat /\ i + CodeAt(line, i) <= n + 1
  <2>1. n \in Nat /\ \A i \in 1..n : line[i] \in S
    BY LenProperties, ElementOfSeq
  <2> QED BY <2>1, CodeStays
<1>2. <<>> \in V /\ \A i \in 1..n : \A t \in V : <<line[i]>> \o t \in V
  <2>1. \A i \in 1..n : <<line[i]>> \in V
    BY <1>1
  <2> QED BY <2>1, EmptySeq, ConcatProperties
<1> HIDE DEF V, n
<1>3. \A i \in 1..n : i + 1 \in i + 1..n + 1 /\ (CodeAt(line, i) # 0 => i + CodeAt(line, i) \in i + 1..n + 1)
  BY <1>1
<1>4. \A i \in 1..n + 1 : \A rest : (\A j \in i + 1..n + 1 : rest[j] \in V) => After(rest, i) \in V
  BY <1>1, <1>2, <1>3
<1>5. \A i \in 1..n + 1 : \A r, s : (\A j \in i + 1..n + 1 : r[j] = s[j]) => After(r, i) = After(s, i)
  BY <1>1, <1>3
<1>6. After(<<>>, n + 1) = <<>> /\ \A r : After(r, n + 1) = <<>>
  BY <1>1
<1>7. \A r : \A i \in 1..n : After(r, i) = IF CodeAt(line, i) = 0 THEN <<line[i]>> \o r[i + 1]
                                            ELSE r[i + CodeAt(line, i)]
  BY <1>1
<1>8. StripFormatting(line) = (CHOOSE rest : rest = [i \in 1..n + 1 |-> After(rest, i)])[1]
  BY DEF StripFormatting, n
<1> HIDE DEF After
<1>9. 0 \in T
  <2> DEFINE r == [i \in 1..n + 1 |-> <<>>]
  <2>1. r \in [1..n + 1 -> V]
    BY <1>2
  <2>2. Right(r, 0)
    <3>1. \A i \in n + 1 - 0..n + 1 : i = n + 1 /\ i \in 1..n + 1
      BY <1>1
    <3> QED BY <1>6, <3>1
  <2> QED BY <2>1, <2>2
<1>10. ASSUME NEW k \in Nat, k \in T PROVE k + 1 \in T
  <2>0. k + 1 \in Nat
    OBVIOUS
  <2> SUFFICES ASSUME k + 1 <= n PROVE \E rest \in [1..n + 1 -> V] : Right(rest, k + 1)
    BY <2>0
  <2>1. k <= n
    BY <1>1
  <2>2. PICK r \in [1..n + 1 -> V] : Right(r, k)
    BY <1>10, <2>1
  <2> DEFINE at == n - k
             s == [r EXCEPT ![at] = After(r, at)]
  <2>3. at \in 1..n + 1 /\ n + 1 - (k + 1) = at /\ at + 1 = n + 1 - k
    BY <1>1
  <2>4. After(r, at) \in V
    <3>1. \A j \in at + 1..n + 1 : j \in 1..n + 1
      BY <1>1, <2>3
    <3>2. \A j \in at + 1..n + 1 : r[j] \in V
      BY <3>1
    <3> HIDE DEF at
    <3> QED BY <1>4, <2>3, <3>2
  <2>5. s \in [1..n + 1 -> V] /\ s[at] = After(r, at) /\ \A j \in 1..n + 1 : j # at => s[j] = r[j]
    BY <2>3, <2>4
  <2> HIDE DEF s, at
  <2>6. ASSUME NEW i \in at..n + 1 PROVE s[i] = After(s, i)
    <3>1. i \in 1..n + 1 /\ \A j \in i + 1..n + 1 : j \in 1..n + 1 /\ j # at
      BY <1>1, <2>3
    <3>2. \A j \in i + 1..n + 1 : s[j] = r[j]
      BY <2>5, <3>1
    <3>3. After(s, i) = After(r, i)
      BY <1>5, <3>1, <3>2
    <3>4. i # at => i \in n + 1 - k..n + 1
      BY <1>1, <2>3
    <3>5. i # at => s[i] = r[i] /\ r[i] = After(r, i)
      BY <2>2, <2>5, <3>1, <3>4
    <3> QED BY <2>5, <3>3, <3>5
  <2>7. Right(s, k + 1)
    BY <2>3, <2>6
  <2> QED BY <2>5, <2>7
<1>11. PICK r \in [1..n + 1 -> V] : Right(r, n)
  <2>1. n \in T
    <3> HIDE DEF T
    <3> QED BY <1>1, <1>9, <1>10, StepByStep
  <2>2. n <= n
    BY <1>1
  <2> HIDE DEF Right
  <2> QED BY <2>1, <2>2
<1> DEFINE P(f) == f = [i \in 1..n + 1 |-> After(f, i)]
           rest == CHOOSE f : P(f)
<1>12. P(r)
  <2>1. \A i \in 1..n + 1 : i \in n + 1 - n..n + 1
    BY <1>1
  <2>2. \A i \in 1..n + 1 : r[i] = After(r, i)
    BY <1>11, <2>1
  <2> QED BY <1>11, <2>2
<1>13. P(rest)
  <2> HIDE DEF P
  <2> QED BY <1>12
<1>14. StripFormatting(line) = rest[1]
  BY <1>8
<1> HIDE DEF rest
<1>15. DOMAIN rest = 1..n + 1 /\ \A i \in 1..n + 1 : rest[i] = After(rest, i)
  BY <1>13
<1> DEFINE U == {k \in Nat : k <= n => \A i \in n + 1 - k..n + 1 : rest[i] \in V}
<1>16. 0 \in U
  <2>1. \A i \in n + 1 - 0..n + 1 : i = n + 1 /\ i \in 1..n + 1
    BY <1>1
  <2> QED BY <1>2, <1>6, <1>15, <2>1
<1>17. ASSUME NEW k \in Nat, k \in U PROVE k + 1 \in U
  <2>0. k + 1 \in Nat
    OBVIOUS
  <2> SUFFICES ASSUME k + 1 <= n, NEW i \in n + 1 - (k + 1)..n + 1 PROVE rest[i] \in V
    BY <2>0
  <2>1. k <= n /\ i \in 1..n + 1 /\ \A j \in i + 1..n + 1 : j \in n + 1 - k..n + 1
    BY <1>1
  <2>2. \A j \in i + 1..n + 1 : rest[j] \in V
    BY <1>17, <2>1
  <2> QED BY <1>4, <1>15, <2>1, <2>2
<1>18. \A i \in 1..n + 1 : rest[i] \in V
  <2>1. n \in U
    <3> HIDE DEF U
    <3> QED BY <1>1, <1>16, <1>17, StepByStep
  <2>2. n <= n /\ \A i \in 1..n + 1 : i \in n + 1 - n..n + 1
    BY <1>1
  <2> QED BY <2>1, <2>2
<1>19. rest \in [1..n + 1 -> V]
  BY <1>13, <1>15, <1>18
<1>20. Strips(rest, line)
  <2>1. n + 1 \in 1..n + 1 /\ \A i \in 1..n : i \in 1..n + 1
    BY <1>1
  <2> QED BY <1>6, <1>7, <1>15, <2>1 DEF Strips, n
<1> QED BY <1>14, <1>19, <1>20 DEF n, V

\* What is typed, and where it begins.
Items  == Characters \cup {"reset", "foreground", "background", "hex", "toggle"}
Glyphs == Characters \cup {"colour", "hex", "toggle"}

LEMMA CommaIsOwn ==
    Comma \notin {"x", "f", "0", "colour", "hex", "toggle", "reset", "foreground", "background"}
BY DEF Comma

LEMMA TypedIs ==
    /\ \A item \in Characters : Typed(item) = <<item>>
    /\ Typed("reset") = <<"colour">>
    /\ Typed("foreground") = <<"colour", "0", "0">>
    /\ Typed("background") = <<"colour", "0", "0", Comma, "0", "0">>
    /\ Typed("hex") = <<"hex", "f", "f", "0", "0", "f", "f">>
    /\ Typed("toggle") = <<"toggle">>
BY CommaIsOwn DEF Typed, Item, Characters

LEMMA TypedBegins ==
    ASSUME NEW item \in Items
    PROVE  /\ Typed(item) \in Seq(Glyphs) /\ Len(Typed(item)) \in Nat \ {0}
           /\ Typed(item)[1] = "0" => item = "0"
           /\ Typed(item)[1] = Comma => item = Comma /\ Len(Typed(item)) = 1
<1>1. CASE item \in Characters
  <2>1. Typed(item) = <<item>> /\ item \in Glyphs
    BY <1>1, TypedIs DEF Glyphs
  <2> HIDE DEF Glyphs
  <2>2. /\ <<item>> \in Seq(Glyphs) /\ Len(<<item>>) = 1 /\ <<item>>[1] = item
    BY <2>1
  <2>3. Typed(item) \in Seq(Glyphs) /\ Len(Typed(item)) = 1 /\ Typed(item)[1] = item
    BY <2>1, <2>2
  <2>4. Len(Typed(item)) \in Nat \ {0}
    BY <2>3
  <2>5. Typed(item)[1] = "0" => item = "0"
    BY <2>3
  <2>6. Typed(item)[1] = Comma => item = Comma /\ Len(Typed(item)) = 1
    BY <2>3
  <2> QED BY <2>3, <2>4, <2>5, <2>6
<1>2. CASE item = "reset"
  <2>1. Typed(item) = <<"colour">>
    BY <1>2, TypedIs
  <2> QED BY <2>1, CommaIsOwn DEF Glyphs
<1>3. CASE item = "foreground"
  <2>1. Typed(item) = <<"colour", "0", "0">>
    BY <1>3, TypedIs
  <2> QED BY <2>1, CommaIsOwn DEF Glyphs, Characters
<1>4. CASE item = "background"
  <2>1. Typed(item) = <<"colour", "0", "0", Comma, "0", "0">>
    BY <1>4, TypedIs
  <2>2. "colour" \in Glyphs /\ "0" \in Glyphs /\ Comma \in Glyphs
    BY DEF Glyphs, Characters
  <2>3. /\ \A a, b, c \in Glyphs : <<a, b, b, c, b, b>> \in Seq(Glyphs)
        /\ \A a, b, c : Len(<<a, b, b, c, b, b>>) = 6 /\ <<a, b, b, c, b, b>>[1] = a
    OBVIOUS
  <2>4. Typed(item) \in Seq(Glyphs) /\ Len(Typed(item)) = 6 /\ Typed(item)[1] = "colour"
    <3> HIDE DEF Glyphs
    <3>1. /\ <<"colour", "0", "0", Comma, "0", "0">> \in Seq(Glyphs)
          /\ Len(<<"colour", "0", "0", Comma, "0", "0">>) = 6
          /\ <<"colour", "0", "0", Comma, "0", "0">>[1] = "colour"
      BY <2>2, <2>3
    <3> QED BY <2>1, <3>1
  <2> QED BY <2>4, CommaIsOwn
<1>5. CASE item = "hex"
  <2>1. Typed(item) = <<"hex", "f", "f", "0", "0", "f", "f">>
    BY <1>5, TypedIs
  <2> QED BY <2>1, CommaIsOwn DEF Glyphs, Characters
<1>6. CASE item = "toggle"
  <2>1. Typed(item) = <<"toggle">>
    BY <1>6, TypedIs
  <2> QED BY <2>1, CommaIsOwn DEF Glyphs
<1> QED BY <1>1, <1>2, <1>3, <1>4, <1>5, <1>6 DEF Items

\* The k-th of a line is read where it stands, for what it is.
ReadAt(line, flat, g, k) ==
    LET at == Len(g[k - 1]) + 1
    IN  /\ at \in 1..Len(flat) /\ Len(g[k]) + 1 = at + Len(Typed(line[k]))
        /\ line[k] \in Characters => CodeAt(flat, at) = 0 /\ flat[at] = line[k]
        /\ line[k] \notin Characters => CodeAt(flat, at) = Len(Typed(line[k]))

\* A code that was typed is read as one, and what was meant as text as that.
LEMMA CodeIsRead ==
    ASSUME NEW line \in Seq(Items), ~Ambiguous(line), NEW flat, NEW g,
           Len(flat) \in Nat, Lays(g, [i \in DOMAIN line |-> Typed(line[i])], flat),
           NEW k \in 1..Len(line)
    PROVE  ReadAt(line, flat, g, k)
<1> DEFINE n == Len(line)
           off == [m \in 0..n |-> Len(g[m])]
           len == [i \in 1..n |-> Len(Typed(line[i]))]
           N == Len(flat)
           at == off[k - 1] + 1
           next == off[k] + 1
<1>1. n \in Nat /\ DOMAIN line = 1..n /\ N \in Nat /\ \A i \in 1..n : line[i] \in Items
  BY LenProperties, ElementOfSeq
<1>2. \A i \in 1..n : /\ Typed(line[i]) \in Seq(Glyphs) /\ len[i] \in Nat \ {0}
                      /\ Typed(line[i])[1] = "0" => line[i] = "0"
                      /\ Typed(line[i])[1] = Comma => line[i] = Comma /\ len[i] = 1
  <2> HIDE DEF n
  <2> QED BY <1>1, TypedBegins
<1>3. /\ off \in [0..n -> 0..N] /\ off[n] = N
      /\ \A m \in 1..n : /\ off[m] = off[m - 1] + len[m]
                         /\ \A j \in 1..len[m] : flat[off[m - 1] + j] = Typed(line[m])[j]
  <2> DEFINE seqs == [i \in DOMAIN line |-> Typed(line[i])]
  <2>1. Len(seqs) = n /\ \A m \in 1..n : seqs[m] = Typed(line[m])
    BY <1>1
  <2>2. Lays(g, seqs, flat)
    OBVIOUS
  <2> HIDE DEF seqs, n
  <2>3. /\ \A m \in 0..n : off[m] = Len(g[m])
        /\ \A m \in 1..n : len[m] = Len(Typed(line[m])) /\ m \in 0..n /\ m - 1 \in 0..n
        /\ n \in 0..n /\ DOMAIN off = 0..n
    BY <1>1
  <2>4. /\ \A m \in 0..n : off[m] \in 0..N
        /\ off[n] = N
    BY <2>1, <2>2, <2>3 DEF Lays
  <2>5. \A m \in 1..n : /\ off[m] = off[m - 1] + len[m]
                        /\ \A j \in 1..len[m] : flat[off[m - 1] + j] = Typed(line[m])[j]
    <3> TAKE m \in 1..n
    <3> HIDE DEF off, len
    <3>1. off[m] = Len(g[m]) /\ off[m - 1] = Len(g[m - 1]) /\ len[m] = Len(seqs[m])
          /\ seqs[m] = Typed(line[m]) /\ m \in 1..Len(seqs)
      BY <2>1, <2>3
    <3>2. /\ Len(g[m]) = Len(g[m - 1]) + Len(seqs[m])
          /\ \A j \in 1..Len(seqs[m]) : flat[Len(g[m - 1]) + j] = seqs[m][j]
      BY <2>2, <3>1 DEF Lays
    <3> QED BY <3>1, <3>2
  <2>6. off \in [0..n -> 0..N]
    BY <2>3, <2>4
  <2> QED BY <2>4, <2>5, <2>6
<1>4. len[k] = Len(Typed(line[k])) /\ at = Len(g[k - 1]) + 1 /\ next = Len(g[k]) + 1
  <2>1. k \in 1..n /\ k \in 0..n /\ k - 1 \in 0..n
    BY <1>1
  <2> HIDE DEF n
  <2> QED BY <2>1
<1> HIDE DEF off, len, N, n
<1>5. k - 1 \in 0..n /\ k \in 0..n /\ k \in 1..n /\ k \in Nat /\ k >= 1
  BY <1>1 DEF n
<1>6. at \in 1..N /\ next = at + len[k] /\ next <= N + 1 /\ next \in Nat /\ at \in Nat /\ len[k] \in Nat
  <2>1. len[k] \in Nat \ {0}
    BY <1>2, <1>5
  <2>2. off[k - 1] \in 0..N /\ off[k] \in 0..N /\ off[k] = off[k - 1] + len[k]
    BY <1>3, <1>5
  <2>3. \A a, b \in 0..N : \A l \in Nat \ {0} :
           b = a + l => /\ a + 1 \in 1..N /\ b + 1 = a + 1 + l /\ b + 1 <= N + 1
                        /\ b + 1 \in Nat /\ a + 1 \in Nat /\ l \in Nat
    BY <1>1
  <2> QED BY <2>1, <2>2, <2>3
<1>7. \A j \in 0..len[k] - 1 : flat[at + j] = Typed(line[k])[j + 1]
  <2> TAKE j \in 0..len[k] - 1
  <2>1. j + 1 \in 1..len[k] /\ j \in Nat
    BY <1>6
  <2>2. flat[off[k - 1] + (j + 1)] = Typed(line[k])[j + 1]
    BY <1>3, <1>5, <2>1
  <2>3. off[k - 1] + (j + 1) = at + j
    <3>1. off[k - 1] \in Nat
      BY <1>1, <1>3, <1>5
    <3>2. \A a, b \in Nat : a + (b + 1) = (a + 1) + b
      OBVIOUS
    <3> QED BY <2>1, <3>1, <3>2
  <2> QED BY <2>2, <2>3
\* What comes after something typed.
<1>8. ASSUME NEW m \in 1..n, off[m] + 1 <= N
      PROVE  m + 1 \in 1..n /\ flat[off[m] + 1] = Typed(line[m + 1])[1]
  <2>1. m # n /\ m \in 0..n
    BY <1>1, <1>3, <1>8
  <2>2. m + 1 \in 1..n /\ (m + 1) - 1 = m
    BY <1>1, <2>1
  <2>3. 1 \in 1..len[m + 1]
    <3>1. len[m + 1] \in Nat \ {0}
      BY <1>2, <2>2
    <3> QED BY <3>1
  <2>4. flat[off[(m + 1) - 1] + 1] = Typed(line[m + 1])[1]
    BY <1>3, <2>2, <2>3
  <2> QED BY <2>2, <2>4
<1>9. next <= N => /\ k + 1 \in 1..n /\ flat[next] = Typed(line[k + 1])[1]
                   /\ flat[next] = "0" => line[k + 1] = "0"
                   /\ flat[next] = Comma => line[k + 1] = Comma /\ len[k + 1] = 1
  BY <1>2, <1>5, <1>8
<1>10. next + 1 <= N /\ next <= N /\ flat[next] = Comma =>
          k + 2 \in 1..n /\ (flat[next + 1] = "0" => line[k + 2] = "0")
  <2> SUFFICES ASSUME next + 1 <= N, next <= N, flat[next] = Comma
               PROVE  k + 2 \in 1..n /\ (flat[next + 1] = "0" => line[k + 2] = "0")
    OBVIOUS
  <2>1. k + 1 \in 1..n /\ len[k + 1] = 1
    BY <1>9
  <2>2. (k + 1) - 1 = k /\ (k + 1) + 1 = k + 2
    BY <1>5
  <2>3. off[k + 1] = off[k] + 1
    BY <1>3, <2>1, <2>2
  <2>4. off[k + 1] + 1 = next + 1
    BY <2>3
  <2>5. (k + 1) + 1 \in 1..n /\ flat[off[k + 1] + 1] = Typed(line[(k + 1) + 1])[1]
    BY <1>8, <2>1, <2>4
  <2> QED BY <1>2, <2>2, <2>4, <2>5

<1> HIDE DEF at, next
<1> DEFINE shade == Run(flat, at + 1, 2, Digits)
           hex == Run(flat, at + 1, 6, HexDigits)
           comma == Continues(flat, at, shade)
           back == Background(flat, at + shade + 1)
<1>11. /\ flat[at] = "colour" => IF comma THEN CodeAt(flat, at) = 1 + shade + back
                                  ELSE CodeAt(flat, at) = 1 + shade
       /\ flat[at] = "hex" => CodeAt(flat, at) = 1 + hex
       /\ flat[at] = "toggle" => CodeAt(flat, at) = 1
       /\ flat[at] \notin {"colour", "hex", "toggle"} => CodeAt(flat, at) = 0
  <2>1. /\ shade = Run(flat, at + 1, 2, Digits) /\ hex = Run(flat, at + 1, 6, HexDigits)
        /\ shade \in Nat
    BY <1>1, <1>6, RunIs DEF N
  <2> HIDE DEF shade, hex
  <2>2. flat[at] = "colour" => /\ comma => CodeAt(flat, at) = 1 + shade + back
                               /\ ~comma => CodeAt(flat, at) = 1 + shade
    BY <1>6, <2>1, ColourIs
  <2>3. /\ flat[at] = "hex" => CodeAt(flat, at) = 1 + hex
        /\ flat[at] = "toggle" => CodeAt(flat, at) = 1
        /\ flat[at] \notin {"colour", "hex", "toggle"} => CodeAt(flat, at) = 0
    BY <1>6, <2>1, OthersAre
  <2> HIDE DEF comma, back
  <2> QED BY <2>2, <2>3
<1>12. ASSUME NEW from \in Nat, NEW max \in Nat, NEW accepted, NEW m \in 0..max,
              Runs(flat, from, max, accepted, m)
       PROVE  Run(flat, from, max, accepted) = m
  BY <1>12, RunIs DEF N
<1>13. \A from \in Nat : /\ Run(flat, from + 1, 2, Digits) = 0 => Background(flat, from) = 0
                         /\ Run(flat, from + 1, 2, Digits) = 2 => Background(flat, from) = 3
  BY DEF Background
<1>14. CASE line[k] \in Characters
  <2>a. Typed(line[k]) = <<line[k]>>
    BY <1>14, TypedIs
  <2>1. len[k] = 1 /\ Typed(line[k])[1] = line[k]
    BY <1>4, <2>a
  <2>2. flat[at] = line[k]
    <3>1. flat[at + 0] = Typed(line[k])[0 + 1]
      BY <1>7, <2>1
    <3> QED BY <1>6, <2>1, <3>1
  <2>3. flat[at] = line[k] /\ flat[at] \notin {"colour", "hex", "toggle"}
    BY <1>14, <2>2, CommaIsOwn DEF Characters
  <2> QED BY <1>6, <1>11, <1>14, <2>3, <1>4 DEF N, ReadAt
<1>15. CASE line[k] = "toggle"
  <2>a. Typed(line[k]) = <<"toggle">>
    BY <1>15, TypedIs
  <2>1. len[k] = 1 /\ Typed(line[k])[1] = "toggle"
    BY <1>4, <2>a
  <2>2. flat[at] = "toggle"
    <3>1. flat[at + 0] = Typed(line[k])[0 + 1]
      BY <1>7, <2>1
    <3> QED BY <1>6, <2>1, <3>1
  <2>3. CodeAt(flat, at) = 1 /\ line[k] \notin Characters
    BY <1>6, <1>11, <1>15, <2>2, CommaIsOwn DEF Characters
  <2> QED BY <1>6, <2>1, <2>3, <1>4 DEF N, ReadAt
<1>16. CASE line[k] = "hex"
  <2> DEFINE typed == <<"hex", "f", "f", "0", "0", "f", "f">>
  <2>a. Typed(line[k]) = typed
    BY <1>16, TypedIs
  <2>1. Typed(line[k]) = typed /\ len[k] = 7
    BY <1>4, <2>a
  <2>2. /\ typed[1] = "hex" /\ \A j \in 2..7 : typed[j] \in HexDigits
    BY DEF HexDigits
  <2> HIDE DEF typed
  <2>3. flat[at] = "hex" /\ \A i \in at + 1..at + 6 : flat[i] \in HexDigits /\ i <= N
    <3>1. \A j \in 0..6 : flat[at + j] = typed[j + 1]
      BY <1>7, <2>1
    <3>2. at + 0 = at /\ 0 + 1 = 1 /\ 0 \in 0..6
      BY <1>6
    <3>3. ASSUME NEW i \in at + 1..at + 6 PROVE flat[i] \in HexDigits /\ i <= N
      <4> DEFINE j == i - at
      <4>1. j \in 0..6 /\ at + j = i /\ j + 1 \in 2..7 /\ i <= N
        BY <1>1, <1>6, <2>1
      <4> HIDE DEF j
      <4> QED BY <2>2, <3>1, <4>1
    <3> QED BY <2>2, <3>1, <3>2, <3>3
  <2>4. Runs(flat, at + 1, 6, HexDigits, 6)
    <3>1. at + 1 + 6 - 1 = at + 6
      BY <1>6
    <3> QED BY <2>3, <3>1 DEF Runs, N
  <2>5. hex = 6
    BY <1>6, <1>12, <2>4
  <2> HIDE DEF hex
  <2>6. CodeAt(flat, at) = 7 /\ line[k] \notin Characters
    BY <1>11, <1>16, <2>3, <2>5, CommaIsOwn DEF Characters
  <2> QED BY <1>6, <2>1, <2>6, <1>4 DEF N, ReadAt
<1>17. CASE line[k] = "reset"
  <2>a. Typed(line[k]) = <<"colour">>
    BY <1>17, TypedIs
  <2>1. len[k] = 1 /\ Typed(line[k])[1] = "colour"
    BY <1>4, <2>a
  <2>2. flat[at] = "colour" /\ next = at + 1
    <3>1. flat[at + 0] = Typed(line[k])[0 + 1]
      BY <1>7, <2>1
    <3> QED BY <1>6, <2>1, <3>1
  <2>3. next > N \/ flat[next] \notin Digits
    <3> SUFFICES ASSUME next <= N, flat[next] = "0" PROVE FALSE
      BY <1>1, <1>6 DEF Digits
    <3>1. k + 1 \in 1..n /\ line[k + 1] = "0"
      BY <1>9
    <3>2. k \in 1..n - 1
      BY <1>1, <3>1
    <3> QED BY <1>17, <3>1, <3>2 DEF Ambiguous, n
  <2>4. Runs(flat, at + 1, 2, Digits, 0)
    <3>1. (at + 1) + 0 = next /\ \A i \in at + 1..at + 1 + 0 - 1 : FALSE
      BY <1>6, <2>2
    <3> QED BY <2>3, <3>1 DEF Runs, N
  <2>5. shade = 0
    BY <1>6, <1>12, <2>4
  <2> HIDE DEF shade
  <2>6. ~comma
    BY <2>5 DEF Continues
  <2> HIDE DEF comma
  <2>7. CodeAt(flat, at) = 1 /\ line[k] \notin Characters
    BY <1>11, <1>17, <2>2, <2>5, <2>6, CommaIsOwn DEF Characters
  <2> QED BY <1>6, <2>1, <2>7, <1>4 DEF N, ReadAt
<1>18. CASE line[k] = "foreground"
  <2> DEFINE typed == <<"colour", "0", "0">>
  <2>a. Typed(line[k]) = typed
    BY <1>18, TypedIs
  <2>1. /\ Typed(line[k]) = typed /\ len[k] = 3
        /\ typed[1] = "colour" /\ typed[2] = "0" /\ typed[3] = "0"
    BY <1>4, <2>a
  <2> HIDE DEF typed
  <2>2. flat[at] = "colour" /\ flat[at + 1] = "0" /\ flat[at + 2] = "0" /\ next = at + 3
    <3>1. flat[at + 0] = typed[0 + 1] /\ flat[at + 1] = typed[1 + 1] /\ flat[at + 2] = typed[2 + 1]
      BY <1>7, <2>1
    <3> QED BY <1>6, <2>1, <3>1
  <2>3. Runs(flat, at + 1, 2, Digits, 2)
    <3>1. \A i \in at + 1..at + 1 + 2 - 1 : (i = at + 1 \/ i = at + 2) /\ i <= N
      BY <1>1, <1>6, <2>2
    <3> QED BY <2>2, <3>1 DEF Runs, N, Digits
  <2>4. shade = 2
    BY <1>6, <1>12, <2>3
  <2> HIDE DEF shade
  <2>5. comma => next <= N /\ flat[next] = Comma /\ back = Background(flat, next)
    <3>1. at + 2 + 1 = next /\ (at + 2 < N => next <= N)
      BY <1>1, <1>6, <2>2
    <3> QED BY <2>4, <3>1 DEF Continues, N
  <2>6. ASSUME comma PROVE back = 0
    <3>1. next <= N /\ flat[next] = Comma /\ back = Background(flat, next)
      BY <2>5, <2>6
    <3>2. next + 1 > N \/ flat[next + 1] \notin Digits
      <4> SUFFICES ASSUME next + 1 <= N, flat[next + 1] = "0" PROVE FALSE
        BY <1>1, <1>6 DEF Digits
      <4>1. k + 1 \in 1..n /\ line[k + 1] = Comma /\ k + 2 \in 1..n /\ line[k + 2] = "0"
        BY <1>9, <1>10, <3>1
      <4>2. k \in 1..n - 1 /\ k + 2 <= n
        <5>1. \A a, b \in Nat : a >= 1 /\ a + 2 \in 1..b => a \in 1..b - 1 /\ a + 2 <= b
          OBVIOUS
        <5> QED BY <1>1, <1>5, <4>1, <5>1
      <4> QED BY <1>18, <4>1, <4>2 DEF Ambiguous, n
    <3>3. Runs(flat, next + 1, 2, Digits, 0)
      <4>1. (next + 1) + 0 = next + 1 /\ \A i \in next + 1..next + 1 + 0 - 1 : FALSE
        BY <1>6
      <4> QED BY <3>2, <4>1 DEF Runs, N
    <3>4. Run(flat, next + 1, 2, Digits) = 0
      BY <1>6, <1>12, <3>3
    <3> QED BY <1>6, <1>13, <3>1, <3>4
  <2> HIDE DEF comma, back
  <2>7. CodeAt(flat, at) = 3 /\ line[k] \notin Characters
    BY <1>11, <1>18, <2>2, <2>4, <2>6, CommaIsOwn DEF Characters
  <2> QED BY <1>6, <2>1, <2>7, <1>4 DEF N, ReadAt
<1>19. CASE line[k] = "background"
  <2> DEFINE typed == <<"colour", "0", "0", Comma, "0", "0">>
  <2>a. Typed(line[k]) = typed
    BY <1>19, TypedIs
  <2>1. /\ Typed(line[k]) = typed /\ len[k] = 6 /\ typed[1] = "colour" /\ typed[2] = "0"
        /\ typed[3] = "0" /\ typed[4] = Comma /\ typed[5] = "0" /\ typed[6] = "0"
    BY <1>4, <2>a
  <2> HIDE DEF typed
  <2>2. /\ flat[at] = "colour" /\ flat[at + 1] = "0" /\ flat[at + 2] = "0"
        /\ flat[at + 3] = Comma /\ flat[at + 4] = "0" /\ flat[at + 5] = "0" /\ at + 5 <= N
    <3>1. \A j \in 0..5 : flat[at + j] = typed[j + 1]
      BY <1>7, <2>1
    <3>2. flat[at + 0] = typed[0 + 1] /\ flat[at + 1] = typed[1 + 1] /\ flat[at + 2] = typed[2 + 1]
      BY <3>1
    <3>3. flat[at + 3] = typed[3 + 1] /\ flat[at + 4] = typed[4 + 1] /\ flat[at + 5] = typed[5 + 1]
      BY <3>1
    <3>4. at + 0 = at /\ at + 5 <= N
      BY <1>1, <1>6, <2>1
    <3> QED BY <2>1, <3>2, <3>3, <3>4
  <2>3. Runs(flat, at + 1, 2, Digits, 2) /\ Runs(flat, at + 4, 2, Digits, 2)
    <3>1. \A i \in at + 1..at + 1 + 2 - 1 : (i = at + 1 \/ i = at + 2) /\ i <= N
      BY <1>1, <1>6, <2>2
    <3>2. \A i \in at + 4..at + 4 + 2 - 1 : (i = at + 4 \/ i = at + 5) /\ i <= N
      BY <1>1, <1>6, <2>2
    <3>3. Runs(flat, at + 1, 2, Digits, 2)
      <4>1. flat[at + 1] = "0" /\ flat[at + 2] = "0" /\ ~(2 < 2)
        BY <2>2
      <4> QED BY <3>1, <4>1 DEF Runs, N, Digits
    <3>4. Runs(flat, at + 4, 2, Digits, 2)
      <4>1. flat[at + 4] = "0" /\ flat[at + 5] = "0" /\ ~(2 < 2)
        BY <2>2
      <4> QED BY <3>2, <4>1 DEF Runs, N, Digits
    <3> QED BY <3>3, <3>4
  <2>4. shade = 2 /\ Run(flat, at + 4, 2, Digits) = 2
    BY <1>6, <1>12, <2>3
  <2> HIDE DEF shade
  <2>5. at + 2 + 1 = at + 3 /\ (at + 3) + 1 = at + 4 /\ at + 2 < N /\ at + 3 \in Nat
    BY <1>1, <1>6, <2>2
  <2>6. comma /\ back = 3
    <3>1. back = Background(flat, at + 3)
      BY <2>4, <2>5
    <3> QED BY <1>13, <2>2, <2>4, <2>5, <3>1 DEF Continues, N
  <2> HIDE DEF comma, back
  <2>7. CodeAt(flat, at) = 6 /\ line[k] \notin Characters
    BY <1>11, <1>19, <2>2, <2>4, <2>6, CommaIsOwn DEF Characters
  <2> QED BY <1>6, <2>1, <2>7, <1>4 DEF N, ReadAt
<1>20. line[k] \in Items
  BY <1>1
<1> QED BY <1>14, <1>15, <1>16, <1>17, <1>18, <1>19, <1>20 DEF Items


LEMMA FlattenEmpty == FlattenSeq(<<>>) = <<>>
<1>1. <<>> \in Seq(Seq({})) /\ Len(<<>>) = 0
  OBVIOUS
<1>2. PICK g : Flattens(g, <<>>, {}) /\ FlattenSeq(<<>>) = g[Len(<<>>)]
  BY <1>1, FlattenBy
<1> QED BY <1>1, <1>2 DEF Flattens

\* What is left of a line whose codes are typed in full is what a reader sees.
LEMMA StrippedIs ==
    ASSUME NEW line \in Seq(Items), ~Ambiguous(line)
    PROVE  StripFormatting(FlattenSeq([i \in DOMAIN line |-> Typed(line[i])]))
             = FlattenSeq([i \in DOMAIN line |-> Seen(line[i])])
<1> DEFINE n == Len(line)
           typed == [i \in DOMAIN line |-> Typed(line[i])]
           seen  == [i \in DOMAIN line |-> Seen(line[i])]
           flat  == FlattenSeq(typed)
           N == Len(flat)
<1>1. n \in Nat /\ DOMAIN line = 1..n /\ \A i \in 1..n : line[i] \in Items
  BY LenProperties, ElementOfSeq
<1>2. /\ typed \in Seq(Seq(Glyphs)) /\ Len(typed) = n
      /\ seen \in Seq(Seq(Glyphs)) /\ Len(seen) = n
      /\ \A i \in 1..n : seen[i] = Seen(line[i])
  <2>1. ASSUME NEW i \in 1..n PROVE Typed(line[i]) \in Seq(Glyphs) /\ Seen(line[i]) \in Seq(Glyphs)
    <3>1. line[i] \in Items
      BY <1>1
    <3>2. line[i] \in Characters => <<line[i]>> \in Seq(Glyphs)
      BY DEF Glyphs
    <3>3. Seen(line[i]) \in Seq(Glyphs)
      BY <3>2, EmptySeq DEF Seen
    <3> QED BY <3>1, <3>3, TypedBegins
  <2> HIDE DEF n
  <2>2. \A s : DOMAIN s = 1..n /\ (\A i \in 1..n : s[i] \in Seq(Glyphs))
                  /\ s = [i \in 1..n |-> s[i]] => s \in Seq(Seq(Glyphs)) /\ Len(s) = n
    BY <1>1
  <2>3. /\ DOMAIN typed = 1..n /\ (\A i \in 1..n : typed[i] = Typed(line[i])) /\ typed = [i \in 1..n |-> typed[i]]
        /\ DOMAIN seen = 1..n /\ (\A i \in 1..n : seen[i] = Seen(line[i])) /\ seen = [i \in 1..n |-> seen[i]]
    BY <1>1
  <2> HIDE DEF typed, seen
  <2> QED BY <2>1, <2>2, <2>3
<1>3. PICK g : Flattens(g, typed, Glyphs) /\ Lays(g, typed, flat)
  <2> HIDE DEF typed
  <2> QED BY <1>2, FlattenPlaces
<1>4. flat \in Seq(Glyphs) /\ N \in Nat
  <2> HIDE DEF typed
  <2> QED BY <1>2, FlattenPlaces, LenProperties
<1>5. ASSUME NEW k \in 1..n PROVE ReadAt(line, flat, g, k)
  <2>1. Lays(g, [i \in DOMAIN line |-> Typed(line[i])], flat) /\ Len(flat) \in Nat /\ k \in 1..Len(line)
    BY <1>3, <1>4
  <2> HIDE DEF flat, typed, n
  <2> QED BY <2>1, CodeIsRead
<1>6. g[0] = <<>> /\ Len(g[n]) = N /\ \A k \in 0..n : Len(g[k]) \in Nat
  <2> HIDE DEF flat, typed
  <2>1. g[0] = <<>> /\ g[n] = flat /\ \A k \in 0..n : Len(g[k]) \in 0..N
    BY <1>2, <1>3 DEF Lays
  <2> QED BY <1>4, <2>1
<1> HIDE DEF typed, flat
<1>7. PICK rest \in [1..N + 1 -> Seq(Glyphs)] : Strips(rest, flat) /\ StripFormatting(flat) = rest[1]
  BY <1>4, StripIs
<1>8. PICK h : Flattens(h, seen, Glyphs) /\ FlattenSeq(seen) = h[n]
  <2> HIDE DEF seen, n
  <2>1. \E h : Flattens(h, seen, Glyphs) /\ FlattenSeq(seen) = h[Len(seen)]
    BY <1>2, FlattenBy
  <2> QED BY <1>2, <2>1
<1>9. /\ h \in [0..n -> Seq(Glyphs)] /\ h[0] = <<>>
      /\ \A i \in 1..n : h[i] = h[i - 1] \o Seen(line[i])
  <2> HIDE DEF seen, n
  <2> QED BY <1>2, <1>8 DEF Flattens
<1> HIDE DEF seen
<1> DEFINE left(k) == rest[Len(g[k]) + 1]
           T == {k \in Nat : k <= n => h[k] \o left(k) = rest[1]}
<1>10. \A k \in 0..n : left(k) \in Seq(Glyphs) /\ Len(g[k]) + 1 \in 1..N + 1
  <2>1. \A k \in 0..n : Len(g[k]) + 1 \in 1..N + 1
    <3>1. \A k \in 0..n : k = 0 \/ k \in 1..n
      BY <1>1
    <3> HIDE DEF n, N
    <3>2. Len(g[0]) + 1 = 1
      BY <1>6
    <3>3. \A k \in 1..n : Len(g[k]) <= N
      <4> SUFFICES ASSUME NEW k \in 1..n PROVE Len(g[k]) <= N
        OBVIOUS
      <4> HIDE DEF N
      <4> QED BY <1>3, <1>2, <1>4 DEF Lays, N
    <3> QED BY <1>4, <1>6, <3>1, <3>2, <3>3
  <2> HIDE DEF n, N
  <2> QED BY <1>7, <2>1
<1>11. 0 \in T
  <2>1. 0 \in 0..n
    BY <1>1
  <2>2. left(0) = rest[1]
    BY <1>6
  <2>3. <<>> \o left(0) = left(0)
    BY <1>10, <2>1
  <2> QED BY <1>9, <2>2, <2>3
<1>12. ASSUME NEW k \in Nat, k \in T PROVE k + 1 \in T
  <2> DEFINE i == k + 1
  <2>0. i \in Nat
    OBVIOUS
  <2> SUFFICES ASSUME i <= n PROVE h[i] \o left(i) = rest[1]
    BY <2>0
  <2>1. i \in 1..n /\ i \in 0..n /\ k \in 0..n /\ i - 1 = k /\ k <= n
    BY <1>1
  <2>2. h[k] \o left(k) = rest[1]
    BY <1>12, <2>1
  <2> HIDE DEF i, T
  <2> DEFINE at == Len(g[k]) + 1
  <2>3. /\ at \in 1..N /\ Len(g[i]) + 1 = at + Len(Typed(line[i]))
        /\ line[i] \in Characters => CodeAt(flat, at) = 0 /\ flat[at] = line[i]
        /\ line[i] \notin Characters => CodeAt(flat, at) = Len(Typed(line[i]))
    <3>1. /\ Len(g[i - 1]) + 1 \in 1..N /\ Len(g[i]) + 1 = (Len(g[i - 1]) + 1) + Len(Typed(line[i]))
          /\ line[i] \in Characters => CodeAt(flat, Len(g[i - 1]) + 1) = 0 /\ flat[Len(g[i - 1]) + 1] = line[i]
          /\ line[i] \notin Characters => CodeAt(flat, Len(g[i - 1]) + 1) = Len(Typed(line[i]))
      BY <1>5, <2>1 DEF ReadAt
    <3> QED BY <2>1, <3>1
  <2>4. rest[at] = IF CodeAt(flat, at) = 0 THEN <<flat[at]>> \o rest[at + 1]
                   ELSE rest[at + CodeAt(flat, at)]
    BY <1>7, <2>3 DEF Strips
  <2>5. Len(Typed(line[i])) \in Nat \ {0} /\ line[i] \in Items
    BY <1>1, <2>1, TypedBegins
  <2>6. left(k) = rest[at]
    OBVIOUS
  <2> HIDE DEF at
  <2>7. left(k) = Seen(line[i]) \o left(i)
    <3>1. CASE line[i] \in Characters
      <4>1. Len(Typed(line[i])) = 1
        BY <3>1, TypedIs
      <4>2. Len(g[i]) + 1 = at + 1
        BY <2>3, <4>1
      <4>3. Seen(line[i]) = <<line[i]>>
        BY <3>1 DEF Seen
      <4> QED BY <2>3, <2>4, <2>6, <3>1, <4>2, <4>3
    <3>2. CASE line[i] \notin Characters
      <4>1. CodeAt(flat, at) # 0 /\ CodeAt(flat, at) = Len(Typed(line[i]))
        BY <2>3, <2>5, <3>2
      <4>2. left(k) = left(i)
        BY <2>3, <2>4, <2>6, <4>1
      <4>3. Seen(line[i]) = <<>>
        BY <3>2 DEF Seen
      <4>4. <<>> \o left(i) = left(i)
        BY <1>10, <2>1
      <4> QED BY <4>2, <4>3, <4>4
    <3> QED BY <3>1, <3>2
  <2>8. h[i] = h[k] \o Seen(line[i])
    BY <1>9, <2>1
  <2>9. h[k] \in Seq(Glyphs) /\ Seen(line[i]) \in Seq(Glyphs) /\ left(i) \in Seq(Glyphs)
    <3>1. seen[i] \in Seq(Glyphs)
      BY <1>2, <2>1, ElementOfSeq
    <3> QED BY <1>2, <1>9, <1>10, <2>1, <3>1
  <2> HIDE DEF left
  <2>10. \A a, b, c \in Seq(Glyphs) : (a \o b) \o c = a \o (b \o c)
    BY ConcatAssociative
  <2>11. (h[k] \o Seen(line[i])) \o left(i) = h[k] \o (Seen(line[i]) \o left(i))
    BY <2>9, <2>10
  <2> QED BY <2>2, <2>7, <2>8, <2>11
<1>13. h[n] \o left(n) = rest[1]
  <2>1. n \in T
    <3> HIDE DEF T
    <3> QED BY <1>1, <1>11, <1>12, StepByStep
  <2>2. n <= n
    BY <1>1
  <2> QED BY <2>1, <2>2
<1>14. left(n) = <<>>
  BY <1>6, <1>7 DEF Strips
<1>15. h[n] \o <<>> = h[n]
  <2>1. h[n] \in Seq(Glyphs)
    <3>1. n \in 0..n
      BY <1>1
    <3> QED BY <1>9, <3>1
  <2> QED BY <2>1
<1>16. StripFormatting(flat) = FlattenSeq(seen)
  <2> HIDE DEF left
  <2> QED BY <1>7, <1>8, <1>13, <1>14, <1>15
<1> QED BY <1>16 DEF flat, typed, seen

LEMMA ItemsAre == Characters \cup DOMAIN Item = Items
BY DEF Items, Item

\* Formatting is transparent, whatever line is heard.
THEOREM AnnouncingReads == AnnouncingSpec => []FormattingIsTransparent
<1>1. AnnouncingInit => FormattingIsTransparent
  <2> SUFFICES ASSUME AnnouncingInit PROVE FormattingIsTransparent
    OBVIOUS
  <2>1. anText = <<>> /\ [i \in DOMAIN anLine |-> Seen(anLine[i])] = <<>>
    BY DEF AnnouncingInit
  <2> QED BY <2>1, FlattenEmpty DEF FormattingIsTransparent
<1>2. FormattingIsTransparent /\ [AnnouncingNext]_anVars => FormattingIsTransparent'
  <2> SUFFICES ASSUME FormattingIsTransparent, [AnnouncingNext]_anVars PROVE FormattingIsTransparent'
    OBVIOUS
  <2>1. CASE Hear
    <3>1. anLine' \in Seq(Items)
      <4>1. anLine' \in SeqOf(Characters \cup DOMAIN Item, MaxItems)
        BY <2>1 DEF Hear
      <4>2. anLine' \in SeqOf(Items, MaxItems)
        BY <4>1, ItemsAre
      <4>3. MaxItems \in Nat
        BY AnnouncingAssumption
      <4> HIDE DEF Items
      <4>4. \A m \in 0..MaxItems : \A f \in [1..m -> Items] : f \in Seq(Items)
        BY <4>3
      <4> QED BY <4>2, <4>4 DEF SeqOf
    <3>2. anText' = StripFormatting(FlattenSeq([i \in DOMAIN anLine' |-> Typed(anLine'[i])]))
      BY <2>1 DEF Hear
    <3> QED BY <3>1, <3>2, StrippedIs DEF FormattingIsTransparent
  <2>2. CASE Announced
    <3>1. anLine' = anLine /\ anText' = anText
      BY <2>2 DEF Announced
    <3> QED BY <3>1 DEF FormattingIsTransparent
  <2>3. CASE Forget
    <3>1. anText' = <<>> /\ [i \in DOMAIN anLine' |-> Seen(anLine'[i])] = <<>>
      BY <2>3 DEF Forget
    <3> QED BY <3>1, FlattenEmpty DEF FormattingIsTransparent
  <2>4. CASE UNCHANGED anVars
    <3>1. anLine' = anLine /\ anText' = anText
      BY <2>4 DEF anVars
    <3> QED BY <3>1 DEF FormattingIsTransparent
  <2> QED BY <2>1, <2>2, <2>3, <2>4 DEF AnnouncingNext
<1> QED BY <1>1, <1>2, PTL DEF AnnouncingSpec
-----------------------------------------------------------------------------
\* Releases: the stem of the file.

\* The first and the last of some places.
Foremost(places) == CHOOSE i \in places : \A j \in places : i <= j
Hindmost(places) == CHOOSE i \in places : \A j \in places : j <= i

LEMMA SpanOf ==
    ASSUME NEW n \in Nat, NEW places \in SUBSET (1..n), places # {}
    PROVE  /\ Foremost(places) \in places /\ \A j \in places : Foremost(places) <= j
           /\ Hindmost(places) \in places /\ \A j \in places : j <= Hindmost(places)
<1>0. \A p \in places : p \in Nat /\ p >= 1 /\ p <= n
  OBVIOUS
<1>1. \E i \in places : \A j \in places : i <= j
  <2>1. places \subseteq Nat
    BY <1>0
  <2> QED BY <2>1, LeastOf
<1>2. \E i \in places : \A j \in places : j <= i
  <2> DEFINE Above == {m \in Nat : \A j \in places : j <= m}
  <2>1. n \in Above /\ Above \subseteq Nat
    BY <1>0
  <2>2. PICK m \in Above : \A x \in Above : m <= x
    <3> HIDE DEF Above
    <3> QED BY <2>1, LeastOf
  <2>3. m \in Nat /\ \A j \in places : j <= m
    BY <2>2
  <2>4. SUFFICES ASSUME m \notin places PROVE FALSE
    BY <2>3
  <2>5. \A j \in places : j <= m - 1
    BY <1>0, <2>3, <2>4
  <2>6. m # 0
    <3>1. PICK p \in places : TRUE
      OBVIOUS
    <3> QED BY <1>0, <2>3, <3>1
  <2>7. m - 1 \in Above /\ ~(m <= m - 1)
    BY <2>3, <2>5, <2>6
  <2> QED BY <2>2, <2>7
<1> QED BY <1>1, <1>2 DEF Foremost, Hindmost

\* What the file system is given: the name with its harmless characters, dots
\* for the others, from the first that is no dot.
LEMMA StemIs ==
    ASSUME NEW S, NEW name \in Seq(S)
    PROVE  /\ Stem(name) \in Seq(Unreserved) /\ Len(Stem(name)) \in 1..MaxStem
           /\ Stem(name)[1] # "."
<1> DEFINE n == Len(name)
           safe == [i \in DOMAIN name |-> IF name[i] \in Unreserved THEN name[i] ELSE "."]
           kept == {i \in DOMAIN safe : safe[i] # "."}
           first == Foremost(kept)
           last == Hindmost(kept)
           upto == IF last - first < MaxStem THEN last ELSE first + MaxStem - 1
<1>1. n \in Nat /\ DOMAIN name = 1..n /\ MaxStem \in Nat \ {0}
  BY LenProperties, AnnouncingAssumption
<1>2. DOMAIN safe = 1..n /\ \A i \in 1..n : safe[i] \in Unreserved
  BY <1>1 DEF Unreserved
<1>3. Stem(name) = IF kept = {} THEN <<"x">> ELSE SubSeq(safe, first, upto)
  BY DEF Stem, Foremost, Hindmost
<1>4. CASE kept = {}
  <2>1. "x" \in Unreserved
    BY DEF Unreserved
  <2> HIDE DEF kept
  <2>2. Stem(name) = <<"x">>
    BY <1>3, <1>4
  <2>3. /\ <<"x">> \in Seq(Unreserved) /\ Len(<<"x">>) = 1 /\ <<"x">>[1] = "x"
    BY <2>1
  <2>4. 1 \in 1..MaxStem
    BY <1>1
  <2> QED BY <2>2, <2>3, <2>4
<1>5. CASE kept # {}
  <2>1. first \in kept /\ (\A j \in kept : first <= j) /\ last \in kept
    <3>1. kept \in SUBSET (1..n)
      BY <1>2
    <3> HIDE DEF kept
    <3> QED BY <1>1, <1>5, <3>1, SpanOf
  <2>2. first \in 1..n /\ last \in 1..n /\ first <= last /\ safe[first] # "."
    BY <1>2, <2>1
  <2>3. Stem(name) = SubSeq(safe, first, upto)
    BY <1>3, <1>5
  <2> HIDE DEF safe, kept, first, last, n
  <2>4. upto \in Nat /\ first \in Nat /\ first <= upto /\ upto <= n /\ upto - first + 1 \in 1..MaxStem
    BY <1>1, <2>2
  <2> HIDE DEF upto
  <2>5. \A i \in first..upto : safe[i] \in Unreserved
    <3>1. \A i \in first..upto : i \in 1..n
      BY <1>1, <2>2, <2>4
    <3> QED BY <1>2, <3>1
  <2>6. /\ SubSeq(safe, first, upto) \in Seq(Unreserved)
        /\ Len(SubSeq(safe, first, upto)) = IF first <= upto THEN upto - first + 1 ELSE 0
        /\ \A i \in 1..upto - first + 1 : SubSeq(safe, first, upto)[i] = safe[first + i - 1]
    <3>1. first \in Int /\ upto \in Int
      BY <2>4
    <3> QED BY <2>5, <3>1, SubSeqProperties
  <2>7. 1 \in 1..upto - first + 1 /\ first + 1 - 1 = first
    BY <2>4
  <2>8. SubSeq(safe, first, upto)[1] = safe[first]
    BY <2>6, <2>7
  <2>9. Len(SubSeq(safe, first, upto)) \in 1..MaxStem
    BY <2>4, <2>6
  <2> QED BY <2>2, <2>3, <2>6, <2>8, <2>9
<1> QED BY <1>4, <1>5

-----------------------------------------------------------------------------
\* Releases: the path of the URL.

\* All that a text may hold, and the texts of dots.
Anything == STRING \cup Unreserved \cup {"%", Comma, Blank}
Dots == {<<".">>, <<".", ".">>}

LEMMA DotsAre ==
    ASSUME NEW S, NEW t \in Seq(S)
    PROVE  t \in Dots <=> Len(t) \in 1..2 /\ \A i \in 1..Len(t) : t[i] = "."
<1>1. t \in Dots => Len(t) \in 1..2 /\ \A i \in 1..Len(t) : t[i] = "."
  BY DEF Dots
<1>2. ASSUME Len(t) \in 1..2, \A i \in 1..Len(t) : t[i] = "." PROVE t \in Dots
  <2>1. t = [i \in 1..Len(t) |-> t[i]]
    BY LenProperties
  <2>2. CASE Len(t) = 1
    <3>1. t = [i \in 1..1 |-> "."]
      BY <1>2, <2>1, <2>2
    <3>2. <<".">> = [i \in 1..1 |-> "."]
      OBVIOUS
    <3> QED BY <3>1, <3>2 DEF Dots
  <2>3. CASE Len(t) = 2
    <3>1. t = [i \in 1..2 |-> "."]
      BY <1>2, <2>1, <2>3
    <3>2. <<".", ".">> = [i \in 1..2 |-> "."]
      OBVIOUS
    <3> QED BY <3>1, <3>2 DEF Dots
  <2> QED BY <1>2, <2>2, <2>3
<1> QED BY <1>1, <1>2

\* Escaping keeps the length, and what is escaped is no dot.
LEMMA EscapedIs ==
    ASSUME NEW S, NEW t \in Seq(S)
    PROVE  /\ Escaped(t) \in Seq(Unreserved \cup {"%"}) /\ Len(Escaped(t)) = Len(t)
           /\ \A i \in 1..Len(t) : Escaped(t)[i] = "." => t[i] = "."
<1>1. Len(t) \in Nat /\ DOMAIN t = 1..Len(t)
  BY LenProperties
<1>2. Escaped(t) = [i \in 1..Len(t) |-> IF t[i] \in Unreserved THEN t[i] ELSE "%"]
  BY <1>1 DEF Escaped
<1>3. Escaped(t) \in [1..Len(t) -> Unreserved \cup {"%"}]
  BY <1>2
<1>4. Escaped(t) \in Seq(Unreserved \cup {"%"}) /\ Len(Escaped(t)) = Len(t)
  <2> HIDE DEF Unreserved
  <2> QED BY <1>1, <1>3, SeqDef, LenProperties
<1>5. \A i \in 1..Len(t) : Escaped(t)[i] = "." => t[i] = "."
  BY <1>2
<1> QED BY <1>4, <1>5

\* A path without segments of dots stays as it is.
LEMMA NormalisedIs ==
    ASSUME NEW S, NEW path \in Seq(S), \A i \in 1..Len(path) : path[i] \notin Dots
    PROVE  Normalised(path) = path
<1> DEFINE n == Len(path)
           After(f, i) == IF i = 0 THEN <<>>
                          ELSE CASE path[i] = <<".">>      -> f[i - 1]
                                 [] path[i] = <<".", ".">> -> IF f[i - 1] = <<>> THEN <<>> ELSE Front(f[i - 1])
                                 [] OTHER                  -> Append(f[i - 1], path[i])
           Fits(f) == f = [i \in 0..n |-> After(f, i)]
           upTo == CHOOSE f : Fits(f)
           h == [i \in 0..n |-> SubSeq(path, 1, i)]
<1>1. n \in Nat /\ (\A i \in 1..n : path[i] \in S) /\ SubSeq(path, 1, n) = path
  BY LenProperties, ElementOfSeq, SubSeqFull
<1>2. Normalised(path) = upTo[n]
  BY DEF Normalised
<1>3. \A f : After(f, 0) = <<>> /\ \A i \in 1..n : After(f, i) = Append(f[i - 1], path[i])
  <2>1. \A i \in 1..n : i # 0
    BY <1>1
  <2>2. \A t : t \notin Dots => t # <<".">> /\ t # <<".", ".">>
    BY DEF Dots
  <2>3. \A i \in 1..n : path[i] # <<".">> /\ path[i] # <<".", ".">>
    BY <2>2
  <2> QED BY <2>1, <2>3
<1> HIDE DEF After
<1>4. h[0] = <<>> /\ \A i \in 1..n : h[i] = Append(h[i - 1], path[i])
  <2>1. h[0] = SubSeq(path, 1, 0)
    BY <1>1
  <2>2. SubSeq(path, 1, 0) = <<>>
    BY SubSeqEmpty
  <2>3. ASSUME NEW i \in 1..n PROVE h[i] = Append(h[i - 1], path[i])
    <3>1. h[i] = SubSeq(path, 1, i) /\ h[i - 1] = SubSeq(path, 1, i - 1)
      BY <1>1
    <3>2. 1 \in 1..Len(path) /\ i \in 1..Len(path) /\ i \in 1..n
      BY <1>1
    <3>3. SubSeq(path, 1, i) = SubSeq(path, 1, i - 1) \o <<path[i]>>
      BY <3>2, SubSeqRecursiveSecond
    <3>4. SubSeq(path, 1, i - 1) \in Seq(S)
      <4>1. 1 \in Int /\ i - 1 \in Int /\ \A j \in 1..i - 1 : path[j] \in S
        BY <1>1
      <4> QED BY <4>1, SubSeqProperties
    <3>5. Append(SubSeq(path, 1, i - 1), path[i]) = SubSeq(path, 1, i - 1) \o <<path[i]>>
      BY <1>1, <3>4, AppendIsConcat
    <3> QED BY <3>1, <3>3, <3>5
  <2> QED BY <2>1, <2>2, <2>3
<1>5. Fits(h)
  <2>1. h = [i \in 0..n |-> h[i]]
    OBVIOUS
  <2> HIDE DEF h
  <2>2. \A i \in 0..n : i = 0 \/ i \in 1..n
    BY <1>1
  <2>3. \A i \in 0..n : h[i] = After(h, i)
    BY <1>3, <1>4, <2>2
  <2> QED BY <2>1, <2>3
<1>6. Fits(upTo)
  <2> HIDE DEF Fits, h
  <2> QED BY <1>5
<1> HIDE DEF upTo, h
<1>7. Alike(n, upTo, h)
  <2>1. \A i \in 0..n : upTo[i] = After(upTo, i)
    BY <1>6
  <2>2. 0 \in 0..n /\ \A i \in 1..n : i \in 0..n
    BY <1>1
  <2> QED BY <1>3, <1>4, <2>1, <2>2 DEF Alike
<1>8. upTo[n] = h[n]
  <2>1. n \in 0..n
    BY <1>1
  <2> HIDE DEF n
  <2> QED BY <1>1, <1>7, <2>1, SameAll
<1>9. h[n] = path
  BY <1>1 DEF h
<1> QED BY <1>2, <1>8, <1>9

\* What the fields of a release may hold.
LEMMA ValueIs ==
    ASSUME NEW release \in Releases, NEW name \in Available(release)
    PROVE  Value(release, name) \in Seq(Anything)
<1>1. /\ release.name \in Seq(Anything) /\ release.id \in Seq(Anything)
      /\ "tags" \in DOMAIN release => release.tags \in Seq(Anything)
  <2>1. \A v \in Values : v \in Seq(Anything)
    <3>1. \A v \in Values : v \in Seq(STRING)
      BY AnnouncingAssumption
    <3>2. STRING \subseteq Anything
      BY DEF Anything
    <3> HIDE DEF Anything
    <3> QED BY <3>1, <3>2, SeqMonotonic
  <2>2. <<"0">> \in Seq(Anything)
    <3>1. "0" \in Anything
      BY DEF Anything, Unreserved
    <3> HIDE DEF Anything
    <3> QED BY <3>1
  <2> HIDE DEF Anything
  <2> QED BY <2>1, <2>2 DEF Releases
<1>2. DOMAIN release \subseteq {"name", "id", "tags"}
  BY DEF Releases
<1>3. Stem(release.name) \in Seq(Anything)
  <2>1. Stem(release.name) \in Seq(Unreserved)
    BY <1>1, StemIs
  <2>2. Unreserved \subseteq Anything
    BY DEF Anything
  <2> HIDE DEF Anything, Unreserved
  <2> QED BY <2>1, <2>2, SeqMonotonic
<1>4. <<"x">> \in Seq(Anything)
  <2>1. "x" \in Anything
    BY DEF Anything, Unreserved
  <2> HIDE DEF Anything
  <2> QED BY <2>1
<1>5. CASE name = "file"
  BY <1>3, <1>5 DEF Value
<1>6. CASE name = "key"
  BY <1>4, <1>6 DEF Value
<1>7. CASE name \notin {"file", "key"}
  <2>1. Value(release, name) = release[name] /\ name \in DOMAIN release
    BY <1>7 DEF Value, Available
  <2>2. name \in {"name", "id", "tags"}
    BY <1>2, <2>1
  <2> QED BY <1>1, <2>1, <2>2
<1> QED BY <1>5, <1>6, <1>7

\* What a template writes at one place.
Part(release, segment, i) ==
    IF "field" \in DOMAIN segment[i] THEN Escaped(Value(release, segment[i].field))
                                     ELSE segment[i].literal

\* A segment is one of dots only where the template says so: a value that is
\* put there has a character, and not dots alone.
LEMMA FilledIs ==
    ASSUME NEW release \in Releases, NEW template \in UrlTemplates,
           ~Refuses(release, template), ~GoesUp(template), NEW at \in DOMAIN template
    PROVE  Filled(release, template[at]) \in Seq(Anything) /\ Filled(release, template[at]) \notin Dots
<1> DEFINE segment == template[at]
           parts == [i \in DOMAIN segment |-> Part(release, segment, i)]
           flat == Filled(release, segment)
           n == Len(segment)
           Parts == [field : STRING] \cup [literal : Seq(STRING)]
<1>1. n \in Nat /\ DOMAIN segment = 1..n /\ \A i \in 1..n : segment[i] \in Parts
  <2>1. template \in Seq(Seq(Parts))
    BY AnnouncingAssumption
  <2> HIDE DEF Parts
  <2>2. segment \in Seq(Parts)
    <3>1. at \in 1..Len(template)
      BY <2>1, LenProperties
    <3> QED BY <2>1, <3>1, ElementOfSeq
  <2> QED BY <2>2, LenProperties, ElementOfSeq
<1>2. ASSUME NEW i \in 1..n, "field" \in DOMAIN segment[i]
      PROVE  /\ Value(release, segment[i].field) \in Seq(Anything)
             /\ ~CannotStandInPath(Value(release, segment[i].field))
  <2> DEFINE name == segment[i].field
  <2>1. segment[i] \in ToSet(segment)
    BY <1>1 DEF ToSet
  <2>2. segment[i] \in UNION {ToSet(template[j]) : j \in DOMAIN template}
    BY <2>1
  <2>3. name \in Placeholders(template)
    BY <1>2, <2>2 DEF Placeholders
  <2> HIDE DEF name
  <2>4. name \in Available(release) /\ ~CannotStandInPath(Value(release, name))
    BY <2>3 DEF Refuses
  <2> QED BY <2>4, ValueIs DEF name
<1>3. ASSUME NEW i \in 1..n PROVE Part(release, segment, i) \in Seq(Anything)
  <2>1. CASE "field" \in DOMAIN segment[i]
    <3>1. Value(release, segment[i].field) \in Seq(Anything)
      BY <1>2, <2>1
    <3>2. Escaped(Value(release, segment[i].field)) \in Seq(Unreserved \cup {"%"})
      <4> HIDE DEF segment
      <4> QED BY <3>1, EscapedIs
    <3>3. Unreserved \cup {"%"} \subseteq Anything
      BY DEF Anything
    <3>4. Escaped(Value(release, segment[i].field)) \in Seq(Anything)
      <4> DEFINE U == Unreserved \cup {"%"}
                 e == Escaped(Value(release, segment[i].field))
      <4> HIDE DEF U, e
      <4>1. e \in Seq(U) /\ U \subseteq Anything
        BY <3>2, <3>3 DEF U, e
      <4>2. e \in Seq(Anything)
        BY <4>1, SeqMonotonic
      <4> QED BY <4>2 DEF e
    <3> QED BY <2>1, <3>4 DEF Part
  <2>2. CASE "field" \notin DOMAIN segment[i]
    <3>1. segment[i].literal \in Seq(STRING)
      <4>1. segment[i] \notin [field : STRING]
        BY <2>2
      <4> QED BY <1>1, <4>1
    <3>2. STRING \subseteq Anything
      BY DEF Anything
    <3>3. segment[i].literal \in Seq(Anything)
      <4> HIDE DEF segment, Anything
      <4> QED BY <3>1, <3>2, SeqMonotonic
    <3> QED BY <2>2, <3>3 DEF Part
  <2> QED BY <2>1, <2>2
<1>4. flat = FlattenSeq(parts)
  BY DEF Filled, Part
<1> HIDE DEF Parts, flat
<1>5. parts \in Seq(Seq(Anything)) /\ Len(parts) = n /\ \A i \in 1..n : parts[i] = Part(release, segment, i)
  <2>1. parts = [i \in 1..n |-> Part(release, segment, i)]
    BY <1>1
  <2> HIDE DEF parts, segment, n
  <2>2. parts \in [1..n -> Seq(Anything)]
    BY <1>3, <2>1
  <2> QED BY <1>1, <2>1, <2>2, SeqDef, LenProperties
<1> HIDE DEF parts
<1>6. flat \in Seq(Anything) /\ \E g : Lays(g, parts, flat)
  BY <1>4, <1>5, FlattenPlaces
<1>7. SUFFICES ASSUME flat \in Dots PROVE FALSE
  BY <1>6 DEF flat
<1>8. Len(flat) \in 1..2 /\ \A i \in 1..Len(flat) : flat[i] = "."
  BY <1>6, <1>7, DotsAre
<1>9. CASE \A i \in 1..n : "field" \notin DOMAIN segment[i]
  <2>1. \A i \in 1..n : parts[i] = segment[i].literal
    BY <1>5, <1>9 DEF Part
  <2>2. flat = FlattenSeq([i \in DOMAIN segment |-> segment[i].literal])
    BY <1>1, <1>9 DEF flat, Filled
  <2> QED BY <1>1, <1>7, <1>9, <2>2 DEF GoesUp, Dots
<1>10. CASE \E i \in 1..n : "field" \in DOMAIN segment[i]
  <2>1. PICK i \in 1..n : "field" \in DOMAIN segment[i]
    BY <1>10
  <2> DEFINE v == Value(release, segment[i].field)
  <2>2. v \in Seq(Anything) /\ ~CannotStandInPath(v)
    BY <1>2, <2>1
  <2>3. parts[i] = Escaped(v)
    BY <1>5, <2>1 DEF Part
  <2> HIDE DEF v
  <2>4. Len(parts[i]) = Len(v) /\ \A j \in 1..Len(v) : parts[i][j] = "." => v[j] = "."
    BY <2>2, <2>3, EscapedIs
  <2>5. PICK g : Lays(g, parts, flat)
    BY <1>6
  <2> DEFINE a == Len(g[i - 1])
             b == Len(g[i])
  <2>6. /\ b = a + Len(v) /\ a \in 0..Len(flat) /\ b \in 0..Len(flat)
        /\ \A j \in 1..Len(v) : flat[a + j] = parts[i][j]
    <3>1. i \in 1..Len(parts) /\ i \in 0..Len(parts) /\ i - 1 \in 0..Len(parts)
      BY <1>1, <1>5, <2>1
    <3> QED BY <2>4, <2>5, <3>1 DEF Lays
  <2> HIDE DEF a, b
  <2>7. Len(v) \in Nat /\ Len(v) # 0
    <3>1. v # <<>>
      BY <2>2 DEF CannotStandInPath
    <3> QED BY <2>2, <3>1, EmptySeq
  <2>8. Len(v) \in 1..2 /\ \A j \in 1..Len(v) : a + j \in 1..Len(flat)
    <3>1. \A x, y, l, m \in Nat : x = y + l /\ m \in 1..2 /\ x \in 0..m /\ l # 0 =>
             l \in 1..2 /\ \A j \in 1..l : y + j \in 1..m
      OBVIOUS
    <3>2. a \in Nat /\ b \in Nat /\ Len(flat) \in Nat
      BY <1>8, <2>6
    <3> QED BY <1>8, <2>6, <2>7, <3>1, <3>2
  <2>9. \A j \in 1..Len(v) : v[j] = "."
    BY <1>8, <2>4, <2>6, <2>8
  <2>10. v \in Dots
    BY <2>2, <2>8, <2>9, DotsAre
  <2> QED BY <2>2, <2>10 DEF CannotStandInPath, Dots
<1> QED BY <1>9, <1>10

\* What the path of a release is.
LEMMA PathIs ==
    ASSUME NEW release \in Releases, NEW template \in UrlTemplates,
           ~Refuses(release, template), ~GoesUp(template)
    PROVE  Path(release, template) = [i \in DOMAIN template |-> Filled(release, template[i])]
<1> DEFINE path == [i \in DOMAIN template |-> Filled(release, template[i])]
           n == Len(template)
<1>1. n \in Nat /\ DOMAIN template = 1..n
  <2>1. template \in Seq(Seq([field : STRING] \cup [literal : Seq(STRING)]))
    BY AnnouncingAssumption
  <2> QED BY <2>1, LenProperties
<1>2. \A i \in 1..n : Filled(release, template[i]) \in Seq(Anything) /\ Filled(release, template[i]) \notin Dots
  BY <1>1, FilledIs
<1>3. path \in Seq(Seq(Anything)) /\ Len(path) = n /\ \A i \in 1..n : path[i] \notin Dots
  <2>1. path = [i \in 1..n |-> Filled(release, template[i])]
    BY <1>1
  <2> HIDE DEF path, n
  <2>2. path \in [1..n -> Seq(Anything)]
    BY <1>2, <2>1
  <2>3. \A i \in 1..n : path[i] \notin Dots
    BY <1>2, <2>1
  <2> QED BY <1>1, <2>2, <2>3, SeqDef, LenProperties
<1>4. Path(release, template) = Normalised(path)
  BY DEF Path
<1> HIDE DEF path, n
<1>5. Normalised(path) = path
  BY <1>3, NormalisedIs
<1> QED BY <1>4, <1>5 DEF path

-----------------------------------------------------------------------------
\* Tags: what is joined by commas is split at them again.

\* What a text is split into, up to each of its places.
Splits(upTo, text) ==
    /\ upTo[0] = <<<<>>>>
    /\ \A i \in 1..Len(text) :
          upTo[i] = IF text[i] = Comma THEN Append(upTo[i - 1], <<>>)
                    ELSE Append(Front(upTo[i - 1]), Append(Last(upTo[i - 1]), text[i]))

LEMMA FrontAndLast ==
    ASSUME NEW S, NEW s \in Seq(S), NEW e \in S
    PROVE  Append(s, e) \in Seq(S) /\ Front(Append(s, e)) = s /\ Last(Append(s, e)) = e
<1> DEFINE n == Len(s)
           more == Append(s, e)
<1>1. n \in Nat /\ SubSeq(s, 1, n) = s /\ \A i \in 1..n : s[i] \in S
  BY LenProperties, SubSeqFull, ElementOfSeq
<1>2. more \in Seq(S) /\ Len(more) = n + 1 /\ more[n + 1] = e /\ \A i \in 1..n : more[i] = s[i]
  BY AppendProperties
<1> HIDE DEF more, n
<1>3. Front(more) = SubSeq(more, 1, n)
  <2>1. (n + 1) - 1 = n
    BY <1>1
  <2> QED BY <1>2, <2>1 DEF Front
<1>4. SubSeq(more, 1, n) = s
  <2>1. 1 \in Int /\ n \in Int /\ (\A i \in 1..n : more[i] \in S) /\ Len(s) = n
    BY <1>1, <1>2 DEF n
  <2>2. /\ SubSeq(more, 1, n) \in Seq(S)
        /\ Len(SubSeq(more, 1, n)) = IF 1 <= n THEN n - 1 + 1 ELSE 0
        /\ \A i \in 1..n - 1 + 1 : SubSeq(more, 1, n)[i] = more[1 + i - 1]
    BY <2>1, SubSeqProperties
  <2>3. Len(SubSeq(more, 1, n)) = n
    BY <1>1, <2>2
  <2>4. \A i \in 1..n : i \in 1..n - 1 + 1 /\ 1 + i - 1 = i
    BY <1>1
  <2>5. \A i \in 1..n : SubSeq(more, 1, n)[i] = s[i]
    BY <1>2, <2>2, <2>4
  <2> QED BY <2>1, <2>2, <2>3, <2>5, SeqEqual
<1>5. Last(more) = e
  BY <1>2 DEF Last
<1> QED BY <1>2, <1>3, <1>4, <1>5 DEF more

LEMMA SplitIs ==
    ASSUME NEW S, NEW text \in Seq(S)
    PROVE  \E upTo : /\ Splits(upTo, text) /\ Split(text, Comma) = upTo[Len(text)]
                     /\ \A i \in 0..Len(text) : upTo[i] \in Seq(Seq(S)) /\ upTo[i] # <<>>
<1> DEFINE n == Len(text)
           V == Seq(Seq(S)) \ {<<>>}
           After(t, i) == IF text[i] = Comma THEN Append(t, <<>>)
                          ELSE Append(Front(t), Append(Last(t), text[i]))
           G == [p \in (1..n) \X V |-> After(p[2], p[1])]
           Fits(f) == f = [i \in 0..n |->
              IF i = 0 THEN <<<<>>>>
              ELSE IF text[i] = Comma THEN Append(f[i - 1], <<>>)
              ELSE Append(Front(f[i - 1]), Append(Last(f[i - 1]), text[i]))]
           upTo == CHOOSE f : Fits(f)
<1>1. n \in Nat /\ \A i \in 1..n : text[i] \in S
  BY LenProperties, ElementOfSeq
<1>2. <<<<>>>> \in V
  <2>1. <<>> \in Seq(S)
    BY EmptySeq
  <2> QED BY <2>1
<1>3. ASSUME NEW t \in V, NEW i \in 1..n PROVE After(t, i) \in V
  <2>1. <<>> \in Seq(S) /\ t \in Seq(Seq(S)) /\ t # <<>>
    BY EmptySeq
  <2> HIDE DEF V
  <2>2. Append(t, <<>>) \in Seq(Seq(S)) /\ Append(t, <<>>) # <<>>
    BY <2>1, AppendProperties
  <2>3. Len(t) \in Nat \ {0} /\ \A j \in 1..Len(t) : t[j] \in Seq(S)
    BY <2>1, EmptySeq, ElementOfSeq
  <2>4. Last(t) \in Seq(S)
    BY <2>3 DEF Last
  <2>5. Front(t) \in Seq(Seq(S))
    <3>1. 1 \in Int /\ Len(t) - 1 \in Int /\ \A j \in 1..Len(t) - 1 : t[j] \in Seq(S)
      BY <2>3
    <3> QED BY <3>1, SubSeqProperties DEF Front
  <2>6. Append(Last(t), text[i]) \in Seq(S)
    BY <1>1, <2>4, AppendProperties
  <2>7. /\ Append(Front(t), Append(Last(t), text[i])) \in Seq(Seq(S))
        /\ Append(Front(t), Append(Last(t), text[i])) # <<>>
    <3> DEFINE U == Seq(S)
               a == Front(t)
               b == Append(Last(t), text[i])
    <3>1. a \in Seq(U) /\ b \in U
      BY <2>5, <2>6
    <3> HIDE DEF U, a, b
    <3>2. Append(a, b) \in Seq(U) /\ Append(a, b) # <<>>
      BY <3>1, AppendProperties
    <3> QED BY <3>2 DEF U, a, b
  <2> QED BY <2>2, <2>7 DEF V
<1> HIDE DEF After
<1>4. PICK g : Walks(g, n, V, <<<<>>>>, G)
  <2>1. G \in [(1..n) \X V -> V]
    <3>1. \A p \in (1..n) \X V : After(p[2], p[1]) \in V
      BY <1>3
    <3> QED BY <3>1
  <2> HIDE DEF G, V, n
  <2>2. Steps(n, V, <<<<>>>>, G)
    BY <1>1, <1>2, <2>1 DEF Steps
  <2> QED BY <2>2, Iterates
<1>5. /\ g \in [0..n -> V] /\ g[0] = <<<<>>>>
      /\ \A i \in 1..n : g[i] = After(g[i - 1], i)
  <2>1. g \in [0..n -> V] /\ g[0] = <<<<>>>> /\ \A i \in 1..n : g[i] = G[<<i, g[i - 1]>>]
    BY <1>4 DEF Walks
  <2> HIDE DEF V
  <2>2. \A i \in 1..n : <<i, g[i - 1]>> \in (1..n) \X V
    <3>1. \A i \in 1..n : i - 1 \in 0..n
      BY <1>1
    <3> QED BY <2>1, <3>1
  <2>3. \A i \in 1..n : G[<<i, g[i - 1]>>] = After(g[i - 1], i)
    BY <2>2
  <2> HIDE DEF G
  <2> QED BY <2>1, <2>3
<1> HIDE DEF G
<1>6. \A f : Fits(f) <=> f = [i \in 0..n |-> IF i = 0 THEN <<<<>>>> ELSE After(f[i - 1], i)]
  BY DEF After
<1>7. Split(text, Comma) = upTo[n]
  BY DEF Split
<1>8. g = [i \in 0..n |-> IF i = 0 THEN <<<<>>>> ELSE After(g[i - 1], i)]
  <2>1. g = [i \in 0..n |-> g[i]]
    BY <1>5
  <2>2. \A i \in 0..n : g[i] = IF i = 0 THEN <<<<>>>> ELSE After(g[i - 1], i)
    <3>1. \A i \in 0..n : i = 0 \/ i \in 1..n
      BY <1>1
    <3> HIDE DEF n
    <3> QED BY <1>5, <3>1
  <2> QED BY <2>1, <2>2
<1> HIDE DEF Fits
<1>9. Fits(upTo)
  BY <1>6, <1>8
<1> HIDE DEF upTo
<1>10. upTo = [i \in 0..n |-> IF i = 0 THEN <<<<>>>> ELSE After(upTo[i - 1], i)]
  BY <1>6, <1>9
<1>11. upTo[0] = <<<<>>>> /\ \A i \in 1..n : upTo[i] = After(upTo[i - 1], i)
  <2>1. 0 \in 0..n /\ \A i \in 1..n : i \in 0..n /\ i # 0
    BY <1>1
  <2> QED BY <1>10, <2>1
<1>12. \A i \in 0..n : upTo[i] = g[i]
  <2>1. Alike(n, upTo, g)
    BY <1>5, <1>11 DEF Alike
  <2> HIDE DEF n
  <2> QED BY <1>1, <2>1, SameAll
<1>13. \A i \in 0..n : upTo[i] \in Seq(Seq(S)) /\ upTo[i] # <<>>
  BY <1>5, <1>12
<1>14. Splits(upTo, text)
  BY <1>11 DEF Splits, After
<1> QED BY <1>7, <1>13, <1>14

\* A part begins, and what stands there is no comma.
Begins(upTo, text, done, v, from) ==
    /\ from \in Nat /\ Len(text) \in Nat /\ from + Len(v) <= Len(text)
    /\ upTo[from] = Append(done, <<>>)
    /\ \A j \in 1..Len(v) : text[from + j] = v[j] /\ v[j] # Comma

\* Characters that are no comma go to the last of the parts.
LEMMA FillsIn ==
    ASSUME NEW S, NEW text, NEW upTo, NEW done \in Seq(Seq(S)), NEW v \in Seq(S), NEW from,
           Splits(upTo, text), Begins(upTo, text, done, v, from)
    PROVE  upTo[from + Len(v)] = Append(done, v)
<1> DEFINE n == Len(v)
           T == {j \in Nat : j <= n => upTo[from + j] = Append(done, SubSeq(v, 1, j))}
<1>0. /\ from \in Nat /\ Len(text) \in Nat /\ from + Len(v) <= Len(text)
      /\ upTo[from] = Append(done, <<>>)
      /\ \A j \in 1..Len(v) : text[from + j] = v[j] /\ v[j] # Comma
  BY DEF Begins
<1>1. n \in Nat /\ SubSeq(v, 1, n) = v /\ SubSeq(v, 1, 0) = <<>> /\ \A j \in 1..n : v[j] \in S
  BY LenProperties, SubSeqFull, SubSeqEmpty, ElementOfSeq
<1>2. 0 \in T
  <2>1. from + 0 = from
    BY <1>0
  <2> QED BY <1>0, <1>1, <2>1
<1>3. ASSUME NEW j \in Nat, j \in T PROVE j + 1 \in T
  <2> DEFINE k == j + 1
             at == from + k
  <2>0. k \in Nat
    OBVIOUS
  <2> SUFFICES ASSUME k <= n PROVE upTo[at] = Append(done, SubSeq(v, 1, k))
    BY <2>0
  <2>1. /\ k \in 1..n /\ k - 1 = j /\ at \in 1..Len(text) /\ at - 1 = from + j
        /\ 1 \in Int /\ j \in Int /\ \A i \in 1..j : i \in 1..n
    BY <1>0, <1>1
  <2>2. upTo[from + j] = Append(done, SubSeq(v, 1, j))
    BY <1>1, <1>3, <2>1
  <2>3. text[at] = v[k] /\ v[k] # Comma /\ v[k] \in S
    BY <1>0, <1>1, <2>1
  <2>4. SubSeq(v, 1, j) \in Seq(S)
    BY <1>1, <2>1, SubSeqProperties
  <2>5. SubSeq(v, 1, k) = Append(SubSeq(v, 1, j), v[k])
    <3>1. 1 \in 1..Len(v) /\ k \in 1..Len(v) /\ SubSeq(v, 1, k - 1) = SubSeq(v, 1, j)
      BY <1>1, <2>1
    <3> HIDE DEF k, n
    <3>2. SubSeq(v, 1, k) = SubSeq(v, 1, k - 1) \o <<v[k]>>
      BY <3>1, SubSeqRecursiveSecond
    <3>3. Append(SubSeq(v, 1, j), v[k]) = SubSeq(v, 1, j) \o <<v[k]>>
      BY <2>3, <2>4, AppendIsConcat
    <3> QED BY <3>1, <3>2, <3>3
  <2> HIDE DEF k, at, T, n
  <2>6. /\ Front(Append(done, SubSeq(v, 1, j))) = done
        /\ Last(Append(done, SubSeq(v, 1, j))) = SubSeq(v, 1, j)
    BY <2>4, FrontAndLast
  <2>7. upTo[at] = Append(Front(upTo[at - 1]), Append(Last(upTo[at - 1]), text[at]))
    BY <2>1, <2>3 DEF Splits
  <2> QED BY <2>1, <2>2, <2>3, <2>5, <2>6, <2>7
<1>4. upTo[from + n] = Append(done, SubSeq(v, 1, n))
  <2>1. n \in T
    <3> HIDE DEF T
    <3> QED BY <1>1, <1>2, <1>3, StepByStep
  <2>2. n <= n
    BY <1>1
  <2> QED BY <2>1, <2>2
<1> QED BY <1>1, <1>4

\* Values without commas come back, one by one, from what they were joined to.
LEMMA JoinedIsSplit ==
    ASSUME NEW S, Comma \in S, NEW values \in Seq(Seq(S)), values # <<>>,
           \A i \in DOMAIN values : Comma \notin ToSet(values[i])
    PROVE  Join(values) \in Seq(S) /\ Split(Join(values), Comma) = values
<1> DEFINE n == Len(values)
           joined == [i \in DOMAIN values |-> IF i = 1 THEN values[i] ELSE <<Comma>> \o values[i]]
           text == Join(values)
<1>1. n \in Nat \ {0} /\ DOMAIN values = 1..n /\ \A i \in 1..n : values[i] \in Seq(S)
  BY EmptySeq, LenProperties, ElementOfSeq
<1>2. ASSUME NEW i \in 1..n
      PROVE  /\ Len(values[i]) \in Nat
             /\ \A j \in 1..Len(values[i]) : values[i][j] # Comma
  <2>1. DOMAIN values[i] = 1..Len(values[i]) /\ Len(values[i]) \in Nat
    BY <1>1, LenProperties
  <2>2. Comma \notin ToSet(values[i])
    BY <1>1
  <2> QED BY <2>1, <2>2 DEF ToSet
<1>3. ASSUME NEW i \in 1..n
      PROVE  /\ <<Comma>> \o values[i] \in Seq(S)
             /\ Len(<<Comma>> \o values[i]) = 1 + Len(values[i])
             /\ (<<Comma>> \o values[i])[1] = Comma
             /\ \A j \in 1..Len(values[i]) : (<<Comma>> \o values[i])[1 + j] = values[i][j]
  <2> DEFINE v == values[i]
             c == <<Comma>>
  <2>1. c \in Seq(S) /\ Len(c) = 1 /\ c[1] = Comma /\ v \in Seq(S) /\ Len(v) \in Nat
    BY <1>1, <1>2
  <2> HIDE DEF v, c
  <2>2. /\ c \o v \in Seq(S) /\ Len(c \o v) = 1 + Len(v)
        /\ \A j \in 1..1 + Len(v) : (c \o v)[j] = IF j <= 1 THEN c[j] ELSE v[j - 1]
    <3>1. Len(c) + Len(v) = 1 + Len(v)
      BY <2>1
    <3>2. /\ c \o v \in Seq(S) /\ Len(c \o v) = Len(c) + Len(v)
          /\ \A j \in 1..Len(c) + Len(v) : (c \o v)[j] = IF j <= Len(c) THEN c[j] ELSE v[j - Len(c)]
      BY <2>1, ConcatProperties
    <3> QED BY <2>1, <3>1, <3>2
  <2>3. 1 \in 1..1 + Len(v) /\ \A j \in 1..Len(v) : 1 + j \in 1..1 + Len(v) /\ ~(1 + j <= 1) /\ (1 + j) - 1 = j
    BY <2>1
  <2>4. (c \o v)[1] = Comma /\ \A j \in 1..Len(v) : (c \o v)[1 + j] = v[j]
    BY <2>1, <2>2, <2>3
  <2> QED BY <2>2, <2>4 DEF v, c
<1>4. /\ joined \in Seq(Seq(S)) /\ Len(joined) = n
      /\ joined[1] = values[1] /\ \A i \in 1..n : i # 1 => joined[i] = <<Comma>> \o values[i]
  <2>1. joined = [i \in 1..n |-> IF i = 1 THEN values[i] ELSE <<Comma>> \o values[i]]
    BY <1>1
  <2> HIDE DEF joined, n
  <2>2. joined \in [1..n -> Seq(S)]
    BY <1>1, <1>3, <2>1
  <2>3. 1 \in 1..n
    BY <1>1
  <2> QED BY <1>1, <2>1, <2>2, <2>3, SeqDef, LenProperties
<1>5. text = FlattenSeq(joined)
  BY DEF Join
<1> HIDE DEF joined, text
<1>6. text \in Seq(S) /\ \E g : Lays(g, joined, text)
  BY <1>4, <1>5, FlattenPlaces
<1>7. PICK g : Lays(g, joined, text)
  BY <1>6
<1> DEFINE off == [k \in 0..n |-> Len(g[k])]
           N == Len(text)
<1>8. /\ off \in [0..n -> 0..N] /\ off[0] = 0 /\ off[n] = N /\ N \in Nat
      /\ \A k \in 1..n : /\ off[k] = off[k - 1] + Len(joined[k])
                         /\ \A j \in 1..Len(joined[k]) : text[off[k - 1] + j] = joined[k][j]
  <2> HIDE DEF n
  <2>1. /\ \A k \in 0..n : off[k] = Len(g[k])
        /\ \A k \in 1..n : k \in 0..n /\ k - 1 \in 0..n
        /\ 0 \in 0..n /\ n \in 0..n /\ DOMAIN off = 0..n
    BY <1>1
  <2> HIDE DEF off
  <2>2. /\ g[0] = <<>> /\ g[n] = text
        /\ \A k \in 1..n : /\ Len(g[k]) = Len(g[k - 1]) + Len(joined[k])
                           /\ \A j \in 1..Len(joined[k]) : text[Len(g[k - 1]) + j] = joined[k][j]
        /\ \A k \in 0..n : Len(g[k]) \in 0..N
    BY <1>4, <1>7 DEF Lays
  <2>3. N \in Nat
    BY <1>6, LenProperties
  <2>4. off[0] = 0 /\ off[n] = N /\ \A k \in 0..n : off[k] \in 0..N
    BY <2>1, <2>2
  <2>5. off \in [0..n -> 0..N]
    <3>1. off = [k \in 0..n |-> off[k]]
      BY DEF off
    <3> QED BY <2>4, <3>1
  <2>6. \A k \in 1..n : /\ off[k] = off[k - 1] + Len(joined[k])
                        /\ \A j \in 1..Len(joined[k]) : text[off[k - 1] + j] = joined[k][j]
    BY <2>1, <2>2
  <2> QED BY <2>3, <2>4, <2>5, <2>6
<1> HIDE DEF off, N
<1>9. PICK upTo : Splits(upTo, text) /\ Split(text, Comma) = upTo[Len(text)]
  BY <1>6, SplitIs
<1> DEFINE T == {k \in Nat : k + 1 <= n => upTo[off[k + 1]] = SubSeq(values, 1, k + 1)}
<1>10. ASSUME NEW k \in 1..n
       PROVE  /\ SubSeq(values, 1, k - 1) \in Seq(Seq(S))
              /\ SubSeq(values, 1, k) = Append(SubSeq(values, 1, k - 1), values[k])
  <2>1. /\ 1 \in Int /\ k - 1 \in Int /\ \A i \in 1..k - 1 : values[i] \in Seq(S)
        /\ 1 \in 1..Len(values) /\ k \in 1..Len(values) /\ values[k] \in Seq(S) /\ k \in 1..k
    BY <1>1
  <2>2. SubSeq(values, 1, k - 1) \in Seq(Seq(S))
    BY <2>1, SubSeqProperties
  <2> HIDE DEF n
  <2>3. SubSeq(values, 1, k) = SubSeq(values, 1, k - 1) \o <<values[k]>>
    <3> DEFINE U == Seq(S)
    <3>1. values \in Seq(U) /\ 1 \in 1..Len(values) /\ k \in 1..Len(values)
      BY <2>1
    <3> HIDE DEF U
    <3>2. k \in Nat /\ k \in 1..Len(values)
      BY <3>1
    <3> QED BY <3>1, <3>2, SubSeqRecursiveSecond
  <2>4. Append(SubSeq(values, 1, k - 1), values[k]) = SubSeq(values, 1, k - 1) \o <<values[k]>>
    BY <2>1, <2>2, AppendIsConcat
  <2> QED BY <2>2, <2>3, <2>4
<1>11. 0 \in T
  <2>1. 1 \in 1..n /\ 0 + 1 = 1 /\ 1 - 1 = 0
    BY <1>1
  <2>2. off[1] = Len(values[1]) /\ \A j \in 1..Len(values[1]) : text[0 + j] = values[1][j]
    <3>1. Len(joined[1]) = Len(values[1]) /\ Len(values[1]) \in Nat
      BY <1>2, <1>4, <2>1
    <3>2. /\ off[1] = off[0] + Len(joined[1])
          /\ \A j \in 1..Len(joined[1]) : text[off[0] + j] = joined[1][j]
      BY <1>8, <2>1
    <3> QED BY <1>4, <1>8, <3>1, <3>2
  <2>3. upTo[0] = Append(<<>>, <<>>)
    BY <1>9 DEF Splits
  <2>4. /\ <<>> \in Seq(Seq(S)) /\ values[1] \in Seq(S) /\ 0 \in Nat
        /\ 0 + Len(values[1]) <= Len(text) /\ Len(text) \in Nat /\ 0 + Len(values[1]) = off[1]
        /\ \A j \in 1..Len(values[1]) : text[0 + j] = values[1][j] /\ values[1][j] # Comma
    <3>1. <<>> \in Seq(Seq(S)) /\ values[1] \in Seq(S)
      BY <1>1, <2>1, EmptySeq
    <3>2. off[1] \in 0..N /\ Len(values[1]) \in Nat
      <4>1. 1 \in 0..n
        BY <2>1
      <4> QED BY <1>2, <1>8, <2>1, <4>1
    <3>3. 0 + Len(values[1]) = off[1]
      BY <2>2, <3>2
    <3> QED BY <1>2, <1>8, <2>1, <2>2, <3>1, <3>2, <3>3 DEF N
  <2>5. upTo[0 + Len(values[1])] = Append(<<>>, values[1])
    <3> DEFINE start == 0
               done == <<>>
               v == values[1]
    <3>1. Begins(upTo, text, done, v, start)
      BY <2>3, <2>4 DEF Begins
    <3>2. done \in Seq(Seq(S)) /\ v \in Seq(S)
      BY <2>4
    <3> HIDE DEF start, done, v
    <3>3. upTo[start + Len(v)] = Append(done, v)
      BY <1>9, <3>1, <3>2, FillsIn
    <3> QED BY <3>3 DEF start, done, v
  <2>6. SubSeq(values, 1, 1) = Append(<<>>, values[1])
    <3>1. SubSeq(values, 1, 1) = Append(SubSeq(values, 1, 1 - 1), values[1])
      BY <1>10, <2>1
    <3>2. SubSeq(values, 1, 1 - 1) = <<>>
      BY SubSeqEmpty
    <3> QED BY <3>1, <3>2
  <2> QED BY <2>1, <2>4, <2>5, <2>6
<1>12. ASSUME NEW m \in Nat, m \in T PROVE m + 1 \in T
  <2> DEFINE k == m + 1
             i == k + 1
  <2>0. k \in Nat
    OBVIOUS
  <2> SUFFICES ASSUME i <= n PROVE upTo[off[i]] = SubSeq(values, 1, i)
    BY <2>0
  <2>1. i \in 1..n /\ k \in 1..n /\ i - 1 = k /\ i # 1 /\ k \in 0..n /\ i \in 0..n
    BY <1>1
  <2>2. upTo[off[k]] = SubSeq(values, 1, k)
    BY <1>1, <1>12, <2>1
  <2> HIDE DEF i, k, T, n
  <2> DEFINE v == values[i]
             done == SubSeq(values, 1, k)
             from == off[k] + 1
  <2>3. /\ v \in Seq(S) /\ Len(v) \in Nat /\ (\A j \in 1..Len(v) : v[j] # Comma)
        /\ done \in Seq(Seq(S)) /\ SubSeq(values, 1, i) = Append(done, v)
    BY <1>1, <1>2, <1>10, <2>1
  <2>4. /\ off[k] \in 0..N /\ off[i] \in 0..N /\ N \in Nat
        /\ off[i] = off[k] + Len(joined[i])
        /\ \A j \in 1..Len(joined[i]) : text[off[k] + j] = joined[i][j]
    BY <1>8, <2>1
  <2>5. /\ Len(joined[i]) = 1 + Len(v) /\ joined[i][1] = Comma
        /\ \A j \in 1..Len(v) : joined[i][1 + j] = v[j]
    BY <1>3, <1>4, <2>1
  <2> HIDE DEF v, done
  <2>6. /\ from \in 1..N /\ from + Len(v) = off[i] /\ from - 1 = off[k] /\ from \in Nat
        /\ 1 \in 1..Len(joined[i])
        /\ \A j \in 1..Len(v) : 1 + j \in 1..Len(joined[i]) /\ from + j = off[k] + (1 + j)
    <3>1. \A a, b, l, t, x \in Nat :
             a <= x /\ b <= x /\ b = a + t /\ t = 1 + l =>
                /\ a + 1 \in 1..x /\ (a + 1) + l = b /\ (a + 1) - 1 = a /\ a + 1 \in Nat /\ 1 \in 1..t
                /\ \A j \in 1..l : 1 + j \in 1..t /\ (a + 1) + j = a + (1 + j)
      OBVIOUS
    <3>2. /\ off[k] \in Nat /\ off[i] \in Nat /\ off[k] <= N /\ off[i] <= N
          /\ Len(joined[i]) \in Nat /\ Len(joined[i]) = 1 + Len(v)
      BY <2>3, <2>4, <2>5
    <3> DEFINE a == off[k]
               b == off[i]
               l == Len(v)
               t == Len(joined[i])
    <3>3. /\ a \in Nat /\ b \in Nat /\ a <= N /\ b <= N /\ t \in Nat /\ t = 1 + l
          /\ b = a + t /\ l \in Nat /\ N \in Nat /\ from = a + 1
      BY <2>3, <2>4, <3>2
    <3> HIDE DEF from, a, b, l, t
    <3>4. /\ a + 1 \in 1..N /\ (a + 1) + l = b /\ (a + 1) - 1 = a /\ a + 1 \in Nat /\ 1 \in 1..t
          /\ \A j \in 1..l : 1 + j \in 1..t /\ (a + 1) + j = a + (1 + j)
      BY <3>1, <3>3
    <3>5. /\ from \in 1..N /\ from + l = b /\ from - 1 = a /\ from \in Nat /\ 1 \in 1..t
          /\ \A j \in 1..l : 1 + j \in 1..t /\ from + j = a + (1 + j)
      BY <3>3, <3>4
    <3> QED BY <3>5 DEF a, b, l, t
  <2>7. text[from] = Comma /\ \A j \in 1..Len(v) : text[from + j] = v[j]
    BY <2>4, <2>5, <2>6
  <2> HIDE DEF from
  <2>8. upTo[from] = Append(done, <<>>)
    BY <1>9, <2>2, <2>6, <2>7 DEF Splits, N, done
  <2>9. upTo[from + Len(v)] = Append(done, v)
    <3>1. from + Len(v) <= Len(text) /\ Len(text) \in Nat
      BY <2>4, <2>6 DEF N
    <3>2. \A j \in 1..Len(v) : text[from + j] = v[j] /\ v[j] # Comma
      BY <2>3, <2>7
    <3>3. Begins(upTo, text, done, v, from)
      BY <2>6, <2>8, <3>1, <3>2 DEF Begins
    <3> QED BY <1>9, <2>3, <3>3, FillsIn
  <2> QED BY <2>3, <2>6, <2>9
<1>13. upTo[off[n]] = SubSeq(values, 1, n)
  <2>1. n - 1 \in Nat /\ (n - 1) + 1 = n /\ n <= n
    BY <1>1
  <2>2. n - 1 \in T
    <3> HIDE DEF T
    <3> QED BY <1>11, <1>12, <2>1, StepByStep
  <2> QED BY <2>1, <2>2
<1>14. SubSeq(values, 1, n) = values
  BY SubSeqFull
<1> QED BY <1>6, <1>8, <1>9, <1>13, <1>14 DEF text, N

\* Nothing joined is nothing, and splits into one part that is empty.
LEMMA NothingIsSplit ==
    Join(<<>>) = <<>> /\ Split(<<>>, Comma) = <<<<>>>>
<1>1. Join(<<>>) = FlattenSeq(<<>>)
  <2>1. [i \in DOMAIN <<>> |-> IF i = 1 THEN <<>>[i] ELSE <<Comma>> \o <<>>[i]] = <<>>
    OBVIOUS
  <2> QED BY <2>1 DEF Join
<1>2. <<>> \in Seq({}) /\ Len(<<>>) = 0
  OBVIOUS
<1>3. \E upTo : Splits(upTo, <<>>) /\ Split(<<>>, Comma) = upTo[Len(<<>>)]
  BY <1>2, SplitIs
<1> QED BY <1>1, <1>2, <1>3, FlattenEmpty DEF Splits

-----------------------------------------------------------------------------
\* Tags: what is trimmed, and what is left out.

LEMMA TrimIs ==
    ASSUME NEW S, NEW text \in Seq(S)
    PROVE  /\ Trim(text) \in Seq(S) /\ ToSet(Trim(text)) \subseteq ToSet(text)
           /\ Trim(text) # <<>> => Trim(text)[1] # Blank /\ Trim(text)[Len(Trim(text))] # Blank
<1> DEFINE n == Len(text)
           kept == {i \in DOMAIN text : text[i] # Blank}
           first == Foremost(kept)
           last == Hindmost(kept)
           cut == SubSeq(text, first, last)
<1>1. n \in Nat /\ DOMAIN text = 1..n /\ \A i \in 1..n : text[i] \in S
  BY LenProperties, ElementOfSeq
<1>2. Trim(text) = IF kept = {} THEN <<>> ELSE cut
  BY DEF Trim, Foremost, Hindmost
<1>3. CASE kept = {}
  <2>1. Trim(text) = <<>>
    BY <1>2, <1>3
  <2> HIDE DEF kept
  <2>2. ToSet(<<>>) = {}
    BY DEF ToSet
  <2> QED BY <2>1, <2>2, EmptySeq
<1>4. CASE kept # {}
  <2>1. first \in kept /\ (\A j \in kept : first <= j) /\ last \in kept
    <3>1. kept \in SUBSET (1..n)
      BY <1>1
    <3> HIDE DEF kept
    <3> QED BY <1>1, <1>4, <3>1, SpanOf
  <2>2. first \in 1..n /\ last \in 1..n /\ first <= last /\ text[first] # Blank /\ text[last] # Blank
    BY <1>1, <2>1
  <2>3. Trim(text) = cut
    BY <1>2, <1>4
  <2> HIDE DEF kept, first, last, n
  <2>4. first \in Int /\ last \in Int /\ \A i \in first..last : i \in 1..n
    BY <1>1, <2>2
  <2>5. /\ cut \in Seq(S) /\ Len(cut) = IF first <= last THEN last - first + 1 ELSE 0
        /\ \A i \in 1..last - first + 1 : cut[i] = text[first + i - 1]
    <3>1. \A i \in first..last : text[i] \in S
      BY <1>1, <2>4
    <3> QED BY <2>4, <3>1, SubSeqProperties
  <2> DEFINE m == last - first + 1
  <2>6. /\ Len(cut) = m /\ m \in Nat /\ 1 \in 1..m /\ m \in 1..m
        /\ first + 1 - 1 = first /\ first + m - 1 = last
        /\ \A i \in 1..m : first + i - 1 \in first..last
    BY <1>1, <2>2, <2>5
  <2>7. cut[1] = text[first] /\ cut[m] = text[last]
    BY <2>5, <2>6
  <2>8. \A i \in 1..m : cut[i] \in ToSet(text)
    <3>1. \A i \in 1..m : cut[i] = text[first + i - 1] /\ first + i - 1 \in DOMAIN text
      BY <1>1, <2>4, <2>5, <2>6
    <3> QED BY <3>1 DEF ToSet
  <2>9. DOMAIN cut = 1..m
    BY <2>5, <2>6, LenProperties
  <2> HIDE DEF cut, m
  <2>10. ToSet(cut) \subseteq ToSet(text)
    <3>1. \A e \in ToSet(cut) : \E i \in 1..m : e = cut[i]
      BY <2>9 DEF ToSet
    <3> QED BY <2>8, <3>1
  <2> QED BY <2>2, <2>3, <2>5, <2>6, <2>7, <2>10
<1> QED BY <1>3, <1>4

\* Trimming once is enough.
LEMMA TrimAgain ==
    ASSUME NEW S, NEW text \in Seq(S)
    PROVE  Trim(<<>>) = <<>> /\ Trim(Trim(text)) = Trim(text)
<1>1. Trim(<<>>) = <<>>
  <2>1. {i \in DOMAIN <<>> : <<>>[i] # Blank} = {}
    OBVIOUS
  <2> QED BY <2>1 DEF Trim
<1> DEFINE t == Trim(text)
           n == Len(t)
           kept == {i \in DOMAIN t : t[i] # Blank}
           first == Foremost(kept)
           last == Hindmost(kept)
<1>2. t \in Seq(S) /\ (t # <<>> => t[1] # Blank /\ t[n] # Blank)
  BY TrimIs
<1>3. Trim(t) = IF kept = {} THEN <<>> ELSE SubSeq(t, first, last)
  BY DEF Trim, Foremost, Hindmost
<1> HIDE DEF t
<1>4. CASE t # <<>>
  <2>1. n \in Nat \ {0} /\ DOMAIN t = 1..n /\ SubSeq(t, 1, n) = t
    BY <1>2, <1>4, EmptySeq, LenProperties, SubSeqFull
  <2>2. 1 \in kept /\ n \in kept /\ kept \in SUBSET (1..n)
    BY <1>2, <1>4, <2>1
  <2>3. kept # {} /\ \A i \in kept : i >= 1 /\ i <= n /\ i \in Nat
    BY <2>1, <2>2
  <2> HIDE DEF kept
  <2>4. first \in kept /\ (\A j \in kept : first <= j) /\ last \in kept /\ (\A j \in kept : j <= last)
    BY <2>1, <2>2, <2>3, SpanOf
  <2>5. first = 1 /\ last = n
    <3>1. first \in Nat /\ first >= 1 /\ first <= 1 /\ last \in Nat /\ last <= n /\ n <= last
      BY <2>2, <2>3, <2>4
    <3> HIDE DEF first, last, n
    <3> QED BY <2>1, <3>1
  <2> QED BY <1>1, <1>3, <2>1, <2>3, <2>5 DEF t
<1> QED BY <1>1, <1>4 DEF t

\* What is selected is what stands there.
LEMMA SelectedAre ==
    ASSUME NEW S, NEW s \in Seq(S), NEW places \in SUBSET (DOMAIN s)
    PROVE  Selection(s, places) \in Seq(S) /\ ToSet(Selection(s, places)) = {s[i] : i \in places}
<1> DEFINE t == Selection(s, places)
           C == Cardinality(places)
<1>1. /\ t \in Seq(S) /\ DOMAIN t = 1..C
      /\ \A k \in 1..C : Nth(places, k) \in places /\ t[k] = s[Nth(places, k)]
      /\ \A i \in places : \E k \in 1..C : Nth(places, k) = i
  BY SelectionIs
<1> HIDE DEF t, C
<1>2. ASSUME NEW e \in ToSet(t) PROVE e \in {s[i] : i \in places}
  <2>1. PICK k \in 1..C : e = t[k]
    BY <1>1 DEF ToSet
  <2> QED BY <1>1, <2>1
<1>3. ASSUME NEW i \in places PROVE s[i] \in ToSet(t)
  <2>1. PICK k \in 1..C : Nth(places, k) = i
    BY <1>1
  <2> QED BY <1>1, <2>1 DEF ToSet
<1> QED BY <1>1, <1>2, <1>3 DEF t

LEMMA TrimmedAre ==
    ASSUME NEW S, NEW parts \in Seq(Seq(S))
    PROVE  /\ TrimmedParts(parts) \in Seq(Seq(S))
           /\ ToSet(TrimmedParts(parts)) = {Trim(parts[i]) : i \in DOMAIN parts} \ {<<>>}
<1> DEFINE trimmed == [i \in DOMAIN parts |-> Trim(parts[i])]
           places == {i \in DOMAIN trimmed : trimmed[i] # <<>>}
           n == Len(parts)
<1>1. n \in Nat /\ DOMAIN parts = 1..n /\ \A i \in 1..n : parts[i] \in Seq(S)
  BY LenProperties, ElementOfSeq
<1>2. trimmed \in Seq(Seq(S)) /\ DOMAIN trimmed = 1..n /\ \A i \in 1..n : trimmed[i] = Trim(parts[i])
  <2>1. \A i \in 1..n : Trim(parts[i]) \in Seq(S)
    BY <1>1, TrimIs
  <2>2. trimmed = [i \in 1..n |-> Trim(parts[i])]
    BY <1>1
  <2> HIDE DEF trimmed, n
  <2>3. trimmed \in [1..n -> Seq(S)]
    BY <2>1, <2>2
  <2> QED BY <1>1, <2>2, <2>3, SeqDef
<1>3. TrimmedParts(parts) = Selection(trimmed, places)
  BY DEF TrimmedParts, Written
<1> HIDE DEF trimmed, n
<1>4. /\ Selection(trimmed, places) \in Seq(Seq(S))
      /\ ToSet(Selection(trimmed, places)) = {trimmed[i] : i \in places}
  <2>1. places \in SUBSET (DOMAIN trimmed)
    OBVIOUS
  <2> HIDE DEF places
  <2> QED BY <1>2, <2>1, SelectedAre
<1>5. {trimmed[i] : i \in places} = {Trim(parts[i]) : i \in DOMAIN parts} \ {<<>>}
  BY <1>1, <1>2
<1> QED BY <1>3, <1>4, <1>5

LEMMA OnceIs ==
    ASSUME NEW S, NEW parts \in Seq(S)
    PROVE  Once(parts) \in Seq(S) /\ ToSet(Once(parts)) = ToSet(parts)
<1> DEFINE places == {i \in DOMAIN parts : \A j \in 1..i - 1 : parts[j] # parts[i]}
<1>1. Once(parts) = Selection(parts, places)
  BY DEF Once
<1>2. /\ Selection(parts, places) \in Seq(S)
      /\ ToSet(Selection(parts, places)) = {parts[i] : i \in places}
  <2>1. places \in SUBSET (DOMAIN parts)
    OBVIOUS
  <2> HIDE DEF places
  <2> QED BY <2>1, SelectedAre
<1>3. ASSUME NEW i \in DOMAIN parts PROVE parts[i] \in {parts[k] : k \in places}
  <2> DEFINE Same == {k \in DOMAIN parts : parts[k] = parts[i]}
  <2>1. DOMAIN parts = 1..Len(parts) /\ Len(parts) \in Nat
    BY LenProperties
  <2>2. Same \subseteq Nat /\ i \in Same
    BY <2>1
  <2>3. PICK k \in Same : \A m \in Same : k <= m
    <3> HIDE DEF Same
    <3> QED BY <2>2, LeastOf
  <2>4. k \in DOMAIN parts /\ parts[k] = parts[i]
    BY <2>3
  <2>5. ASSUME NEW j \in 1..k - 1 PROVE parts[j] # parts[k]
    <3>1. j \in DOMAIN parts /\ ~(k <= j)
      BY <2>1, <2>4
    <3> QED BY <2>3, <2>4, <3>1
  <2> QED BY <2>4, <2>5
<1>4. {parts[i] : i \in places} = {parts[i] : i \in DOMAIN parts}
  <2>1. places \subseteq DOMAIN parts
    OBVIOUS
  <2> HIDE DEF places
  <2> QED BY <1>3, <2>1
<1> QED BY <1>1, <1>2, <1>4 DEF ToSet

\* No part of a list has a comma in it.
NoCommas(values) == \A i \in DOMAIN values : Comma \notin ToSet(values[i])

\* A list that is joined and split again has the same written parts.
LEMMA RoundTrip ==
    ASSUME NEW S, Comma \in S, NEW values \in Seq(Seq(S)), NoCommas(values)
    PROVE  /\ Split(Join(values), Comma) \in Seq(Seq(S))
           /\ ToSet(TrimmedParts(Split(Join(values), Comma))) = ToSet(TrimmedParts(values))
<1>1. CASE values # <<>>
  <2>1. Split(Join(values), Comma) = values
    BY <1>1, JoinedIsSplit DEF NoCommas
  <2> QED BY <2>1
<1>2. CASE values = <<>>
  <2>1. Split(Join(values), Comma) = <<<<>>>>
    BY <1>2, NothingIsSplit
  <2>2. <<>> \in Seq(S) /\ <<>> \in Seq(Seq(S))
    BY EmptySeq
  <2>3. <<<<>>>> \in Seq(Seq(S)) /\ DOMAIN <<<<>>>> = {1} /\ <<<<>>>>[1] = <<>>
    BY <2>2
  <2>4. Trim(<<>>) = <<>>
    BY <2>2, TrimAgain
  <2>5. ToSet(TrimmedParts(<<<<>>>>)) = {}
    <3> DEFINE one == <<<<>>>>
    <3>1. one \in Seq(Seq(S)) /\ DOMAIN one = {1} /\ one[1] = <<>>
      BY <2>3
    <3> HIDE DEF one
    <3>2. ToSet(TrimmedParts(one)) = {Trim(one[i]) : i \in DOMAIN one} \ {<<>>}
      BY <3>1, TrimmedAre
    <3>3. ToSet(TrimmedParts(one)) = {}
      BY <2>4, <3>1, <3>2
    <3> QED BY <3>3 DEF one
  <2>6. ToSet(TrimmedParts(values)) = {}
    <3>1. ToSet(TrimmedParts(values)) = {Trim(values[i]) : i \in DOMAIN values} \ {<<>>}
      BY TrimmedAre
    <3>2. DOMAIN values = {}
      BY <1>2
    <3> QED BY <3>1, <3>2
  <2> QED BY <2>1, <2>3, <2>5, <2>6
<1> QED BY <1>1, <1>2

\* Either client gets the tags of the release, and no others.
LEMMA TagsReturn ==
    ASSUME NEW S, Comma \in S, NEW values \in Seq(Seq(S)), NoCommas(values), NEW whose
    PROVE  ToSet(TrimmedParts(Split(TagsFor(whose, Join(values)), Comma))) = ToSet(TrimmedParts(values))
<1> DEFINE list == TrimmedParts(Split(Join(values), Comma))
           once == Once(list)
<1>1. /\ Split(Join(values), Comma) \in Seq(Seq(S))
      /\ ToSet(list) = ToSet(TrimmedParts(values))
  BY RoundTrip
<1>2. list \in Seq(Seq(S)) /\ <<>> \notin ToSet(list)
  <2> DEFINE parts == Split(Join(values), Comma)
  <2>1. parts \in Seq(Seq(S))
    BY <1>1
  <2> HIDE DEF parts
  <2>2. /\ TrimmedParts(parts) \in Seq(Seq(S))
        /\ ToSet(TrimmedParts(parts)) = {Trim(parts[i]) : i \in DOMAIN parts} \ {<<>>}
    BY <2>1, TrimmedAre
  <2> QED BY <2>2 DEF parts
<1>3. CASE whose # "rTorrent"
  <2>1. TagsFor(whose, Join(values)) = Join(values)
    BY <1>3 DEF TagsFor
  <2> QED BY <1>1, <2>1
<1>4. CASE whose = "rTorrent"
  <2>1. TagsFor(whose, Join(values)) = Join(once)
    BY <1>4 DEF TagsFor
  <2> HIDE DEF list
  <2>2. once \in Seq(Seq(S)) /\ ToSet(once) = ToSet(list)
    <3> DEFINE U == Seq(S)
    <3>1. list \in Seq(U)
      BY <1>2
    <3> HIDE DEF U
    <3>2. once \in Seq(U) /\ ToSet(once) = ToSet(list)
      BY <3>1, OnceIs
    <3> QED BY <3>2 DEF U
  <2> HIDE DEF once
  <2>3. ASSUME NEW i \in DOMAIN once
        PROVE  /\ once[i] # <<>> /\ Trim(once[i]) = once[i] /\ Comma \notin ToSet(once[i])
    <3>1. once[i] \in ToSet(list)
      BY <2>2 DEF ToSet
    <3>2. ToSet(TrimmedParts(values)) = {Trim(values[j]) : j \in DOMAIN values} \ {<<>>}
      BY TrimmedAre
    <3>3. PICK j \in DOMAIN values : once[i] = Trim(values[j])
      BY <1>1, <3>1, <3>2
    <3>4. values[j] \in Seq(S)
      BY LenProperties, ElementOfSeq
    <3>5. Trim(Trim(values[j])) = Trim(values[j]) /\ ToSet(Trim(values[j])) \subseteq ToSet(values[j])
      BY <3>4, TrimIs, TrimAgain
    <3> QED BY <1>2, <3>1, <3>3, <3>5 DEF NoCommas
  <2>4. NoCommas(once)
    BY <2>3 DEF NoCommas
  <2>5. ToSet(TrimmedParts(Split(Join(once), Comma))) = ToSet(TrimmedParts(once))
    BY <2>2, <2>4, RoundTrip
  <2>6. ToSet(TrimmedParts(once)) = {Trim(once[i]) : i \in DOMAIN once} \ {<<>>}
    BY <2>2, TrimmedAre
  <2>7. {Trim(once[i]) : i \in DOMAIN once} \ {<<>>} = ToSet(once)
    BY <2>3 DEF ToSet
  <2> QED BY <1>1, <2>1, <2>2, <2>5, <2>6, <2>7
<1> QED BY <1>3, <1>4

\* What was captured for a field of a release.
LEMMA FieldValuesAre ==
    ASSUME NEW S, NEW raw \in Seq(S), NEW split
    PROVE  FieldValues(raw, split) \in Seq(Seq(S))
<1>1. Split(raw, Comma) \in Seq(Seq(S))
  <2>1. PICK upTo : /\ Split(raw, Comma) = upTo[Len(raw)]
                    /\ \A i \in 0..Len(raw) : upTo[i] \in Seq(Seq(S))
    <3>1. \E upTo : /\ Splits(upTo, raw) /\ Split(raw, Comma) = upTo[Len(raw)]
                    /\ \A i \in 0..Len(raw) : upTo[i] \in Seq(Seq(S)) /\ upTo[i] # <<>>
      BY SplitIs
    <3> QED BY <3>1
  <2>2. Len(raw) \in 0..Len(raw)
    <3>1. Len(raw) \in Nat
      BY LenProperties
    <3> QED BY <3>1
  <2> QED BY <2>1, <2>2
<1>2. TrimmedParts(Split(raw, Comma)) \in Seq(Seq(S))
  BY <1>1, TrimmedAre
<1>3. <<raw>> \in Seq(Seq(S))
  OBVIOUS
<1> QED BY <1>2, <1>3 DEF FieldValues

\* What was captured arrives, whatever was captured.
THEOREM ReleasesCorrect == AnnouncingSpec => []ReleasesArriveIntact
<1>1. AnnouncingInit => ReleasesArriveIntact
  BY DEF AnnouncingInit, ReleasesArriveIntact, ReleasesKeepTheirPlace, TagsComeBack
<1>2. ReleasesArriveIntact /\ [AnnouncingNext]_anVars => ReleasesArriveIntact'
  <2> SUFFICES ASSUME ReleasesArriveIntact, [AnnouncingNext]_anVars PROVE ReleasesArriveIntact'
    OBVIOUS
  <2>1. CASE Announced
    <3>1. PICK template \in UrlTemplates :
             anPath' = [template |-> template, refused |-> Refuses(anRelease', template),
                        path |-> Path(anRelease', template)]
      BY <2>1 DEF Announced
    <3>2. anRelease' \in Releases /\ anFile' = Stem(anRelease'.name)
      BY <2>1 DEF Announced
    <3>3. PICK whose, split :
             LET values == IF "tags" \in DOMAIN anRelease' THEN FieldValues(anRelease'.tags, split) ELSE <<>>
             IN  anTags' = [values |-> values, sent |-> TagsFor(whose, Join(values))]
      BY <2>1 DEF Announced
    <3>4. anRelease'.name \in Seq(STRING) /\ ("tags" \in DOMAIN anRelease' => anRelease'.tags \in Seq(STRING))
      <4>1. \A v \in Values : v \in Seq(STRING)
        BY AnnouncingAssumption
      <4> QED BY <3>2, <4>1 DEF Releases
    <3>5. anPath'.template = template /\ anPath'.refused = Refuses(anRelease', template)
          /\ anPath'.path = Path(anRelease', template)
      BY <3>1
    <3>6. ~anPath'.refused /\ ~GoesUp(anPath'.template) =>
             anPath'.path = [i \in DOMAIN anPath'.template |-> Filled(anRelease', anPath'.template[i])]
      BY <3>2, <3>5, PathIs
    <3>7. Len(anFile') \in 1..MaxStem /\ anFile'[1] # "." /\ ToSet(anFile') \subseteq Unreserved
      <4>1. anFile' \in Seq(Unreserved) /\ Len(anFile') \in 1..MaxStem /\ anFile'[1] # "."
        BY <3>2, <3>4, StemIs
      <4> HIDE DEF Unreserved
      <4>2. ToSet(anFile') \subseteq Unreserved
        BY <4>1, LenProperties DEF ToSet
      <4> QED BY <4>1, <4>2
    <3> DEFINE S == STRING \cup {Comma}
               values == anTags'.values
    <3>8. values \in Seq(Seq(S)) /\ anTags'.sent = TagsFor(whose, Join(values))
      <4>1. ASSUME "tags" \in DOMAIN anRelease' PROVE FieldValues(anRelease'.tags, split) \in Seq(Seq(S))
        <5>1. anRelease'.tags \in Seq(S)
          <6>1. STRING \subseteq S
            OBVIOUS
          <6> HIDE DEF S
          <6> QED BY <3>4, <4>1, <6>1, SeqMonotonic
        <5> HIDE DEF S
        <5> QED BY <5>1, FieldValuesAre
      <4> HIDE DEF S
      <4>2. <<>> \in Seq(Seq(S))
        BY EmptySeq
      <4> QED BY <3>3, <4>1, <4>2
    <3>9. TagsComeBack'
      <4> SUFFICES ASSUME \A i \in DOMAIN values : Comma \notin ToSet(values[i])
                   PROVE  ToSet(TrimmedParts(Split(anTags'.sent, Comma))) = ToSet(TrimmedParts(values))
        BY DEF TagsComeBack
      <4> HIDE DEF values
      <4>1. NoCommas(values) /\ Comma \in S
        BY DEF NoCommas
      <4> HIDE DEF S
      <4> QED BY <3>8, <4>1, TagsReturn
    <3> QED BY <3>6, <3>7, <3>9 DEF ReleasesArriveIntact, ReleasesKeepTheirPlace
  <2>2. CASE Hear
    <3>1. anRelease' = <<>>
      BY <2>2 DEF Hear
    <3> QED BY <3>1 DEF ReleasesArriveIntact, ReleasesKeepTheirPlace, TagsComeBack
  <2>3. CASE Forget
    <3>1. anRelease' = <<>>
      BY <2>3 DEF Forget
    <3> QED BY <3>1 DEF ReleasesArriveIntact, ReleasesKeepTheirPlace, TagsComeBack
  <2>4. CASE UNCHANGED anVars
    <3>1. UNCHANGED <<anRelease, anPath, anFile, anTags>>
      BY <2>4 DEF anVars
    <3> QED BY <3>1 DEF ReleasesArriveIntact, ReleasesKeepTheirPlace, TagsComeBack
  <2> QED BY <2>1, <2>2, <2>3, <2>4 DEF AnnouncingNext
<1> QED BY <1>1, <1>2, PTL DEF AnnouncingSpec

-----------------------------------------------------------------------------
\* Replies.

\* What a command may do, and the lines there are.
Effects == {"add", "bad arguments", "add by id", "list torrents", "list patterns", "help",
            "stop", "notify", "watch", "unwatch", "not implemented"}

Sayings == Effects \cup {"none", "head", "row", "aliases", "note"}

Lined == [is : Sayings, n : Nat, size : Nat]

LEMMA Budgets ==
    /\ LineBudget \in Nat /\ MessageBudget \in Nat /\ MaxMessages \in Nat /\ NoteSize \in Nat
    /\ LineBudget >= 1 /\ MessageBudget >= 1 /\ MaxMessages >= 1 /\ NoteSize <= MessageBudget
BY CommandsAssumption

\* Lines take up what each of them does, and the breaks between them.
LEMMA SizeIs ==
    ASSUME NEW lines \in Seq(Lined)
    PROVE  Size(lines) \in Int /\ (Len(lines) = 1 => Size(lines) = lines[1].size)
<1> DEFINE n == Len(lines)
           G == [p \in (1..n) \X Nat |-> p[2] + lines[p[1]].size]
           Sums(f) == f = [i \in 0..n |-> IF i = 0 THEN 0 ELSE f[i - 1] + lines[i].size]
           upTo == CHOOSE f : Sums(f)
<1>1. n \in Nat /\ \A i \in 1..n : lines[i].size \in Nat
  <2>1. n \in Nat /\ \A i \in 1..n : lines[i] \in Lined
    BY LenProperties, ElementOfSeq
  <2> QED BY <2>1 DEF Lined
<1>2. G \in [(1..n) \X Nat -> Nat]
  BY <1>1
<1>3. PICK f : Walks(f, n, Nat, 0, G)
  <2> HIDE DEF n, G
  <2>1. Steps(n, Nat, 0, G)
    BY <1>1, <1>2 DEF Steps
  <2> QED BY <2>1, Iterates
<1>4. f \in [0..n -> Nat] /\ f[0] = 0 /\ \A i \in 1..n : f[i] = f[i - 1] + lines[i].size
  <2>1. f \in [0..n -> Nat] /\ f[0] = 0 /\ \A i \in 1..n : f[i] = G[<<i, f[i - 1]>>]
    BY <1>3 DEF Walks
  <2>2. ASSUME NEW i \in 1..n PROVE G[<<i, f[i - 1]>>] = f[i - 1] + lines[i].size
    <3>1. i - 1 \in 0..n
      BY <1>1
    <3>2. <<i, f[i - 1]>> \in (1..n) \X Nat
      BY <2>1, <3>1
    <3> QED BY <3>2
  <2> QED BY <2>1, <2>2
<1> HIDE DEF n, G
<1>5. Sums(f)
  <2>1. \A i \in 0..n : f[i] = IF i = 0 THEN 0 ELSE f[i - 1] + lines[i].size
    BY <1>4
  <2> QED BY <1>4, <2>1
<1>6. Sums(upTo)
  BY <1>5
<1> HIDE DEF upTo
<1>7. upTo[0] = 0 /\ \A i \in 1..n : upTo[i] = upTo[i - 1] + lines[i].size
  BY <1>1, <1>6
<1>8. \A i \in 0..n : upTo[i] = f[i]
  <2>1. Alike(n, upTo, f)
    BY <1>4, <1>7 DEF Alike
  <2> QED BY <1>1, <2>1, SameAll
<1>9. Size(lines) = n - 1 + upTo[n]
  BY DEF Size, upTo, n
<1>10. upTo[n] \in Nat
  BY <1>1, <1>4, <1>8
<1>11. n = 1 => Size(lines) = lines[1].size
  <2> SUFFICES ASSUME n = 1 PROVE Size(lines) = lines[1].size
    OBVIOUS
  <2>1. upTo[1] = upTo[0] + lines[1].size
    BY <1>7
  <2> QED BY <1>1, <1>7, <1>9, <2>1
<1> QED BY <1>1, <1>9, <1>10, <1>11 DEF n

\* A message is filled and closed within its budget, and what was packed stays
\* in its order.
Fitting(messages) == \A k \in DOMAIN messages : Size(messages[k]) <= MessageBudget

Packing == [full : Seq(Seq(Lined)), open : Seq(Lined)]

LEMMA PackKeeps ==
    ASSUME NEW p \in Packing, NEW line \in Lined, line.size <= MessageBudget,
           Fitting(p.full), p.open # <<>> => Size(p.open) <= MessageBudget
    PROVE  /\ Pack(p, line) \in Packing /\ Fitting(Pack(p, line).full)
           /\ Pack(p, line).open # <<>> /\ Size(Pack(p, line).open) <= MessageBudget
           /\ FlattenSeq(Pack(p, line).full) \o Pack(p, line).open
                = (FlattenSeq(p.full) \o p.open) \o <<line>>
<1> DEFINE q == Pack(p, line)
<1>1. /\ p.full \in Seq(Seq(Lined)) /\ p.open \in Seq(Lined) /\ p = [full |-> p.full, open |-> p.open]
      /\ FlattenSeq(p.full) \in Seq(Lined)
  <2>1. p.full \in Seq(Seq(Lined)) /\ p.open \in Seq(Lined) /\ p = [full |-> p.full, open |-> p.open]
    BY DEF Packing
  <2> QED BY <2>1, FlattenAppend
<1>2. <<line>> \in Seq(Lined) /\ Len(<<line>>) = 1 /\ <<line>>[1] = line /\ <<line>> # <<>>
  OBVIOUS
<1>3. MessageBudget \in Nat
  BY Budgets
<1>4. CASE p.open # <<>> /\ Size(Append(p.open, line)) > MessageBudget
  <2>1. q = [full |-> Append(p.full, p.open), open |-> <<line>>]
    BY <1>4 DEF Pack
  <2>2. q.full = Append(p.full, p.open) /\ q.open = <<line>>
    BY <2>1
  <2>3. Append(p.full, p.open) \in Seq(Seq(Lined))
    BY <1>1, AppendProperties
  <2>4. Fitting(Append(p.full, p.open))
    <3>1. /\ Len(Append(p.full, p.open)) = Len(p.full) + 1 /\ Len(p.full) \in Nat
          /\ \A k \in 1..Len(p.full) : Append(p.full, p.open)[k] = p.full[k]
          /\ Append(p.full, p.open)[Len(p.full) + 1] = p.open
          /\ DOMAIN p.full = 1..Len(p.full)
          /\ DOMAIN Append(p.full, p.open) = 1..Len(Append(p.full, p.open))
      BY <1>1, <2>3, AppendProperties, LenProperties
    <3>2. \A k \in DOMAIN Append(p.full, p.open) : k \in 1..Len(p.full) \/ k = Len(p.full) + 1
      BY <3>1
    <3> QED BY <1>4, <3>1, <3>2 DEF Fitting
  <2>5. FlattenSeq(Append(p.full, p.open)) = FlattenSeq(p.full) \o p.open
    BY <1>1, FlattenAppend
  <2>6. q \in Packing
    BY <1>2, <2>1, <2>3 DEF Packing
  <2>7. Size(<<line>>) <= MessageBudget
    BY <1>2, SizeIs
  <2> HIDE DEF q
  <2> QED BY <1>2, <2>2, <2>4, <2>5, <2>6, <2>7 DEF q
<1>5. CASE ~(p.open # <<>> /\ Size(Append(p.open, line)) > MessageBudget)
  <2>1. q = [full |-> p.full, open |-> Append(p.open, line)]
    BY <1>1, <1>5 DEF Pack
  <2>2. q.full = p.full /\ q.open = Append(p.open, line)
    BY <2>1
  <2>3. Append(p.open, line) \in Seq(Lined) /\ Append(p.open, line) # <<>>
    BY <1>1, AppendProperties
  <2>4. Append(p.open, line) = p.open \o <<line>>
    BY <1>1, AppendIsConcat
  <2>5. FlattenSeq(p.full) \o (p.open \o <<line>>) = (FlattenSeq(p.full) \o p.open) \o <<line>>
    <3>1. \A a, b, c \in Seq(Lined) : (a \o b) \o c = a \o (b \o c)
      BY ConcatAssociative
    <3> QED BY <1>1, <1>2, <3>1
  <2>6. Size(Append(p.open, line)) <= MessageBudget
    <3>1. CASE p.open = <<>>
      <4>1. Append(p.open, line) = <<line>>
        BY <1>2, <2>4, <3>1, ConcatEmptySeq
      <4> QED BY <1>2, <4>1, SizeIs
    <3>2. CASE p.open # <<>>
      <4>1. Size(Append(p.open, line)) \in Int /\ ~(Size(Append(p.open, line)) > MessageBudget)
        BY <1>5, <2>3, <3>2, SizeIs
      <4> QED BY <1>3, <4>1
    <3> QED BY <3>1, <3>2
  <2>7. q \in Packing
    BY <1>1, <2>1, <2>3 DEF Packing
  <2> HIDE DEF q
  <2> QED BY <2>2, <2>3, <2>4, <2>5, <2>6, <2>7 DEF q
<1> QED BY <1>4, <1>5

\* Cutting a line changes nothing but its size.
LEMMA CutIs ==
    ASSUME NEW line \in Lined
    PROVE  /\ Cut(line) \in Lined /\ Cut(line).size <= MessageBudget
           /\ Cut(line).is = line.is /\ Cut(line).n = line.n
BY Budgets DEF Cut, Smaller, Lined

Cuts(lines, i) == [j \in 1..i |-> Cut(lines[j])]

\* Packed, the lines are all there, each cut to what a message may carry.
LEMMA PackedIs ==
    ASSUME NEW lines \in Seq(Lined)
    PROVE  /\ Packed(lines) \in Seq(Seq(Lined)) /\ Fitting(Packed(lines))
           /\ FlattenSeq(Packed(lines)) = Cuts(lines, Len(lines))
<1> DEFINE n == Len(lines)
           none == [full |-> <<>>, open |-> <<>>]
           V == {p \in Packing : Fitting(p.full) /\ (p.open # <<>> => Size(p.open) <= MessageBudget)}
           G == [x \in (1..n) \X V |-> Pack(x[2], Cut(lines[x[1]]))]
           Packs(f) == f = [i \in 0..n |-> IF i = 0 THEN none ELSE Pack(f[i - 1], Cut(lines[i]))]
           upTo == CHOOSE f : Packs(f)
<1>1. /\ n \in Nat /\ DOMAIN lines = 1..n
      /\ \A i \in 1..n : Cut(lines[i]) \in Lined /\ Cut(lines[i]).size <= MessageBudget
  BY LenProperties, ElementOfSeq, CutIs
<1>2. none \in V
  BY EmptySeq, LenProperties DEF Packing, Fitting
<1>3. ASSUME NEW p \in V, NEW i \in 1..n
      PROVE  /\ Pack(p, Cut(lines[i])) \in V /\ Pack(p, Cut(lines[i])).open # <<>>
             /\ FlattenSeq(Pack(p, Cut(lines[i])).full) \o Pack(p, Cut(lines[i])).open
                  = (FlattenSeq(p.full) \o p.open) \o <<Cut(lines[i])>>
  <2>1. PICK line \in Lined : line = Cut(lines[i]) /\ line.size <= MessageBudget
    BY <1>1
  <2>2. p \in Packing /\ Fitting(p.full) /\ (p.open # <<>> => Size(p.open) <= MessageBudget)
    OBVIOUS
  <2> HIDE DEF V
  <2>3. /\ Pack(p, line) \in Packing /\ Fitting(Pack(p, line).full)
        /\ Pack(p, line).open # <<>> /\ Size(Pack(p, line).open) <= MessageBudget
        /\ FlattenSeq(Pack(p, line).full) \o Pack(p, line).open
             = (FlattenSeq(p.full) \o p.open) \o <<line>>
    BY <2>1, <2>2, PackKeeps
  <2>4. Pack(p, line) \in V
    BY <2>3 DEF V
  <2> QED BY <2>1, <2>3, <2>4
<1> HIDE DEF V
<1>4. G \in [(1..n) \X V -> V]
  BY <1>3
<1>5. PICK f : Walks(f, n, V, none, G)
  <2> HIDE DEF n, G, none
  <2>1. Steps(n, V, none, G)
    BY <1>1, <1>2, <1>4 DEF Steps
  <2> QED BY <2>1, Iterates
<1>6. f \in [0..n -> V] /\ f[0] = none /\ \A i \in 1..n : f[i] = Pack(f[i - 1], Cut(lines[i]))
  <2>1. f \in [0..n -> V] /\ f[0] = none /\ \A i \in 1..n : f[i] = G[<<i, f[i - 1]>>]
    BY <1>5 DEF Walks
  <2>2. ASSUME NEW i \in 1..n PROVE G[<<i, f[i - 1]>>] = Pack(f[i - 1], Cut(lines[i]))
    <3>1. i - 1 \in 0..n
      BY <1>1
    <3>2. <<i, f[i - 1]>> \in (1..n) \X V
      BY <2>1, <3>1
    <3> QED BY <3>2
  <2> QED BY <2>1, <2>2
<1> HIDE DEF n, G, none
<1>7. Packs(f)
  <2>1. \A i \in 0..n : f[i] = IF i = 0 THEN none ELSE Pack(f[i - 1], Cut(lines[i]))
    BY <1>6
  <2> QED BY <1>6, <2>1
<1>8. Packs(upTo)
  BY <1>7
<1> HIDE DEF upTo
<1>9. upTo[0] = none /\ \A i \in 1..n : upTo[i] = Pack(upTo[i - 1], Cut(lines[i]))
  BY <1>1, <1>8
<1>10. \A i \in 0..n : upTo[i] \in V
  <2>1. Alike(n, upTo, f)
    BY <1>6, <1>9 DEF Alike
  <2>2. \A i \in 0..n : upTo[i] = f[i]
    BY <1>1, <2>1, SameAll
  <2> QED BY <1>6, <2>2
<1> DEFINE T == {k \in Nat : k <= n => /\ FlattenSeq(upTo[k].full) \o upTo[k].open = Cuts(lines, k)
                                       /\ k # 0 => upTo[k].open # <<>>}
<1>11. 0 \in T
  <2>1. upTo[0].full = <<>> /\ upTo[0].open = <<>>
    BY <1>9 DEF none
  <2>2. FlattenSeq(<<>>) = <<>>
    BY EmptySeq DEF FlattenSeq
  <2>3. <<>> \o <<>> = <<>>
    BY EmptySeq, ConcatEmptySeq
  <2>4. Cuts(lines, 0) = <<>>
    BY DEF Cuts
  <2> QED BY <2>1, <2>2, <2>3, <2>4
<1>12. ASSUME NEW k \in Nat, k \in T PROVE k + 1 \in T
  <2>0. k + 1 \in Nat /\ k + 1 # 0
    BY <1>12
  <2> SUFFICES ASSUME k + 1 <= n
               PROVE  /\ FlattenSeq(upTo[k + 1].full) \o upTo[k + 1].open = Cuts(lines, k + 1)
                      /\ upTo[k + 1].open # <<>>
    BY <2>0
  <2>1. k <= n /\ k \in 0..n /\ k + 1 \in 1..n /\ (k + 1) - 1 = k
    BY <1>1
  <2>2. FlattenSeq(upTo[k].full) \o upTo[k].open = Cuts(lines, k)
    BY <1>12, <2>1
  <2>3. upTo[k + 1] = Pack(upTo[k], Cut(lines[k + 1])) /\ upTo[k] \in V
    BY <1>9, <1>10, <2>1
  <2>4. /\ FlattenSeq(upTo[k + 1].full) \o upTo[k + 1].open = Cuts(lines, k) \o <<Cut(lines[k + 1])>>
        /\ upTo[k + 1].open # <<>>
    BY <1>3, <2>1, <2>2, <2>3
  <2>5. Cuts(lines, k) \o <<Cut(lines[k + 1])>> = Cuts(lines, k + 1)
    <3> DEFINE c == Cuts(lines, k)
               d == Cuts(lines, k + 1)
               x == Cut(lines[k + 1])
    <3>1. /\ c \in Seq(Lined) /\ Len(c) = k /\ d \in Seq(Lined) /\ Len(d) = k + 1
          /\ \A j \in 1..k : c[j] = d[j]
          /\ x \in Lined /\ d[k + 1] = x
      <4>1. \A j \in 1..k + 1 : j \in 1..n
        BY <1>1, <2>1
      <4>2. c \in [1..k -> Lined] /\ d \in [1..(k + 1) -> Lined]
        BY <1>1, <4>1 DEF Cuts
      <4>3. (\A j \in 1..k : c[j] = d[j]) /\ d[k + 1] = x
        BY DEF Cuts
      <4> HIDE DEF c, d, x
      <4>4. c \in Seq(Lined) /\ Len(c) = k
        BY <4>2, SeqDef, LenProperties
      <4>5. d \in Seq(Lined) /\ Len(d) = k + 1
        BY <4>2, SeqDef, LenProperties
      <4>6. x \in Lined
        BY <1>1, <2>1 DEF x
      <4> QED BY <4>3, <4>4, <4>5, <4>6
    <3> HIDE DEF c, d, x
    <3>2. c \o <<x>> = Append(c, x)
      BY <3>1, AppendIsConcat
    <3>3. /\ Append(c, x) \in Seq(Lined) /\ Len(Append(c, x)) = k + 1
          /\ \A j \in 1..k : Append(c, x)[j] = c[j]
          /\ Append(c, x)[k + 1] = x
      BY <3>1, AppendProperties
    <3>4. \A j \in 1..k + 1 : Append(c, x)[j] = d[j]
      <4>1. \A j \in 1..k + 1 : j \in 1..k \/ j = k + 1
        OBVIOUS
      <4> QED BY <3>1, <3>3, <4>1
    <3>5. Append(c, x) = d
      BY <3>1, <3>3, <3>4, SeqEqual
    <3> QED BY <3>2, <3>5 DEF c, d, x
  <2> QED BY <2>4, <2>5
<1>13. n \in T
  <2> HIDE DEF T
  <2> QED BY <1>1, <1>11, <1>12, StepByStep
<1> DEFINE all == upTo[n]
<1>14. /\ FlattenSeq(all.full) \o all.open = Cuts(lines, n) /\ (n # 0 => all.open # <<>>)
       /\ all \in V
  <2>1. n <= n /\ n \in 0..n
    BY <1>1
  <2> QED BY <1>10, <1>13, <2>1
<1>15. Packed(lines) = IF all.open = <<>> THEN all.full ELSE Append(all.full, all.open)
  BY DEF Packed, upTo, n, none
<1> HIDE DEF all
<1>16. /\ all.full \in Seq(Seq(Lined)) /\ all.open \in Seq(Lined) /\ Fitting(all.full)
       /\ (all.open # <<>> => Size(all.open) <= MessageBudget)
       /\ FlattenSeq(all.full) \in Seq(Lined)
  <2>1. /\ all.full \in Seq(Seq(Lined)) /\ all.open \in Seq(Lined) /\ Fitting(all.full)
        /\ (all.open # <<>> => Size(all.open) <= MessageBudget)
    BY <1>14 DEF V, Packing
  <2> QED BY <2>1, FlattenAppend
<1>17. CASE all.open = <<>>
  <2>1. FlattenSeq(all.full) \o <<>> = FlattenSeq(all.full)
    BY <1>16, ConcatEmptySeq
  <2> QED BY <1>14, <1>15, <1>16, <1>17, <2>1 DEF n
<1>18. CASE all.open # <<>>
  <2> DEFINE more == Append(all.full, all.open)
  <2>1. Packed(lines) = more /\ more \in Seq(Seq(Lined))
    BY <1>15, <1>16, <1>18, AppendProperties
  <2>2. FlattenSeq(more) = Cuts(lines, n)
    BY <1>14, <1>16, FlattenAppend
  <2>3. Fitting(more)
    <3>1. /\ Len(more) = Len(all.full) + 1 /\ Len(all.full) \in Nat
          /\ \A k \in 1..Len(all.full) : more[k] = all.full[k]
          /\ more[Len(all.full) + 1] = all.open
          /\ DOMAIN all.full = 1..Len(all.full) /\ DOMAIN more = 1..Len(more)
      BY <1>16, <2>1, AppendProperties, LenProperties
    <3> HIDE DEF more
    <3>2. \A k \in DOMAIN more : k \in 1..Len(all.full) \/ k = Len(all.full) + 1
      BY <3>1
    <3> QED BY <1>16, <1>18, <3>1, <3>2 DEF Fitting
  <2> HIDE DEF more
  <2> QED BY <2>1, <2>2, <2>3 DEF n
<1> QED BY <1>17, <1>18

\* What names its lines rightly accounts for all of them, in full or with a
\* last line that counts those that are missing.
Recounts(lines, all, m) == \A i \in 1..m : lines[i].is = all[i].is /\ lines[i].n = all[i].n

Unnoted(all) == \A i \in DOMAIN all : all[i].is # "note"

LEMMA AllThere ==
    ASSUME NEW all \in Seq(Lined), Unnoted(all), NEW lines \in Seq(Lined),
           Len(lines) = Len(all), Recounts(lines, all, Len(all))
    PROVE  AccountsFor(lines, all)
<1>1. /\ Len(lines) \in Nat /\ DOMAIN lines = 1..Len(lines)
      /\ DOMAIN all = 1..Len(lines)
  BY LenProperties
<1>2. ~(Len(lines) > 0 /\ Last(lines).is = "note")
  <2> SUFFICES ASSUME Len(lines) > 0 PROVE Last(lines).is # "note"
    OBVIOUS
  <2>1. Len(lines) \in 1..Len(all) /\ Last(lines) = lines[Len(lines)]
    BY <1>1 DEF Last
  <2> QED BY <1>1, <2>1 DEF Recounts, Unnoted
<1> QED BY <1>1, <1>2 DEF AccountsFor, Recounts

LEMMA RestCounted ==
    ASSUME NEW all \in Seq(Lined), NEW lines \in Seq(Lined), NEW m \in Nat,
           Len(lines) = m + 1, m <= Len(all), Recounts(lines, all, m),
           lines[m + 1].is = "note", lines[m + 1].n = Len(all) - m
    PROVE  AccountsFor(lines, all)
<1>1. /\ Len(lines) > 0 /\ Last(lines) = lines[m + 1] /\ Front(lines) = SubSeq(lines, 1, m)
      /\ Len(all) \in Nat
  BY LenProperties DEF Last, Front
<1>2. \A i \in 1..m : lines[i] \in Lined
  BY ElementOfSeq
<1>3. /\ Front(lines) \in Seq(Lined) /\ Len(Front(lines)) = m
      /\ \A i \in 1..m : Front(lines)[i] = lines[i]
  <2>1. 1 \in Int /\ m \in Int /\ m - 1 + 1 = m /\ (IF 1 <= m THEN m - 1 + 1 ELSE 0) = m
    OBVIOUS
  <2>2. /\ SubSeq(lines, 1, m) \in Seq(Lined) /\ Len(SubSeq(lines, 1, m)) = m
        /\ \A i \in 1..m : SubSeq(lines, 1, m)[i] = lines[1 + i - 1]
    BY <1>2, <2>1, SubSeqProperties
  <2>3. \A i \in 1..m : 1 + i - 1 = i
    OBVIOUS
  <2> QED BY <1>1, <2>2, <2>3
<1>4. DOMAIN Front(lines) = 1..m
  BY <1>3, LenProperties
<1>5. Len(Front(lines)) + Last(lines).n = Len(all)
  BY <1>1, <1>3
<1>6. Len(lines) > 0 /\ Last(lines).is = "note"
  BY <1>1
<1> QED BY <1>3, <1>4, <1>5, <1>6 DEF AccountsFor, Recounts

LEMMA LineIs ==
    ASSUME NEW is \in Sayings, NEW n \in Nat, NEW size \in Nat
    PROVE  /\ Line(is, n, size) \in Lined /\ Line(is, n, size).is = is
           /\ Line(is, n, size).n = n /\ Line(is, n, size).size = size
BY DEF Line, Lined

LEMMA NoteIs ==
    ASSUME NEW n \in Nat
    PROVE  /\ Note(n) \in Lined /\ Note(n).is = "note" /\ Note(n).n = n
           /\ Note(n).size = NoteSize
<1>1. "note" \in Sayings
  BY DEF Sayings
<1> QED BY <1>1, LineIs, Budgets DEF Note

\* On IRC.
LEMMA CappedIs ==
    ASSUME NEW all \in Seq(Lined), Unnoted(all), NEW max \in Nat
    PROVE  /\ Capped(all, max) \in Seq(Lined) /\ Len(Capped(all, max)) <= max + 1
           /\ \A i \in DOMAIN Capped(all, max) : Capped(all, max)[i].size <= LineBudget + 1
           /\ AccountsFor(Capped(all, max), all)
<1> DEFINE short == CutShort(all, max)
           fit(line) == [line EXCEPT !.size = Smaller(@, LineBudget + 1)]
           capped == Capped(all, max)
<1>1. /\ Len(all) \in Nat /\ DOMAIN all = 1..Len(all)
      /\ \A i \in 1..Len(all) : all[i] \in Lined
  BY LenProperties, ElementOfSeq
<1>2. \A line \in Lined : /\ fit(line) \in Lined /\ fit(line).size <= LineBudget + 1
                          /\ fit(line).is = line.is /\ fit(line).n = line.n
  <2> TAKE line \in Lined
  <2> DEFINE size == Smaller(line.size, LineBudget + 1)
  <2>1. line = [is |-> line.is, n |-> line.n, size |-> line.size]
    BY DEF Lined
  <2>2. line.is \in Sayings /\ line.n \in Nat /\ line.size \in Nat
    BY DEF Lined
  <2>3. size \in Nat /\ size <= LineBudget + 1
    BY <2>2, Budgets DEF Smaller
  <2> HIDE DEF size
  <2>4. fit(line) = [is |-> line.is, n |-> line.n, size |-> size]
    BY <2>1 DEF size
  <2> HIDE DEF fit
  <2> QED BY <2>2, <2>3, <2>4 DEF Lined
<1>3. capped = [i \in DOMAIN short |-> fit(short[i])]
  BY DEF Capped
<1> HIDE DEF fit, capped, short
<1>4. ASSUME short \in Seq(Lined)
      PROVE  /\ capped \in Seq(Lined) /\ Len(capped) = Len(short) /\ DOMAIN capped = 1..Len(short)
             /\ \A i \in 1..Len(short) : capped[i] = fit(short[i]) /\ short[i] \in Lined
  <2>1. Len(short) \in Nat /\ DOMAIN short = 1..Len(short) /\ \A i \in 1..Len(short) : short[i] \in Lined
    BY <1>4, LenProperties, ElementOfSeq
  <2>2. capped \in [1..Len(short) -> Lined]
    BY <1>2, <1>3, <2>1
  <2>3. capped \in Seq(Lined) /\ Len(capped) = Len(short)
    BY <2>1, <2>2, SeqDef, LenProperties
  <2> QED BY <1>3, <2>1, <2>2, <2>3
<1>5. CASE Len(all) <= max
  <2>1. short = all
    BY <1>5 DEF short, CutShort
  <2>2. Recounts(capped, all, Len(all))
    BY <1>1, <1>2, <1>4, <2>1 DEF Recounts
  <2>3. AccountsFor(capped, all)
    BY <1>4, <2>1, <2>2, AllThere
  <2> QED BY <1>1, <1>2, <1>4, <1>5, <2>1, <2>3 DEF capped
<1>6. CASE ~(Len(all) <= max)
  <2> DEFINE kept == SubSeq(all, 1, max)
             note == Note(Len(all) - max)
  <2>1. short = Append(kept, note)
    BY <1>6 DEF short, CutShort
  <2>2. /\ kept \in Seq(Lined) /\ Len(kept) = max
        /\ \A i \in 1..max : kept[i] = all[i]
    <3>1. 1 \in Int /\ max \in Int /\ max - 1 + 1 = max /\ (IF 1 <= max THEN max - 1 + 1 ELSE 0) = max
          /\ \A i \in 1..max : i \in 1..Len(all) /\ 1 + i - 1 = i
      BY <1>1, <1>6
    <3>2. \A i \in 1..max : all[i] \in Lined
      BY <1>1, <3>1
    <3>3. /\ SubSeq(all, 1, max) \in Seq(Lined) /\ Len(SubSeq(all, 1, max)) = max
          /\ \A i \in 1..max : SubSeq(all, 1, max)[i] = all[1 + i - 1]
      BY <3>1, <3>2, SubSeqProperties
    <3> QED BY <3>1, <3>3
  <2>3. note \in Lined /\ note.is = "note" /\ note.n = Len(all) - max
    <3>1. Len(all) - max \in Nat
      BY <1>1, <1>6
    <3> QED BY <3>1, NoteIs
  <2> HIDE DEF kept, note
  <2>4. /\ short \in Seq(Lined) /\ Len(short) = max + 1
        /\ \A i \in 1..max : short[i] = all[i]
        /\ short[max + 1] = note
    BY <2>1, <2>2, <2>3, AppendProperties
  <2>5. /\ capped \in Seq(Lined) /\ Len(capped) = max + 1 /\ DOMAIN capped = 1..(max + 1)
        /\ \A i \in 1..(max + 1) : capped[i] = fit(short[i]) /\ short[i] \in Lined
    BY <1>4, <2>4
  <2>6. /\ \A i \in 1..max : i \in 1..(max + 1)
        /\ max + 1 \in 1..(max + 1) /\ max <= Len(all)
    BY <1>1, <1>6
  <2>7. Recounts(capped, all, max)
    BY <1>2, <2>4, <2>5, <2>6 DEF Recounts
  <2>8. capped[max + 1].is = "note" /\ capped[max + 1].n = Len(all) - max
    BY <1>2, <2>3, <2>4, <2>5, <2>6
  <2>9. AccountsFor(capped, all)
    BY <2>5, <2>6, <2>7, <2>8, RestCounted
  <2> QED BY <1>2, <2>5, <2>9 DEF capped
<1> QED BY <1>5, <1>6

\* Elsewhere.
LEMMA ChunksAre ==
    ASSUME NEW all \in Seq(Lined), Unnoted(all)
    PROVE  /\ Chunks(all) \in Seq(Seq(Lined)) /\ Len(Chunks(all)) <= MaxMessages + 1
           /\ Fitting(Chunks(all)) /\ AccountsFor(FlattenSeq(Chunks(all)), all)
<1> DEFINE packed == Packed(all)
           n == Len(all)
           cuts == Cuts(all, n)
           max == MaxMessages
<1>1. packed \in Seq(Seq(Lined)) /\ Fitting(packed) /\ FlattenSeq(packed) = cuts
  BY PackedIs
<1>2. /\ n \in Nat /\ DOMAIN all = 1..n /\ max \in Nat
      /\ \A i \in 1..n : all[i] \in Lined
  BY LenProperties, ElementOfSeq, Budgets
<1>3. cuts \in Seq(Lined) /\ Len(cuts) = n /\ Recounts(cuts, all, n)
  <2>1. \A i \in 1..n : cuts[i] = Cut(all[i])
    BY DEF Cuts
  <2>2. cuts \in [1..n -> Lined]
    BY <1>2, CutIs DEF Cuts
  <2>3. Recounts(cuts, all, n)
    BY <1>2, <2>1, CutIs DEF Recounts
  <2> HIDE DEF cuts
  <2> QED BY <1>2, <2>2, <2>3, SeqDef, LenProperties
<1> HIDE DEF packed, n, cuts, max
<1>4. Len(packed) \in Nat /\ DOMAIN packed = 1..Len(packed)
      /\ \A k \in 1..Len(packed) : packed[k] \in Seq(Lined)
  BY <1>1, LenProperties, ElementOfSeq
<1>5. CASE Len(packed) <= max
  <2>1. Chunks(all) = packed
    BY <1>5 DEF Chunks, packed, max
  <2>2. AccountsFor(cuts, all)
    BY <1>3, AllThere DEF n
  <2> QED BY <1>1, <1>2, <1>4, <1>5, <2>1, <2>2 DEF max
<1>6. CASE ~(Len(packed) <= max)
  <2> DEFINE kept == SubSeq(packed, 1, max)
             shown == FlattenSeq(kept)
             m == Len(shown)
             note == Note(n - m)
             more == Append(kept, <<note>>)
  <2>1. Chunks(all) = more
    BY <1>6 DEF Chunks, packed, n, max
  <2>2. /\ kept \in Seq(Seq(Lined)) /\ Len(kept) = max /\ DOMAIN kept = 1..max
        /\ \A k \in 1..max : kept[k] = packed[k] /\ k \in DOMAIN packed
    <3>1. 1 \in Int /\ max \in Int /\ max - 1 + 1 = max /\ (IF 1 <= max THEN max - 1 + 1 ELSE 0) = max
          /\ \A i \in 1..max : i \in 1..Len(packed) /\ 1 + i - 1 = i
      BY <1>2, <1>4, <1>6
    <3>2. \A i \in 1..max : packed[i] \in Seq(Lined)
      BY <1>4, <3>1
    <3>3. /\ SubSeq(packed, 1, max) \in Seq(Seq(Lined)) /\ Len(SubSeq(packed, 1, max)) = max
          /\ \A i \in 1..max : SubSeq(packed, 1, max)[i] = packed[1 + i - 1]
      BY <3>1, <3>2, SubSeqProperties
    <3>4. DOMAIN SubSeq(packed, 1, max) = 1..max
      BY <3>3, LenProperties
    <3> QED BY <1>4, <3>1, <3>3, <3>4
  <2>3. shown \in Seq(Lined) /\ \E t \in Seq(Lined) : cuts = shown \o t
    <3>1. max \in 0..Len(packed)
      BY <1>2, <1>4, <1>6
    <3> QED BY <1>1, <3>1, FlattenFront
  <2> HIDE DEF kept, shown
  <2>4. m \in Nat /\ m <= n /\ Recounts(shown, all, m)
    <3>1. PICK t \in Seq(Lined) : cuts = shown \o t
      BY <2>3
    <3>2. /\ Len(shown) \in Nat /\ Len(t) \in Nat /\ Len(cuts) = Len(shown) + Len(t)
          /\ \A i \in 1..Len(shown) + Len(t) : cuts[i] = IF i <= Len(shown) THEN shown[i] ELSE t[i - Len(shown)]
      BY <2>3, <3>1, LenProperties, ConcatProperties
    <3>3. \A i \in 1..m : cuts[i] = shown[i] /\ i \in 1..n
      BY <1>2, <1>3, <3>2
    <3> QED BY <1>2, <1>3, <3>2, <3>3 DEF Recounts
  <2>5. note \in Lined /\ note.is = "note" /\ note.n = n - m /\ note.size = NoteSize
    <3>1. n - m \in Nat
      BY <1>2, <2>4
    <3> HIDE DEF m
    <3> QED BY <3>1, NoteIs
  <2> HIDE DEF m, note
  <2>6. <<note>> \in Seq(Lined) /\ Len(<<note>>) = 1 /\ <<note>>[1] = note
    BY <2>5
  <2>7. /\ more \in Seq(Seq(Lined)) /\ Len(more) = max + 1 /\ DOMAIN more = 1..(max + 1)
        /\ \A k \in 1..max : more[k] = kept[k]
        /\ more[max + 1] = <<note>>
    <3>1. /\ more \in Seq(Seq(Lined)) /\ Len(more) = max + 1
          /\ \A k \in 1..max : more[k] = kept[k]
          /\ more[max + 1] = <<note>>
      BY <2>2, <2>6, AppendProperties
    <3>2. DOMAIN more = 1..(max + 1)
      BY <3>1, LenProperties
    <3> QED BY <3>1, <3>2
  <2>8. FlattenSeq(more) = shown \o <<note>>
    BY <2>2, <2>6, FlattenAppend DEF shown
  <2> HIDE DEF more
  <2>9. Fitting(more)
    <3>1. Size(<<note>>) <= MessageBudget
      BY <2>5, <2>6, SizeIs, Budgets
    <3>2. \A k \in 1..(max + 1) : k \in 1..max \/ k = max + 1
      BY <1>2
    <3>3. \A k \in 1..max : Size(kept[k]) <= MessageBudget
      BY <1>1, <2>2 DEF Fitting
    <3> QED BY <2>7, <3>1, <3>2, <3>3 DEF Fitting
  <2>10. AccountsFor(shown \o <<note>>, all)
    <3>1. shown \o <<note>> = Append(shown, note)
      BY <2>3, <2>5, AppendIsConcat
    <3>2. /\ Append(shown, note) \in Seq(Lined) /\ Len(Append(shown, note)) = m + 1
          /\ \A i \in 1..m : Append(shown, note)[i] = shown[i]
          /\ Append(shown, note)[m + 1] = note
      BY <2>3, <2>5, AppendProperties DEF m
    <3>3. Recounts(Append(shown, note), all, m)
      BY <2>4, <3>2 DEF Recounts
    <3> QED BY <2>4, <2>5, <3>1, <3>2, <3>3, RestCounted DEF n
  <2> QED BY <1>2, <2>1, <2>7, <2>8, <2>9, <2>10 DEF max
<1> QED BY <1>5, <1>6

\* What a command does, and what it then has to say.
LEMMA EffectIs ==
    ASSUME NEW word, NEW arg
    PROVE  Effect(word, arg) \in Effects
<1>1. AddOf(arg) \in Effects
  BY DEF AddOf, Effects
<1>2. CASE word \in {"addtorrent", "torrentlist", "downloadlist", "watchlist", "listwatch"}
  BY <1>1, <1>2 DEF Effect, Effects
<1>3. CASE word \in {"help", "commands", "stop", "cancel", "testnotify", "addtowatchlist", "removewatch"}
  BY <1>3 DEF Effect, Effects
<1>4. CASE word \notin {"addtorrent", "torrentlist", "downloadlist", "watchlist", "listwatch"}
           /\ word \notin {"help", "commands", "stop", "cancel", "testnotify", "addtowatchlist", "removewatch"}
  BY <1>4 DEF Effect, Effects
<1> QED BY <1>2, <1>3, <1>4

LEMMA ShortsAreFew == Cardinality(Shorts) \in Nat
<1> DEFINE few == {"at", "lt", "lw", "aw"}
           more == {"rw", "tn", "s", "h"}
<1>1. IsFiniteSet(few)
  <2>1. ({"at"} \cup {"lt"}) \cup ({"lw"} \cup {"aw"}) = few
    OBVIOUS
  <2> HIDE DEF few
  <2> QED BY <2>1, FS_Singleton, FS_Union
<1>2. IsFiniteSet(more)
  <2>1. ({"rw"} \cup {"tn"}) \cup ({"s"} \cup {"h"}) = more
    OBVIOUS
  <2> HIDE DEF more
  <2> QED BY <2>1, FS_Singleton, FS_Union
<1>3. Shorts = few \cup more
  BY DEF Shorts, FullName
<1> HIDE DEF few, more
<1> QED BY <1>1, <1>2, <1>3, FS_Union, FS_CardinalityType

LEMMA LinesAre ==
    ASSUME NEW effect \in Effects, NEW sizes \in Seq(Nat \ {0})
    PROVE  Lines(effect, sizes) \in Seq(Lined) /\ Unnoted(Lines(effect, sizes))
<1> DEFINE lines == Lines(effect, sizes)
           Plain == {line \in Lined : line.is # "note"}
<1>1. ASSUME lines \in Seq(Plain) PROVE lines \in Seq(Lined) /\ Unnoted(lines)
  <2> HIDE DEF lines
  <2>1. /\ Len(lines) \in Nat /\ lines \in [1..Len(lines) -> Plain] /\ DOMAIN lines = 1..Len(lines)
        /\ \A i \in 1..Len(lines) : lines[i] \in Plain
    BY <1>1, LenProperties, ElementOfSeq
  <2>2. lines \in [1..Len(lines) -> Lined]
    BY <2>1
  <2> QED BY <2>1, <2>2, SeqDef DEF Unnoted
<1>2. \A n, size \in Nat : \A is \in {"none", "head", "row", "aliases"} : Line(is, n, size) \in Plain
  <2> TAKE n, size \in Nat
  <2> TAKE is \in {"none", "head", "row", "aliases"}
  <2>1. is \in Sayings /\ is # "note"
    BY DEF Sayings
  <2> QED BY <2>1, LineIs
<1>3. NoteSize \in Nat /\ 0 \in Nat
  BY Budgets
<1>4. ASSUME NEW n \in Nat, NEW size, \A i \in 1..n : size[i] \in Nat
      PROVE  [i \in 1..n |-> Line("row", i - 1, size[i])] \in Seq(Plain)
  <2>1. \A i \in 1..n : Line("row", i - 1, size[i]) \in Plain
    <3> TAKE i \in 1..n
    <3>1. i - 1 \in Nat /\ size[i] \in Nat
      BY <1>4
    <3> QED BY <1>2, <3>1
  <2> HIDE DEF Plain
  <2>2. [i \in 1..n |-> Line("row", i - 1, size[i])] \in [1..n -> Plain]
    BY <2>1
  <2> QED BY <2>2, SeqDef
<1>5. CASE effect \in Lists
  <2>1. lines = Listing(sizes)
    BY <1>5 DEF Lines
  <2>2. Len(sizes) \in Nat /\ \A i \in 1..Len(sizes) : sizes[i] \in Nat
    BY LenProperties, ElementOfSeq
  <2> DEFINE rows == [i \in 1..Len(sizes) |-> Line("row", i - 1, sizes[i])]
             head == Line("head", Len(sizes), NoteSize)
             none == Line("none", 0, NoteSize)
  <2>3. rows \in Seq(Plain) /\ head \in Plain /\ none \in Plain
    <3>1. rows \in Seq(Plain)
      BY <1>4, <2>2
    <3> QED BY <1>2, <1>3, <2>2, <3>1
  <2>4. Listing(sizes) = IF sizes = <<>> THEN <<none>> ELSE <<head>> \o rows
    BY DEF Listing
  <2> HIDE DEF rows, head, none, Plain, lines
  <2>5. <<none>> \in Seq(Plain) /\ <<head>> \in Seq(Plain)
    BY <2>3
  <2>6. <<head>> \o rows \in Seq(Plain)
    BY <2>3, <2>5, ConcatProperties
  <2>7. lines \in Seq(Plain)
    BY <2>1, <2>4, <2>5, <2>6
  <2> QED BY <1>1, <2>7 DEF lines
<1>6. CASE effect = "help"
  <2>1. lines = HelpLines
    BY <1>6 DEF Lines, Lists
  <2> DEFINE n == Cardinality(Shorts)
             even == [i \in 1..n |-> NoteSize]
             rows == [i \in 1..n |-> Line("row", i - 1, even[i])]
             last == Line("aliases", 0, NoteSize)
  <2>2. n \in Nat /\ \A i \in 1..n : even[i] = NoteSize
    BY ShortsAreFew
  <2>3. rows \in Seq(Plain) /\ last \in Plain
    <3>1. rows \in Seq(Plain)
      <4> HIDE DEF even, n
      <4>1. \A i \in 1..n : even[i] \in Nat
        BY <1>3, <2>2
      <4> QED BY <1>4, <2>2, <4>1
    <3> QED BY <1>2, <1>3, <3>1
  <2>4. HelpLines = rows \o <<last>>
    BY DEF HelpLines
  <2> HIDE DEF rows, last, Plain, lines
  <2>5. <<last>> \in Seq(Plain)
    BY <2>3
  <2>6. rows \o <<last>> \in Seq(Plain)
    BY <2>3, <2>5, ConcatProperties
  <2>7. lines \in Seq(Plain)
    BY <2>1, <2>4, <2>6
  <2> QED BY <1>1, <2>7 DEF lines
<1>7. CASE effect \notin Lists /\ effect # "help"
  <2>1. lines = <<Line(effect, 0, NoteSize)>>
    BY <1>7 DEF Lines
  <2>2. Line(effect, 0, NoteSize) \in Plain
    <3>1. effect \in Sayings /\ effect # "note"
      BY DEF Effects, Sayings
    <3> QED BY <1>3, <3>1, LineIs
  <2> HIDE DEF Plain, lines
  <2>3. lines \in Seq(Plain)
    BY <2>1, <2>2
  <2> QED BY <1>1, <2>3 DEF lines
<1> QED BY <1>5, <1>6, <1>7

\* What is carried to whoever asked accounts for what there was to say.
LEMMA CarriedAccounts ==
    ASSUME NEW via \in {"irc", "telegram", "slack"}, NEW limit \in Nat,
           NEW all \in Seq(Lined), Unnoted(all),
           NEW effect, effect \notin Capping => Len(all) = 1
    PROVE  LET reply == Carried(effect, via, all, limit)
           IN  /\ Len(reply) <= Most(via, limit)
               /\ via # "irc" \/ effect \in Capping =>
                     \A i \in DOMAIN reply : Size(reply[i]) <= Capacity(via)
               /\ AccountsFor(FlattenSeq(reply), all)
<1> DEFINE reply == Carried(effect, via, all, limit)
<1>1. CASE via = "irc" /\ effect \in Capping
  <2> DEFINE max == AtLeastTwo(limit)
             capped == Capped(all, max)
             ones == [i \in DOMAIN capped |-> <<capped[i]>>]
  <2>1. reply = ones
    BY <1>1 DEF Carried
  <2>2. max \in Nat
    BY DEF AtLeastTwo
  <2>3. Most(via, limit) = 1 + max /\ Capacity(via) = LineBudget + 1
    BY <1>1 DEF Most, Capacity
  <2> HIDE DEF max
  <2>4. /\ capped \in Seq(Lined) /\ Len(capped) <= max + 1
        /\ \A i \in DOMAIN capped : capped[i].size <= LineBudget + 1
        /\ AccountsFor(capped, all)
    BY <2>2, CappedIs
  <2> HIDE DEF capped
  <2>5. FlattenSeq(ones) = capped
    BY <2>4, FlattenSingles
  <2>6. /\ Len(capped) \in Nat /\ DOMAIN capped = 1..Len(capped)
        /\ \A i \in 1..Len(capped) : capped[i] \in Lined
    BY <2>4, LenProperties, ElementOfSeq
  <2>7. Len(ones) = Len(capped) /\ DOMAIN ones = DOMAIN capped
    BY <2>6
  <2>8. ASSUME NEW i \in DOMAIN ones PROVE Size(ones[i]) <= LineBudget + 1
    <3>1. i \in DOMAIN capped /\ ones[i] = <<capped[i]>> /\ capped[i] \in Lined
      BY <2>6, <2>7
    <3>2. /\ <<capped[i]>> \in Seq(Lined) /\ Len(<<capped[i]>>) = 1
          /\ <<capped[i]>>[1] = capped[i]
      BY <3>1
    <3> QED BY <2>4, <3>1, <3>2, SizeIs
  <2> HIDE DEF ones
  <2>9. Len(capped) <= 1 + max
    BY <2>2, <2>4, <2>6
  <2> QED BY <2>1, <2>3, <2>4, <2>5, <2>7, <2>8, <2>9
<1>2. CASE via # "irc"
  <2>1. reply = Chunks(all) /\ Most(via, limit) = 1 + MaxMessages /\ Capacity(via) = MessageBudget
    BY <1>2 DEF Carried, Most, Capacity
  <2>2. /\ Chunks(all) \in Seq(Seq(Lined)) /\ Len(Chunks(all)) <= MaxMessages + 1
        /\ Fitting(Chunks(all)) /\ AccountsFor(FlattenSeq(Chunks(all)), all)
    BY ChunksAre
  <2>3. Len(Chunks(all)) <= 1 + MaxMessages
    BY <2>2, Budgets, LenProperties
  <2> QED BY <2>1, <2>2, <2>3 DEF Fitting
<1>3. CASE via = "irc" /\ effect \notin Capping
  <2>1. reply = [i \in DOMAIN all |-> <<all[i]>>] /\ FlattenSeq(reply) = all
    BY <1>3, FlattenSingles DEF Carried
  <2>2. Len(all) = 1 /\ DOMAIN all = 1..1
    BY <1>3, LenProperties
  <2>3. Len(reply) = 1 /\ Most(via, limit) = 1 + AtLeastTwo(limit)
    BY <1>3, <2>1, <2>2 DEF Most
  <2>4. AtLeastTwo(limit) \in Nat
    BY DEF AtLeastTwo
  <2>5. Len(reply) <= Most(via, limit)
    BY <2>3, <2>4
  <2>6. AccountsFor(all, all)
    BY <2>2, AllThere DEF Recounts
  <2> QED BY <1>3, <2>1, <2>5, <2>6
<1> QED BY <1>1, <1>2, <1>3

\* A reply is the answer to what was asked, as its transport carries it.
RepliesInv ==
    /\ rpAsked \in Asked \cup {Unasked}
    /\ rpReply # <<>> =>
          /\ rpAsked \in Asked /\ rpDone \in Effects
          /\ rpReply = Carried(rpDone, rpAsked.via, Lines(rpDone, rpAsked.sizes), rpAsked.limit)

LEMMA RepliesInvInit == RepliesInit => RepliesInv
BY DEF RepliesInit, RepliesInv

LEMMA RepliesInvStep == RepliesInv /\ [RepliesNext]_rpVars => RepliesInv'
<1> SUFFICES ASSUME RepliesInv, [RepliesNext]_rpVars PROVE RepliesInv'
  OBVIOUS
<1>1. CASE Ask
  <2>1. rpReply = <<>> \/ rpReply # <<>>
    OBVIOUS
  <2>2. Unasked \notin Asked
    <3>1. \A a \in Asked : a.via \in {"irc", "telegram", "slack"}
      BY DEF Asked
    <3>2. Unasked.via = "nobody"
      BY DEF Unasked
    <3> QED BY <3>1, <3>2
  <2>3. rpReply = <<>>
    BY <1>1, <2>2 DEF Ask, RepliesInv
  <2> QED BY <1>1, <2>3 DEF Ask, RepliesInv
<1>2. CASE LetPass
  <2>1. rpDone = "nothing" /\ "nothing" \notin Effects
    BY <1>2 DEF LetPass, Effects
  <2>2. rpReply = <<>>
    BY <2>1 DEF RepliesInv
  <2> QED BY <1>2, <2>2 DEF LetPass, RepliesInv
<1>3. CASE AnswerIt
  <2> DEFINE effect == Effect(Spelt(rpAsked.message), rpAsked.message.arg)
  <2>1. /\ rpAsked # Unasked /\ rpDone' = effect /\ rpAsked' = rpAsked
        /\ rpReply' = Carried(effect, rpAsked.via, Lines(effect, rpAsked.sizes), rpAsked.limit)
    BY <1>3 DEF AnswerIt
  <2>2. effect \in Effects
    BY EffectIs
  <2>3. rpAsked \in Asked
    BY <2>1 DEF RepliesInv
  <2> HIDE DEF effect
  <2> QED BY <2>1, <2>2, <2>3 DEF RepliesInv
<1>4. CASE Settled
  BY <1>4 DEF Settled, RepliesInv
<1>5. CASE UNCHANGED rpVars
  BY <1>5 DEF rpVars, RepliesInv
<1> QED BY <1>1, <1>2, <1>3, <1>4, <1>5 DEF RepliesNext

LEMMA RepliesInvAccounts == RepliesInv => RepliesAccount
<1> SUFFICES ASSUME RepliesInv, rpReply # <<>>
             PROVE  /\ Len(rpReply) <= Most(rpAsked.via, rpAsked.limit)
                    /\ \/ rpAsked.via = "irc" /\ rpDone \notin Capping
                       \/ \A i \in DOMAIN rpReply : Size(rpReply[i]) <= Capacity(rpAsked.via)
                    /\ AccountsFor(FlattenSeq(rpReply), Lines(rpDone, rpAsked.sizes))
  BY DEF RepliesAccount
<1> DEFINE all == Lines(rpDone, rpAsked.sizes)
<1>1. /\ rpAsked.via \in {"irc", "telegram", "slack"} /\ rpAsked.sizes \in Seq(Nat \ {0})
      /\ rpAsked.limit \in Nat /\ rpDone \in Effects
      /\ rpReply = Carried(rpDone, rpAsked.via, all, rpAsked.limit)
  BY RepliesAssumption DEF RepliesInv, Asked
<1>2. all \in Seq(Lined) /\ Unnoted(all)
  BY <1>1, LinesAre
<1>3. rpDone \notin Capping => Len(all) = 1
  BY DEF Lines, Capping
<1> HIDE DEF all
<1>4. LET reply == Carried(rpDone, rpAsked.via, all, rpAsked.limit)
      IN  /\ Len(reply) <= Most(rpAsked.via, rpAsked.limit)
          /\ rpAsked.via # "irc" \/ rpDone \in Capping =>
                \A i \in DOMAIN reply : Size(reply[i]) <= Capacity(rpAsked.via)
          /\ AccountsFor(FlattenSeq(reply), all)
  BY <1>1, <1>2, <1>3, CarriedAccounts
<1> QED BY <1>1, <1>4 DEF all

\* However long a listing is and whoever asked, the reply keeps to its bounds
\* and nothing goes missing unsaid.
THEOREM RepliesCorrect == RepliesSpec => []RepliesAccount
BY RepliesInvInit, RepliesInvStep, RepliesInvAccounts, PTL DEF RepliesSpec

-----------------------------------------------------------------------------
\* Digests.

DigestLine == [event : Events, times : Nat]

\* A line for what happened, and none but that one.
LEMMA OneLineEach ==
    ASSUME NEW events \in Seq(Events), NEW i \in DOMAIN events
    PROVE  /\ Rendered(events) \in Seq(DigestLine)
           /\ \E k \in DOMAIN Rendered(events) :
                 \A m \in DOMAIN Rendered(events) :
                    Key(Rendered(events)[m].event) = Key(events[i]) <=> m = k
           /\ \A m \in DOMAIN Rendered(events) :
                 Key(Rendered(events)[m].event) = Key(events[i]) =>
                    Rendered(events)[m].times
                       = Cardinality({j \in DOMAIN events : Key(events[j]) = Key(events[i])})
<1> DEFINE n == Len(events)
           F == Firsts(events)
           first == Selection(events, F)
           C == Cardinality(F)
           lines == Rendered(events)
<1>1. n \in Nat /\ DOMAIN events = 1..n /\ F \in SUBSET (DOMAIN events)
  BY LenProperties DEF Firsts
<1>2. /\ first \in Seq(Events) /\ DOMAIN first = 1..C /\ C \in Nat
      /\ \A k \in 1..C : Nth(F, k) \in F /\ first[k] = events[Nth(F, k)]
      /\ \A f \in F : \E k \in 1..C : Nth(F, k) = f
      /\ \A k, l \in 1..C : Nth(F, k) = Nth(F, l) => k = l
  BY <1>1, SelectionIs
<1>3. \A f \in F : f \in 1..n /\ \A j \in 1..f - 1 : Key(events[j]) # Key(events[f])
  BY <1>1 DEF Firsts
<1>4. \E f \in F : Key(events[f]) = Key(events[i])
  <2> DEFINE Same == {j \in 1..n : Key(events[j]) = Key(events[i])}
  <2>1. i \in Same /\ Same \subseteq Nat
    BY <1>1
  <2>2. PICK f \in Same : \A j \in Same : f <= j
    <3> HIDE DEF Same
    <3> QED BY <2>1, LeastOf
  <2>3. f \in 1..n /\ Key(events[f]) = Key(events[i])
    OBVIOUS
  <2>4. ASSUME NEW j \in 1..f - 1 PROVE Key(events[j]) # Key(events[f])
    <3>1. j \in 1..n /\ ~(f <= j)
      BY <1>1, <2>3
    <3>2. j \notin Same
      BY <2>2, <3>1
    <3> QED BY <2>3, <3>1, <3>2
  <2>5. f \in F
    BY <1>1, <2>3, <2>4 DEF Firsts
  <2> QED BY <2>3, <2>5
<1>5. ASSUME NEW f \in F, NEW g \in F, Key(events[f]) = Key(events[g])
      PROVE  f = g
  <2>1. f \notin 1..g - 1 /\ g \notin 1..f - 1 /\ f \in 1..n /\ g \in 1..n
    BY <1>3, <1>5
  <2> QED BY <1>1, <2>1
<1>6. /\ DOMAIN lines = 1..C
      /\ \A k \in 1..C : lines[k] = [event |-> first[k], times |-> Times(first[k], events)]
  <2> HIDE DEF C
  <2> QED BY <1>2 DEF Rendered
<1> HIDE DEF F, C, first, lines
<1>7. \A k \in 1..C : first[k] \in Events
  BY <1>2, ElementOfSeq, LenProperties
<1>8. \A e : Times(e, events) \in Nat
  <2> TAKE e
  <2>1. Repeats(e, events) \subseteq 1..n /\ IsFiniteSet(1..n)
    BY <1>1, FS_Interval DEF Repeats
  <2> QED BY <2>1, FS_Subset, FS_CardinalityType DEF Times
<1>9. lines \in Seq(DigestLine)
  <2>1. lines = [k \in 1..C |-> lines[k]]
    BY <1>6 DEF lines, Rendered
  <2>2. \A k \in 1..C : lines[k] \in DigestLine
    BY <1>6, <1>7, <1>8 DEF DigestLine
  <2>3. lines \in [1..C -> DigestLine]
    BY <2>1, <2>2
  <2> QED BY <1>2, <2>3, SeqDef
<1>10. \A m \in 1..C : lines[m].event = first[m] /\ lines[m].times = Times(first[m], events)
  BY <1>6
<1>11. PICK k \in 1..C : Key(events[Nth(F, k)]) = Key(events[i])
  BY <1>2, <1>4
<1>12. ASSUME NEW m \in 1..C PROVE Key(lines[m].event) = Key(events[i]) <=> m = k
  <2>1. lines[m].event = events[Nth(F, m)] /\ Nth(F, m) \in F /\ Nth(F, k) \in F
    BY <1>2, <1>10
  <2> QED BY <1>2, <1>5, <1>11, <2>1
<1>13. ASSUME NEW m \in 1..C, Key(lines[m].event) = Key(events[i])
       PROVE  lines[m].times = Cardinality({j \in DOMAIN events : Key(events[j]) = Key(events[i])})
  <2>1. Repeats(first[m], events) = {j \in DOMAIN events : Key(events[j]) = Key(events[i])}
    BY <1>10, <1>13 DEF Repeats
  <2> QED BY <1>10, <2>1 DEF Times
<1> QED BY <1>6, <1>9, <1>12, <1>13 DEF lines

\* In one text, a line that is alone is the subject, and stands again in the body
\* when it is one of several; what is not alone stays as it is.
LEMMA FlatLinesAre ==
    ASSUME NEW lines \in Seq(DigestLine)
    PROVE  \/ FlatLines(lines) = lines
           \/ /\ Len(lines) = 1 /\ lines[1].event.long
              /\ FlatLines(lines) = <<lines[1], lines[1]>>
<1> DEFINE body == {k \in DOMAIN lines : lines[k].event.long \/ Subject(lines) # <<lines[k]>>}
           L == Selection(lines, body)
<1>1. Len(lines) \in Nat /\ DOMAIN lines = 1..Len(lines) /\ body \in SUBSET (DOMAIN lines)
  BY LenProperties
<1>2. FlatLines(lines) = Subject(lines) \o L
  BY DEF FlatLines
<1>3. CASE Len(lines) # 1
  <2>1. Subject(lines) = <<>>
    BY <1>3 DEF Subject
  <2>2. \A k \in DOMAIN lines : Subject(lines) # <<lines[k]>>
    BY <2>1
  <2>3. body = DOMAIN lines
    BY <2>2
  <2>4. L = lines
    BY <2>3, AllSelected
  <2> HIDE DEF L
  <2> QED BY <1>2, <2>1, <2>4, ConcatEmptySeq
<1>4. CASE Len(lines) = 1
  <2>1. Subject(lines) = lines /\ lines = <<lines[1]>> /\ lines[1] \in DigestLine
    BY <1>1, <1>4, ElementOfSeq, LenProperties DEF Subject
  <2>2. DOMAIN lines = {1}
    BY <1>1, <1>4
  <2>3. CASE lines[1].event.long
    <3>1. body = DOMAIN lines
      BY <2>2, <2>3
    <3>2. L = lines
      BY <3>1, AllSelected
    <3> HIDE DEF L
    <3>3. FlatLines(lines) = <<lines[1]>> \o <<lines[1]>>
      BY <1>2, <2>1, <3>2
    <3>4. ASSUME NEW x \in DigestLine PROVE <<x>> \o <<x>> = <<x, x>>
      <4>1. <<x>> \in Seq(DigestLine) /\ Len(<<x>>) = 1 /\ <<x>>[1] = x
        OBVIOUS
      <4>2. /\ <<x>> \o <<x>> \in Seq(DigestLine) /\ Len(<<x>> \o <<x>>) = 2
            /\ \A i \in 1..2 : (<<x>> \o <<x>>)[i] = x
        BY <4>1, ConcatProperties
      <4>3. /\ <<x, x>> \in Seq(DigestLine) /\ Len(<<x, x>>) = 2
            /\ \A i \in 1..2 : <<x, x>>[i] = x
        OBVIOUS
      <4> QED BY <4>2, <4>3, SeqEqual
    <3>5. FlatLines(lines) = <<lines[1], lines[1]>>
      BY <2>1, <3>3, <3>4
    <3> QED BY <1>4, <2>3, <3>5
  <2>4. CASE ~lines[1].event.long
    <3>1. body = {}
      BY <2>1, <2>2, <2>4
    <3>2. Len(L) = 0 /\ L \in Seq(DigestLine)
      <4> HIDE DEF body
      <4> QED BY <1>1, <3>1, SelectionIs, FS_EmptySet
    <3> HIDE DEF L
    <3>3. L = <<>>
      BY <3>2, EmptySeq
    <3> QED BY <1>2, <2>1, <3>3, ConcatEmptySeq
  <2> QED BY <2>3, <2>4
<1> QED BY <1>3, <1>4
\* What is sent is told of what was wanted.
DigestInv ==
    /\ DigestTypeOK
    /\ dgMine \in [Backends -> Seq(Events)]
    /\ dgSent = [b \in Backends |-> IF b \in Flat THEN FlatLines(Rendered(dgMine[b]))
                                    ELSE Rendered(dgMine[b])]

LEMMA NothingToTell == Rendered(<<>>) = <<>> /\ FlatLines(<<>>) = <<>>
<1>1. \A S : <<>> \in Seq(S) /\ DOMAIN <<>> = {} /\ Len(<<>>) = 0
  BY EmptySeq, LenProperties
<1>2. \A S : S \in SUBSET {} => S = {}
  OBVIOUS
<1>3. \A S : S \in SUBSET (DOMAIN <<>>) => Selection(<<>>, S) = <<>>
  <2> TAKE S
  <2> HAVE S \in SUBSET (DOMAIN <<>>)
  <2>1. S = {}
    BY <1>1
  <2>2. Selection(<<>>, S) \in Seq(Events) /\ Len(Selection(<<>>, S)) = 0
    BY <1>1, <2>1, SelectionIs, FS_EmptySet
  <2> QED BY <2>2, EmptySeq
<1>4. Rendered(<<>>) = <<>>
  <2>1. Firsts(<<>>) \in SUBSET (DOMAIN <<>>)
    BY DEF Firsts
  <2>2. Selection(<<>>, Firsts(<<>>)) = <<>>
    BY <1>3, <2>1
  <2>3. Rendered(<<>>) = [k \in {} |-> [event |-> <<>>[k], times |-> Times(<<>>[k], <<>>)]]
    BY <1>1, <2>2 DEF Rendered
  <2> QED BY <2>3
<1>5. FlatLines(<<>>) = <<>>
  <2>1. Subject(<<>>) = <<>>
    BY <1>1 DEF Subject
  <2>2. FlatLines(<<>>) = <<>> \o <<>>
    BY <1>3, <2>1 DEF FlatLines
  <2> QED BY <1>1, <2>2, ConcatEmptySeq
<1> QED BY <1>4, <1>5

LEMMA QuietKeeps ==
    Quiet => /\ dgMine' \in [Backends -> Seq(Events)]
             /\ dgSent' = [b \in Backends |-> IF b \in Flat THEN FlatLines(Rendered(dgMine'[b]))
                                               ELSE Rendered(dgMine'[b])]
<1> SUFFICES ASSUME Quiet
             PROVE  /\ dgMine' \in [Backends -> Seq(Events)]
                    /\ dgSent' = [b \in Backends |-> IF b \in Flat THEN FlatLines(Rendered(dgMine'[b]))
                                                      ELSE Rendered(dgMine'[b])]
  OBVIOUS
<1>1. dgMine' = [b \in Backends |-> <<>>] /\ dgSent' = [b \in Backends |-> <<>>]
  BY DEF Quiet, Silence
<1> QED BY <1>1, NothingToTell, EmptySeq

LEMMA DeliverTypes ==
    ASSUME NEW events \in Seq(Events), Deliver(events)
    PROVE  /\ dgMine' \in [Backends -> Seq(Events)]
           /\ dgSent' = [b \in Backends |-> IF b \in Flat THEN FlatLines(Rendered(dgMine'[b]))
                                             ELSE Rendered(dgMine'[b])]
<1>1. \A b : WantedBy(events, b) \in Seq(Events)
  <2> TAKE b
  <2>1. {i \in DOMAIN events : EnabledBy(events[i], b)} \in SUBSET (DOMAIN events)
    OBVIOUS
  <2> QED BY <2>1, SelectionIs DEF WantedBy
<1>2. \A b \in Backends : (IF b \in dgTargets THEN WantedBy(events, b) ELSE <<>>) \in Seq(Events)
  BY <1>1, EmptySeq
<1> QED BY <1>2 DEF Deliver

LEMMA DigestInvInit == DigestInit => DigestInv
<1> SUFFICES ASSUME DigestInit PROVE DigestInv
  OBVIOUS
<1>1. dgMine = [b \in Backends |-> <<>>] /\ dgSent = [b \in Backends |-> <<>>]
  BY DEF DigestInit, Silence
<1>2. dgMine \in [Backends -> Seq(Events)]
  BY <1>1, EmptySeq
<1>3. dgTargets \subseteq Backends /\ dgGlobal \subseteq Switches
  BY DEF DigestInit, Built, Backends
<1>4. dgBuffer \in Seq(Events) /\ Len(dgBuffer) <= MaxBuffer
  BY DigestAssumption, EmptySeq DEF DigestInit
<1> QED BY <1>1, <1>2, <1>3, <1>4, NothingToTell DEF DigestInv, DigestTypeOK

LEMMA DigestInvStep == DigestInv /\ [DigestNext]_dgVars => DigestInv'
<1> SUFFICES ASSUME DigestInv, [DigestNext]_dgVars PROVE DigestInv'
  OBVIOUS
<1> DEFINE Sent == /\ dgMine' \in [Backends -> Seq(Events)]
                   /\ dgSent' = [b \in Backends |-> IF b \in Flat THEN FlatLines(Rendered(dgMine'[b]))
                                                     ELSE Rendered(dgMine'[b])]
           Buffered == dgBuffer' \in Seq(Events) /\ Len(dgBuffer') <= MaxBuffer
           Switched == dgTargets' \subseteq Backends /\ dgGlobal' \subseteq Switches
<1> SUFFICES Sent /\ Buffered /\ Switched
  BY DEF DigestInv, DigestTypeOK
<1>1. /\ dgTargets \subseteq Backends /\ dgGlobal \subseteq Switches
      /\ dgBuffer \in Seq(Events) /\ Len(dgBuffer) <= MaxBuffer /\ MaxBuffer \in Nat
      /\ <<>> \in Seq(Events) /\ Len(<<>>) <= MaxBuffer
  BY DigestAssumption, EmptySeq DEF DigestInv, DigestTypeOK
<1>2. UNCHANGED dgConfig => Switched
  BY <1>1 DEF dgConfig
<1>3. ASSUME NEW e \in Events, Happen(e) PROVE Sent /\ Buffered /\ Switched
  <2>1. Switched /\ Len(dgBuffer) < MaxBuffer
    BY <1>2, <1>3 DEF Happen
  <2>2. CASE Quiet /\ UNCHANGED dgBuffer
    BY <1>1, <2>1, <2>2, QuietKeeps
  <2>3. CASE Deliver(<<e>>) /\ UNCHANGED dgBuffer
    <3>1. <<e>> \in Seq(Events)
      OBVIOUS
    <3> QED BY <1>1, <2>1, <2>3, <3>1, DeliverTypes
  <2>4. CASE Quiet /\ dgBuffer' = Append(dgBuffer, e)
    <3>1. Append(dgBuffer, e) \in Seq(Events) /\ Len(Append(dgBuffer, e)) = Len(dgBuffer) + 1
      BY <1>1, AppendProperties
    <3>2. Len(dgBuffer) \in Nat
      BY <1>1, LenProperties
    <3>3. Buffered
      BY <1>1, <2>1, <2>4, <3>1, <3>2
    <3> QED BY <2>1, <2>4, <3>3, QuietKeeps
  <2> QED BY <1>3, <2>2, <2>3, <2>4 DEF Happen
<1>4. CASE FlushDigest
  <2>1. Deliver(dgBuffer) /\ dgBuffer' = <<>> /\ UNCHANGED dgConfig
    BY <1>4 DEF FlushDigest
  <2> QED BY <1>1, <1>2, <2>1, DeliverTypes
<1>5. ASSUME NEW switch \in {"added", "failure"}, ThrowSwitch(switch) PROVE Sent /\ Buffered /\ Switched
  <2>1. Quiet /\ UNCHANGED <<dgTargets, dgBuffer>>
    BY <1>5 DEF ThrowSwitch
  <2>2. dgGlobal' \subseteq Switches
    BY <1>1, <1>5 DEF ThrowSwitch, Switches
  <2> QED BY <1>1, <2>1, <2>2, QuietKeeps
<1>6. CASE RestartDigest
  <2>1. Quiet /\ dgBuffer' = <<>> /\ UNCHANGED dgConfig
    BY <1>6 DEF RestartDigest
  <2> QED BY <1>1, <1>2, <2>1, QuietKeeps
<1>7. CASE UNCHANGED dgVars
  <2>1. UNCHANGED <<dgConfig, dgBuffer, dgMine, dgSent>>
    BY <1>7 DEF dgVars
  <2>2. Sent
    BY <2>1 DEF DigestInv
  <2> QED BY <1>1, <1>2, <2>1, <2>2
<1> QED BY <1>3, <1>4, <1>5, <1>6, <1>7 DEF DigestNext, Telling

LEMMA DigestInvTells == DigestInv => DigestTellsAll
<1> SUFFICES ASSUME DigestInv, NEW b \in Backends, NEW i \in DOMAIN dgMine[b]
             PROVE  LET e    == dgMine[b][i]
                        hers == {j \in DOMAIN dgMine[b] : Key(dgMine[b][j]) = Key(e)}
                    IN  /\ \/ Len(LinesOf(e, b)) = 1
                           \/ /\ Len(LinesOf(e, b)) = 2 /\ b \in Flat
                              /\ LinesOf(e, b)[1].event.long /\ hers = DOMAIN dgMine[b]
                        /\ \A k \in DOMAIN LinesOf(e, b) : LinesOf(e, b)[k].times = Cardinality(hers)
  BY DEF DigestTellsAll
<1> DEFINE mine  == dgMine[b]
           e     == mine[i]
           lines == Rendered(mine)
           sent  == dgSent[b]
           hers  == {j \in DOMAIN mine : Key(mine[j]) = Key(e)}
           named == {k \in DOMAIN sent : Key(sent[k].event) = Key(e)}
           own   == LinesOf(e, b)
<1>1. mine \in Seq(Events)
  BY DEF DigestInv
<1>2. sent = IF b \in Flat THEN FlatLines(lines) ELSE lines
  BY DEF DigestInv
<1> HIDE DEF lines
<1>3. /\ lines \in Seq(DigestLine)
      /\ \E k \in DOMAIN lines : \A m \in DOMAIN lines : Key(lines[m].event) = Key(e) <=> m = k
      /\ \A m \in DOMAIN lines : Key(lines[m].event) = Key(e) => lines[m].times = Cardinality(hers)
  BY <1>1, OneLineEach DEF lines
<1>4. own = Selection(sent, named) /\ named \in SUBSET (DOMAIN sent)
  BY DEF LinesOf
<1>5. DOMAIN lines = 1..Len(lines) /\ Len(lines) \in Nat /\ \A m \in DOMAIN lines : lines[m] \in DigestLine
  BY <1>3, LenProperties, ElementOfSeq
<1>6. PICK k \in DOMAIN lines : \A m \in DOMAIN lines : Key(lines[m].event) = Key(e) <=> m = k
  BY <1>3
<1>7. lines[k].times = Cardinality(hers) /\ Key(lines[k].event) = Key(e)
  BY <1>3, <1>6
<1>8. CASE sent = lines
  <2>1. named = {k}
    BY <1>6, <1>8
  <2>2. Cardinality(named) = 1
    BY <2>1, FS_Singleton
  <2> HIDE DEF named, own, sent
  <2>a. /\ Len(own) = Cardinality(named) /\ DOMAIN own = 1..Cardinality(named)
        /\ \A m \in 1..Cardinality(named) : Nth(named, m) \in named /\ own[m] = sent[Nth(named, m)]
    BY <1>3, <1>4, <1>8, SelectionIs
  <2>3. Len(own) = 1 /\ DOMAIN own = 1..1 /\ \A m \in 1..1 : own[m] = lines[k]
    BY <1>8, <2>1, <2>2, <2>a
  <2>4. \A m \in DOMAIN own : own[m].times = Cardinality(hers)
    BY <1>7, <2>3
  <2> QED BY <2>3, <2>4 DEF own
<1>9. CASE /\ b \in Flat /\ Len(lines) = 1 /\ lines[1].event.long
           /\ sent = <<lines[1], lines[1]>>
  <2>1. k = 1 /\ DOMAIN lines = {1}
    BY <1>5, <1>9
  <2>2. DOMAIN sent = {1, 2} /\ sent[1] = lines[1] /\ sent[2] = lines[1] /\ sent \in Seq(DigestLine)
    BY <1>5, <1>9, <2>1
  <2>3. named = {1, 2}
    BY <1>7, <2>1, <2>2
  <2>4. named = DOMAIN sent
    BY <2>2, <2>3
  <2>5. own = sent
    BY <1>4, <2>2, <2>4, AllSelected
  <2>6. hers = DOMAIN mine
    <3>1. ASSUME NEW j \in DOMAIN mine PROVE Key(mine[j]) = Key(e)
      <4>1. PICK m \in DOMAIN lines : Key(lines[m].event) = Key(mine[j])
        BY <1>1, <3>1, OneLineEach DEF lines
      <4> QED BY <1>7, <2>1, <4>1
    <3> QED BY <3>1
  <2> HIDE DEF own, hers
  <2>7. Len(own) = 2 /\ own[1].event.long
    BY <1>9, <2>2, <2>5
  <2>8. \A m \in DOMAIN own : own[m].times = Cardinality(hers)
    BY <1>7, <2>1, <2>2, <2>5
  <2> QED BY <1>9, <2>6, <2>7, <2>8 DEF own, hers
<1> HIDE DEF named, own, mine, sent
<1>10. sent = lines \/ (b \in Flat /\ Len(lines) = 1 /\ lines[1].event.long /\ sent = <<lines[1], lines[1]>>)
  BY <1>2, <1>3, FlatLinesAre
<1> QED BY <1>8, <1>9, <1>10

\* Every variable of Digest stays in its type: at most so many events wait.
THEOREM DigestTypeCorrect == DigestSpec => []DigestTypeOK
<1>1. DigestInv => DigestTypeOK
  BY DEF DigestInv
<1> QED BY <1>1, DigestInvInit, DigestInvStep, PTL DEF DigestSpec

\* A digest is complete and told once, whatever happened and whoever wants it.
THEOREM DigestCorrect == DigestSpec => []DigestTellsAll
BY DigestInvInit, DigestInvStep, DigestInvTells, PTL DEF DigestSpec
=============================================================================
