------------------------------ MODULE FoldFacts ------------------------------
(***************************************************************************)
(* Facts about operators of the community modules that are defined by      *)
(* recursion on the numbers or on finite sets, and about sequences that    *)
(* are put together from others.                                           *)
(***************************************************************************)
EXTENDS Integers, SequencesExt, FiniteSetTheorems, SequenceTheorems, WellFoundedInduction, TLAPS

-----------------------------------------------------------------------------
\* Induction, stated about a set of numbers instead of a predicate.

\* The order of the numbers.
Below == {p \in Nat \X Nat : p[1] < p[2]}

\* The order of the numbers is well-founded.
LEMMA BelowFounded == IsWellFoundedOn(Below, Nat)
<1>1. Below = OpToRel(<, Nat)
    BY DEF Below, OpToRel
<1>. QED
    BY <1>1, NatLessThanWellFounded

\* A set that holds 0 and with each number the next one holds all numbers.
LEMMA SetInduction ==
    ASSUME NEW S, 0 \in S, \A n \in Nat : n \in S => n + 1 \in S
    PROVE  Nat \subseteq S
<1>. SUFFICES ASSUME Nat \ S # {} PROVE FALSE
    OBVIOUS
<1>1. PICK x \in Nat \ S : \A y \in Nat \ S : ~ (<<y, x>> \in Below)
    BY BelowFounded, WFMin
<1>2. x # 0 /\ x - 1 \in Nat
    BY <1>1
<1>3. x - 1 \in S
  <2>1. x - 1 < x
      BY <1>1, <1>2
  <2>2. <<x - 1, x>> \in Below
      BY <1>1, <1>2, <2>1 DEF Below
  <2>. QED
      BY <1>1, <1>2, <2>2
<1>. QED
    BY <1>1, <1>2, <1>3

-----------------------------------------------------------------------------
\* Recursion.

\* f begins with b and goes on as h says.
Chain(f, V, b, n, h) == f \in [0..n -> V] /\ f[0] = b /\ \A i \in 1..n : f[i] = h[i][f[i - 1]]

\* A function of the numbers up to n can be defined by recursion.
LEMMA NumberRecursion ==
    ASSUME NEW V, NEW b \in V, NEW n \in Nat, NEW h, h \in [1..n -> [V -> V]]
    PROVE  \E f : Chain(f, V, b, n, h)
<1>. DEFINE Fits(f, m) == f[0] = b /\ \A i \in 1..m : f[i] = h[i][f[i - 1]]
            S == {m \in Nat : m <= n => \E f \in [0..m -> V] : Fits(f, m)}
<1>1. 0 \in S
  <2>. DEFINE f == [i \in 0..0 |-> b]
  <2>1. f \in [0..0 -> V] /\ Fits(f, 0)
      OBVIOUS
  <2>. QED
      BY <2>1
<1>2. ASSUME NEW m \in Nat, m \in S PROVE m + 1 \in S
  <2>. SUFFICES ASSUME m + 1 <= n PROVE \E f \in [0..m + 1 -> V] : Fits(f, m + 1)
      OBVIOUS
  <2>1. PICK f \in [0..m -> V] : Fits(f, m)
      BY <1>2
  <2>. DEFINE g == [i \in 0..m + 1 |-> IF i = m + 1 THEN h[m + 1][f[m]] ELSE f[i]]
  <2>2. m + 1 \in 1..n /\ m \in 0..m /\ f[m] \in V /\ h[m + 1] \in [V -> V]
      OBVIOUS
  <2>3. h[m + 1][f[m]] \in V
      BY <2>2
  <2>4. g \in [0..m + 1 -> V]
      BY <2>3
  <2>5. g[0] = b
      BY <2>1
  <2>6. ASSUME NEW i \in 1..m + 1 PROVE g[i] = h[i][g[i - 1]]
    <3>1. i \in 0..m + 1 /\ i - 1 \in 0..m /\ i - 1 # m + 1 /\ i - 1 \in 0..m + 1
        OBVIOUS
    <3>2. g[i - 1] = f[i - 1]
        BY <3>1
    <3>3. CASE i = m + 1
        BY <3>1, <3>2, <3>3
    <3>4. CASE i # m + 1
      <4>1. i \in 1..m /\ g[i] = f[i]
          BY <3>1, <3>4
      <4>. QED
          BY <2>1, <3>2, <4>1
    <3>. QED
        BY <3>3, <3>4
  <2>. QED
      BY <2>4, <2>5, <2>6
<1>3. Nat \subseteq S
  <2>. HIDE DEF S
  <2>. QED
      BY <1>1, <1>2, SetInduction
<1>. QED
    BY <1>3 DEF Chain

\* f makes b of the empty set, and of another what h makes of what is left without one element.
Unfolds(f, S, V, b, h, c) ==
    /\ f \in [SUBSET S -> V]
    /\ \A s \in SUBSET S : f[s] = IF s = {} THEN b ELSE h[c[s]][f[s \ {c[s]}]]

\* A function of the subsets of a finite set can be defined by recursion on what is left when one
\* element is taken out.
LEMMA SubsetRecursion ==
    ASSUME NEW S, IsFiniteSet(S), NEW V, NEW b \in V, NEW h, h \in [S -> [V -> V]],
           NEW c, \A s \in SUBSET S : s # {} => c[s] \in s
    PROVE  \E f : Unfolds(f, S, V, b, h, c)
<1>. DEFINE Small(m) == {s \in SUBSET S : Cardinality(s) <= m}
            Fits(f, m) == \A s \in Small(m) : f[s] = IF s = {} THEN b ELSE h[c[s]][f[s \ {c[s]}]]
            N == {m \in Nat : \E f \in [Small(m) -> V] : Fits(f, m)}
<1>1. ASSUME NEW s \in SUBSET S PROVE IsFiniteSet(s) /\ Cardinality(s) \in Nat
    BY FS_Subset, FS_CardinalityType
<1>2. ASSUME NEW s \in SUBSET S, s # {}
      PROVE  s \ {c[s]} \in SUBSET S /\ Cardinality(s \ {c[s]}) = Cardinality(s) - 1
    BY <1>1, <1>2, FS_RemoveElement
<1>3. 0 \in N
  <2>. DEFINE f == [s \in Small(0) |-> b]
  <2>1. ASSUME NEW s \in Small(0) PROVE s = {}
      BY <1>1, FS_EmptySet
  <2>2. f \in [Small(0) -> V] /\ Fits(f, 0)
      BY <2>1
  <2>. QED
      BY <2>2
<1>4. ASSUME NEW m \in Nat, m \in N PROVE m + 1 \in N
  <2>1. PICK f \in [Small(m) -> V] : Fits(f, m)
      BY <1>4
  <2>. DEFINE g == [s \in Small(m + 1) |-> IF s = {} THEN b ELSE h[c[s]][f[s \ {c[s]}]]]
  <2>2. ASSUME NEW s \in Small(m + 1), s # {}
        PROVE  c[s] \in S /\ s \ {c[s]} \in Small(m) /\ h[c[s]][f[s \ {c[s]}]] \in V
    <3>1. c[s] \in S
        BY <2>2
    <3>2. s \ {c[s]} \in Small(m)
        BY <1>1, <1>2, <2>2
    <3>3. f[s \ {c[s]}] \in V /\ h[c[s]] \in [V -> V]
        BY <3>1, <3>2
    <3>. QED
        BY <3>1, <3>2, <3>3
  <2>3. g \in [Small(m + 1) -> V]
      BY <2>2
  <2>4. ASSUME NEW s \in Small(m) PROVE s \in Small(m + 1) /\ g[s] = f[s]
    <3>1. s \in Small(m + 1)
        BY <1>1
    <3>. QED
        BY <2>1, <3>1
  <2>5. ASSUME NEW s \in Small(m + 1) PROVE g[s] = IF s = {} THEN b ELSE h[c[s]][g[s \ {c[s]}]]
    <3>1. g[s] = IF s = {} THEN b ELSE h[c[s]][f[s \ {c[s]}]]
        OBVIOUS
    <3>2. s # {} => g[s \ {c[s]}] = f[s \ {c[s]}]
        BY <2>2, <2>4
    <3>. QED
        BY <3>1, <3>2
  <2>6. Fits(g, m + 1)
      BY <2>5
  <2>. HIDE DEF g, Small, Fits
  <2>. QED
      BY <2>3, <2>6
<1>5. Nat \subseteq N
  <2>. HIDE DEF N
  <2>. QED
      BY <1>3, <1>4, SetInduction
<1>6. Cardinality(S) \in Nat
    BY FS_CardinalityType
<1>7. Small(Cardinality(S)) = SUBSET S
    BY <1>1, FS_Subset
<1>8. \E f \in [Small(Cardinality(S)) -> V] : Fits(f, Cardinality(S))
  <2>. HIDE DEF Small, Fits
  <2>. QED
      BY <1>5, <1>6
<1>9. PICK f \in [SUBSET S -> V] : Fits(f, Cardinality(S))
  <2>. HIDE DEF Small, Fits
  <2>. QED
      BY <1>7, <1>8
<1>10. f \in [SUBSET S -> V] /\ \A s \in SUBSET S : f[s] = IF s = {} THEN b ELSE h[c[s]][f[s \ {c[s]}]]
    BY <1>7, <1>9
<1>. QED
    BY <1>10 DEF Unfolds

\* What holds of the empty set, and of a set when it holds of what is left of it, holds of all.
LEMMA SubsetInduction ==
    ASSUME NEW S, IsFiniteSet(S), NEW c, \A s \in SUBSET S : s # {} => c[s] \in s,
           NEW P, {} \in P, \A s \in SUBSET S : s # {} /\ s \ {c[s]} \in P => s \in P
    PROVE  SUBSET S \subseteq P
<1>. DEFINE N == {m \in Nat : \A s \in SUBSET S : Cardinality(s) <= m => s \in P}
<1>1. ASSUME NEW s \in SUBSET S PROVE IsFiniteSet(s) /\ Cardinality(s) \in Nat
    BY FS_Subset, FS_CardinalityType
<1>2. 0 \in N
  <2>1. ASSUME NEW s \in SUBSET S, Cardinality(s) <= 0 PROVE s \in P
    <3>1. Cardinality(s) = 0
        BY <1>1, <2>1
    <3>2. s = {}
        BY <1>1, <3>1, FS_EmptySet
    <3>. QED
        BY <3>2
  <2>. QED
      BY <2>1
<1>3. ASSUME NEW m \in Nat, m \in N PROVE m + 1 \in N
  <2>. SUFFICES ASSUME NEW s \in SUBSET S, Cardinality(s) <= m + 1, s # {} PROVE s \in P
      OBVIOUS
  <2>1. c[s] \in s /\ s \ {c[s]} \in SUBSET S
      OBVIOUS
  <2>2. Cardinality(s \ {c[s]}) = Cardinality(s) - 1
      BY <1>1, <2>1, FS_RemoveElement
  <2>3. Cardinality(s \ {c[s]}) <= m
      BY <1>1, <2>2
  <2>4. s \ {c[s]} \in P
      BY <1>3, <2>1, <2>3
  <2>. QED
      BY <2>4
<1>4. Nat \subseteq N
  <2>. HIDE DEF N
  <2>. QED
      BY <1>2, <1>3, SetInduction
<1>5. ASSUME NEW s \in SUBSET S PROVE s \in P
  <2>1. Cardinality(s) \in N /\ Cardinality(s) <= Cardinality(s)
      BY <1>1, <1>4
  <2>. QED
      BY <2>1
<1>. QED
    BY <1>5

\* A set of numbers up to n has a largest one.
LEMMA LargestNumber ==
    ASSUME NEW n \in Nat, NEW s \in SUBSET (1..n), s # {}
    PROVE  Max(s) \in s /\ \A x \in s : Max(s) >= x
<1>. DEFINE D == {d \in Nat : n - d \in s}
<1>1. PICK x \in s : TRUE
    OBVIOUS
<1>2. n - x \in D
  <2>1. n - x \in Nat /\ n - (n - x) = x
      BY <1>1
  <2>. QED
      BY <1>1, <2>1
<1>3. PICK d \in D : \A e \in D : ~ (<<e, d>> \in Below)
  <2>1. D \in SUBSET Nat /\ D # {}
      BY <1>2
  <2>. HIDE DEF D
  <2>. QED
      BY <2>1, BelowFounded, WFMin
<1>4. n - d \in s /\ d \in Nat
    BY <1>3
<1>5. ASSUME NEW y \in s PROVE n - d >= y
  <2>1. n - y \in Nat /\ n - (n - y) = y
      OBVIOUS
  <2>2. n - y \in D
      BY <2>1
  <2>3. ~ (n - y < d)
      BY <1>3, <1>4, <2>1, <2>2 DEF Below
  <2>. QED
      BY <1>4, <2>1, <2>3
<1>. QED
    BY <1>4, <1>5 DEF Max

\* The largest of the first numbers is the last of them.
LEMMA LargestOfFirst ==
    ASSUME NEW n \in Nat
    PROVE  Max(1..n + 1) = n + 1
<1>. DEFINE m == n + 1
            s == 1..m
<1>1. m \in Nat /\ s \in SUBSET (1..m) /\ s # {} /\ m \in s
    OBVIOUS
<1>2. \A x \in s : x \in Int /\ x <= m
    OBVIOUS
<1>. HIDE DEF m, s
<1>3. Max(s) \in s /\ \A x \in s : Max(s) >= x
    BY <1>1, LargestNumber
<1>4. Max(s) \in Int /\ Max(s) <= m /\ Max(s) >= m
    BY <1>1, <1>2, <1>3
<1>5. Max(s) = m
    BY <1>1, <1>4
<1>. QED
    BY <1>5 DEF m, s

-----------------------------------------------------------------------------
\* Sequences put together from others.

\* What FlattenSeq puts together of the first sequences, of the first two, and so on.
LEMMA FlattenSteps ==
    ASSUME NEW S, NEW seqs \in Seq(Seq(S))
    PROVE  \E f \in [0..Len(seqs) -> Seq(S)] :
              /\ f[0] = <<>>
              /\ \A i \in 1..Len(seqs) : f[i] = f[i - 1] \o seqs[i]
              /\ FlattenSeq(seqs) = f[Len(seqs)]
<1>. DEFINE n == Len(seqs)
            h == [i \in 1..n |-> [s \in Seq(S) |-> s \o seqs[i]]]
<1>1. n \in Nat /\ \A i \in 1..n : seqs[i] \in Seq(S)
    OBVIOUS
<1>2. h \in [1..n -> [Seq(S) -> Seq(S)]]
    BY <1>1
<1>3. <<>> \in Seq(S)
    OBVIOUS
<1>. HIDE DEF n, h
<1>4. PICK f \in [0..n -> Seq(S)] : f[0] = <<>> /\ \A i \in 1..n : f[i] = h[i][f[i - 1]]
  <2>. DEFINE V == Seq(S)
              b == <<>>
  <2>1. n \in Nat
      BY <1>1
  <2>2. h \in [1..n -> [V -> V]]
      BY <1>2
  <2>3. b \in V
      BY <1>3
  <2>. HIDE DEF V, b
  <2>4. \E f : Chain(f, V, b, n, h)
      BY <2>1, <2>2, <2>3, NumberRecursion, Zenon
  <2>. QED
      BY <2>4 DEF V, b, Chain
<1>5. ASSUME NEW i \in 1..n PROVE f[i] = f[i - 1] \o seqs[i]
  <2>1. i - 1 \in 0..n
      BY <1>1
  <2>2. f[i - 1] \in Seq(S)
      BY <1>4, <2>1
  <2>3. h[i][f[i - 1]] = f[i - 1] \o seqs[i]
      BY <2>2 DEF h
  <2>. QED
      BY <1>4, <2>3
<1>6. FlattenSeq(seqs) = f[n]
  <2>1. CASE n = 0
    <3>1. seqs = <<>>
        BY <2>1 DEF n
    <3>. QED
        BY <1>4, <2>1, <3>1 DEF FlattenSeq, n
  <2>2. CASE n # 0
    <3>. DEFINE Flat(g) == g = [i \in 1..n |-> IF i = 1 THEN seqs[i] ELSE g[i - 1] \o seqs[i]]
                g0 == [i \in 1..n |-> f[i]]
                flatten == CHOOSE g : Flat(g)
    <3>1. ASSUME NEW i \in 1..n PROVE g0[i] = IF i = 1 THEN seqs[i] ELSE g0[i - 1] \o seqs[i]
      <4>1. i = 1 => f[i] = seqs[i]
        <5>1. \A s \in Seq(S) : <<>> \o s = s
            OBVIOUS
        <5>2. seqs[i] \in Seq(S)
            BY <1>1
        <5>3. f[i] = f[i - 1] \o seqs[i]
            BY <1>5
        <5>4. i = 1 => i - 1 = 0
            OBVIOUS
        <5>. QED
            BY <1>4, <5>1, <5>2, <5>3, <5>4
      <4>2. i # 1 => i - 1 \in 1..n
          BY <1>1
      <4>. QED
          BY <1>5, <4>1, <4>2
    <3>2. Flat(g0)
        BY <3>1
    <3>3. Flat(flatten)
      <4>. HIDE DEF Flat, g0
      <4>. QED
          BY <3>2
    <3>4. FlattenSeq(seqs) = flatten[n]
        BY <2>2 DEF FlattenSeq, n
    <3>. DEFINE T == {i \in Nat : i + 1 <= n => flatten[i + 1] = f[i + 1]}
    <3>5. 0 \in T
      <4>1. 1 \in 1..n
          BY <1>1, <2>2
      <4>2. flatten[1] = seqs[1]
          BY <3>3, <4>1
      <4>3. f[1] = seqs[1]
          BY <3>1, <4>1
      <4>. QED
          BY <4>2, <4>3
    <3>6. ASSUME NEW i \in Nat, i \in T PROVE i + 1 \in T
      <4>. SUFFICES ASSUME i + 2 <= n PROVE flatten[i + 2] = f[i + 2]
          BY <1>1
      <4>1. i + 2 \in 1..n /\ i + 2 # 1 /\ (i + 2) - 1 = i + 1 /\ i + 1 <= n
          BY <1>1
      <4>2. flatten[i + 2] = flatten[i + 1] \o seqs[i + 2]
        <5>1. flatten[i + 2] = flatten[(i + 2) - 1] \o seqs[i + 2]
            BY <3>3, <4>1
        <5>. QED
            BY <4>1, <5>1
      <4>3. f[i + 2] = f[i + 1] \o seqs[i + 2]
        <5>1. f[i + 2] = f[(i + 2) - 1] \o seqs[i + 2]
            BY <1>5, <4>1
        <5>. QED
            BY <4>1, <5>1
      <4>4. flatten[i + 1] = f[i + 1]
          BY <3>6, <4>1
      <4>. QED
          BY <4>2, <4>3, <4>4
    <3>7. Nat \subseteq T
      <4>. HIDE DEF T
      <4>. QED
          BY <3>5, <3>6, SetInduction
    <3>8. n - 1 \in Nat /\ n - 1 + 1 = n
        BY <1>1, <2>2
    <3>9. flatten[n] = f[n]
      <4>1. n - 1 + 1 <= n => flatten[n - 1 + 1] = f[n - 1 + 1]
          BY <3>7, <3>8
      <4>. QED
          BY <1>1, <3>8, <4>1
    <3>. QED
        BY <3>4, <3>9
  <2>. QED
      BY <2>1, <2>2
<1>. QED
    BY <1>4, <1>5, <1>6 DEF n

\* s is how t begins.
Begins(s, t) == Len(s) <= Len(t) /\ \A k \in 1..Len(s) : t[k] = s[k]

\* Of two sequences that are put together, the first is the beginning and the second the rest.
LEMMA Appended ==
    ASSUME NEW S, NEW s \in Seq(S), NEW t \in Seq(S)
    PROVE  /\ s \o t \in Seq(S) /\ Len(s \o t) = Len(s) + Len(t) /\ Begins(s, s \o t)
           /\ \A k \in 1..Len(t) : (s \o t)[Len(s) + k] = t[k]
    BY DEF Begins

\* What is put together of the first sequences is how what is put together of all of them begins.
LEMMA FlattenBegins ==
    ASSUME NEW S, NEW seqs \in Seq(Seq(S)), NEW f \in [0..Len(seqs) -> Seq(S)],
           \A i \in 1..Len(seqs) : f[i] = f[i - 1] \o seqs[i],
           NEW i \in 0..Len(seqs)
    PROVE  Begins(f[i], f[Len(seqs)])
<1>. DEFINE n == Len(seqs)
            T == {m \in Nat : i + m <= n => Begins(f[i], f[i + m])}
<1>1. n \in Nat /\ i \in Nat
    OBVIOUS
<1>2. 0 \in T
  <2>1. i + 0 = i /\ f[i] \in Seq(S)
      OBVIOUS
  <2>2. Len(f[i]) \in Nat
      BY <2>1
  <2>. QED
      BY <2>1, <2>2 DEF Begins
<1>3. ASSUME NEW m \in Nat, m \in T PROVE m + 1 \in T
  <2>. SUFFICES ASSUME i + (m + 1) <= n PROVE Begins(f[i], f[i + (m + 1)])
      OBVIOUS
  <2>1. i + (m + 1) \in 1..n /\ i + m \in 0..n /\ (i + (m + 1)) - 1 = i + m /\ i + m <= n
      BY <1>1
  <2>2. f[i + (m + 1)] = f[i + m] \o seqs[i + (m + 1)] /\ f[i + m] \in Seq(S) /\ seqs[i + (m + 1)] \in Seq(S)
    <3>1. f[i + (m + 1)] = f[(i + (m + 1)) - 1] \o seqs[i + (m + 1)]
        BY <2>1
    <3>2. f[i + m] \in Seq(S)
        BY <2>1
    <3>3. seqs[i + (m + 1)] \in Seq(S)
        BY <2>1
    <3>. QED
        BY <2>1, <3>1, <3>2, <3>3
  <2>3. Begins(f[i + m], f[i + (m + 1)])
      BY <2>2, Appended
  <2>4. Begins(f[i], f[i + m])
      BY <1>3, <2>1
  <2>5. Len(f[i]) \in Nat /\ Len(f[i + m]) \in Nat /\ Len(f[i + (m + 1)]) \in Nat
    <3>1. f[i] \in Seq(S)
        OBVIOUS
    <3>2. f[i + (m + 1)] \in Seq(S)
      <4>1. i + (m + 1) \in 0..n
          BY <1>1, <2>1
      <4>. QED
          BY <4>1
    <3>3. \A s \in Seq(S) : Len(s) \in Nat
        OBVIOUS
    <3>. QED
        BY <2>2, <3>1, <3>2, <3>3, Zenon
  <2>. QED
      BY <2>3, <2>4, <2>5 DEF Begins
<1>4. Nat \subseteq T
  <2>. HIDE DEF T
  <2>. QED
      BY <1>2, <1>3, SetInduction
<1>5. n - i \in Nat /\ i + (n - i) = n
    BY <1>1
<1>6. n - i \in T
    BY <1>4, <1>5
<1>. QED
    BY <1>5, <1>6
=============================================================================
