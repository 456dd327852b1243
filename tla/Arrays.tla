------------------------------ MODULE Arrays ------------------------------
(***************************************************************************)
(* Array.prototype.filter, and what proofs need to know about it, about    *)
(* loops and about Array.prototype.flat.                                   *)
(***************************************************************************)
EXTENDS Naturals, Sequences, FiniteSets, SequencesExt, SequenceTheorems, FiniteSetTheorems, TLAPS

\* The places of s with an element of T, up to place i.
PlacesOf(s, T) == {i \in DOMAIN s : s[i] \in T}
UpTo(P, i) == {j \in P : j <= i}

\* The elements of s that are in T, in the order they have in s.
Filter(s, T) ==
  LET P == PlacesOf(s, T)
  IN  [k \in 1..Cardinality(P) |-> s[CHOOSE i \in P : Cardinality(UpTo(P, i)) = k]]

\* The numbers of P, sorted.
Ascending(P) == [k \in 1..Cardinality(P) |-> CHOOSE n \in P : Cardinality(UpTo(P, n)) = k]

-----------------------------------------------------------------------------
\* For a finite set of numbers, how many are up to each one counts them in order.
LEMMA CountsUp ==
  ASSUME NEW P \in SUBSET Nat, IsFiniteSet(P), NEW count, count = [i \in P |-> Cardinality(UpTo(P, i))]
  PROVE  /\ Cardinality(P) \in Nat
         /\ count \in [P -> 1..Cardinality(P)]
         /\ \A i, j \in P : i < j <=> count[i] < count[j]
         /\ \A k \in 1..Cardinality(P) : \E i \in P : count[i] = k
<1> DEFINE n == Cardinality(P)
<1>1. n \in Nat
  BY FS_CardinalityType
<1>2. ASSUME NEW i \in P
      PROVE  /\ IsFiniteSet(UpTo(P, i)) /\ UpTo(P, i) \subseteq P /\ i \in UpTo(P, i)
             /\ count[i] = Cardinality(UpTo(P, i)) /\ count[i] \in Nat /\ count[i] <= n
  <2>1. UpTo(P, i) \subseteq P /\ i \in UpTo(P, i)
    BY DEF UpTo
  <2> QED
    BY <1>1, <2>1, FS_Subset, FS_CardinalityType
<1>3. ASSUME NEW i \in P PROVE count[i] \in 1..n
  <2>1. Cardinality(UpTo(P, i)) # 0
    BY <1>2, FS_EmptySet
  <2> QED
    BY <1>1, <1>2, <2>1
<1>4. ASSUME NEW i \in P, NEW j \in P, i < j PROVE count[i] < count[j]
  <2>1. UpTo(P, i) \subseteq UpTo(P, j) /\ j \in UpTo(P, j) /\ j \notin UpTo(P, i)
    <3>1. \A k \in P : k \in Nat
      OBVIOUS
    <3>2. \A k \in P : k <= i => k <= j
      BY <3>1, <1>4
    <3>3. j <= j /\ ~(j <= i)
      BY <3>1, <1>4
    <3> QED
      BY <3>2, <3>3 DEF UpTo
  <2>2. Cardinality(UpTo(P, i)) <= Cardinality(UpTo(P, j))
    BY <1>2, <2>1, FS_Subset
  <2>3. Cardinality(UpTo(P, i)) = Cardinality(UpTo(P, j)) => UpTo(P, i) = UpTo(P, j)
    BY <1>2, <2>1, FS_Subset
  <2> QED
    BY <1>2, <2>1, <2>2, <2>3
<1>5. ASSUME NEW i \in P, NEW j \in P PROVE i < j <=> count[i] < count[j]
  BY <1>2, <1>4
<1>6. count \in Injection(P, 1..n)
  <2>1. ASSUME NEW i \in P, NEW j \in P, count[i] = count[j] PROVE i = j
    BY <1>2, <1>4, <2>1
  <2> QED
    BY <1>3, <2>1 DEF Injection, IsInjective
<1>7. Cardinality(1..n) = n /\ IsFiniteSet(1..n)
  BY <1>1, FS_Interval
<1>8. count \in Surjection(P, 1..n)
  <2>1. Cardinality(P) = Cardinality(1..n) <=> count \in Surjection(P, 1..n)
    BY <1>6, <1>7, FS_Injection
  <2> QED
    BY <1>7, <2>1
<1> QED
  BY <1>1, <1>3, <1>5, <1>8 DEF Surjection

\* A finite set of numbers that is not empty has a least one and a greatest one.
LEMMA Extremes ==
  ASSUME NEW P \in SUBSET Nat, IsFiniteSet(P), P # {}
  PROVE  /\ \E m \in P : \A k \in P : m <= k
         /\ \E m \in P : \A k \in P : k <= m
<1>1. PICK count : count = [i \in P |-> Cardinality(UpTo(P, i))]
  OBVIOUS
<1>2. PICK n : n = Cardinality(P)
  OBVIOUS
<1>3. /\ n \in Nat /\ n # 0
      /\ count \in [P -> 1..n]
      /\ \A i, j \in P : i < j <=> count[i] < count[j]
      /\ \A k \in 1..n : \E i \in P : count[i] = k
  BY <1>1, <1>2, CountsUp, FS_EmptySet
<1>4. PICK least \in P, greatest \in P : count[least] = 1 /\ count[greatest] = n
  BY <1>3
<1>5. \A k \in P : ~(k < least) /\ ~(greatest < k)
  BY <1>3, <1>4
<1> QED
  BY <1>4, <1>5

\* filter() keeps elements of s that are in T, all of them, in their order: there are
\* places of s, one for each element that is kept, and they go up.
LEMMA FilterFacts ==
  ASSUME NEW S, NEW s \in Seq(S), NEW T
  PROVE  /\ Filter(s, T) \in Seq(S)
         /\ \E place \in [1..Len(Filter(s, T)) -> DOMAIN s] :
              /\ \A k \in 1..Len(Filter(s, T)) : Filter(s, T)[k] = s[place[k]] /\ s[place[k]] \in T
              /\ \A k, l \in 1..Len(Filter(s, T)) : k < l => place[k] < place[l]
              /\ \A i \in DOMAIN s : s[i] \in T => \E k \in 1..Len(Filter(s, T)) : place[k] = i
<1> DEFINE P == PlacesOf(s, T)
           n == Cardinality(P)
           count == [i \in P |-> Cardinality(UpTo(P, i))]
           at(k) == CHOOSE i \in P : Cardinality(UpTo(P, i)) = k
<1>1. DOMAIN s = 1..Len(s) /\ Len(s) \in Nat /\ \A i \in DOMAIN s : s[i] \in S
  OBVIOUS
<1>2. P \in SUBSET Nat /\ P \subseteq DOMAIN s /\ IsFiniteSet(P)
  <2>1. P \subseteq DOMAIN s
    BY DEF PlacesOf
  <2>2. IsFiniteSet(DOMAIN s)
    <3>1. 1 \in Int /\ Len(s) \in Int
      BY <1>1
    <3> QED
      BY <1>1, <3>1, FS_Interval
  <2>3. IsFiniteSet(P)
    BY <2>1, <2>2, FS_Subset
  <2> QED
    BY <1>1, <2>1, <2>3
<1>3. /\ n \in Nat /\ count \in [P -> 1..n]
      /\ \A i, j \in P : i < j <=> count[i] < count[j]
      /\ \A k \in 1..n : \E i \in P : count[i] = k
  BY <1>2, CountsUp
<1>4. \A k \in 1..n : at(k) \in P /\ count[at(k)] = k
  <2>1. ASSUME NEW k \in 1..n PROVE at(k) \in P /\ Cardinality(UpTo(P, at(k))) = k
    <3>1. \E i \in P : Cardinality(UpTo(P, i)) = k
      BY <1>3
    <3> QED
      BY <3>1
  <2> QED
    BY <2>1
<1>5. Filter(s, T) = [k \in 1..n |-> s[at(k)]]
  BY DEF Filter
<1> DEFINE place == [k \in 1..n |-> at(k)]
<1>6. /\ place \in [1..n -> P]
      /\ \A k \in 1..n : count[place[k]] = k
      /\ Filter(s, T) = [k \in 1..n |-> s[place[k]]]
  BY <1>4, <1>5
<1> HIDE DEF P, n, count, at, place
<1>7. Filter(s, T) \in Seq(S) /\ Len(Filter(s, T)) = n
  <2>1. \A k \in 1..n : s[place[k]] \in S
    BY <1>1, <1>2, <1>6
  <2>2. Filter(s, T) \in [1..n -> S]
    BY <1>6, <2>1
  <2> QED
    BY <1>3, <2>2
<1>8. \A k \in 1..n : Filter(s, T)[k] = s[place[k]] /\ s[place[k]] \in T
  BY <1>6 DEF P, PlacesOf
<1>9. \A k, l \in 1..n : k < l => place[k] < place[l]
  BY <1>3, <1>6
<1>10. ASSUME NEW i \in DOMAIN s, s[i] \in T PROVE \E k \in 1..n : place[k] = i
  <2>1. i \in P
    BY <1>10 DEF P, PlacesOf
  <2>2. PICK k \in 1..n : k = count[i]
    BY <1>3, <2>1
  <2>3. place[k] \in P /\ count[place[k]] = count[i]
    BY <1>6, <2>2
  <2>4. place[k] \in Nat /\ i \in Nat /\ ~(place[k] < i) /\ ~(i < place[k])
    <3>0. place[k] \in Nat /\ i \in Nat
      BY <1>2, <2>1, <2>3
    <3>01. count[i] \in 1..n
      BY <1>3, <2>1
    <3>1. count[i] \in Nat /\ ~(count[i] < count[i]) /\ place[k] \in Nat /\ i \in Nat
      BY <1>3, <3>0, <3>01
    <3> QED
      BY <1>3, <2>1, <2>3, <3>1
  <2> QED
    BY <2>4
<1>11. place \in [1..n -> DOMAIN s]
  BY <1>2, <1>6
<1> QED
  BY <1>7, <1>8, <1>9, <1>10, <1>11

-----------------------------------------------------------------------------
(* Loops, and arrays of arrays.                                            *)

\* What holds of 0, and of a number up to n if of the one before, holds of all of them.
Climbs(good, n) == 0 \in good /\ \A i \in 0..n : i \in good /\ i < n => i + 1 \in good

LEMMA Upwards ==
  ASSUME NEW n \in Nat, NEW good, Climbs(good, n)
  PROVE  n \in good /\ \A i \in 0..n : i \in good
<1> SUFFICES ASSUME NEW i \in 0..n, i \notin good PROVE FALSE
  OBVIOUS
<1>0. 0 \in good /\ \A k \in 0..n : k \in good /\ k < n => k + 1 \in good
  BY DEF Climbs
<1>1. PICK bad : bad = {k \in 0..n : k \notin good}
  OBVIOUS
<1>2. bad \in SUBSET Nat /\ bad \in SUBSET (0..n) /\ bad # {}
  BY <1>1
<1>3. IsFiniteSet(bad)
  <2>1. IsFiniteSet(0..n)
    BY FS_Interval
  <2> QED
    BY <1>2, <2>1, FS_Subset
<1>4. PICK m \in bad : \A k \in bad : m <= k
  BY <1>2, <1>3, Extremes
<1>5. m \in 0..n /\ m # 0 /\ m - 1 \in 0..n /\ m - 1 < n /\ (m - 1) + 1 = m
  BY <1>0, <1>1, <1>4
<1>6. m - 1 \notin bad
  BY <1>4, <1>5
<1>7. m - 1 \in good
  BY <1>1, <1>5, <1>6
<1>8. m \in good
  BY <1>0, <1>5, <1>7
<1> QED
  BY <1>1, <1>4, <1>8

\* What a loop makes of base in n rounds.
Rounds(g, S, base, step, n) ==
  g \in [0..n -> S] /\ g[0] = base /\ \A i \in 1..n : g[i] = step[<<g[i - 1], i>>]

LEMMA RoundsExist ==
  ASSUME NEW S, NEW base \in S, NEW n \in Nat, NEW step \in [S \X (1..n) -> S]
  PROVE  \E g : Rounds(g, S, base, step, n)
<1>1. PICK good : good = {k \in 0..n : \E g : Rounds(g, S, base, step, k)}
  OBVIOUS
<1>2. Rounds([i \in 0..0 |-> base], S, base, step, 0)
  BY DEF Rounds
<1>3. ASSUME NEW k \in 0..n, k \in good, k < n PROVE k + 1 \in good
  <2>0. PICK g : Rounds(g, S, base, step, k)
    BY <1>1, <1>3
  <2>1. g \in [0..k -> S] /\ g[0] = base /\ \A i \in 1..k : g[i] = step[<<g[i - 1], i>>]
    BY <2>0 DEF Rounds
  <2>2. k + 1 \in 1..n /\ step[<<g[k], k + 1>>] \in S
    BY <1>3, <2>1
  <2>3. PICK h : h = [i \in 0..(k + 1) |-> IF i = k + 1 THEN step[<<g[k], k + 1>>] ELSE g[i]]
    OBVIOUS
  <2>4. h \in [0..(k + 1) -> S] /\ h[k + 1] = step[<<g[k], k + 1>>] /\ \A i \in 0..k : h[i] = g[i]
    BY <1>3, <2>1, <2>2, <2>3
  <2>5. \A i \in 1..(k + 1) : h[i] = step[<<h[i - 1], i>>]
    <3>1. ASSUME NEW i \in 1..(k + 1), i # k + 1 PROVE h[i] = step[<<h[i - 1], i>>]
      <4>1. i \in 1..k /\ i - 1 \in 0..k /\ i \in 0..k
        BY <1>3, <3>1
      <4> QED
        BY <2>1, <2>4, <4>1
    <3>2. h[k + 1] = step[<<h[(k + 1) - 1], k + 1>>]
      <4>1. (k + 1) - 1 = k /\ k \in 0..k
        BY <1>3
      <4> QED
        BY <2>4, <4>1
    <3> QED
      BY <3>1, <3>2
  <2>6. Rounds(h, S, base, step, k + 1)
    <3>1. 0 \in 0..k
      BY <1>3
    <3> QED
      BY <2>1, <2>4, <2>5, <3>1 DEF Rounds
  <2>7. k + 1 \in 0..n
    BY <1>3
  <2> QED
    BY <1>1, <2>6, <2>7
<1>4. 0 \in good
  <2>1. 0 \in 0..n
    OBVIOUS
  <2> QED
    BY <1>1, <1>2, <2>1
<1>5. Climbs(good, n)
  BY <1>3, <1>4 DEF Climbs
<1>6. n \in good
  BY <1>5, Upwards
<1> QED
  BY <1>1, <1>6

\* What flat() joins, array by array.
Joins(g, S, ss, n) ==
  g \in [0..n -> Seq(S)] /\ g[0] = <<>> /\ \A i \in 1..n : g[i] = g[i - 1] \o ss[i]

LEMMA FlattenIs ==
  ASSUME NEW S, NEW ss \in Seq(Seq(S))
  PROVE  \E g : Joins(g, S, ss, Len(ss)) /\ FlattenSeq(ss) = g[Len(ss)]
<1>0. PICK n : n = Len(ss)
  OBVIOUS
<1>1. n \in Nat /\ \A i \in 1..n : ss[i] \in Seq(S)
  BY <1>0, LenProperties
<1>2. PICK step : step = [p \in Seq(S) \X (1..n) |-> p[1] \o ss[p[2]]]
  OBVIOUS
<1>3. step \in [Seq(S) \X (1..n) -> Seq(S)] /\ \A s \in Seq(S), i \in 1..n : step[<<s, i>>] = s \o ss[i]
  <2>1. \A p \in Seq(S) \X (1..n) : p[1] \o ss[p[2]] \in Seq(S)
    BY <1>1
  <2> QED
    BY <1>2, <2>1
<1>4. <<>> \in Seq(S)
  OBVIOUS
<1>50. PICK g : Rounds(g, Seq(S), <<>>, step, n)
  BY <1>1, <1>3, <1>4, RoundsExist
<1>5. g \in [0..n -> Seq(S)] /\ g[0] = <<>> /\ \A i \in 1..n : g[i] = step[<<g[i - 1], i>>]
  BY <1>50 DEF Rounds
<1>6. \A i \in 1..n : i - 1 \in 0..n
  BY <1>1
<1>7. \A i \in 1..n : g[i] = g[i - 1] \o ss[i]
  BY <1>3, <1>5, <1>6
<1>8. CASE n = 0
  <2>1. FlattenSeq(ss) = ss
    BY <1>0, <1>8 DEF FlattenSeq
  <2>2. ss = <<>>
    BY <1>0, <1>8, EmptySeq
  <2> QED
    BY <1>0, <1>5, <1>7, <1>8, <2>1, <2>2 DEF Joins
<1>9. CASE n # 0
  <2> DEFINE flatten[i \in 1..n] == IF i = 1 THEN ss[i] ELSE flatten[i - 1] \o ss[i]
  <2>1. FlattenSeq(ss) = flatten[n]
    BY <1>0, <1>9, Zenon DEF FlattenSeq
  <2>2. \E f : f = [i \in 1..n |-> IF i = 1 THEN ss[i] ELSE f[i - 1] \o ss[i]]
    <3>1. PICK f : f = [i \in 1..n |-> g[i]]
      OBVIOUS
    <3>2. \A i \in 1..n : f[i] = IF i = 1 THEN ss[i] ELSE f[i - 1] \o ss[i]
      <4>1. ASSUME NEW i \in 1..n, i = 1 PROVE f[i] = ss[i]
        <5>1. i - 1 = 0 /\ ss[i] \in Seq(S) /\ f[i] = g[i]
          BY <1>1, <3>1, <4>1
        <5>2. g[i] = g[i - 1] \o ss[i]
          BY <1>7
        <5>3. f[i] = <<>> \o ss[i]
          BY <1>5, <5>1, <5>2
        <5> QED
          BY <5>1, <5>3
      <4>2. ASSUME NEW i \in 1..n, i # 1 PROVE f[i] = f[i - 1] \o ss[i]
        <5>1. i - 1 \in 1..n
          BY <1>1, <4>2
        <5> QED
          BY <1>7, <3>1, <5>1
      <4> QED
        BY <4>1, <4>2
    <3>3. f = [i \in 1..n |-> IF i = 1 THEN ss[i] ELSE f[i - 1] \o ss[i]]
      BY <3>1, <3>2
    <3> QED
      BY <3>3
  <2>3. flatten = [i \in 1..n |-> IF i = 1 THEN ss[i] ELSE flatten[i - 1] \o ss[i]]
    BY <2>2
  <2> HIDE DEF flatten
  <2>30. PICK flat : flat = flatten
    OBVIOUS
  <2>31. ASSUME NEW i \in 1..n PROVE flat[i] = IF i = 1 THEN ss[i] ELSE flat[i - 1] \o ss[i]
    BY <2>3, <2>30
  <2>4. PICK good : good = {i \in 0..n : i = 0 \/ flat[i] = g[i]}
    OBVIOUS
  <2>5. ASSUME NEW i \in 0..n, i \in good, i < n PROVE i + 1 \in good
    <3>1. i + 1 \in 1..n /\ (i + 1) - 1 = i
      BY <1>1, <2>5
    <3>2. flat[i + 1] = IF i + 1 = 1 THEN ss[i + 1] ELSE flat[i] \o ss[i + 1]
      BY <2>31, <3>1
    <3>3. g[i + 1] = g[i] \o ss[i + 1]
      BY <1>7, <3>1
    <3>4. CASE i = 0
      <4>0. ss[i + 1] \in Seq(S) /\ i + 1 = 1
        BY <1>1, <3>1, <3>4
      <4>1. flat[i + 1] = ss[i + 1]
        BY <3>2, <4>0
      <4>2. g[i + 1] = ss[i + 1]
        <5>1. g[i + 1] = <<>> \o ss[i + 1]
          BY <1>5, <3>3, <3>4
        <5> QED
          BY <4>0, <5>1
      <4>3. flat[i + 1] = g[i + 1] /\ i + 1 \in 0..n
        BY <3>1, <4>1, <4>2
      <4> QED
        BY <2>4, <4>3
    <3>5. CASE i # 0
      <4>1. flat[i] = g[i] /\ i + 1 # 1
        BY <2>4, <2>5, <3>5
      <4>2. flat[i + 1] = g[i + 1]
        BY <3>2, <3>3, <4>1
      <4>3. i + 1 \in 0..n
        BY <3>1
      <4> QED
        BY <2>4, <4>2, <4>3
    <3> QED
      BY <3>4, <3>5
  <2>6. 0 \in good
    BY <1>1, <2>4
  <2>7. Climbs(good, n)
    BY <2>5, <2>6 DEF Climbs
  <2>8. n \in good
    BY <1>1, <2>7, Upwards
  <2>9. FlattenSeq(ss) = g[n]
    BY <1>9, <2>1, <2>30, <2>4, <2>8
  <2> QED
    BY <1>0, <1>5, <1>7, <2>9 DEF Joins
<1> QED
  BY <1>8, <1>9

LEMMA FlattenFacts ==
  ASSUME NEW S, NEW ss \in Seq(Seq(S)), NEW s \in Seq(S)
  PROVE  /\ FlattenSeq(ss) \in Seq(S)
         /\ FlattenSeq(Append(ss, s)) = FlattenSeq(ss) \o s
<1>1. PICK n : n = Len(ss)
  OBVIOUS
<1>2. n \in Nat
  BY <1>1, LenProperties
<1>3. PICK tt : tt = Append(ss, s)
  OBVIOUS
<1>4. tt \in Seq(Seq(S)) /\ Len(tt) = n + 1 /\ tt[n + 1] = s /\ \A i \in 1..n : tt[i] = ss[i]
  BY <1>1, <1>3
<1>50. PICK g : Joins(g, S, ss, n) /\ FlattenSeq(ss) = g[n]
  BY <1>1, FlattenIs
<1>5. g \in [0..n -> Seq(S)] /\ g[0] = <<>> /\ \A i \in 1..n : g[i] = g[i - 1] \o ss[i]
  BY <1>50 DEF Joins
<1>6. PICK m : m = n + 1
  OBVIOUS
<1>70. PICK h : Joins(h, S, tt, m) /\ FlattenSeq(tt) = h[m]
  <2>1. m = Len(tt)
    BY <1>4, <1>6
  <2> QED
    BY <1>4, <2>1, FlattenIs
<1>7. h \in [0..m -> Seq(S)] /\ h[0] = <<>> /\ \A i \in 1..m : h[i] = h[i - 1] \o tt[i]
  BY <1>70 DEF Joins
<1>8. PICK good : good = {i \in 0..n : g[i] = h[i]}
  OBVIOUS
<1>9. ASSUME NEW i \in 0..n, i \in good, i < n PROVE i + 1 \in good
  <2>1. i + 1 \in 1..n /\ i + 1 \in 1..m /\ (i + 1) - 1 = i
    BY <1>2, <1>6, <1>9
  <2>2. g[i + 1] = g[i] \o ss[i + 1] /\ h[i + 1] = h[i] \o tt[i + 1] /\ tt[i + 1] = ss[i + 1]
    BY <1>4, <1>5, <1>7, <2>1
  <2>3. g[i] = h[i] /\ i + 1 \in 0..n
    BY <1>8, <1>9, <2>1
  <2>4. g[i + 1] = h[i + 1]
    BY <2>2, <2>3
  <2> QED
    BY <1>8, <2>3, <2>4
<1>10. 0 \in good
  BY <1>2, <1>5, <1>7, <1>8
<1>110. Climbs(good, n)
  BY <1>9, <1>10 DEF Climbs
<1>11. n \in good
  BY <1>2, <1>110, Upwards
<1>12. h[m] = g[n] \o s
  <2>1. m \in 1..m /\ m - 1 = n /\ g[n] = h[n]
    BY <1>2, <1>6, <1>8, <1>11
  <2> QED
    BY <1>4, <1>6, <1>7, <2>1
<1> QED
  BY <1>2, <1>3, <1>5, <1>50, <1>70, <1>12
=============================================================================
