---------------------------- MODULE EventsProofs ----------------------------
(***************************************************************************)
(* Proofs about what runs code of the plugins without a request.  The event *)
(* bus calls every subscription once for each event, whatever the handlers *)
(* do meanwhile; what CronManager and BullScheduler list in the process is *)
(* what Redis schedules, and jobs are worked on by one worker.             *)
(***************************************************************************)
EXTENDS MCEvents, SequenceTheorems, FiniteSetTheorems, NaturalsInduction, WellFoundedInduction, TLAPS

-----------------------------------------------------------------------------
(* Sequences that the bus changes in the middle.                           *)

\* InsertAt() of SequencesExt, place by place.
WithInserted(t, s, k, e) ==
  /\ Len(t) = Len(s) + 1 /\ t[k] = e
  /\ \A i \in 1..Len(t) : (i < k => t[i] = s[i]) /\ (i > k => t[i] = s[i - 1])

LEMMA Inserted ==
  ASSUME NEW S, NEW s \in Seq(S), NEW k \in 1..(Len(s) + 1), NEW e \in S, NEW t, t = InsertAt(s, k, e)
  PROVE  t \in Seq(S) /\ WithInserted(t, s, k, e)
<1> DEFINE n == Len(s)
<1>0. n \in Nat /\ k \in Nat /\ k >= 1 /\ k <= n + 1 /\ \A i \in 1..n : s[i] \in S
  OBVIOUS
<1>a. n = Len(s)
  OBVIOUS
<1> HIDE DEF n
<1>1. PICK pre : pre = SubSeq(s, 1, k - 1)
  OBVIOUS
<1>2. PICK post : post = SubSeq(s, k, n)
  OBVIOUS
<1>3. /\ pre \in Seq(S) /\ Len(pre) = k - 1 /\ \A i \in 1..(k - 1) : pre[i] = s[i]
  <2>1. 1 \in Int /\ k - 1 \in Int /\ \A i \in 1..(k - 1) : s[i] \in S
    BY <1>0
  <2>2. /\ pre \in Seq(S) /\ Len(pre) = IF 1 <= k - 1 THEN k - 1 - 1 + 1 ELSE 0
        /\ \A i \in 1..(k - 1 - 1 + 1) : pre[i] = s[1 + i - 1]
    BY <2>1, <1>1, SubSeqProperties
  <2> QED
    BY <1>0, <2>2
<1>4. /\ post \in Seq(S) /\ Len(post) = n - k + 1 /\ \A i \in 1..(n - k + 1) : post[i] = s[k + i - 1]
  <2>1. k \in Int /\ n \in Int /\ \A i \in k..n : s[i] \in S
    BY <1>0
  <2>2. /\ post \in Seq(S) /\ Len(post) = IF k <= n THEN n - k + 1 ELSE 0
        /\ \A i \in 1..(n - k + 1) : post[i] = s[k + i - 1]
    BY <2>1, <1>2, SubSeqProperties
  <2> QED
    BY <1>0, <2>2
<1>5. PICK one : one = <<e>>
  OBVIOUS
<1>6. one \in Seq(S) /\ Len(one) = 1 /\ one[1] = e
  BY <1>5
<1>7. PICK head : head = pre \o one
  OBVIOUS
<1>8. /\ head \in Seq(S) /\ Len(head) = k
      /\ \A i \in 1..k : head[i] = IF i <= k - 1 THEN pre[i] ELSE one[i - (k - 1)]
  <2>1. /\ head \in Seq(S) /\ Len(head) = Len(pre) + Len(one)
        /\ \A i \in 1..(Len(pre) + Len(one)) : head[i] = IF i <= Len(pre) THEN pre[i] ELSE one[i - Len(pre)]
    BY <1>3, <1>6, <1>7, ConcatProperties
  <2> QED
    BY <1>0, <1>3, <1>6, <2>1
<1>9. t = head \o post
  BY <1>a, <1>1, <1>2, <1>5, <1>7, Zenon DEF InsertAt
<1>10. /\ t \in Seq(S) /\ Len(t) = k + (n - k + 1)
       /\ \A i \in 1..(k + (n - k + 1)) : t[i] = IF i <= k THEN head[i] ELSE post[i - k]
  <2>1. /\ t \in Seq(S) /\ Len(t) = Len(head) + Len(post)
        /\ \A i \in 1..(Len(head) + Len(post)) : t[i] = IF i <= Len(head) THEN head[i] ELSE post[i - Len(head)]
    <3>1. head \in Seq(S) /\ post \in Seq(S)
      BY <1>4, <1>8
    <3>2. PICK whole : whole = head \o post
      OBVIOUS
    <3>3. /\ whole \in Seq(S) /\ Len(whole) = Len(head) + Len(post)
          /\ \A i \in 1..(Len(head) + Len(post)) : whole[i] = IF i <= Len(head) THEN head[i] ELSE post[i - Len(head)]
      BY <3>1, <3>2, ConcatProperties
    <3>4. t = whole
      BY <1>9, <3>2
    <3> QED
      BY <3>3, <3>4
  <2> QED
    BY <1>0, <1>4, <1>8, <2>1
<1>11. Len(t) = n + 1
  BY <1>0, <1>10
<1>12. t[k] = e
  <2>1. t[k] = head[k] /\ head[k] = one[1]
    BY <1>0, <1>8, <1>10
  <2> QED
    BY <1>6, <2>1
<1>13. ASSUME NEW i \in 1..Len(t), i < k PROVE t[i] = s[i]
  <2>1. i \in 1..k /\ i <= k - 1 /\ i \in 1..(k - 1) /\ i \in 1..(k + (n - k + 1)) /\ i <= k
    BY <1>0, <1>11, <1>13
  <2>2. t[i] = head[i] /\ head[i] = pre[i]
    BY <1>8, <1>10, <2>1
  <2> QED
    BY <1>3, <2>1, <2>2
<1>14. ASSUME NEW i \in 1..Len(t), i > k PROVE t[i] = s[i - 1]
  <2>1. i - k \in 1..(n - k + 1) /\ k + (i - k) - 1 = i - 1
    BY <1>0, <1>11, <1>14
  <2>2. t[i] = post[i - k]
    BY <1>0, <1>10, <1>11, <1>14
  <2> QED
    BY <1>4, <2>1, <2>2
<1> QED
  BY <1>a, <1>10, <1>11, <1>12, <1>13, <1>14 DEF WithInserted

\* Two sequences one after the other, place by place.
WithJoined(t, a, b) ==
  /\ Len(t) = Len(a) + Len(b)
  /\ \A i \in 1..(Len(a) + Len(b)) : t[i] = IF i <= Len(a) THEN a[i] ELSE b[i - Len(a)]

LEMMA Joined ==
  ASSUME NEW S, NEW a \in Seq(S), NEW b \in Seq(S), NEW t, t = a \o b
  PROVE  t \in Seq(S) /\ WithJoined(t, a, b)
BY ConcatProperties DEF WithJoined

\* RemoveAt() of SequencesExt, place by place.
LEMMA Dropped ==
  ASSUME NEW S, NEW s \in Seq(S), NEW k \in 1..Len(s), NEW t, t = RemoveAt(s, k)
  PROVE  /\ t \in Seq(S) /\ Len(t) = Len(s) - 1
         /\ \A i \in 1..Len(t) : (i < k => t[i] = s[i]) /\ (i >= k => t[i] = s[i + 1])
<1> DEFINE n == Len(s)
<1>0. n \in Nat /\ k \in Nat /\ k >= 1 /\ k <= n /\ \A i \in 1..n : s[i] \in S
  OBVIOUS
<1>a. n = Len(s)
  OBVIOUS
<1> HIDE DEF n
<1>1. PICK pre : pre = SubSeq(s, 1, k - 1)
  OBVIOUS
<1>2. PICK post : post = SubSeq(s, k + 1, n)
  OBVIOUS
<1>3. /\ pre \in Seq(S) /\ Len(pre) = k - 1 /\ \A i \in 1..(k - 1) : pre[i] = s[i]
  <2>1. 1 \in Int /\ k - 1 \in Int /\ \A i \in 1..(k - 1) : s[i] \in S
    BY <1>0
  <2>2. /\ pre \in Seq(S) /\ Len(pre) = IF 1 <= k - 1 THEN k - 1 - 1 + 1 ELSE 0
        /\ \A i \in 1..(k - 1 - 1 + 1) : pre[i] = s[1 + i - 1]
    BY <2>1, <1>1, SubSeqProperties
  <2> QED
    BY <1>0, <2>2
<1>4. /\ post \in Seq(S) /\ Len(post) = n - k /\ \A i \in 1..(n - k) : post[i] = s[k + i]
  <2>1. k + 1 \in Int /\ n \in Int /\ \A i \in (k + 1)..n : s[i] \in S
    BY <1>0
  <2>2. /\ post \in Seq(S) /\ Len(post) = IF k + 1 <= n THEN n - (k + 1) + 1 ELSE 0
        /\ \A i \in 1..(n - (k + 1) + 1) : post[i] = s[k + 1 + i - 1]
    BY <2>1, <1>2, SubSeqProperties
  <2> QED
    BY <1>0, <2>2
<1>5. t = pre \o post
  BY <1>a, <1>1, <1>2, Zenon DEF RemoveAt
<1>6. /\ t \in Seq(S) /\ Len(t) = (k - 1) + (n - k)
      /\ \A i \in 1..((k - 1) + (n - k)) : t[i] = IF i <= k - 1 THEN pre[i] ELSE post[i - (k - 1)]
  <2>1. /\ t \in Seq(S) /\ Len(t) = Len(pre) + Len(post)
        /\ \A i \in 1..(Len(pre) + Len(post)) : t[i] = IF i <= Len(pre) THEN pre[i] ELSE post[i - Len(pre)]
    BY <1>3, <1>4, <1>5, ConcatProperties
  <2> QED
    BY <1>0, <1>3, <1>4, <2>1
<1>7. Len(t) = n - 1
  BY <1>0, <1>6
<1>8. ASSUME NEW i \in 1..Len(t), i < k PROVE t[i] = s[i]
  BY <1>0, <1>3, <1>6, <1>7, <1>8
<1>9. ASSUME NEW i \in 1..Len(t), i >= k PROVE t[i] = s[i + 1]
  <2>1. i - (k - 1) \in 1..(n - k) /\ k + (i - (k - 1)) = i + 1
    BY <1>0, <1>7, <1>9
  <2>2. t[i] = post[i - (k - 1)]
    BY <1>0, <1>6, <1>7, <1>9
  <2> QED
    BY <1>4, <2>1, <2>2
<1> QED
  BY <1>a, <1>6, <1>7, <1>8, <1>9

\* A set of numbers that is not empty has a least one, and a greatest one if it
\* has a bound.
LEMMA LeastExists ==
  ASSUME NEW M \in SUBSET Nat, M # {}
  PROVE  \E m \in M : \A k \in M : m <= k
<1> DEFINE R == OpToRel(<, Nat)
<1>1. IsWellFoundedOn(R, Nat)
  BY NatLessThanWellFounded
<1>2. \A k, n \in Nat : k < n => <<k, n>> \in R
  BY DEF OpToRel
<1> HIDE DEF R
<1>3. PICK m \in M : \A k \in M : ~(<<k, m>> \in R)
  BY <1>1, WFMin
<1>4. \A k \in M : k \in Nat /\ m \in Nat /\ ~(k < m)
  BY <1>2, <1>3, Zenon
<1> QED
  BY <1>4

LEMMA GreatestExists ==
  ASSUME NEW n \in Nat, NEW M \in SUBSET (1..n), M # {}
  PROVE  \E m \in M : \A k \in M : k <= m
<1> DEFINE U == {u \in Nat : \A k \in M : k <= u}
<1>1. U \in SUBSET Nat /\ n \in U
  OBVIOUS
<1>2. PICK u \in U : \A k \in U : u <= k
  BY <1>1, LeastExists
<1>3. u \in Nat /\ \A k \in M : k <= u /\ k \in Nat /\ k > 0
  BY <1>2
<1>4. u \in M
  <2> SUFFICES ASSUME u \notin M PROVE FALSE
    OBVIOUS
  <2>1. \A k \in M : k <= u - 1
    BY <1>3
  <2>2. u - 1 \in Nat
    <3>1. PICK k \in M : TRUE
      OBVIOUS
    <3> QED
      BY <1>3, <2>1, <3>1
  <2>3. u - 1 \in U
    BY <2>1, <2>2
  <2> QED
    BY <1>2, <1>3, <2>3
<1> QED
  BY <1>3, <1>4

-----------------------------------------------------------------------------
\* What steps do to a sequence and to a dispatch, as relations.
Longer(t, s, e) == t = Append(s, e)
Raised(t, s, i) == t = [s EXCEPT ![i] = @ + 1]
Calling(e, d, id, once) ==
  e = [d EXCEPT !.todo = Tail(@), !.running = TRUE, !.done = Append(@, id),
                !.once = IF once THEN @ \cup {id} ELSE @]

\* A subscription is the one that was made with its id.
Records == [id : Nat, pattern : Patterns, handler : Handlers, once : BOOLEAN]
Meant(sub, mk) == sub.id \in 1..Len(mk) /\ sub = mk[sub.id]

\* Subscriptions that were made, none twice.
Listed(s, mk) ==
  /\ s \in Seq(Records)
  /\ \A i \in 1..Len(s) : Meant(s[i], mk)
  /\ \A i, j \in 1..Len(s) : s[i].id = s[j].id => i = j

\* All of t is in s.
TakenFrom(t, s) == \A i \in 1..Len(t) : \E j \in 1..Len(s) : t[i] = s[j]

LEMMA ListedIs ==
  ASSUME NEW s, NEW mk, Listed(s, mk)
  PROVE  /\ s \in Seq(Records) /\ Len(s) \in Nat /\ DOMAIN s = 1..Len(s)
         /\ \A i \in 1..Len(s) : s[i] \in Records /\ s[i].id \in 1..Len(mk) /\ s[i] = mk[s[i].id]
         /\ \A i, j \in 1..Len(s) : s[i].id = s[j].id => i = j
<1>1. s \in Seq(Records)
  BY DEF Listed
<1>2. Len(s) \in Nat /\ DOMAIN s = 1..Len(s) /\ \A i \in 1..Len(s) : s[i] \in Records
  BY <1>1, LenProperties, ElementOfSeq
<1> QED
  BY <1>1, <1>2 DEF Listed, Meant

\* More subscriptions make no difference to those there are.
LEMMA ListedStays ==
  ASSUME NEW s, NEW mk \in Seq(Records), Listed(s, mk), NEW sub \in Records, NEW more, Longer(more, mk, sub)
  PROVE  Listed(s, more)
<1>1. Len(mk) \in Nat /\ Len(more) = Len(mk) + 1 /\ \A i \in 1..Len(mk) : more[i] = mk[i]
  BY AppendProperties, LenProperties DEF Longer
<1>2. ASSUME NEW i \in 1..Len(s) PROVE Meant(s[i], more)
  <2>1. s[i].id \in 1..Len(mk) /\ s[i] = mk[s[i].id]
    BY ListedIs
  <2> QED
    BY <1>1, <2>1 DEF Meant
<1> QED
  BY <1>2 DEF Listed

LEMMA ListedAdds ==
  ASSUME NEW s, NEW mk \in Seq(Records), Listed(s, mk), NEW sub \in Records, sub.id = Len(mk) + 1,
         NEW k \in 1..(Len(s) + 1), NEW t, t = InsertAt(s, k, sub), NEW more, Longer(more, mk, sub)
  PROVE  /\ Listed(t, more)
         /\ \A i \in 1..Len(t) : t[i] = sub \/ \E j \in 1..Len(s) : t[i] = s[j]
<1>1. /\ Len(mk) \in Nat /\ Len(more) = Len(mk) + 1 /\ more[Len(mk) + 1] = sub
      /\ \A i \in 1..Len(mk) : more[i] = mk[i]
  BY AppendProperties, LenProperties DEF Longer
<1>2. /\ s \in Seq(Records) /\ Len(s) \in Nat
      /\ \A i \in 1..Len(s) : s[i] \in Records /\ s[i].id \in 1..Len(mk) /\ s[i] = mk[s[i].id]
      /\ \A i, j \in 1..Len(s) : s[i].id = s[j].id => i = j
  BY ListedIs
<1>3. /\ t \in Seq(Records) /\ Len(t) = Len(s) + 1 /\ t[k] = sub
      /\ \A i \in 1..Len(t) : (i < k => t[i] = s[i]) /\ (i > k => t[i] = s[i - 1])
  <2>1. s \in Seq(Records) /\ k \in 1..(Len(s) + 1) /\ sub \in Records /\ t = InsertAt(s, k, sub)
    BY <1>2
  <2>2. t \in Seq(Records) /\ WithInserted(t, s, k, sub)
    BY <2>1, Inserted
  <2> QED
    BY <2>2 DEF WithInserted
<1>4. ASSUME NEW i \in 1..Len(t)
      PROVE  \/ i = k /\ t[i] = sub
             \/ i # k /\ \E j \in 1..Len(s) : t[i] = s[j] /\ j = IF i < k THEN i ELSE i - 1
  <2>1. CASE i = k
    BY <1>3, <2>1
  <2>2. CASE i < k
    <3>1. i \in 1..Len(s)
      BY <1>2, <1>3, <2>2
    <3> QED
      BY <1>3, <2>2, <3>1
  <2>3. CASE i > k
    <3>1. i - 1 \in 1..Len(s) /\ ~(i < k)
      BY <1>2, <1>3, <2>3
    <3> QED
      BY <1>3, <2>3, <3>1
  <2> QED
    BY <1>2, <1>3, <2>1, <2>2, <2>3
<1>5. ASSUME NEW i \in 1..Len(t) PROVE Meant(t[i], more)
  <2>1. CASE i = k
    <3>1. t[i] = sub
      BY <1>3, <2>1
    <3> QED
      BY <1>1, <3>1 DEF Meant
  <2>2. CASE i # k
    <3>1. PICK j \in 1..Len(s) : t[i] = s[j]
      BY <1>4, <2>2
    <3>2. s[j].id \in 1..Len(mk) /\ s[j] = mk[s[j].id]
      BY <1>2
    <3> QED
      BY <1>1, <3>1, <3>2 DEF Meant
  <2> QED
    BY <2>1, <2>2
<1>6. ASSUME NEW i \in 1..Len(t), NEW j \in 1..Len(t), t[i].id = t[j].id PROVE i = j
  <2>0. i \in Nat /\ j \in Nat /\ k \in Nat
    BY <1>2, <1>3
  <2>1. CASE i = k \/ j = k
    <3>1. t[k].id = Len(mk) + 1
      BY <1>3
    <3>2. \A l \in 1..Len(t) : l # k => t[l].id \in 1..Len(mk)
      BY <1>2, <1>4
    <3> QED
      BY <1>1, <1>6, <2>1, <3>1, <3>2
  <2>2. CASE i # k /\ j # k
    <3>1. PICK p \in 1..Len(s) : t[i] = s[p] /\ p = IF i < k THEN i ELSE i - 1
      BY <1>4, <2>2
    <3>2. PICK q \in 1..Len(s) : t[j] = s[q] /\ q = IF j < k THEN j ELSE j - 1
      BY <1>4, <2>2
    <3>3. p = q
      BY <1>2, <1>6, <3>1, <3>2
    <3> QED
      BY <2>0, <2>2, <3>1, <3>2, <3>3
  <2> QED
    BY <2>1, <2>2
<1> QED
  BY <1>3, <1>4, <1>5, <1>6 DEF Listed

LEMMA ListedDrops ==
  ASSUME NEW s, NEW mk, Listed(s, mk), NEW k \in 1..Len(s), NEW t, t = RemoveAt(s, k)
  PROVE  Listed(t, mk) /\ TakenFrom(t, s)
<1>2. /\ s \in Seq(Records) /\ Len(s) \in Nat
      /\ \A i \in 1..Len(s) : s[i] \in Records /\ Meant(s[i], mk)
      /\ \A i, j \in 1..Len(s) : s[i].id = s[j].id => i = j
  BY ListedIs DEF Listed
<1>3. /\ t \in Seq(Records) /\ Len(t) = Len(s) - 1
      /\ \A i \in 1..Len(t) : (i < k => t[i] = s[i]) /\ (i >= k => t[i] = s[i + 1])
  BY <1>2, Dropped
<1>4. ASSUME NEW i \in 1..Len(t)
      PROVE  \E j \in 1..Len(s) : t[i] = s[j] /\ j = IF i < k THEN i ELSE i + 1
  <2>1. CASE i < k
    <3>1. i \in 1..Len(s)
      BY <1>2, <1>3, <2>1
    <3> QED
      BY <1>3, <2>1, <3>1
  <2>2. CASE i >= k
    <3>1. i + 1 \in 1..Len(s) /\ ~(i < k)
      BY <1>2, <1>3, <2>2
    <3> QED
      BY <1>3, <2>2, <3>1
  <2> QED
    BY <1>2, <1>3, <2>1, <2>2
<1>5. ASSUME NEW i \in 1..Len(t), NEW j \in 1..Len(t), t[i].id = t[j].id PROVE i = j
  <2>0. i \in Nat /\ j \in Nat /\ k \in Nat
    BY <1>2, <1>3
  <2>1. PICK p \in 1..Len(s) : t[i] = s[p] /\ p = IF i < k THEN i ELSE i + 1
    BY <1>4
  <2>2. PICK q \in 1..Len(s) : t[j] = s[q] /\ q = IF j < k THEN j ELSE j + 1
    BY <1>4
  <2>3. p = q
    BY <1>2, <1>5, <2>1, <2>2
  <2> QED
    BY <2>0, <2>1, <2>2, <2>3
<1>6. \A i \in 1..Len(t) : Meant(t[i], mk)
  BY <1>2, <1>4
<1>7. TakenFrom(t, s)
  BY <1>4 DEF TakenFrom
<1> QED
  BY <1>3, <1>5, <1>6, <1>7 DEF Listed

LEMMA ListedFilters ==
  ASSUME NEW s, NEW mk, Listed(s, mk), NEW T, NEW t, t = Filter(s, T)
  PROVE  /\ Listed(t, mk) /\ TakenFrom(t, s)
         /\ \A i \in 1..Len(t) : t[i] \in T
         /\ \A j \in 1..Len(s) : s[j] \in T => \E i \in 1..Len(t) : t[i] = s[j]
<1>1. s \in Seq(Records)
  BY ListedIs
<1>2. /\ Len(s) \in Nat /\ DOMAIN s = 1..Len(s)
      /\ \A i \in 1..Len(s) : s[i] \in Records /\ Meant(s[i], mk)
      /\ \A i, j \in 1..Len(s) : s[i].id = s[j].id => i = j
  BY ListedIs DEF Listed
<1>3. t \in Seq(Records)
  BY <1>1, FilterFacts
<1>4. PICK place \in [1..Len(t) -> DOMAIN s] :
           /\ \A k \in 1..Len(t) : t[k] = s[place[k]] /\ s[place[k]] \in T
           /\ \A k, l \in 1..Len(t) : k < l => place[k] < place[l]
           /\ \A i \in DOMAIN s : s[i] \in T => \E k \in 1..Len(t) : place[k] = i
  BY <1>1, FilterFacts
<1>5. Len(t) \in Nat
  BY <1>3, LenProperties
<1>6. \A i \in 1..Len(t) : place[i] \in 1..Len(s) /\ t[i] = s[place[i]] /\ t[i] \in T
  BY <1>2, <1>4
<1>7. ASSUME NEW i \in 1..Len(t), NEW j \in 1..Len(t), t[i].id = t[j].id PROVE i = j
  <2>1. place[i] = place[j] /\ place[i] \in Nat /\ i \in Nat /\ j \in Nat
    BY <1>2, <1>5, <1>6, <1>7
  <2>2. ~(i < j) /\ ~(j < i)
    BY <1>4, <2>1
  <2> QED
    BY <2>1, <2>2
<1>8. \A i \in 1..Len(t) : Meant(t[i], mk)
  BY <1>2, <1>6
<1>9. TakenFrom(t, s)
  BY <1>6 DEF TakenFrom
<1>10. ASSUME NEW j \in 1..Len(s), s[j] \in T PROVE \E i \in 1..Len(t) : t[i] = s[j]
  <2>1. PICK i \in 1..Len(t) : place[i] = j
    BY <1>2, <1>4, <1>10
  <2> QED
    BY <1>6, <2>1
<1> QED
  BY <1>3, <1>6, <1>7, <1>8, <1>9, <1>10 DEF Listed

-----------------------------------------------------------------------------
\* A dispatch calls subscriptions that were made, nobody twice.
Dispatch == [todo : Seq(Records), done : Seq(Nat), once : SUBSET Nat, running : BOOLEAN]

CalledOnce(done, mk) ==
  /\ \A i \in 1..Len(done) : done[i] \in 1..Len(mk)
  /\ \A i, j \in 1..Len(done) : done[i] = done[j] => i = j
NotCalled(todo, done) == \A i \in 1..Len(done), j \in 1..Len(todo) : done[i] # todo[j].id

Served(d, mk) ==
  /\ Listed(d.todo, mk) /\ CalledOnce(d.done, mk) /\ NotCalled(d.todo, d.done)
  /\ d.once \subseteq 1..Len(mk)

\* The dispatches that have yet to call the subscription with this id.
Expects(d, id) == \E j \in 1..Len(d.todo) : d.todo[j].id = id
Waiting(st, id) == {i \in 1..Len(st) : Expects(st[i], id)}

\* An event a subscription is due was delivered to it, or a dispatch will do so.
Owed(st, du, fi, id) == du[id] = fi[id] + Cardinality(Waiting(st, id))

\* A subscription for one event that had its event is about to be removed.
Noted(st, id) == \E i \in 1..Len(st) : id \in st[i].once
Spending(sb, st, fi) == \A i \in 1..Len(sb) : sb[i].once /\ fi[sb[i].id] > 0 => Noted(st, sb[i].id)

Dispatched(st, mk) ==
  /\ st \in Seq(Dispatch)
  /\ \A i \in 1..Len(st) : Served(st[i], mk) /\ (i < Len(st) => st[i].running)

Counted(st, mk, du, fi) ==
  /\ du \in Seq(Nat) /\ Len(du) = Len(mk)
  /\ fi \in Seq(Nat) /\ Len(fi) = Len(mk)
  /\ \A id \in 1..Len(mk) : Owed(st, du, fi, id)

Numbered(mk) == mk \in Seq(Records) /\ \A id \in 1..Len(mk) : mk[id].id = id

BusInv ==
  /\ Numbered(made) /\ Listed(subs, made)
  /\ Dispatched(stack, made) /\ Len(stack) <= MaxDepth
  /\ Counted(stack, made, due, fired)
  /\ Spending(subs, stack, fired)
  /\ released \subseteq 1..Len(made)

\* A finite stack has finitely many dispatches that wait.
LEMMA WaitingIsFinite ==
  ASSUME NEW mk, NEW st, Dispatched(st, mk), NEW id
  PROVE  /\ Len(st) \in Nat /\ Waiting(st, id) \in SUBSET (1..Len(st))
         /\ IsFiniteSet(Waiting(st, id)) /\ Cardinality(Waiting(st, id)) \in Nat
<1>1. Len(st) \in Nat
  BY LenProperties DEF Dispatched
<1>2. Waiting(st, id) \in SUBSET (1..Len(st))
  BY DEF Waiting
<1>3. IsFiniteSet(1..Len(st))
  BY <1>1, FS_Interval
<1> QED
  BY <1>1, <1>2, <1>3, FS_Subset, FS_CardinalityType

\* The state of a dispatch depends on the subscriptions made before.
LEMMA ServedStays ==
  ASSUME NEW mk \in Seq(Records), NEW sub \in Records, NEW more, Longer(more, mk, sub),
         NEW d, Served(d, mk)
  PROVE  Served(d, more)
<1>1. Len(mk) \in Nat /\ Len(more) = Len(mk) + 1
  BY AppendProperties, LenProperties DEF Longer
<1>2. 1..Len(mk) \subseteq 1..Len(more)
  BY <1>1
<1>3. PICK todo : todo = d.todo
  OBVIOUS
<1>4. Listed(todo, more)
  BY <1>3, ListedStays DEF Served
<1>5. CalledOnce(d.done, more)
  BY <1>2 DEF Served, CalledOnce
<1> QED
  BY <1>2, <1>3, <1>4, <1>5 DEF Served

\* subscribe(): the new subscription is due nothing, and everything else stays.
LEMMA SubscribeCounts ==
  ASSUME NEW mk, Numbered(mk), NEW sub \in Records, NEW more, Longer(more, mk, sub),
         NEW st, Dispatched(st, mk), NEW du, NEW fi, Counted(st, mk, du, fi),
         NEW du2, Longer(du2, du, 0), NEW fi2, Longer(fi2, fi, 0)
  PROVE  Dispatched(st, more) /\ Counted(st, more, du2, fi2)
<1>1. mk \in Seq(Records) /\ du \in Seq(Nat) /\ fi \in Seq(Nat) /\ Len(du) = Len(mk) /\ Len(fi) = Len(mk)
  BY DEF Numbered, Counted
<1>2. Len(mk) \in Nat /\ Len(more) = Len(mk) + 1
  BY <1>1, AppendProperties, LenProperties DEF Longer
<1>3. /\ du2 \in Seq(Nat) /\ Len(du2) = Len(mk) + 1 /\ du2[Len(mk) + 1] = 0
      /\ \A i \in 1..Len(mk) : du2[i] = du[i]
  BY <1>1, AppendProperties DEF Longer
<1>4. /\ fi2 \in Seq(Nat) /\ Len(fi2) = Len(mk) + 1 /\ fi2[Len(mk) + 1] = 0
      /\ \A i \in 1..Len(mk) : fi2[i] = fi[i]
  BY <1>1, AppendProperties DEF Longer
<1>5. Dispatched(st, more)
  <2>1. \A i \in 1..Len(st) : Served(st[i], more)
    BY <1>1, ServedStays DEF Dispatched
  <2> QED
    BY <2>1 DEF Dispatched
<1>6. Waiting(st, Len(mk) + 1) = {}
  <2> SUFFICES ASSUME NEW i \in 1..Len(st), Expects(st[i], Len(mk) + 1) PROVE FALSE
    BY DEF Waiting
  <2>1. PICK todo : todo = st[i].todo
    OBVIOUS
  <2>2. Listed(todo, mk)
    BY <2>1 DEF Dispatched, Served
  <2>3. PICK j \in 1..Len(todo) : todo[j].id = Len(mk) + 1
    BY <2>1 DEF Expects
  <2>4. todo[j].id \in 1..Len(mk)
    BY <2>2, ListedIs
  <2> QED
    BY <1>2, <2>3, <2>4
<1>7. ASSUME NEW id \in 1..Len(more) PROVE Owed(st, du2, fi2, id)
  <2>1. CASE id \in 1..Len(mk)
    <3>1. Owed(st, du, fi, id) /\ du2[id] = du[id] /\ fi2[id] = fi[id]
      BY <1>3, <1>4, <2>1 DEF Counted
    <3> QED
      BY <3>1 DEF Owed
  <2>2. CASE id = Len(mk) + 1
    <3>1. Cardinality(Waiting(st, id)) = 0
      BY <1>6, <2>2, FS_EmptySet
    <3> QED
      BY <1>3, <1>4, <2>2, <3>1 DEF Owed
  <2> QED
    BY <1>2, <2>1, <2>2
<1> QED
  BY <1>2, <1>3, <1>4, <1>5, <1>7 DEF Counted

\* Fewer subscriptions are there: those that were spent are noted as before.
LEMMA SpendingShrinks ==
  ASSUME NEW sb, NEW st, NEW fi, Spending(sb, st, fi), NEW t, TakenFrom(t, sb)
  PROVE  Spending(t, st, fi)
BY DEF Spending, TakenFrom

DueNow(du2, du, d, mk) ==
  du2 = [id \in 1..Len(mk) |-> IF Expects(d, id) THEN du[id] + 1 ELSE du[id]]

\* publish(): one more dispatch waits for those that match.
LEMMA PublishCounts ==
  ASSUME NEW mk, Numbered(mk), NEW st, Dispatched(st, mk), NEW du, NEW fi, Counted(st, mk, du, fi),
         NEW d \in Dispatch, Served(d, mk), Len(st) > 0 => st[Len(st)].running,
         NEW st2, Longer(st2, st, d), NEW du2, DueNow(du2, du, d, mk)
  PROVE  /\ Dispatched(st2, mk) /\ Counted(st2, mk, du2, fi) /\ Len(st2) = Len(st) + 1
         /\ \A i \in 1..Len(st) : st2[i] = st[i]
<1>1. st \in Seq(Dispatch) /\ Len(st) \in Nat
  BY LenProperties DEF Dispatched
<1>2. /\ st2 \in Seq(Dispatch) /\ Len(st2) = Len(st) + 1 /\ st2[Len(st) + 1] = d
      /\ \A i \in 1..Len(st) : st2[i] = st[i]
  BY <1>1, AppendProperties DEF Longer
<1>3. \A i \in 1..(Len(st) + 1) : i \in 1..Len(st) \/ i = Len(st) + 1
  BY <1>1
<1>4. Dispatched(st2, mk)
  <2>1. \A i \in 1..(Len(st) + 1) : Served(st2[i], mk)
    BY <1>2, <1>3 DEF Dispatched
  <2>2. ASSUME NEW i \in 1..(Len(st) + 1), i < Len(st) + 1 PROVE st2[i].running
    <3>1. i \in 1..Len(st) /\ (i < Len(st) \/ i = Len(st)) /\ Len(st) > 0
      BY <1>1, <2>2
    <3> QED
      BY <1>2, <3>1 DEF Dispatched
  <2> QED
    BY <1>2, <2>1, <2>2 DEF Dispatched
<1>5. du \in Seq(Nat) /\ Len(du) = Len(mk) /\ fi \in Seq(Nat) /\ Len(fi) = Len(mk) /\ Len(mk) \in Nat
  BY LenProperties DEF Counted
<1>6. \A id \in 1..Len(mk) : du[id] \in Nat /\ fi[id] \in Nat
  BY <1>5, ElementOfSeq
<1>7. du2 \in Seq(Nat) /\ Len(du2) = Len(mk)
  <2>1. du2 \in [1..Len(mk) -> Nat]
    BY <1>6 DEF DueNow
  <2> QED
    <3>1. PICK n \in Nat : n = Len(mk)
      BY <1>5
    <3>2. du2 \in [1..n -> Nat]
      BY <2>1, <3>1
    <3>3. du2 \in Seq(Nat) /\ Len(du2) = n
      BY <3>2
    <3> QED
      BY <3>1, <3>3
<1>8. ASSUME NEW id \in 1..Len(mk) PROVE Owed(st2, du2, fi, id)
  <2>1. /\ Waiting(st, id) \in SUBSET (1..Len(st)) /\ IsFiniteSet(Waiting(st, id))
        /\ Cardinality(Waiting(st, id)) \in Nat
    BY WaitingIsFinite
  <2>2. Owed(st, du, fi, id)
    BY DEF Counted
  <2>3. CASE Expects(d, id)
    <3>1. Waiting(st2, id) = Waiting(st, id) \cup {Len(st) + 1}
      BY <1>2, <1>3, <2>3 DEF Waiting
    <3>2. Len(st) + 1 \notin Waiting(st, id)
      BY <1>1, <2>1
    <3>3. Cardinality(Waiting(st2, id)) = Cardinality(Waiting(st, id)) + 1
      BY <2>1, <3>1, <3>2, FS_AddElement
    <3>4. du2[id] = du[id] + 1
      BY <2>3 DEF DueNow
    <3> QED
      <4>1. du[id] \in Nat /\ fi[id] \in Nat
        BY <1>6
      <4>2. du[id] = fi[id] + Cardinality(Waiting(st, id))
        BY <2>2 DEF Owed
      <4>3. du2[id] = fi[id] + Cardinality(Waiting(st2, id))
        BY <2>1, <3>3, <3>4, <4>1, <4>2
      <4> QED
        BY <4>3 DEF Owed
  <2>4. CASE ~Expects(d, id)
    <3>1. Waiting(st2, id) = Waiting(st, id)
      BY <1>2, <1>3, <2>4 DEF Waiting
    <3>2. du2[id] = du[id]
      BY <2>4 DEF DueNow
    <3> QED
      BY <2>2, <3>1, <3>2 DEF Owed
  <2> QED
    BY <2>3, <2>4
<1> QED
  BY <1>2, <1>4, <1>5, <1>7, <1>8 DEF Counted

\* The innermost dispatch goes on: the others are as they were.
LEMMA TopGoesOn ==
  ASSUME NEW mk, NEW st, Dispatched(st, mk), Len(st) > 0,
         NEW d \in Dispatch, Served(d, mk), NEW st2, st2 = ReplaceAt(st, Len(st), d)
  PROVE  /\ Dispatched(st2, mk) /\ Len(st2) = Len(st) /\ st2[Len(st)] = d
         /\ \A i \in 1..Len(st) : i # Len(st) => st2[i] = st[i]
<1>1. st \in Seq(Dispatch) /\ Len(st) \in Nat /\ Len(st) \in 1..Len(st)
  BY LenProperties DEF Dispatched
<1>2. PICK n \in 1..Len(st) : n = Len(st)
  BY <1>1
<1>3. st2 = [st EXCEPT ![n] = d]
  BY <1>2 DEF ReplaceAt
<1>4. /\ st2 \in Seq(Dispatch) /\ Len(st2) = Len(st)
      /\ \A i \in 1..Len(st) : st2[i] = IF i = n THEN d ELSE st[i]
  BY <1>1, <1>3, ExceptSeq
<1>5. Dispatched(st2, mk)
  BY <1>2, <1>4 DEF Dispatched
<1> QED
  BY <1>2, <1>4, <1>5

\* The next subscription is taken from the snapshot and noted as called.
LEMMA CallServes ==
  ASSUME NEW mk, Numbered(mk), NEW d \in Dispatch, Served(d, mk), d.todo # <<>>,
         NEW id \in 1..Len(mk), mk[id] = Head(d.todo),
         NEW e, Calling(e, d, id, mk[id].once)
  PROVE  /\ e \in Dispatch /\ Served(e, mk) /\ e.running
         /\ d.once \subseteq e.once /\ (mk[id].once => id \in e.once)
         /\ Expects(d, id) /\ ~Expects(e, id)
         /\ \A x \in 1..Len(mk) : x # id => (Expects(e, x) <=> Expects(d, x))
<1>1. PICK todo \in Seq(Records) : todo = d.todo
  BY DEF Dispatch
<1>2. PICK done \in Seq(Nat) : done = d.done
  BY DEF Dispatch
<1>3. PICK rest : rest = Tail(todo)
  OBVIOUS
<1>4. PICK called : called = Append(done, id)
  OBVIOUS
<1>5. PICK spent : spent = IF mk[id].once THEN d.once \cup {id} ELSE d.once
  OBVIOUS
<1>6. e.todo = rest /\ e.done = called /\ e.once = spent /\ e.running = TRUE
  BY <1>1, <1>2, <1>3, <1>4, <1>5 DEF Dispatch, Calling
<1>7. /\ Listed(todo, mk) /\ todo # <<>>
      /\ \A i \in 1..Len(done) : done[i] \in 1..Len(mk)
      /\ \A i, j \in 1..Len(done) : done[i] = done[j] => i = j
      /\ \A i \in 1..Len(done), j \in 1..Len(todo) : done[i] # todo[j].id
      /\ d.once \subseteq 1..Len(mk)
  BY <1>1, <1>2 DEF Served, CalledOnce, NotCalled
<1>8. /\ Len(todo) \in Nat \ {0} /\ Head(todo) = todo[1]
      /\ \A i \in 1..Len(todo) : todo[i] \in Records /\ Meant(todo[i], mk)
      /\ \A i, j \in 1..Len(todo) : todo[i].id = todo[j].id => i = j
  BY <1>7, EmptySeq, ListedIs DEF Listed
<1>9. todo[1].id = id
  BY <1>1, <1>8 DEF Numbered
<1>10. /\ rest \in Seq(Records) /\ Len(rest) = Len(todo) - 1
       /\ \A i \in 1..Len(rest) : rest[i] = todo[i + 1]
  BY <1>3, <1>7, HeadTailProperties
<1>11. \A i \in 1..Len(rest) : i + 1 \in 1..Len(todo) /\ i + 1 # 1
  BY <1>8, <1>10
<1>12. \A j \in 1..Len(todo) : j = 1 \/ (j - 1 \in 1..Len(rest) /\ (j - 1) + 1 = j)
  BY <1>8, <1>10
<1>13. Listed(rest, mk)
  <2>1. \A i \in 1..Len(rest) : Meant(rest[i], mk)
    BY <1>8, <1>10, <1>11
  <2>2. ASSUME NEW i \in 1..Len(rest), NEW j \in 1..Len(rest), rest[i].id = rest[j].id PROVE i = j
    <3>1. i + 1 = j + 1
      <4>1. rest[i] = todo[i + 1] /\ rest[j] = todo[j + 1] /\ i + 1 \in 1..Len(todo) /\ j + 1 \in 1..Len(todo)
        BY <1>10, <1>11
      <4> QED
        BY <1>8, <2>2, <4>1
    <3> QED
      BY <1>8, <1>10, <3>1
  <2> QED
    BY <1>10, <2>1, <2>2 DEF Listed
<1>14. Len(done) \in Nat /\ id \in Nat /\ 1 \in 1..Len(todo)
  BY <1>8, LenProperties
<1>15. /\ called \in Seq(Nat) /\ Len(called) = Len(done) + 1 /\ called[Len(done) + 1] = id
       /\ \A i \in 1..Len(done) : called[i] = done[i]
  BY <1>4, <1>14, AppendProperties
<1>16. \A i \in 1..(Len(done) + 1) : i \in 1..Len(done) \/ i = Len(done) + 1
  BY <1>14
<1>17. \A i \in 1..Len(done) : done[i] # id
  BY <1>7, <1>9, <1>14
<1>18. \A i \in 1..Len(rest) : rest[i].id # id
  BY <1>8, <1>9, <1>10, <1>11, <1>14
<1>19. \A i \in 1..Len(called) : called[i] \in 1..Len(mk)
  BY <1>7, <1>15, <1>16
<1>20. ASSUME NEW i \in 1..Len(called), NEW j \in 1..Len(called), called[i] = called[j] PROVE i = j
  <2>1. CASE i \in 1..Len(done) /\ j \in 1..Len(done)
    BY <1>7, <1>15, <1>20, <2>1
  <2>2. CASE i \in 1..Len(done) /\ j = Len(done) + 1
    BY <1>15, <1>17, <1>20, <2>2
  <2>3. CASE i = Len(done) + 1 /\ j \in 1..Len(done)
    BY <1>15, <1>17, <1>20, <2>3
  <2>4. CASE i = Len(done) + 1 /\ j = Len(done) + 1
    BY <2>4
  <2> QED
    BY <1>15, <1>16, <2>1, <2>2, <2>3, <2>4
<1>21. ASSUME NEW i \in 1..Len(called), NEW j \in 1..Len(rest) PROVE called[i] # rest[j].id
  <2>1. CASE i = Len(done) + 1
    BY <1>15, <1>18, <2>1
  <2>2. CASE i \in 1..Len(done)
    <3>1. called[i] = done[i] /\ rest[j] = todo[j + 1] /\ j + 1 \in 1..Len(todo)
      BY <1>10, <1>11, <1>15, <2>2
    <3>2. done[i] # todo[j + 1].id
      BY <1>7, <2>2, <3>1
    <3> QED
      BY <3>1, <3>2
  <2> QED
    BY <1>15, <1>16, <2>1, <2>2
<1>22. spent \subseteq 1..Len(mk) /\ d.once \subseteq spent /\ (mk[id].once => id \in spent)
  BY <1>5, <1>7
<1>23. Served(e, mk)
  <2>1. e.todo = rest /\ e.done = called /\ e.once = spent
    BY <1>6
  <2>2. spent \subseteq 1..Len(mk)
    BY <1>22
  <2> QED
    <3>1. CalledOnce(called, mk)
      BY <1>19, <1>20 DEF CalledOnce
    <3>2. NotCalled(rest, called)
      BY <1>21 DEF NotCalled
    <3> QED
      BY <1>13, <2>1, <2>2, <3>1, <3>2, Zenon DEF Served
<1>24. e \in Dispatch
  <2>1. spent \in SUBSET Nat
    BY <1>22
  <2>2. rest \in Seq(Records) /\ called \in Seq(Nat)
    BY <1>10, <1>15
  <2> QED
    BY <1>1, <1>2, <1>3, <1>4, <1>5, <2>1, <2>2 DEF Dispatch, Calling
<1>25. Expects(d, id) /\ ~Expects(e, id)
  BY <1>1, <1>6, <1>9, <1>14, <1>18 DEF Expects
<1>26. ASSUME NEW x \in 1..Len(mk), x # id PROVE Expects(e, x) <=> Expects(d, x)
  <2>1. ASSUME NEW j \in 1..Len(rest), rest[j].id = x PROVE \E i \in 1..Len(todo) : todo[i].id = x
    BY <1>10, <1>11, <2>1
  <2>2. ASSUME NEW j \in 1..Len(todo), todo[j].id = x PROVE \E i \in 1..Len(rest) : rest[i].id = x
    <3>1. j # 1 /\ j - 1 \in 1..Len(rest) /\ (j - 1) + 1 = j
      BY <1>9, <1>12, <1>26, <2>2
    <3>2. rest[j - 1] = todo[j]
      BY <1>10, <3>1
    <3> QED
      BY <2>2, <3>1, <3>2
  <2> QED
    BY <1>1, <1>6, <2>1, <2>2 DEF Expects
<1> QED
  BY <1>6, <1>22, <1>23, <1>24, <1>25, <1>26

\* A call of a handler: one event less is outstanding for it, and for nobody else.
LEMMA CallCounts ==
  ASSUME NEW mk, Numbered(mk), NEW st, Dispatched(st, mk), Len(st) > 0,
         NEW du, NEW fi, Counted(st, mk, du, fi),
         NEW id \in 1..Len(mk), st[Len(st)].todo # <<>>, mk[id] = Head(st[Len(st)].todo),
         NEW e, Calling(e, st[Len(st)], id, mk[id].once),
         NEW st2, st2 = ReplaceAt(st, Len(st), e), NEW fi2, Raised(fi2, fi, id)
  PROVE  /\ Dispatched(st2, mk) /\ Counted(st2, mk, du, fi2) /\ Len(st2) = Len(st)
         /\ mk[id].once => Noted(st2, id)
         /\ \A x : Noted(st, x) => Noted(st2, x)
         /\ \A x \in 1..Len(mk) : x # id => fi2[x] = fi[x]
<1>1. st \in Seq(Dispatch) /\ Len(st) \in Nat /\ Len(st) \in 1..Len(st)
  BY LenProperties DEF Dispatched
<1>2. PICK d : d = st[Len(st)]
  OBVIOUS
<1>3. d \in Dispatch /\ Served(d, mk)
  <2>1. st[Len(st)] \in Dispatch
    BY <1>1, ElementOfSeq
  <2> QED
    BY <1>1, <1>2, <2>1 DEF Dispatched
<1>4. /\ e \in Dispatch /\ Served(e, mk) /\ e.running
      /\ d.once \subseteq e.once /\ (mk[id].once => id \in e.once)
      /\ Expects(d, id) /\ ~Expects(e, id)
      /\ \A x \in 1..Len(mk) : x # id => (Expects(e, x) <=> Expects(d, x))
  <2>1. d.todo # <<>> /\ mk[id] = Head(d.todo) /\ Calling(e, d, id, mk[id].once)
    BY <1>2
  <2> QED
    BY <1>3, <2>1, CallServes
<1>5. /\ Dispatched(st2, mk) /\ Len(st2) = Len(st) /\ st2[Len(st)] = e
      /\ \A i \in 1..Len(st) : i # Len(st) => st2[i] = st[i]
  BY <1>4, TopGoesOn
<1>6. du \in Seq(Nat) /\ Len(du) = Len(mk) /\ fi \in Seq(Nat) /\ Len(fi) = Len(mk)
  BY DEF Counted
<1>7. \A x \in 1..Len(mk) : du[x] \in Nat /\ fi[x] \in Nat
  BY <1>6, ElementOfSeq
<1>8. /\ fi2 \in Seq(Nat) /\ Len(fi2) = Len(mk)
      /\ \A x \in 1..Len(mk) : fi2[x] = IF x = id THEN fi[id] + 1 ELSE fi[x]
  BY <1>6, <1>7, ExceptSeq DEF Raised
<1>9. ASSUME NEW x \in 1..Len(mk) PROVE Owed(st2, du, fi2, x)
  <2>1. IsFiniteSet(Waiting(st, x)) /\ Cardinality(Waiting(st, x)) \in Nat
    BY WaitingIsFinite
  <2>2. Owed(st, du, fi, x)
    BY DEF Counted
  <2>3. CASE x = id
    <3>1. Len(st) \in Waiting(st, x)
      BY <1>1, <1>2, <1>4, <2>3 DEF Waiting
    <3>2. Waiting(st2, x) = Waiting(st, x) \ {Len(st)}
      <4>1. ASSUME NEW i \in 1..Len(st) PROVE Expects(st2[i], x) <=> Expects(st[i], x) /\ i # Len(st)
        <5>1. CASE i = Len(st)
          BY <1>4, <1>5, <2>3, <5>1
        <5>2. CASE i # Len(st)
          BY <1>5, <5>2
        <5> QED
          BY <5>1, <5>2
      <4> QED
        BY <1>5, <4>1 DEF Waiting
    <3>3. Cardinality(Waiting(st2, x)) = Cardinality(Waiting(st, x)) - 1
      BY <2>1, <3>1, <3>2, FS_RemoveElement
    <3>4. fi2[x] = fi[x] + 1
      BY <1>8, <2>3
    <3> QED
      <4>1. du[x] \in Nat /\ fi[x] \in Nat
        BY <1>7
      <4>2. du[x] = fi[x] + Cardinality(Waiting(st, x))
        BY <2>2 DEF Owed
      <4>3. du[x] = fi2[x] + Cardinality(Waiting(st2, x))
        BY <2>1, <3>3, <3>4, <4>1, <4>2
      <4> QED
        BY <4>3 DEF Owed
  <2>4. CASE x # id
    <3>1. ASSUME NEW i \in 1..Len(st) PROVE Expects(st2[i], x) <=> Expects(st[i], x)
      <4>1. CASE i = Len(st)
        BY <1>2, <1>4, <1>5, <2>4, <4>1
      <4>2. CASE i # Len(st)
        BY <1>5, <4>2
      <4> QED
        BY <4>1, <4>2
    <3>2. Waiting(st2, x) = Waiting(st, x)
      BY <1>5, <3>1 DEF Waiting
    <3>3. fi2[x] = fi[x]
      BY <1>8, <2>4
    <3> QED
      BY <2>2, <3>2, <3>3 DEF Owed
  <2> QED
    BY <2>3, <2>4
<1>10. mk[id].once => Noted(st2, id)
  BY <1>1, <1>4, <1>5 DEF Noted
<1>11. ASSUME NEW x, Noted(st, x) PROVE Noted(st2, x)
  <2>1. PICK i \in 1..Len(st) : x \in st[i].once
    BY <1>11 DEF Noted
  <2>2. x \in st2[i].once
    BY <1>2, <1>4, <1>5, <2>1
  <2> QED
    BY <1>5, <2>2 DEF Noted
<1> QED
  BY <1>5, <1>6, <1>8, <1>9, <1>10, <1>11 DEF Counted

\* A handler returns: who waits and who is spent stays.
LEMMA ReturnCounts ==
  ASSUME NEW mk, NEW st, Dispatched(st, mk), Len(st) > 0,
         NEW du, NEW fi, Counted(st, mk, du, fi),
         NEW e \in Dispatch,
         e.todo = st[Len(st)].todo, e.done = st[Len(st)].done, e.once = st[Len(st)].once,
         NEW st2, st2 = ReplaceAt(st, Len(st), e)
  PROVE  /\ Dispatched(st2, mk) /\ Counted(st2, mk, du, fi) /\ Len(st2) = Len(st)
         /\ \A x : Noted(st, x) => Noted(st2, x)
<1>1. st \in Seq(Dispatch) /\ Len(st) \in Nat /\ Len(st) \in 1..Len(st)
  BY LenProperties DEF Dispatched
<1>2. PICK d : d = st[Len(st)]
  OBVIOUS
<1>3. d \in Dispatch /\ Served(d, mk)
  <2>1. st[Len(st)] \in Dispatch
    BY <1>1, ElementOfSeq
  <2> QED
    BY <1>1, <1>2, <2>1 DEF Dispatched
<1>4. e.todo = d.todo /\ e.done = d.done /\ e.once = d.once
  BY <1>2
<1>5. Served(e, mk)
  BY <1>3, <1>4 DEF Served
<1>6. /\ Dispatched(st2, mk) /\ Len(st2) = Len(st) /\ st2[Len(st)] = e
      /\ \A i \in 1..Len(st) : i # Len(st) => st2[i] = st[i]
  BY <1>5, TopGoesOn
<1>7. \A i \in 1..Len(st) : st2[i].todo = st[i].todo /\ st2[i].once = st[i].once
  BY <1>2, <1>4, <1>6
<1>8. ASSUME NEW x PROVE Waiting(st2, x) = Waiting(st, x)
  <2>1. \A i \in 1..Len(st) : Expects(st2[i], x) <=> Expects(st[i], x)
    BY <1>7 DEF Expects
  <2> QED
    BY <1>6, <2>1 DEF Waiting
<1>9. \A x \in 1..Len(mk) : Owed(st2, du, fi, x)
  BY <1>8 DEF Counted, Owed
<1>10. \A x : Noted(st, x) => Noted(st2, x)
  BY <1>6, <1>7 DEF Noted
<1> QED
  BY <1>6, <1>9, <1>10 DEF Counted

\* publish() returns: nobody waits for a dispatch that called everybody.
LEMMA EndCounts ==
  ASSUME NEW mk, NEW st, Dispatched(st, mk), Len(st) > 0, st[Len(st)].todo = <<>>,
         NEW du, NEW fi, Counted(st, mk, du, fi), NEW st2, st2 = Front(st)
  PROVE  /\ Dispatched(st2, mk) /\ Counted(st2, mk, du, fi) /\ Len(st2) = Len(st) - 1
         /\ \A x : Noted(st, x) => Noted(st2, x) \/ x \in st[Len(st)].once
<1>1. st \in Seq(Dispatch) /\ Len(st) \in Nat
  BY LenProperties DEF Dispatched
<1>2. /\ st2 \in Seq(Dispatch) /\ Len(st2) = Len(st) - 1
      /\ \A i \in 1..(Len(st) - 1) : st2[i] = st[i]
  <2>1. 1 \in Int /\ Len(st) - 1 \in Int /\ \A i \in 1..(Len(st) - 1) : st[i] \in Dispatch
    BY <1>1, ElementOfSeq
  <2>2. PICK n \in Int : n = Len(st) - 1
    BY <1>1
  <2>3. st2 = SubSeq(st, 1, n)
    BY <2>2 DEF Front
  <2>4. /\ st2 \in Seq(Dispatch) /\ Len(st2) = IF 1 <= n THEN n - 1 + 1 ELSE 0
        /\ \A i \in 1..(n - 1 + 1) : st2[i] = st[1 + i - 1]
    BY <2>1, <2>2, <2>3, SubSeqProperties
  <2> QED
    BY <1>1, <2>2, <2>4
<1>3. \A i \in 1..Len(st) : i \in 1..(Len(st) - 1) \/ i = Len(st)
  BY <1>1
<1>4. \A i \in 1..(Len(st) - 1) : i \in 1..Len(st) /\ i < Len(st)
  BY <1>1
<1>5. Dispatched(st2, mk)
  BY <1>1, <1>2, <1>4 DEF Dispatched
<1>6. ASSUME NEW x PROVE Waiting(st2, x) = Waiting(st, x)
  <2>1. ~Expects(st[Len(st)], x)
    BY EmptySeq DEF Expects
  <2> QED
    BY <1>2, <1>3, <1>4, <2>1 DEF Waiting
<1>7. \A x \in 1..Len(mk) : Owed(st2, du, fi, x)
  BY <1>6 DEF Counted, Owed
<1>8. ASSUME NEW x, Noted(st, x) PROVE Noted(st2, x) \/ x \in st[Len(st)].once
  BY <1>2, <1>3, <1>8 DEF Noted
<1> QED
  BY <1>2, <1>5, <1>7, <1>8 DEF Counted

-----------------------------------------------------------------------------
(* The steps of the bus.                                                   *)

LEMMA BusStarts == Init => BusInv
<1> SUFFICES ASSUME Init PROVE BusInv
  OBVIOUS
<1>1. /\ subs = <<>> /\ stack = <<>> /\ made = <<>> /\ due = <<>> /\ fired = <<>> /\ released = {}
      /\ Len(<<>>) = 0 /\ 1..0 = {}
  BY EmptySeq DEF Init
<1>2. <<>> \in Seq(Records) /\ <<>> \in Seq(Dispatch) /\ <<>> \in Seq(Nat)
  BY EmptySeq
<1>3. 0 <= MaxDepth
  BY BoundsAssumption
<1>4. Numbered(made) /\ Listed(subs, made)
  BY <1>1, <1>2 DEF Numbered, Listed
<1>5. Dispatched(stack, made) /\ Counted(stack, made, due, fired)
  BY <1>1, <1>2 DEF Dispatched, Counted
<1>6. Spending(subs, stack, fired)
  BY <1>1 DEF Spending
<1> QED
  BY <1>1, <1>3, <1>4, <1>5, <1>6 DEF BusInv

LEMMA SubscribeKeeps ==
  ASSUME BusInv, NEW p \in Patterns, NEW h \in Handlers, NEW once \in BOOLEAN, Subscribe(p, h, once)
  PROVE  BusInv'
<1>0. PICK sub : sub = [id |-> Len(made) + 1, pattern |-> p, handler |-> h, once |-> once]
  OBVIOUS
<1>1. /\ made \in Seq(Records) /\ Len(made) \in Nat /\ Listed(subs, made)
      /\ subs \in Seq(Records) /\ Len(subs) \in Nat
  BY LenProperties, ListedIs DEF BusInv, Numbered
<1>2. sub \in Records /\ sub.id = Len(made) + 1
  BY <1>0, <1>1 DEF Records
<1>3. /\ made' = Append(made, sub) /\ subs' = Added(sub)
      /\ due' = Append(due, 0) /\ fired' = Append(fired, 0) /\ stack' = stack /\ released' = released
  BY <1>0, Zenon DEF Subscribe
<1>4. PICK k \in 1..(Len(subs) + 1) : subs' = InsertAt(subs, k, sub)
  <2>1. DOMAIN subs = 1..Len(subs) /\ Of(sub.pattern) \in SUBSET (1..Len(subs))
    BY <1>1, LenProperties DEF Of
  <2>2. CASE Of(sub.pattern) = {}
    <3>1. Len(subs) + 1 \in 1..(Len(subs) + 1)
      BY <1>1
    <3>2. subs' = InsertAt(subs, Len(subs) + 1, sub)
      BY <1>3, <2>2 DEF Added
    <3> QED
      BY <3>1, <3>2
  <2>3. CASE Of(sub.pattern) # {}
    <3>1. \E m \in Of(sub.pattern) : \A j \in Of(sub.pattern) : j <= m
      BY <1>1, <2>1, <2>3, GreatestExists
    <3>2. LastOf(sub.pattern) \in Of(sub.pattern)
      BY <3>1 DEF LastOf
    <3>3. LastOf(sub.pattern) + 1 \in 1..(Len(subs) + 1)
      BY <1>1, <2>1, <3>2
    <3>4. subs' = InsertAt(subs, LastOf(sub.pattern) + 1, sub)
      BY <1>3, <2>3 DEF Added
    <3> QED
      BY <3>3, <3>4
  <2> QED
    BY <2>2, <2>3
<1>5. /\ Listed(subs', made')
      /\ \A i \in 1..Len(subs') : subs'[i] = sub \/ \E j \in 1..Len(subs) : subs'[i] = subs[j]
  <2>1. PICK s, mk, t, more : s = subs /\ mk = made /\ t = subs' /\ more = made'
    OBVIOUS
  <2>2. /\ mk \in Seq(Records) /\ Listed(s, mk) /\ sub.id = Len(mk) + 1 /\ k \in 1..(Len(s) + 1)
        /\ t = InsertAt(s, k, sub) /\ Longer(more, mk, sub)
    BY <1>1, <1>2, <1>3, <1>4, <2>1, Zenon DEF Longer
  <2>3. /\ Listed(t, more)
        /\ \A i \in 1..Len(t) : t[i] = sub \/ \E j \in 1..Len(s) : t[i] = s[j]
    BY <1>2, <2>2, ListedAdds
  <2> QED
    BY <2>1, <2>3, Zenon
<1>6. Dispatched(stack, made') /\ Counted(stack, made', due', fired')
  <2>1. /\ Numbered(made) /\ Dispatched(stack, made) /\ Counted(stack, made, due, fired)
        /\ Longer(made', made, sub) /\ Longer(due', due, 0) /\ Longer(fired', fired, 0)
    BY <1>3 DEF BusInv, Longer
  <2> QED
    BY <1>2, <2>1, SubscribeCounts
<1>7. made' \in Seq(Records) /\ Len(made') = Len(made) + 1 /\ made'[Len(made) + 1] = sub
      /\ \A i \in 1..Len(made) : made'[i] = made[i]
  BY <1>1, <1>2, <1>3, AppendProperties
<1>8. Numbered(made')
  <2>1. \A i \in 1..(Len(made) + 1) : i \in 1..Len(made) \/ i = Len(made) + 1
    BY <1>1
  <2> QED
    BY <1>2, <1>7, <2>1 DEF BusInv, Numbered
<1>9. Spending(subs', stack, fired')
  <2>1. fired \in Seq(Nat) /\ Len(fired) = Len(made)
    BY DEF BusInv, Counted
  <2>2. fired'[Len(made) + 1] = 0 /\ \A i \in 1..Len(made) : fired'[i] = fired[i]
    BY <1>3, <2>1, AppendProperties
  <2> SUFFICES ASSUME NEW i \in 1..Len(subs'), subs'[i].once, fired'[subs'[i].id] > 0
               PROVE  Noted(stack, subs'[i].id)
    BY DEF Spending
  <2>3. subs'[i] # sub
    BY <1>2, <2>2
  <2>4. PICK j \in 1..Len(subs) : subs'[i] = subs[j]
    BY <1>5, <2>3
  <2>5. subs[j].id \in 1..Len(made)
    BY <1>1, ListedIs
  <2> QED
    BY <2>2, <2>4, <2>5 DEF BusInv, Spending
<1>10. released' \subseteq 1..Len(made')
  BY <1>1, <1>3, <1>7 DEF BusInv
<1> QED
  BY <1>3, <1>5, <1>6, <1>8, <1>9, <1>10 DEF BusInv

\* What unsubscribe(), unsubscribeAll() and clear() have in common.
LEMMA FewerKeeps ==
  ASSUME BusInv, UNCHANGED <<stack, made, due, fired>>, Listed(subs', made), TakenFrom(subs', subs),
         released' \subseteq 1..Len(made)
  PROVE  BusInv'
<1>1. Spending(subs', stack, fired)
  BY SpendingShrinks DEF BusInv
<1> QED
  BY <1>1 DEF BusInv

LEMMA UnsubscribeKeeps ==
  ASSUME BusInv, NEW id \in Ids, Unsubscribe(id)
  PROVE  BusInv'
<1>1. /\ Listed(subs, made) /\ DOMAIN subs = 1..Len(subs) /\ Len(subs) \in Nat
  BY ListedIs DEF BusInv
<1>2. Listed(subs', made) /\ TakenFrom(subs', subs)
  <2>1. CASE Same(made[id]) = {}
    BY <1>1, <2>1 DEF Unsubscribe, TakenFrom
  <2>2. CASE Same(made[id]) # {}
    <3>1. PICK same : same = Same(made[id])
      OBVIOUS
    <3>2. same \in SUBSET (1..Len(subs)) /\ same \in SUBSET Nat /\ same # {}
      BY <1>1, <2>2, <3>1 DEF Same
    <3>3. \E m \in same : \A j \in same : m <= j
      BY <3>2, LeastExists
    <3>4. PICK k : k = CHOOSE i \in same : \A j \in same : i <= j
      OBVIOUS
    <3>5. k \in 1..Len(subs)
      BY <3>2, <3>3, <3>4
    <3>6. subs' = RemoveAt(subs, k)
      BY <2>2, <3>1, <3>4 DEF Unsubscribe
    <3> QED
      BY <1>1, <3>5, <3>6, ListedDrops
  <2> QED
    BY <2>1, <2>2
<1>3. released' \subseteq 1..Len(made)
  BY DEF Unsubscribe, BusInv, Ids
<1> QED
  BY <1>2, <1>3, FewerKeeps DEF Unsubscribe

LEMMA UnsubscribeAllKeeps ==
  ASSUME BusInv, NEW p \in Patterns, UnsubscribeAll(p)
  PROVE  BusInv'
<1>1. Listed(subs, made)
  BY DEF BusInv
<1>2. /\ DOMAIN subs = 1..Len(subs) /\ \A i \in 1..Len(subs) : subs[i].id \in 1..Len(made)
  BY <1>1, ListedIs
<1>3. PICK ids : ids = {subs[i].id : i \in Of(p)}
  OBVIOUS
<1>4. ids \subseteq 1..Len(made)
  BY <1>2, <1>3 DEF Of
<1>5. PICK kept : kept = {s \in ToSet(subs) : s.id \notin ids}
  OBVIOUS
<1>6. subs' = Filter(subs, kept)
  BY <1>3, <1>5, Zenon DEF UnsubscribeAll, Without
<1>7. Listed(subs', made) /\ TakenFrom(subs', subs)
  BY <1>1, <1>6, ListedFilters
<1>8. released' \subseteq 1..Len(made)
  BY <1>3, <1>4 DEF UnsubscribeAll, BusInv
<1> QED
  BY <1>7, <1>8, FewerKeeps DEF UnsubscribeAll

LEMMA ClearKeeps ==
  ASSUME BusInv, Clear
  PROVE  BusInv'
<1>1. /\ DOMAIN subs = 1..Len(subs) /\ \A i \in 1..Len(subs) : subs[i].id \in 1..Len(made)
  BY ListedIs DEF BusInv
<1>2. subs' = <<>> /\ Len(<<>>) = 0 /\ 1..0 = {} /\ <<>> \in Seq(Records)
  BY EmptySeq DEF Clear
<1>3. Listed(subs', made) /\ TakenFrom(subs', subs)
  BY <1>2 DEF Listed, TakenFrom
<1>4. released' \subseteq 1..Len(made)
  BY <1>1 DEF Clear, Live, BusInv
<1> QED
  BY <1>3, <1>4, FewerKeeps DEF Clear

LEMMA PublishKeeps ==
  ASSUME BusInv, NEW subject \in Subjects, Publish(subject)
  PROVE  BusInv'
<1>1. /\ Numbered(made) /\ Listed(subs, made) /\ Dispatched(stack, made)
      /\ Counted(stack, made, due, fired)
  BY DEF BusInv
<1>2. stack \in Seq(Dispatch) /\ Len(stack) \in Nat
  BY <1>1, LenProperties DEF Dispatched
<1>3. PICK meant : meant = {s \in ToSet(subs) : MatchSubject(s.pattern, subject)}
  OBVIOUS
<1>4. PICK todo : todo = Filter(subs, meant)
  OBVIOUS
<1>5. PICK d : d = [todo |-> todo, done |-> <<>>, once |-> {}, running |-> FALSE]
  OBVIOUS
<1>6. stack' = Append(stack, d)
  BY <1>3, <1>4, <1>5, Zenon DEF Publish
<1>7. Listed(todo, made)
  BY <1>1, <1>4, ListedFilters
<1>8. todo \in Seq(Records) /\ DOMAIN todo = 1..Len(todo)
  BY <1>7, ListedIs
<1>9. d \in Dispatch
  BY <1>5, <1>8, EmptySeq DEF Dispatch
<1>10. Served(d, made)
  <2>1. d.todo = todo /\ d.done = <<>> /\ d.once = {} /\ Len(<<>>) = 0 /\ 1..0 = {}
    BY <1>5, EmptySeq
  <2> QED
    BY <1>7, <2>1 DEF Served, CalledOnce, NotCalled
<1>11. due' = [x \in 1..Len(made) |-> IF Expects(d, x) THEN due[x] + 1 ELSE due[x]]
  <2>1. PICK ids : ids = {todo[i].id : i \in DOMAIN todo}
    OBVIOUS
  <2>2. due' = [x \in 1..Len(made) |-> IF x \in ids THEN due[x] + 1 ELSE due[x]]
    BY <1>3, <1>4, <2>1, Zenon DEF Publish, Ids
  <2>3. ASSUME NEW x PROVE x \in ids <=> Expects(d, x)
    BY <1>5, <1>8, <2>1 DEF Expects
  <2> QED
    BY <2>2, <2>3
<1>12. Len(stack) > 0 => stack[Len(stack)].running
  BY <1>2, EmptySeq DEF Publish, CodeRuns, Last
<1>13. /\ Dispatched(stack', made) /\ Counted(stack', made, due', fired) /\ Len(stack') = Len(stack) + 1
       /\ \A i \in 1..Len(stack) : stack'[i] = stack[i]
  <2>1. PICK mk, st, du, fi, st2, du2 :
           mk = made /\ st = stack /\ du = due /\ fi = fired /\ st2 = stack' /\ du2 = due'
    OBVIOUS
  <2>2. /\ Numbered(mk) /\ Dispatched(st, mk) /\ Counted(st, mk, du, fi) /\ Served(d, mk)
        /\ Len(st) > 0 => st[Len(st)].running
        /\ Longer(st2, st, d) /\ DueNow(du2, du, d, mk)
    BY <1>1, <1>6, <1>10, <1>11, <1>12, <2>1, Zenon DEF Longer, DueNow
  <2>3. /\ Dispatched(st2, mk) /\ Counted(st2, mk, du2, fi) /\ Len(st2) = Len(st) + 1
        /\ \A i \in 1..Len(st) : st2[i] = st[i]
    BY <1>9, <2>2, PublishCounts
  <2> QED
    BY <2>1, <2>3, Zenon
<1>14. Len(stack') <= MaxDepth
  BY <1>2, <1>13, BoundsAssumption DEF Publish
<1>15. Spending(subs, stack', fired)
  <2>1. \A x : Noted(stack, x) => Noted(stack', x)
    <3>1. \A i \in 1..Len(stack) : i \in 1..Len(stack')
      BY <1>2, <1>13
    <3> QED
      BY <1>13, <3>1 DEF Noted
  <2> QED
    BY <2>1 DEF BusInv, Spending
<1>16. subs' = subs /\ made' = made /\ fired' = fired /\ released' = released
  BY DEF Publish
<1> QED
  BY <1>1, <1>13, <1>14, <1>15, <1>16 DEF BusInv

LEMMA CallNextKeeps ==
  ASSUME BusInv, CallNext
  PROVE  BusInv'
<1>1. /\ Numbered(made) /\ Listed(subs, made) /\ Dispatched(stack, made)
      /\ Counted(stack, made, due, fired) /\ Spending(subs, stack, fired)
  BY DEF BusInv
<1>2. PICK id \in 1..Len(made) :
        /\ Dispatching(made[id])
        /\ stack' = LET d == Last(stack)
                    IN  ReplaceAt(stack, Len(stack),
                          [d EXCEPT !.todo = Tail(@), !.running = TRUE, !.done = Append(@, id),
                                    !.once = IF made[id].once THEN @ \cup {id} ELSE @])
        /\ fired' = [fired EXCEPT ![id] = @ + 1]
        /\ UNCHANGED <<subs, made, published, due, released>>
  BY DEF CallNext, Ids
<1>3. stack # <<>> /\ stack[Len(stack)].todo # <<>> /\ made[id] = Head(stack[Len(stack)].todo)
  BY <1>2 DEF Dispatching, Last
<1>4. Len(stack) > 0
  BY <1>1, <1>3, EmptySeq DEF Dispatched
<1>5. PICK e : e = [stack[Len(stack)] EXCEPT !.todo = Tail(@), !.running = TRUE, !.done = Append(@, id),
                                             !.once = IF made[id].once THEN @ \cup {id} ELSE @]
  OBVIOUS
<1>6. stack' = ReplaceAt(stack, Len(stack), e)
  BY <1>2, <1>5, Zenon DEF Last
<1>7. /\ Dispatched(stack', made) /\ Counted(stack', made, due, fired') /\ Len(stack') = Len(stack)
      /\ made[id].once => Noted(stack', id)
      /\ \A x : Noted(stack, x) => Noted(stack', x)
      /\ \A x \in 1..Len(made) : x # id => fired'[x] = fired[x]
  <2>1. fired' = [fired EXCEPT ![id] = @ + 1]
    BY <1>2
  <2> QED
    <3>1. PICK mk, st, du, fi, st2, fi2 :
             mk = made /\ st = stack /\ du = due /\ fi = fired /\ st2 = stack' /\ fi2 = fired'
      OBVIOUS
    <3>2. /\ Numbered(mk) /\ Dispatched(st, mk) /\ Len(st) > 0 /\ Counted(st, mk, du, fi)
          /\ id \in 1..Len(mk) /\ st[Len(st)].todo # <<>> /\ mk[id] = Head(st[Len(st)].todo)
          /\ Calling(e, st[Len(st)], id, mk[id].once)
          /\ st2 = ReplaceAt(st, Len(st), e) /\ Raised(fi2, fi, id)
      BY <1>1, <1>3, <1>4, <1>5, <1>6, <2>1, <3>1, Zenon DEF Calling, Raised
    <3>3. /\ Dispatched(st2, mk) /\ Counted(st2, mk, du, fi2) /\ Len(st2) = Len(st)
          /\ mk[id].once => Noted(st2, id)
          /\ \A x : Noted(st, x) => Noted(st2, x)
          /\ \A x \in 1..Len(mk) : x # id => fi2[x] = fi[x]
      BY <3>2, CallCounts
    <3> QED
      BY <3>1, <3>3, Zenon
<1>8. subs' = subs /\ made' = made /\ due' = due /\ released' = released
  BY <1>2
<1>9. Spending(subs, stack', fired')
  <2> SUFFICES ASSUME NEW i \in 1..Len(subs), subs[i].once, fired'[subs[i].id] > 0
               PROVE  Noted(stack', subs[i].id)
    BY DEF Spending
  <2>1. subs[i].id \in 1..Len(made) /\ subs[i] = made[subs[i].id]
    BY <1>1, ListedIs
  <2>2. CASE subs[i].id = id
    BY <1>7, <2>1, <2>2
  <2>3. CASE subs[i].id # id
    BY <1>1, <1>7, <2>1, <2>3 DEF Spending
  <2> QED
    BY <2>2, <2>3
<1> QED
  BY <1>1, <1>7, <1>8, <1>9 DEF BusInv

LEMMA ReturnKeeps ==
  ASSUME BusInv, Return
  PROVE  BusInv'
<1>1. /\ Numbered(made) /\ Listed(subs, made) /\ Dispatched(stack, made)
      /\ Counted(stack, made, due, fired) /\ Spending(subs, stack, fired)
  BY DEF BusInv
<1>2. stack \in Seq(Dispatch) /\ Len(stack) > 0 /\ Len(stack) \in 1..Len(stack)
  <2>1. stack \in Seq(Dispatch) /\ stack # <<>>
    BY <1>1 DEF Dispatched, Return
  <2> QED
    BY <2>1, EmptySeq
<1>3. PICK top \in Dispatch : top = stack[Len(stack)]
  BY <1>2, ElementOfSeq
<1>4. PICK e : e = [top EXCEPT !.running = FALSE]
  OBVIOUS
<1>5. e \in Dispatch /\ e.todo = top.todo /\ e.done = top.done /\ e.once = top.once
  BY <1>4 DEF Dispatch
<1>6. stack' = ReplaceAt(stack, Len(stack), e)
  BY <1>3, <1>4, Zenon DEF Return, Last
<1>7. /\ Dispatched(stack', made) /\ Counted(stack', made, due, fired) /\ Len(stack') = Len(stack)
      /\ \A x : Noted(stack, x) => Noted(stack', x)
  BY <1>1, <1>2, <1>3, <1>5, <1>6, ReturnCounts
<1>8. Spending(subs, stack', fired)
  BY <1>1, <1>7 DEF Spending
<1> QED
  BY <1>1, <1>7, <1>8 DEF BusInv, Return

LEMMA EndDispatchKeeps ==
  ASSUME BusInv, EndDispatch
  PROVE  BusInv'
<1>1. /\ Numbered(made) /\ Listed(subs, made) /\ Dispatched(stack, made)
      /\ Counted(stack, made, due, fired) /\ Spending(subs, stack, fired)
  BY DEF BusInv
<1>2. stack \in Seq(Dispatch) /\ Len(stack) \in Nat /\ Len(stack) > 0 /\ Len(stack) \in 1..Len(stack)
  <2>1. stack \in Seq(Dispatch) /\ stack # <<>>
    BY <1>1 DEF Dispatched, EndDispatch
  <2> QED
    BY <2>1, EmptySeq
<1>3. PICK ids : ids = stack[Len(stack)].once
  OBVIOUS
<1>4. ids \subseteq 1..Len(made)
  BY <1>1, <1>2, <1>3 DEF Dispatched, Served
<1>5. PICK kept : kept = {s \in ToSet(subs) : s.id \notin ids}
  OBVIOUS
<1>6. subs' = Filter(subs, kept)
  BY <1>3, <1>5, Zenon DEF EndDispatch, Without, Last
<1>7. Listed(subs', made) /\ TakenFrom(subs', subs) /\ \A i \in 1..Len(subs') : subs'[i] \in kept
  BY <1>1, <1>6, ListedFilters
<1>8. stack[Len(stack)].todo = <<>> /\ stack' = Front(stack)
  BY DEF EndDispatch, Last
<1>9. /\ Dispatched(stack', made) /\ Counted(stack', made, due, fired) /\ Len(stack') = Len(stack) - 1
      /\ \A x : Noted(stack, x) => Noted(stack', x) \/ x \in ids
  BY <1>1, <1>2, <1>3, <1>8, EndCounts
<1>10. Len(stack') <= MaxDepth
  BY <1>2, <1>9, BoundsAssumption DEF BusInv
<1>11. Spending(subs', stack', fired)
  <2>1. Spending(subs', stack, fired)
    BY <1>1, <1>7, SpendingShrinks
  <2>2. \A i \in 1..Len(subs') : subs'[i].id \notin ids
    BY <1>5, <1>7
  <2> QED
    BY <1>9, <2>1, <2>2 DEF Spending
<1>12. released' \subseteq 1..Len(made)
  BY <1>3, <1>4 DEF EndDispatch, Last, BusInv
<1> QED
  BY <1>1, <1>7, <1>9, <1>10, <1>11, <1>12 DEF BusInv, EndDispatch

LEMMA BusStep == BusInv /\ [Next]_vars => BusInv'
<1> SUFFICES ASSUME BusInv, [Next]_vars PROVE BusInv'
  OBVIOUS
<1>1. CASE \E p \in Patterns, h \in Handlers, once \in BOOLEAN : Subscribe(p, h, once)
  BY <1>1, SubscribeKeeps
<1>2. CASE \E id \in Ids : Unsubscribe(id)
  BY <1>2, UnsubscribeKeeps
<1>3. CASE \E p \in Patterns : UnsubscribeAll(p)
  BY <1>3, UnsubscribeAllKeeps
<1>4. CASE Clear
  BY <1>4, ClearKeeps
<1>5. CASE \E s \in Subjects : Publish(s)
  BY <1>5, PublishKeeps
<1>6. CASE CallNext
  BY <1>6, CallNextKeeps
<1>7. CASE Return
  BY <1>7, ReturnKeeps
<1>8. CASE EndDispatch
  BY <1>8, EndDispatchKeeps
<1>9. CASE UNCHANGED vars
  BY <1>9 DEF vars, BusInv
<1> QED
  BY <1>1, <1>2, <1>3, <1>4, <1>5, <1>6, <1>7, <1>8, <1>9 DEF Next, Code

-----------------------------------------------------------------------------
(* What the invariant says about the bus.                                  *)

LEMMA BusTypes == BusInv => TypeOK
<1> SUFFICES ASSUME BusInv PROVE TypeOK
  OBVIOUS
<1>1. /\ Numbered(made) /\ Listed(subs, made) /\ Dispatched(stack, made)
      /\ Counted(stack, made, due, fired) /\ Len(stack) <= MaxDepth /\ released \subseteq 1..Len(made)
  BY DEF BusInv
<1>2. /\ Len(subs) \in Nat /\ DOMAIN subs = 1..Len(subs)
      /\ \A i \in 1..Len(subs) : subs[i].id \in 1..Len(made) /\ subs[i] = made[subs[i].id]
      /\ \A i, j \in 1..Len(subs) : subs[i].id = subs[j].id => i = j
  BY <1>1, ListedIs
<1>3. Cardinality(Live) = Len(subs)
  <2>1. PICK f : f = [i \in 1..Len(subs) |-> subs[i].id]
    OBVIOUS
  <2>2. /\ f \in [1..Len(subs) -> Live] /\ \A x \in Live : \E i \in 1..Len(subs) : f[i] = x
        /\ \A i, j \in 1..Len(subs) : f[i] = f[j] => i = j
    BY <1>2, <2>1 DEF Live
  <2>3. f \in Surjection(1..Len(subs), Live)
    BY <2>2 DEF Surjection
  <2>4. f \in Injection(1..Len(subs), Live)
    BY <2>2 DEF Injection, IsInjective
  <2>5. IsFiniteSet(1..Len(subs)) /\ Cardinality(1..Len(subs)) = Len(subs)
    BY <1>2, FS_Interval
  <2>6. Cardinality(Live) = Cardinality(1..Len(subs))
    BY <2>3, <2>4, <2>5, FS_Surjection
  <2> QED
    BY <2>5, <2>6
<1>4. stack \in Seq(Dispatch) /\ DOMAIN stack = 1..Len(stack)
  BY <1>1, LenProperties DEF Dispatched
<1>5. ASSUME NEW i \in 1..Len(stack)
      PROVE  LET todo == stack[i].todo
             IN  /\ \A j \in DOMAIN todo : todo[j] = made[todo[j].id]
                 /\ IsInjective(stack[i].done \o [j \in DOMAIN todo |-> todo[j].id])
                 /\ i < Len(stack) => stack[i].running
  <2>1. PICK d : d = stack[i]
    OBVIOUS
  <2>2. d \in Dispatch /\ Served(d, made) /\ (i < Len(stack) => d.running)
    <3>1. stack[i] \in Dispatch
      BY <1>4, ElementOfSeq
    <3> QED
      BY <1>1, <2>1, <3>1 DEF Dispatched
  <2>3. PICK todo, done : todo = d.todo /\ done = d.done
    OBVIOUS
  <2>4. done \in Seq(Nat) /\ Listed(todo, made) /\ CalledOnce(done, made) /\ NotCalled(todo, done)
    BY <2>2, <2>3 DEF Dispatch, Served
  <2>5. /\ Len(todo) \in Nat /\ DOMAIN todo = 1..Len(todo)
        /\ \A j \in 1..Len(todo) : todo[j].id \in 1..Len(made) /\ todo[j] = made[todo[j].id]
        /\ \A j, l \in 1..Len(todo) : todo[j].id = todo[l].id => j = l
    BY <2>4, ListedIs
  <2>6. PICK ids : ids = [j \in DOMAIN todo |-> todo[j].id]
    OBVIOUS
  <2>7. ids \in Seq(Nat) /\ Len(ids) = Len(todo) /\ \A j \in 1..Len(todo) : ids[j] = todo[j].id
    <3>1. PICK n \in Nat : n = Len(todo)
      BY <2>5
    <3>2. ids \in [1..n -> Nat] /\ \A j \in 1..n : ids[j] = todo[j].id
      BY <2>5, <2>6, <3>1
    <3>3. ids \in Seq(Nat) /\ Len(ids) = n
      BY <3>2
    <3> QED
      BY <3>1, <3>2, <3>3
  <2>8. PICK all : all = done \o ids
    OBVIOUS
  <2>9. Len(done) \in Nat
    BY <2>4, LenProperties
  <2>10. /\ all \in Seq(Nat) /\ Len(all) = Len(done) + Len(ids)
         /\ \A k \in 1..(Len(done) + Len(ids)) : all[k] = IF k <= Len(done) THEN done[k] ELSE ids[k - Len(done)]
    <3>1. done \in Seq(Nat) /\ ids \in Seq(Nat)
      BY <2>4, <2>7
    <3>2. all \in Seq(Nat) /\ WithJoined(all, done, ids)
      BY <2>8, <3>1, Joined
    <3> QED
      BY <3>2 DEF WithJoined
  <2>11. DOMAIN all = 1..(Len(done) + Len(todo))
    BY <2>7, <2>10, LenProperties
  <2>12. ASSUME NEW k \in 1..(Len(done) + Len(todo))
         PROVE  \/ k \in 1..Len(done) /\ all[k] = done[k]
                \/ k > Len(done) /\ k - Len(done) \in 1..Len(todo) /\ all[k] = todo[k - Len(done)].id
    <3>0. k \in 1..(Len(done) + Len(ids)) /\ k \in Nat
      BY <2>5, <2>7, <2>9
    <3>1. CASE k <= Len(done)
      <4>1. k \in 1..Len(done)
        BY <2>9, <3>0, <3>1
      <4> QED
        BY <2>10, <3>0, <3>1, <4>1
    <3>2. CASE ~(k <= Len(done))
      <4>1. k > Len(done) /\ k - Len(done) \in 1..Len(todo)
        BY <2>5, <2>9, <3>0, <3>2
      <4>2. all[k] = ids[k - Len(done)]
        BY <2>10, <3>0, <3>2
      <4> QED
        BY <2>7, <4>1, <4>2
    <3> QED
      BY <3>1, <3>2
  <2>13. ASSUME NEW k \in DOMAIN all, NEW l \in DOMAIN all, all[k] = all[l] PROVE k = l
    <3>0. k \in Nat /\ l \in Nat
      BY <2>11
    <3>1. CASE k \in 1..Len(done) /\ all[k] = done[k] /\ l \in 1..Len(done) /\ all[l] = done[l]
      BY <2>4, <2>13, <3>1 DEF CalledOnce
    <3>2. ASSUME NEW x \in 1..Len(done), NEW y \in 1..Len(todo), done[x] = todo[y].id PROVE FALSE
      BY <2>4, <3>2 DEF NotCalled
    <3>3. CASE k > Len(done) /\ k - Len(done) \in 1..Len(todo) /\ all[k] = todo[k - Len(done)].id
               /\ l > Len(done) /\ l - Len(done) \in 1..Len(todo) /\ all[l] = todo[l - Len(done)].id
      <4>1. k - Len(done) = l - Len(done)
        BY <2>5, <2>13, <3>3
      <4> QED
        BY <2>9, <3>0, <4>1
    <3> QED
      BY <2>11, <2>12, <2>13, <3>1, <3>2, <3>3
  <2>14. IsInjective(all)
    BY <2>13 DEF IsInjective
  <2>15. IsInjective(stack[i].done \o [j \in DOMAIN stack[i].todo |-> stack[i].todo[j].id])
    BY <2>1, <2>3, <2>6, <2>8, <2>14, Zenon
  <2>16. \A j \in DOMAIN stack[i].todo : stack[i].todo[j] = made[stack[i].todo[j].id]
    BY <2>1, <2>3, <2>5
  <2> QED
    BY <2>1, <2>2, <2>15, <2>16
<1>6. Len(due) = Len(made) /\ Len(fired) = Len(made)
  BY <1>1 DEF Counted
<1>7. \A i \in DOMAIN subs : subs[i].id \in Ids /\ subs[i] = made[subs[i].id]
  BY <1>2 DEF Ids
<1>8. released \subseteq Ids
  BY <1>1 DEF Ids
<1> QED
  BY <1>1, <1>3, <1>4, <1>5, <1>6, <1>7, <1>8 DEF TypeOK

\* A subscription for one event was due one, unless a handler published another.
Alone == \A id \in 1..Len(made) : made[id].once /\ id \notin nested => due[id] <= 1

LEMMA AloneStays ==
  ASSUME BusInv, Alone, [Next]_vars
  PROVE  Alone'
<1>1. /\ due \in Seq(Nat) /\ Len(due) = Len(made) /\ fired \in Seq(Nat) /\ Len(fired) = Len(made)
      /\ made \in Seq(Records) /\ Len(made) \in Nat
      /\ \A id \in 1..Len(made) : Owed(stack, due, fired, id)
  BY LenProperties DEF BusInv, Counted, Numbered
<1>2. \A id \in 1..Len(made) : due[id] \in Nat /\ fired[id] \in Nat
  BY <1>1, ElementOfSeq
<1>3. ASSUME NEW pattern \in Patterns, NEW h \in Handlers, NEW once \in BOOLEAN, Subscribe(pattern, h, once)
      PROVE  Alone'
  <2>1. PICK sub : made' = Append(made, sub) /\ due' = Append(due, 0) /\ nested' = nested
    BY <1>3 DEF Subscribe
  <2>2. Len(made') = Len(made) + 1 /\ \A id \in 1..Len(made) : made'[id] = made[id] /\ due'[id] = due[id]
    BY <1>1, <2>1
  <2>3. due'[Len(made) + 1] = 0
    BY <1>1, <2>1
  <2>4. \A id \in 1..Len(made') : id \in 1..Len(made) \/ id = Len(made) + 1
    BY <1>1, <2>2
  <2>5. ASSUME NEW id \in 1..Len(made'), made'[id].once, id \notin nested PROVE due'[id] <= 1
    <3>1. CASE id \in 1..Len(made)
      BY <2>2, <2>5, <3>1 DEF Alone
    <3>2. CASE id = Len(made) + 1
      BY <2>3, <3>2
    <3> QED
      BY <2>4, <3>1, <3>2
  <2> QED
    BY <2>1, <2>5 DEF Alone
<1>4. ASSUME NEW subject \in Subjects, Publish(subject) PROVE Alone'
  <2>1. PICK ids : /\ \A id \in ids : \E i \in 1..Len(subs) : subs[i].id = id
                   /\ due' = [id \in 1..Len(made) |-> IF id \in ids THEN due[id] + 1 ELSE due[id]]
                   /\ nested' = nested \cup {id \in ids : made[id].once /\ Busy(id)}
    <3>1. PICK todo : /\ todo = Filter(subs, {s \in ToSet(subs) : MatchSubject(s.pattern, subject)})
                      /\ due' = [id \in Ids |-> IF id \in {todo[i].id : i \in DOMAIN todo}
                                                THEN due[id] + 1 ELSE due[id]]
                      /\ nested' = nested \cup {id \in {todo[i].id : i \in DOMAIN todo} : made[id].once /\ Busy(id)}
      BY <1>4 DEF Publish
    <3>2. \A i \in DOMAIN todo : \E j \in 1..Len(subs) : todo[i] = subs[j]
      <4>1. PICK meant : meant = {s \in ToSet(subs) : MatchSubject(s.pattern, subject)}
        OBVIOUS
      <4>2. Listed(todo, made) /\ TakenFrom(todo, subs)
        BY <3>1, <4>1, ListedFilters DEF BusInv
      <4> QED
        BY <4>2, ListedIs DEF TakenFrom
    <3>3. PICK ids : ids = {todo[i].id : i \in DOMAIN todo}
      OBVIOUS
    <3>4. \A id \in ids : \E i \in 1..Len(subs) : subs[i].id = id
      BY <3>2, <3>3
    <3>5. /\ due' = [id \in 1..Len(made) |-> IF id \in ids THEN due[id] + 1 ELSE due[id]]
          /\ nested' = nested \cup {id \in ids : made[id].once /\ Busy(id)}
      BY <3>1, <3>3, Zenon DEF Ids
    <3> QED
      BY <3>4, <3>5
  <2>2. made' = made
    BY <1>4 DEF Publish
  <2>3. ASSUME NEW id \in 1..Len(made), made[id].once, id \notin nested' PROVE due'[id] <= 1
    <3>1. CASE id \notin ids
      BY <1>2, <2>1, <2>3, <3>1 DEF Alone
    <3>2. CASE id \in ids
      <4>1. ~Busy(id)
        BY <2>1, <2>3, <3>2
      <4>2. ~Noted(stack, id) /\ Waiting(stack, id) = {}
        <5>1. DOMAIN stack = 1..Len(stack)
              /\ \A i \in 1..Len(stack) : DOMAIN stack[i].todo = 1..Len(stack[i].todo)
          BY LenProperties, ListedIs DEF BusInv, Dispatched, Served
        <5> QED
          BY <4>1, <5>1 DEF Busy, Noted, Waiting, Expects
      <4>3. PICK i \in 1..Len(subs) : subs[i].id = id
        BY <2>1, <3>2
      <4>4. subs[i].once
        BY <2>3, <4>3, ListedIs DEF BusInv
      <4>5. ~(fired[id] > 0)
        BY <4>2, <4>3, <4>4 DEF BusInv, Spending
      <4>6. due[id] = fired[id]
        <5>1. due[id] = fired[id] + Cardinality(Waiting(stack, id))
          BY <1>1 DEF Owed
        <5>2. Cardinality(Waiting(stack, id)) = 0
          BY <4>2, FS_EmptySet
        <5> QED
          BY <1>2, <5>1, <5>2
      <4>7. due'[id] = due[id] + 1
        BY <2>1, <3>2
      <4> QED
        BY <1>2, <4>5, <4>6, <4>7
    <3> QED
      BY <3>1, <3>2
  <2> QED
    BY <2>2, <2>3 DEF Alone
<1>5. ASSUME UNCHANGED <<made, due, nested>> PROVE Alone'
  BY <1>5 DEF Alone
<1>6. ASSUME NEW id \in Ids, Unsubscribe(id) PROVE UNCHANGED <<made, due, nested>>
  BY <1>6 DEF Unsubscribe
<1>7. ASSUME NEW pattern \in Patterns, UnsubscribeAll(pattern) PROVE UNCHANGED <<made, due, nested>>
  BY <1>7 DEF UnsubscribeAll
<1>8. Clear \/ CallNext \/ Return \/ EndDispatch \/ UNCHANGED vars => UNCHANGED <<made, due, nested>>
  BY DEF Clear, CallNext, Return, EndDispatch, vars
<1> QED
  BY <1>3, <1>4, <1>5, <1>6, <1>7, <1>8 DEF Next, Code

LEMMA BusArrives == BusInv /\ Alone => EventsArrive
<1> SUFFICES ASSUME BusInv, Alone, Quiet PROVE EventsArrive
  BY DEF EventsArrive, NoEventLost, OneEventArrives, SpentIsGone
<1>1. Len(stack) = 0 /\ 1..0 = {}
  BY EmptySeq DEF Quiet
<1>2. /\ due \in Seq(Nat) /\ Len(due) = Len(made) /\ fired \in Seq(Nat) /\ Len(fired) = Len(made)
      /\ \A id \in 1..Len(made) : Owed(stack, due, fired, id)
  BY DEF BusInv, Counted
<1>3. \A id \in 1..Len(made) : due[id] \in Nat /\ fired[id] \in Nat
  BY <1>2, ElementOfSeq
<1>4. ASSUME NEW id \in 1..Len(made) PROVE due[id] = fired[id]
  <2>1. Waiting(stack, id) = {}
    BY <1>1 DEF Waiting
  <2>2. Cardinality(Waiting(stack, id)) = 0
    BY <2>1, FS_EmptySet
  <2> QED
    BY <1>2, <1>3, <2>2 DEF Owed
<1>6. ASSUME NEW i \in DOMAIN subs, subs[i].once PROVE fired[subs[i].id] = 0
  <2>1. i \in 1..Len(subs) /\ subs[i].id \in 1..Len(made)
    BY ListedIs DEF BusInv
  <2>2. ~Noted(stack, subs[i].id)
    BY <1>1 DEF Noted
  <2>3. ~(fired[subs[i].id] > 0)
    BY <1>6, <2>1, <2>2 DEF BusInv, Spending
  <2> QED
    BY <1>3, <2>1, <2>3
<1>7. NoEventLost
  BY <1>4 DEF NoEventLost, Ids
<1>8. OneEventArrives
  <2> SUFFICES ASSUME NEW id \in 1..Len(made), made[id].once
               PROVE  (due[id] > 0 => fired[id] > 0) /\ (fired[id] > 1 => id \in nested)
    BY DEF OneEventArrives, Ids
  <2>1. id \notin nested => due[id] <= 1
    BY DEF Alone
  <2> QED
    BY <1>3, <1>4, <2>1
<1>9. SpentIsGone
  BY <1>6 DEF SpentIsGone
<1> QED
  BY <1>7, <1>8, <1>9 DEF EventsArrive

\* No event is lost and none comes twice: whatever handlers do while publish() calls
\* them, when it has returned every subscription was called once for each event it
\* matched when that was published; one for a single event was called if there was one, a
\* second time only for an event that was published while the first was delivered, and is gone.
THEOREM EventsArriveEver == Spec => []EventsArrive
<1>1. Init => Alone
  BY DEF Init, Alone
<1> QED
  BY <1>1, AloneStays, BusStarts, BusStep, BusArrives, PTL DEF Spec

-----------------------------------------------------------------------------
(* Types of the cron manager.                                              *)

Command == [step : {"sent", "replied"}, op : {"add", "remove"}, name : Names,
            config : Configs \cup {None}]
Job == [name : Names, tries : 0..(MaxTries - 1)]
Running == [step : {"handler"}, name : Names, tries : 1..MaxTries]

\* The part of the types that add(), remove() and their replies change.
JobTypes ==
  /\ jobs \in [Names -> Configs \cup {None}]
  /\ schedulers \in [Names -> Configs \cup {None}]
  /\ call \in [Calls -> {Idle} \cup Command]
  /\ wire \in Seq(Calls)
  /\ \A k \in Calls : (\E i \in 1..Len(wire) : wire[i] = k) <=> call[k].step = "sent"
  /\ \A i, j \in 1..Len(wire) : wire[i] = wire[j] => i = j

\* The part that start(), stop() and the jobs that are due change.
LifeTypes ==
  /\ queueOpen \in BOOLEAN /\ isStarted \in BOOLEAN
  /\ worker \in {0} \cup 1..Len(workers)
  /\ workers \in Seq({"open", "closing", "closed"}) /\ Len(workers) <= MaxWorkers
  /\ life \in [Lifecycles -> {Idle} \cup [step : {"ready", "queue"}]
                              \cup [step : {"closing"}, worker : 1..Len(workers)]]
  /\ waiting \in Seq(Job)
  /\ running \in [1..Len(workers) -> {Idle} \cup Running]

LEMMA TypesMeant == JobTypes /\ LifeTypes => CronTypeOK
<1> SUFFICES ASSUME JobTypes, LifeTypes PROVE CronTypeOK
  OBVIOUS
<1>1. DOMAIN wire = 1..Len(wire) /\ Made = 1..Len(workers) /\ DOMAIN waiting = 1..Len(waiting)
  BY DEF JobTypes, LifeTypes, Made
<1>2. \A i \in 1..Len(waiting) : waiting[i] \in Job
  BY ElementOfSeq DEF LifeTypes
<1> QED
  BY <1>1, <1>2 DEF CronTypeOK, JobTypes, LifeTypes, Command, Job, Running

LEMMA TypesInit == CronInit => JobTypes /\ LifeTypes
<1> SUFFICES ASSUME CronInit PROVE JobTypes /\ LifeTypes
  OBVIOUS
<1>1. wire = <<>> /\ workers = <<>> /\ waiting = <<>> /\ running = <<>> /\ Len(<<>>) = 0
  BY DEF CronInit
<1>2. 1..0 = {}
  OBVIOUS
<1>3. JobTypes
  BY <1>1, <1>2 DEF CronInit, JobTypes, Idle
<1>4. running \in [1..0 -> {Idle} \cup Running]
  BY <1>1
<1>5. waiting \in Seq(Job) /\ workers \in Seq({"open", "closing", "closed"}) /\ Len(workers) = 0
  BY <1>1
<1>6. life \in [Lifecycles -> {Idle} \cup [step : {"ready", "queue"}]
                              \cup [step : {"closing"}, worker : 1..Len(workers)]]
  BY DEF CronInit
<1>7. queueOpen \in BOOLEAN /\ isStarted \in BOOLEAN /\ worker \in {0}
  BY DEF CronInit
<1>8. Len(workers) <= MaxWorkers /\ running \in [1..Len(workers) -> {Idle} \cup Running]
  BY <1>4, <1>5, CronBounds
<1>9. LifeTypes
  BY <1>5, <1>6, <1>7, <1>8 DEF LifeTypes
<1> QED
  BY <1>3, <1>9

\* A call is sent, is answered, or gives up its answer.
LEMMA SendTypes ==
  ASSUME JobTypes, NEW k \in Calls, call[k] = Idle, NEW c \in Command, c.step = "sent", Send(k, c),
         UNCHANGED schedulers, jobs' \in [Names -> Configs \cup {None}]
  PROVE  JobTypes'
<1> DEFINE n == Len(wire)
<1>1. n \in Nat /\ wire \in Seq(Calls) /\ call[k].step # "sent"
  BY DEF JobTypes, Idle
<1>2. /\ wire' \in Seq(Calls) /\ Len(wire') = n + 1
      /\ \A i \in 1..n : wire'[i] = wire[i]
      /\ wire'[n + 1] = k
  BY <1>1, AppendProperties DEF Send
<1>3. /\ call' \in [Calls -> {Idle} \cup Command] /\ call'[k].step = "sent"
      /\ \A d \in Calls \ {k} : call'[d] = call[d]
  BY DEF JobTypes, Send
<1> HIDE DEF n
<1>4. \A i \in 1..n : wire[i] # k /\ wire[i] \in Calls
  BY <1>1, ElementOfSeq DEF JobTypes, n
<1>5. \A i \in 1..(n + 1) : i \in 1..n \/ i = n + 1
  BY <1>1
<1>6. \A i, j \in 1..(n + 1) : wire'[i] = wire'[j] => i = j
  <2>1. \A i, j \in 1..n : wire[i] = wire[j] => i = j
    BY DEF JobTypes, n
  <2> QED
    BY <1>2, <1>4, <1>5, <2>1
<1>7. ASSUME NEW d \in Calls PROVE (\E i \in 1..(n + 1) : wire'[i] = d) <=> call'[d].step = "sent"
  <2>1. CASE d = k
    BY <1>1, <1>2, <1>3, <2>1
  <2>2. CASE d # k
    BY <1>1, <1>2, <1>3, <1>5, <2>2 DEF JobTypes, n
  <2> QED
    BY <2>1, <2>2
<1> QED
  BY <1>2, <1>3, <1>6, <1>7 DEF JobTypes

\* The command at the head of the wire, and what its answer leaves there.
LEMMA HeadFacts ==
  ASSUME JobTypes, wire # <<>>
  PROVE  /\ Head(wire) = wire[1] /\ wire[1] \in Calls /\ Len(wire) \in Nat \ {0}
         /\ call[wire[1]] \in Command /\ call[wire[1]].step = "sent"
         /\ Tail(wire) \in Seq(Calls) /\ Len(Tail(wire)) = Len(wire) - 1
         /\ \A i \in 1..(Len(wire) - 1) : Tail(wire)[i] = wire[i + 1]
<1>1. wire \in Seq(Calls)
  BY DEF JobTypes
<1>2. Len(wire) \in Nat \ {0} /\ Head(wire) = wire[1]
  BY <1>1, EmptySeq
<1>3. 1 \in 1..Len(wire)
  BY <1>2
<1>4. wire[1] \in Calls /\ call[wire[1]].step = "sent"
  BY <1>1, <1>3, ElementOfSeq DEF JobTypes
<1>5. call[wire[1]] \in Command
  BY <1>4 DEF JobTypes, Idle
<1> QED
  BY <1>1, <1>2, <1>4, <1>5, HeadTailProperties

LEMMA AnswerTypes ==
  ASSUME JobTypes, wire # <<>>, wire' = Tail(wire), UNCHANGED jobs,
         Execute(Head(wire)) \/ UNCHANGED schedulers,
         NEW r \in {Idle} \cup Command, r.step # "sent", call' = [call EXCEPT ![Head(wire)] = r]
  PROVE  JobTypes'
<1> DEFINE n == Len(wire)
           k == wire[1]
<1>1. /\ Head(wire) = k /\ k \in Calls /\ n \in Nat \ {0}
      /\ call[k] \in Command
      /\ wire' \in Seq(Calls) /\ Len(wire') = n - 1
      /\ \A i \in 1..(n - 1) : wire'[i] = wire[i + 1]
  BY HeadFacts
<1>2. schedulers' \in [Names -> Configs \cup {None}]
  BY <1>1 DEF JobTypes, Execute, Command
<1>3. /\ call' \in [Calls -> {Idle} \cup Command] /\ call'[k].step # "sent"
      /\ \A d \in Calls \ {k} : call'[d] = call[d]
  BY <1>1 DEF JobTypes
<1> HIDE DEF n, k
<1>4. \A i \in 1..(n - 1) : i + 1 \in 1..n /\ i + 1 # 1
  BY <1>1
<1>5. \A i \in 1..n : i = 1 \/ i - 1 \in 1..(n - 1)
  BY <1>1
<1>6. 1 \in 1..n
  BY <1>1
<1>7. \A i, j \in 1..n : wire[i] = wire[j] => i = j
  BY DEF JobTypes, n
<1>8. \A i, j \in 1..(n - 1) : wire'[i] = wire'[j] => i = j
  BY <1>1, <1>4, <1>7
<1>9. ASSUME NEW d \in Calls PROVE (\E i \in 1..(n - 1) : wire'[i] = d) <=> call'[d].step = "sent"
  <2>1. CASE d = k
    BY <1>1, <1>3, <1>4, <1>6, <1>7, <2>1 DEF k
  <2>2. CASE d # k
    <3>1. (\E i \in 1..n : wire[i] = d) <=> call'[d].step = "sent"
      BY <1>3, <2>2 DEF JobTypes, n
    <3>2. ASSUME NEW i \in 1..n, wire[i] = d PROVE \E j \in 1..(n - 1) : wire'[j] = d
      <4>1. i - 1 \in 1..(n - 1)
        BY <1>5, <2>2, <3>2 DEF k
      <4>2. wire'[i - 1] = d
        BY <1>1, <3>2, <4>1
      <4> QED
        BY <4>1, <4>2
    <3>3. ASSUME NEW j \in 1..(n - 1), wire'[j] = d PROVE \E i \in 1..n : wire[i] = d
      BY <1>1, <1>4, <3>3
    <3> QED
      BY <3>1, <3>2, <3>3
  <2> QED
    BY <2>1, <2>2
<1> QED
  BY <1>1, <1>2, <1>3, <1>8, <1>9 DEF JobTypes, n

LEMMA JobTypesNext ==
  ASSUME JobTypes, [CronNext]_cronVars
  PROVE  JobTypes'
<1>1. ASSUME NEW k \in Calls, NEW n \in Names, NEW c \in Configs, AddJob(k, n, c) PROVE JobTypes'
  BY <1>1, SendTypes DEF AddJob, Command, JobTypes
<1>2. ASSUME NEW k \in Calls, NEW n \in Names, RemoveJob(k, n) PROVE JobTypes'
  BY <1>2, SendTypes DEF RemoveJob, Command, JobTypes
<1>3. ASSUME NEW k \in Calls, Replied(k) PROVE JobTypes'
  <2>1. call[k] \in Command /\ call[k].step # "sent"
    BY <1>3 DEF Replied, JobTypes, Idle
  <2>2. jobs' \in [Names -> Configs \cup {None}]
    BY <1>3, <2>1 DEF Replied, JobTypes, Command
  <2>3. call' \in [Calls -> {Idle} \cup Command] /\ \A d \in Calls : call'[d].step = "sent" <=> call[d].step = "sent"
    BY <1>3, <2>1 DEF Replied, JobTypes, Idle
  <2> QED
    BY <1>3, <2>2, <2>3 DEF Replied, JobTypes
<1>4. CASE Reply
  <2> DEFINE k == Head(wire)
             r == [call[k] EXCEPT !.step = "replied"]
  <2>1. k \in Calls /\ call[k] \in Command /\ wire # <<>>
    BY <1>4, HeadFacts DEF Reply
  <2>2. r \in Command /\ r.step # "sent"
    BY <2>1 DEF Command
  <2>3. call' = [call EXCEPT ![k] = r]
    BY <1>4 DEF Reply
  <2> HIDE DEF r
  <2> QED
    BY <1>4, <2>1, <2>2, <2>3, AnswerTypes DEF Reply
<1>5. CASE CommandFails
  <2>1. Idle.step # "sent"
    BY DEF Idle
  <2> QED
    BY <1>5, <2>1, AnswerTypes DEF CommandFails
<1>6. CASE UNCHANGED jobVars
  BY <1>6 DEF jobVars, JobTypes
<1>7. CASE Control
  BY <1>6, <1>7 DEF Control, Start, Started, StartFails, Stop, WorkerClosed, Stopped
<1>8. CASE Work
  BY <1>6, <1>8 DEF Work, Fire, Take, HandlerEnds, HandlerReturns, HandlerThrows
<1> QED
  BY <1>1, <1>2, <1>3, <1>4, <1>5, <1>6, <1>7, <1>8 DEF CronNext, Manage, cronVars

\* A new worker is the last one.
LEMMA StartFacts ==
  ASSUME LifeTypes, NEW l \in Lifecycles, Start(l)
  PROVE  /\ Len(workers) \in Nat /\ Len(workers') = Len(workers) + 1
         /\ Len(workers') <= MaxWorkers
         /\ workers' \in Seq({"open", "closing", "closed"})
         /\ \A w \in 1..Len(workers) : workers'[w] = workers[w] /\ running'[w] = running[w]
         /\ workers'[Len(workers')] = "open" /\ running'[Len(workers')] = Idle
         /\ running' \in [1..Len(workers') -> {Idle} \cup Running]
         /\ worker' = Len(workers')
<1> DEFINE n == Len(workers)
           W == {"open", "closing", "closed"}
           R == {Idle} \cup Running
<1>1. workers \in Seq(W) /\ n \in Nat /\ n < MaxWorkers /\ worker' = n + 1
  BY DEF LifeTypes, Start
<1>2. running \in Seq(R) /\ Len(running) = n
  <2>1. running \in [1..n -> R]
    BY DEF LifeTypes
  <2> QED
    BY <1>1, <2>1
<1>3. workers' = Append(workers, "open") /\ running' = Append(running, Idle)
  BY DEF Start
<1>4. "open" \in W /\ Idle \in R
  OBVIOUS
<1> HIDE DEF W, R
<1>5. /\ workers' \in Seq(W) /\ Len(workers') = n + 1
      /\ \A w \in 1..n : workers'[w] = workers[w]
      /\ workers'[n + 1] = "open"
  BY <1>1, <1>3, <1>4, AppendProperties
<1>6. /\ running' \in Seq(R) /\ Len(running') = n + 1
      /\ \A w \in 1..n : running'[w] = running[w]
      /\ running'[n + 1] = Idle
  BY <1>2, <1>3, <1>4, AppendProperties
<1>7. running' \in [1..(n + 1) -> R]
  BY <1>6, LenProperties
<1> HIDE DEF n
<1>8. n + 1 <= MaxWorkers
  BY <1>1, CronBounds
<1> QED
  BY <1>1, <1>5, <1>6, <1>7, <1>8 DEF W, R, n

LEMMA LifeTypesNext ==
  ASSUME LifeTypes, JobTypes, [CronNext]_cronVars
  PROVE  LifeTypes'
<1>0. Len(workers) \in Nat /\ MaxWorkers \in Nat /\ Made = 1..Len(workers)
  BY CronBounds DEF LifeTypes, Made
<1>1. ASSUME NEW l \in Lifecycles, Start(l) PROVE LifeTypes'
  <2> DEFINE n == Len(workers')
  <2>1. worker' \in {0} \cup 1..n /\ 1..Len(workers) \subseteq 1..n
    BY <1>0, <1>1, StartFacts
  <2>2. life' \in [Lifecycles -> {Idle} \cup [step : {"ready", "queue"}]
                     \cup [step : {"closing"}, worker : 1..n]]
    BY <1>1, <2>1 DEF Start, LifeTypes
  <2>3. UNCHANGED <<queueOpen, isStarted, waiting>>
    BY <1>1 DEF Start
  <2> QED
    BY <1>1, <2>1, <2>2, <2>3, StartFacts DEF LifeTypes
<1>2. ASSUME NEW l \in Lifecycles, Started(l) \/ StartFails(l) \/ Stopped(l) PROVE LifeTypes'
  BY <1>2 DEF Started, StartFails, Stopped, LifeTypes, runVars
<1>3. ASSUME NEW l \in Lifecycles, Stop(l) PROVE LifeTypes'
  <2>1. UNCHANGED <<queueOpen, isStarted, worker, waiting, running>>
    BY <1>3 DEF Stop, runVars
  <2>2. CASE worker # 0
    <3> DEFINE state == IF workers[worker] = "open" THEN "closing" ELSE workers[worker]
    <3>1. worker \in 1..Len(workers) /\ workers[worker] \in {"open", "closing", "closed"}
      BY <2>2, ElementOfSeq DEF LifeTypes
    <3>2. state \in {"open", "closing", "closed"} /\ workers' = [workers EXCEPT ![worker] = state]
      BY <1>3, <2>2, <3>1 DEF Stop
    <3> HIDE DEF state
    <3>3. workers' \in Seq({"open", "closing", "closed"}) /\ Len(workers') = Len(workers)
      BY <3>1, <3>2, ExceptSeq DEF LifeTypes
    <3>4. life' = [life EXCEPT ![l] = [step |-> "closing", worker |-> worker]]
      BY <1>3, <2>2 DEF Stop
    <3> QED
      BY <2>1, <3>1, <3>3, <3>4 DEF LifeTypes
  <2>3. CASE worker = 0
    BY <1>3, <2>1, <2>3 DEF Stop, LifeTypes
  <2> QED
    BY <2>2, <2>3
<1>4. ASSUME NEW l \in Lifecycles, WorkerClosed(l) PROVE LifeTypes'
  <2>1. life[l].worker \in 1..Len(workers)
    BY <1>4 DEF WorkerClosed, LifeTypes, Idle
  <2>2. workers' \in Seq({"open", "closing", "closed"}) /\ Len(workers') = Len(workers)
    BY <1>4, <2>1, ExceptSeq DEF WorkerClosed, LifeTypes
  <2> QED
    BY <1>4, <2>2 DEF WorkerClosed, LifeTypes, runVars
<1>5. ASSUME NEW n \in Names, Fire(n) PROVE LifeTypes'
  <2>1. [name |-> n, tries |-> 0] \in Job
    BY CronBounds DEF Job
  <2>2. waiting' \in Seq(Job)
    BY <1>5, <2>1, AppendProperties DEF Fire, LifeTypes
  <2> QED
    BY <1>5, <2>2 DEF Fire, LifeTypes, lifeVars
<1>6. ASSUME NEW w \in Made, Take(w) PROVE LifeTypes'
  <2> DEFINE job == Head(waiting)
             r == [step |-> "handler", name |-> job.name, tries |-> job.tries + 1]
  <2>1. job \in Job /\ waiting' \in Seq(Job)
    BY <1>6, HeadTailProperties DEF Take, LifeTypes
  <2>2. r \in Running
    BY <2>1, CronBounds DEF Job, Running
  <2>3. running' = running \/ running' = [running EXCEPT ![w] = r]
    BY <1>6 DEF Take
  <2> HIDE DEF r, job
  <2>4. running' \in [1..Len(workers) -> {Idle} \cup Running]
    BY <1>0, <2>2, <2>3 DEF LifeTypes
  <2> QED
    BY <1>6, <2>1, <2>4 DEF Take, LifeTypes, lifeVars
<1>7. ASSUME NEW w \in Made, HandlerEnds(w) PROVE LifeTypes'
  <2>1. running' \in [1..Len(workers) -> {Idle} \cup Running]
    BY <1>7 DEF HandlerEnds, HandlerReturns, HandlerThrows, LifeTypes
  <2>2. waiting' \in Seq(Job)
    <3>1. CASE HandlerReturns(w)
      BY <3>1 DEF HandlerReturns, LifeTypes
    <3>2. CASE HandlerThrows(w)
      <4> DEFINE job == [name |-> running[w].name, tries |-> running[w].tries]
      <4>1. running[w] \in Running
        BY <1>0, <3>2 DEF HandlerThrows, LifeTypes
      <4>2. running[w].tries < MaxTries => job \in Job
        BY <4>1, CronBounds DEF Running, Job
      <4>3. waiting' = IF running[w].tries < MaxTries THEN Append(waiting, job) ELSE waiting
        BY <3>2 DEF HandlerThrows
      <4> HIDE DEF job
      <4> QED
        BY <4>2, <4>3, AppendProperties DEF LifeTypes
    <3> QED
      BY <1>7, <3>1, <3>2 DEF HandlerEnds
  <2> QED
    BY <1>7, <2>1, <2>2 DEF HandlerEnds, HandlerReturns, HandlerThrows, LifeTypes, lifeVars
<1>8. CASE UNCHANGED <<lifeVars, runVars>>
  BY <1>8 DEF lifeVars, runVars, LifeTypes
<1>9. CASE Manage
  BY <1>8, <1>9 DEF Manage, AddJob, RemoveJob, Replied, Reply, CommandFails
<1> QED
  BY <1>1, <1>2, <1>3, <1>4, <1>5, <1>6, <1>7, <1>8, <1>9 DEF CronNext, Control, Work, cronVars

\* The manager, its calls and the queue are of their types.
THEOREM CronTypeCorrect == CronSpec => []CronTypeOK
  BY TypesInit, JobTypesNext, LifeTypesNext, TypesMeant, PTL DEF CronSpec

-----------------------------------------------------------------------------
(* The workers of the cron manager.                                        *)

\* A worker that is neither the manager's nor let go of is closed, and a closed one runs no
\* job; the worker of the manager is not closed; the one that a stop() waits for closes.
NoneAstray ==
  /\ loose \subseteq 1..Len(workers) /\ worker \notin loose
  /\ \A w \in 1..Len(workers) : w # worker /\ w \notin loose => workers[w] = "closed"
  /\ \A w \in 1..Len(workers) : workers[w] = "closed" => running[w] = Idle
  /\ worker # 0 => workers[worker] # "closed"
  /\ \A l \in Lifecycles : life[l].step = "closing" => workers[life[l].worker] # "open"

\* Unless calls crossed, a start() is alone and its worker is the manager's; calls of stop()
\* wait for that worker, or have closed it; and between the calls the manager has a worker
\* if and only if it is started.
NoneCrossed ==
  ~crossed =>
    /\ \A l \in Lifecycles : life[l].step = "ready" =>
         ByItself(l) /\ ~isStarted /\ worker # 0 /\ workers[worker] = "open"
    /\ \A l \in Lifecycles : life[l].step = "closing" => worker \in {0, life[l].worker}
    /\ \A l \in Lifecycles : life[l].step = "queue" => worker = 0
    /\ (\A l \in Lifecycles : life[l] = Idle) =>
         (isStarted <=> worker # 0) /\ (worker # 0 => workers[worker] = "open")

LEMMA WorkersInit == CronInit => NoneAstray /\ NoneCrossed
<1>1. CronInit => /\ workers = <<>> /\ worker = 0 /\ isStarted = FALSE /\ loose = {}
                  /\ \A l \in Lifecycles : life[l] = Idle
  BY DEF CronInit
<1>2. 1..Len(<<>>) = {} /\ Idle.step = "idle"
  BY DEF Idle
<1> QED
  BY <1>1, <1>2 DEF NoneAstray, NoneCrossed

\* What the calls in flight are: their steps, and the worker that a stop() waits for.
LEMMA LifeFacts ==
  ASSUME LifeTypes, NEW l \in Lifecycles
  PROVE  /\ life[l] = Idle <=> life[l].step = "idle"
         /\ life[l].step \in {"idle", "ready", "queue", "closing"}
         /\ life[l].step = "closing" => life[l].worker \in 1..Len(workers)
BY DEF LifeTypes, Idle

LEMMA AstrayNext ==
  ASSUME LifeTypes, NoneAstray, [CronNext]_cronVars
  PROVE  NoneAstray'
<1>0. Len(workers) \in Nat /\ Made = 1..Len(workers) /\ worker \in {0} \cup 1..Len(workers)
      /\ \A w \in 1..Len(workers) : workers[w] \in {"open", "closing", "closed"}
  BY ElementOfSeq DEF LifeTypes, Made
<1>1. ASSUME NEW l \in Lifecycles, Start(l) PROVE NoneAstray'
  <2> DEFINE z == Len(workers)
  <2>1. /\ Len(workers') = z + 1 /\ worker' = z + 1 /\ z \in Nat
        /\ \A w \in 1..z : workers'[w] = workers[w] /\ running'[w] = running[w]
        /\ workers'[z + 1] = "open" /\ running'[z + 1] = Idle
    BY <1>1, StartFacts
  <2> HIDE DEF z
  <2>2. 1..(z + 1) = 1..z \cup {z + 1} /\ z + 1 \notin 1..z /\ z + 1 # 0
    BY <2>1
  <2>3. loose' = loose \cup ({worker} \ {0})
    BY <1>1 DEF Start
  <2>4. loose' \subseteq 1..z
    BY <1>0, <2>3 DEF NoneAstray, z
  <2>5. \A w \in 1..z : w \notin loose' => workers[w] = "closed"
    BY <2>2, <2>3, <1>0 DEF NoneAstray, z
  <2>6. ASSUME NEW m \in Lifecycles, life'[m].step = "closing" PROVE workers'[life'[m].worker] # "open"
    <3>1. m # l /\ life'[m] = life[m]
      BY <1>1, <2>6 DEF Start, LifeTypes
    <3>2. life[m].worker \in 1..z
      BY <2>6, <3>1, LifeFacts DEF z
    <3> QED
      BY <2>1, <2>6, <3>1, <3>2 DEF NoneAstray
  <2>7. \A w \in 1..(z + 1) : workers'[w] = "closed" => running'[w] = Idle
    BY <2>1, <2>2 DEF NoneAstray, z
  <2> QED
    BY <2>1, <2>2, <2>4, <2>5, <2>6, <2>7 DEF NoneAstray
<1>2. ASSUME NEW l \in Lifecycles, Started(l) \/ StartFails(l) \/ Stopped(l) PROVE NoneAstray'
  <2>1. UNCHANGED <<worker, workers, loose, running>> /\ life' = [life EXCEPT ![l] = Idle]
    BY <1>2 DEF Started, StartFails, Stopped, runVars
  <2>2. \A m \in Lifecycles : life'[m].step = "closing" => life'[m] = life[m]
    BY <2>1 DEF LifeTypes, Idle
  <2> QED
    BY <2>1, <2>2 DEF NoneAstray
<1>3. ASSUME NEW l \in Lifecycles, Stop(l) PROVE NoneAstray'
  <2>1. UNCHANGED <<worker, loose, running>>
    BY <1>3 DEF Stop, runVars
  <2>2. CASE worker # 0
    <3>1. /\ workers' = [workers EXCEPT ![worker] = IF @ = "open" THEN "closing" ELSE @]
          /\ life' = [life EXCEPT ![l] = [step |-> "closing", worker |-> worker]]
      BY <1>3, <2>2 DEF Stop
    <3>2. worker \in 1..Len(workers)
      BY <1>0, <2>2
    <3>3. /\ Len(workers') = Len(workers) /\ workers'[worker] = "closing"
          /\ \A w \in 1..Len(workers) : w # worker => workers'[w] = workers[w]
      <4>1. workers[worker] # "closed"
        BY <2>2 DEF NoneAstray
      <4> QED
        BY <1>0, <3>1, <3>2, <4>1, ExceptSeq DEF LifeTypes
    <3>4. ASSUME NEW m \in Lifecycles, life'[m].step = "closing" PROVE workers'[life'[m].worker] # "open"
      <4>1. CASE m = l
        <5>1. life'[m].worker = worker
          BY <3>1, <4>1 DEF LifeTypes
        <5> QED
          BY <3>3, <5>1
      <4>2. CASE m # l
        <5>1. life'[m] = life[m]
          BY <3>1, <4>2 DEF LifeTypes
        <5>2. life[m].worker \in 1..Len(workers) /\ workers[life[m].worker] # "open"
          BY <3>4, <5>1, LifeFacts DEF NoneAstray
        <5> QED
          BY <3>3, <5>1, <5>2
      <4> QED
        BY <4>1, <4>2
    <3> QED
      BY <2>1, <3>2, <3>3, <3>4 DEF NoneAstray
  <2>3. CASE worker = 0
    <3>1. UNCHANGED workers /\ life' = [life EXCEPT ![l] = [step |-> "queue"]]
      BY <1>3, <2>3 DEF Stop
    <3>2. \A m \in Lifecycles : life'[m].step = "closing" => life'[m] = life[m]
      BY <3>1 DEF LifeTypes
    <3> QED
      BY <2>1, <3>1, <3>2 DEF NoneAstray
  <2> QED
    BY <2>2, <2>3
<1>4. ASSUME NEW l \in Lifecycles, WorkerClosed(l) PROVE NoneAstray'
  <2> DEFINE v == life[l].worker
  <2>1. /\ life[l].step = "closing" /\ running[v] = Idle /\ workers' = [workers EXCEPT ![v] = "closed"]
        /\ worker' = 0 /\ loose' = loose \cup ({worker} \ {0, v})
        /\ life' = [life EXCEPT ![l] = [step |-> "queue"]] /\ UNCHANGED running
    BY <1>4 DEF WorkerClosed, runVars
  <2>2. v \in 1..Len(workers)
    BY <2>1, LifeFacts
  <2> HIDE DEF v
  <2>3. /\ Len(workers') = Len(workers) /\ workers'[v] = "closed"
        /\ \A w \in 1..Len(workers) : w # v => workers'[w] = workers[w]
    BY <2>1, <2>2, ExceptSeq DEF LifeTypes
  <2>4. ASSUME NEW m \in Lifecycles, life'[m].step = "closing" PROVE workers'[life'[m].worker] # "open"
    <3>1. life'[m] = life[m]
      BY <2>1, <2>4 DEF LifeTypes
    <3>2. life[m].worker \in 1..Len(workers) /\ workers[life[m].worker] # "open"
      BY <2>4, <3>1, LifeFacts DEF NoneAstray
    <3> QED
      BY <2>3, <3>1, <3>2
  <2>5. loose' \subseteq 1..Len(workers)
    BY <1>0, <2>1 DEF NoneAstray
  <2>6. \A w \in 1..Len(workers) : w \notin loose' => workers'[w] = "closed"
    BY <2>1, <2>3 DEF NoneAstray
  <2>7. 0 \notin 1..Len(workers)
    BY <1>0
  <2> QED
    BY <2>1, <2>3, <2>4, <2>5, <2>6, <2>7 DEF NoneAstray
<1>5. ASSUME NEW w \in Made, Take(w) PROVE NoneAstray'
  <2>1. UNCHANGED <<worker, workers, loose, life>> /\ workers[w] = "open"
        /\ \A v \in 1..Len(workers) : v # w => running'[v] = running[v]
    BY <1>0, <1>5 DEF Take, lifeVars, LifeTypes
  <2> QED
    BY <2>1 DEF NoneAstray
<1>6. ASSUME NEW w \in Made, HandlerEnds(w) PROVE NoneAstray'
  <2>1. UNCHANGED <<worker, workers, loose, life>>
        /\ \A v \in 1..Len(workers) : running'[v] = running[v] \/ running'[v] = Idle
    BY <1>0, <1>6 DEF HandlerEnds, HandlerReturns, HandlerThrows, lifeVars, LifeTypes
  <2> QED
    BY <2>1 DEF NoneAstray
<1>7. CASE UNCHANGED <<lifeVars, running>>
  BY <1>7 DEF NoneAstray, lifeVars
<1>8. CASE Manage \/ \E n \in Names : Fire(n)
  BY <1>7, <1>8 DEF Manage, AddJob, RemoveJob, Replied, Reply, CommandFails, Fire, runVars
<1> QED
  BY <1>1, <1>2, <1>3, <1>4, <1>5, <1>6, <1>7, <1>8 DEF CronNext, Control, Work, cronVars, runVars

LEMMA CrossedNext ==
  ASSUME LifeTypes, NoneAstray, NoneCrossed, [CronNext]_cronVars
  PROVE  NoneCrossed' /\ (loose' = loose \/ crossed')
<1>0. worker \in {0} \cup 1..Len(workers) /\ Idle.step = "idle"
      /\ \A l \in Lifecycles : life[l] = Idle <=> life[l].step = "idle"
  BY LifeFacts DEF LifeTypes, Idle
<1>1. ASSUME NEW l \in Lifecycles, Start(l) PROVE NoneCrossed' /\ (loose' = loose \/ crossed')
  <2> SUFFICES ASSUME ~crossed' PROVE NoneCrossed' /\ loose' = loose
    BY DEF NoneCrossed
  <2>1. /\ ~crossed /\ ByItself(l) /\ life[l] = Idle /\ ~isStarted /\ ~isStarted'
        /\ life' = [life EXCEPT ![l] = [step |-> "ready"]] /\ loose' = loose \cup ({worker} \ {0})
    BY <1>1 DEF Start
  <2>2. \A m \in Lifecycles : life[m] = Idle
    BY <2>1 DEF ByItself
  <2>3. worker = 0
    BY <2>1, <2>2 DEF NoneCrossed
  <2>4. \A m \in Lifecycles : life'[m] = IF m = l THEN [step |-> "ready"] ELSE Idle
    BY <2>1, <2>2 DEF LifeTypes
  <2>5. worker' # 0 /\ workers'[worker'] = "open"
    BY <1>1, StartFacts
  <2>6. \A m \in Lifecycles : life'[m].step = "ready" => m = l
    BY <1>0, <2>4
  <2>7. ByItself(l)'
    BY <2>4 DEF ByItself
  <2>8. \A m \in Lifecycles : life'[m].step # "closing" /\ life'[m].step # "queue"
    BY <1>0, <2>4
  <2>9. life'[l] # Idle
    BY <1>0, <2>4
  <2> QED
    BY <2>1, <2>3, <2>5, <2>6, <2>7, <2>8, <2>9 DEF NoneCrossed
<1>2. ASSUME NEW l \in Lifecycles, Started(l) PROVE NoneCrossed' /\ loose' = loose
  <2>1. UNCHANGED <<worker, workers, loose, crossed>> /\ life[l].step = "ready" /\ isStarted'
        /\ life' = [life EXCEPT ![l] = Idle]
    BY <1>2 DEF Started
  <2> SUFFICES ASSUME ~crossed PROVE NoneCrossed'
    BY <2>1 DEF NoneCrossed
  <2>2. ByItself(l) /\ worker # 0 /\ workers[worker] = "open"
    BY <2>1 DEF NoneCrossed
  <2>3. \A m \in Lifecycles : life'[m] = Idle
    BY <2>1, <2>2 DEF ByItself, LifeTypes
  <2> QED
    BY <1>0, <2>1, <2>2, <2>3 DEF NoneCrossed
<1>3. ASSUME NEW l \in Lifecycles, StartFails(l) PROVE NoneCrossed' /\ loose' = loose
  BY <1>3 DEF StartFails, NoneCrossed
<1>4. ASSUME NEW l \in Lifecycles, Stop(l) PROVE NoneCrossed' /\ loose' = loose
  <2>1. /\ UNCHANGED <<worker, isStarted, loose>>
        /\ crossed' = (~ByItself(l) /\ (crossed \/ \E m \in Lifecycles : life[m].step = "ready"))
        /\ life[l] = Idle
    BY <1>4 DEF Stop
  <2> SUFFICES ASSUME ~crossed' PROVE NoneCrossed'
    BY <2>1 DEF NoneCrossed
  <2>2. \A m \in Lifecycles : m # l =>
          /\ life[m].step # "ready"
          /\ life[m].step = "closing" => worker \in {0, life[m].worker}
          /\ life[m].step = "queue" => worker = 0
    BY <1>0, <2>1 DEF NoneCrossed, ByItself
  <2>3. \A m \in Lifecycles : m # l => life'[m] = life[m]
    BY <1>4 DEF Stop, LifeTypes
  <2>4. \/ worker = 0 /\ life'[l] = [step |-> "queue"]
        \/ life'[l] = [step |-> "closing", worker |-> worker]
    BY <1>4 DEF Stop, LifeTypes
  <2>5. life'[l] # Idle /\ life'[l].step # "ready" /\ (life'[l].step = "queue" => worker = 0)
        /\ (life'[l].step = "closing" => worker \in {0, life'[l].worker})
    BY <1>0, <2>4
  <2> QED
    BY <2>1, <2>2, <2>3, <2>5 DEF NoneCrossed
<1>5. ASSUME NEW l \in Lifecycles, WorkerClosed(l) PROVE NoneCrossed' /\ (loose' = loose \/ crossed')
  <2>1. /\ life[l].step = "closing" /\ UNCHANGED <<isStarted, crossed>>
        /\ worker' = 0 /\ loose' = loose \cup ({worker} \ {0, life[l].worker})
        /\ life' = [life EXCEPT ![l] = [step |-> "queue"]]
    BY <1>5 DEF WorkerClosed
  <2> SUFFICES ASSUME ~crossed PROVE NoneCrossed' /\ loose' = loose
    BY <2>1 DEF NoneCrossed
  <2>2. worker \in {0, life[l].worker} /\ \A m \in Lifecycles : life[m].step # "ready"
    BY <1>0, <2>1 DEF NoneCrossed, ByItself
  <2>3. life'[l] = [step |-> "queue"] /\ \A m \in Lifecycles : m # l => life'[m] = life[m]
    BY <2>1 DEF LifeTypes
  <2>4. life'[l] # Idle /\ \A m \in Lifecycles : life'[m].step # "ready"
    BY <1>0, <2>2, <2>3
  <2> QED
    BY <2>1, <2>2, <2>3, <2>4 DEF NoneCrossed
<1>6. ASSUME NEW l \in Lifecycles, Stopped(l) PROVE NoneCrossed' /\ loose' = loose
  <2>1. /\ life[l].step = "queue" /\ UNCHANGED <<worker, workers, loose, crossed>> /\ ~isStarted'
        /\ life' = [life EXCEPT ![l] = Idle]
    BY <1>6 DEF Stopped
  <2> SUFFICES ASSUME ~crossed PROVE NoneCrossed'
    BY <2>1 DEF NoneCrossed
  <2>2. worker = 0 /\ \A m \in Lifecycles : life[m].step # "ready"
    BY <1>0, <2>1 DEF NoneCrossed, ByItself
  <2>3. \A m \in Lifecycles : life'[m] = Idle \/ life'[m] = life[m]
    BY <2>1 DEF LifeTypes
  <2> QED
    BY <1>0, <2>1, <2>2, <2>3 DEF NoneCrossed
<1>7. CASE UNCHANGED lifeVars
  BY <1>7 DEF NoneCrossed, ByItself, lifeVars
<1>8. CASE Manage \/ Work
  BY <1>7, <1>8 DEF Manage, AddJob, RemoveJob, Replied, Reply, CommandFails, Work, Fire, Take,
                    HandlerEnds, HandlerReturns, HandlerThrows
<1> QED
  BY <1>1, <1>2, <1>3, <1>4, <1>5, <1>6, <1>7, <1>8 DEF CronNext, Control, cronVars

LEMMA WorkersMeant == LifeTypes /\ NoneAstray /\ NoneCrossed => Serial /\ StoppedIsSilent
<1> SUFFICES ASSUME LifeTypes, NoneAstray, NoneCrossed PROVE Serial /\ StoppedIsSilent
  OBVIOUS
<1>0. Made = 1..Len(workers) /\ worker \in {0} \cup 1..Len(workers) /\ 0 \notin 1..Len(workers)
  BY DEF LifeTypes, Made
<1>1. \A w \in Made \ loose : w # worker => workers[w] = "closed" /\ running[w] = Idle
  BY <1>0 DEF NoneAstray
<1>2. Serial
  <2>1. {w \in Made \ loose : running[w] # Idle} \subseteq {worker}
    BY <1>1
  <2>2. IsFiniteSet({worker}) /\ Cardinality({worker}) = 1
    BY FS_Singleton
  <2>3. Cardinality({w \in Made \ loose : running[w] # Idle}) <= 1
    BY <2>1, <2>2, FS_Subset
  <2> QED
    BY <2>3 DEF Serial
<1>3. ASSUME ~crossed, \A l \in Lifecycles : life[l] = Idle
      PROVE  /\ isStarted <=> worker # 0
             /\ {w \in Made \ loose : workers[w] = "open"} = IF isStarted THEN {worker} ELSE {}
             /\ ~isStarted => \A w \in Made \ loose : running[w] = Idle
  <2>1. (isStarted <=> worker # 0) /\ (worker # 0 => workers[worker] = "open" /\ worker \in Made \ loose)
    BY <1>0, <1>3 DEF NoneCrossed, NoneAstray
  <2> QED
    BY <1>0, <1>1, <2>1
<1>4. StoppedIsSilent
  BY <1>3 DEF StoppedIsSilent
<1> QED
  BY <1>2, <1>4

\* However calls of start() and stop() overlap or fail and jobs fall due: besides the workers
\* that the manager let go of, one at most runs a job; between calls that did not cross, a
\* started manager has one worker that takes jobs, and one that is stopped runs none; and a
\* worker is let go of only when calls crossed.
THEOREM OneWorkerRunsEver == CronSpec => OneWorkerRuns
<1> DEFINE Inv == JobTypes /\ LifeTypes /\ NoneAstray /\ NoneCrossed
<1>1. CronInit => Inv
  BY TypesInit, WorkersInit
<1>2. Inv /\ [CronNext]_cronVars => Inv' /\ (loose' = loose \/ crossed')
  BY JobTypesNext, LifeTypesNext, AstrayNext, CrossedNext
<1>3. Inv => Serial /\ StoppedIsSilent
  BY WorkersMeant
<1>4. Inv /\ [CronNext]_cronVars => [loose' = loose \/ crossed']_cronVars
  BY <1>2
<1> QED
  BY <1>1, <1>2, <1>3, <1>4, PTL DEF CronSpec, OneWorkerRuns

-----------------------------------------------------------------------------
(* The map of jobs and the schedulers in Redis.                            *)

\* The command at a place of the wire adds the job of a name, or removes it.
IsAdd(cl, wi, i, n) == cl[wi[i]].op = "add" /\ cl[wi[i]].name = n
IsRemoval(cl, wi, i, n) == cl[wi[i]].op = "remove" /\ cl[wi[i]].name = n
Underway(cl, wi, n) == \E i \in 1..Len(wi) : IsAdd(cl, wi, i, n)

\* Redis has answered a removal of the entry that the map has.
Answered(cl, st, k, n) ==
  cl[k].step = "replied" /\ cl[k].op = "remove" /\ cl[k].name = n /\ k \notin st

\* A removal of the entry of the map comes after every addition of its name; one of an
\* earlier entry is followed by an addition.
Follows(cl, wi, st, n) ==
  \A i, j \in 1..Len(wi) :
    IsRemoval(cl, wi, i, n) /\ wi[i] \notin st /\ IsAdd(cl, wi, j, n) => j < i
Followed(cl, wi, st, n) ==
  \A i \in 1..Len(wi) :
    IsRemoval(cl, wi, i, n) /\ wi[i] \in st => \E j \in 1..Len(wi) : i < j /\ IsAdd(cl, wi, j, n)

\* The last addition of a name is that of the entry of the map.
LastIsListed(cl, wi, js, n) ==
  \A i \in 1..Len(wi) :
    /\ IsAdd(cl, wi, i, n) /\ js[n] # None
    /\ \A j \in 1..Len(wi) : IsAdd(cl, wi, j, n) => j <= i
    => cl[wi[i]].config = js[n]

\* What is not in Redis: a name that a removal has been answered for, or that the map
\* has not, unless its entry was taken.
Absent(cl, wi, sc, n) == sc[n] = None /\ ~Underway(cl, wi, n)

Agree ==
  /\ \A k \in Calls : call[k] # Idle /\ call[k].op = "remove" => call[k].config = None
  /\ \A k \in stale : k \in Calls /\ call[k] # Idle /\ call[k].op = "remove"
  /\ \A n \in Names :
       /\ Follows(call, wire, stale, n)
       /\ Followed(call, wire, stale, n)
       /\ LastIsListed(call, wire, jobs, n)
       /\ \A k \in Calls : Answered(call, stale, k, n) => Absent(call, wire, schedulers, n)
       /\ n \notin lost /\ jobs[n] = None => Absent(call, wire, schedulers, n)
       /\ n \notin failed /\ jobs[n] # None =>
            \/ Underway(call, wire, n)
            \/ schedulers[n] = jobs[n]
            \/ \E k \in Calls : Answered(call, stale, k, n)

LEMMA AgreeInit == CronInit => Agree
<1> SUFFICES ASSUME CronInit PROVE Agree
  OBVIOUS
<1>1. \A k \in Calls : call[k] = Idle /\ call[k].step = "idle"
  BY DEF CronInit, Idle
<1>2. 1..Len(wire) = {} /\ jobs = [n \in Names |-> None] /\ schedulers = jobs /\ stale = {}
  BY DEF CronInit
<1> QED
  BY <1>1, <1>2 DEF Agree, Follows, Followed, LastIsListed, Answered, Absent, Underway

\* A command goes to the end of the wire, and leaves those before it alone.
LEMMA SendFacts ==
  ASSUME JobTypes, NEW k \in Calls, call[k] = Idle, NEW r, Send(k, r)
  PROVE  /\ Len(wire) \in Nat /\ Len(wire') = Len(wire) + 1
         /\ wire'[Len(wire) + 1] = k /\ call'[k] = r
         /\ \A d \in Calls \ {k} : call'[d] = call[d]
         /\ \A i \in 1..Len(wire) :
              /\ wire'[i] = wire[i] /\ wire[i] \in Calls \ {k}
              /\ call[wire[i]] # Idle /\ call'[wire'[i]] = call[wire[i]]
              /\ \A m : /\ IsAdd(call', wire', i, m) <=> IsAdd(call, wire, i, m)
                        /\ IsRemoval(call', wire', i, m) <=> IsRemoval(call, wire, i, m)
<1> DEFINE z == Len(wire)
<1>1. wire \in Seq(Calls) /\ z \in Nat /\ wire' = Append(wire, k)
  BY DEF JobTypes, Send
<1>2. /\ Len(wire') = z + 1 /\ wire'[z + 1] = k
      /\ \A i \in 1..z : wire'[i] = wire[i]
  BY <1>1, AppendProperties
<1>3. call'[k] = r /\ \A d \in Calls \ {k} : call'[d] = call[d]
  BY DEF JobTypes, Send
<1>4. \A i \in 1..z : wire[i] \in Calls /\ call[wire[i]].step = "sent"
  BY <1>1, ElementOfSeq DEF JobTypes
<1>5. Idle.step # "sent"
  BY DEF Idle
<1>6. \A i \in 1..z : wire[i] \in Calls \ {k} /\ call[wire[i]] # Idle
  BY <1>4, <1>5
<1> HIDE DEF z
<1>7. \A i \in 1..z : call'[wire'[i]] = call[wire[i]]
  BY <1>2, <1>3, <1>6
<1> QED
  BY <1>1, <1>2, <1>3, <1>6, <1>7 DEF IsAdd, IsRemoval, z

LEMMA AddAgrees ==
  ASSUME JobTypes, Agree, NEW k \in Calls, NEW n \in Names, NEW c \in Configs, AddJob(k, n, c)
  PROVE  Agree'
<1> DEFINE r == [step |-> "sent", op |-> "add", name |-> n, config |-> c]
           z == Len(wire)
<1>1. /\ call[k] = Idle /\ UNCHANGED schedulers /\ Send(k, r)
      /\ stale' = stale \cup Removing(n) /\ lost' = lost \ {n} /\ failed' = failed \ {n}
  BY DEF AddJob
<1>2. jobs'[n] = c /\ (\A m \in Names \ {n} : jobs'[m] = jobs[m]) /\ c # None
  BY NoneAssumption DEF JobTypes, AddJob
<1>3. r.step = "sent" /\ r.op = "add" /\ r.name = n /\ r.config = c /\ r # Idle
  BY DEF Idle
<1> HIDE DEF r
<1>4. /\ z \in Nat /\ Len(wire') = z + 1
      /\ wire'[z + 1] = k /\ call'[k] = r
      /\ \A d \in Calls \ {k} : call'[d] = call[d]
      /\ \A i \in 1..z :
           /\ wire'[i] = wire[i] /\ wire[i] \in Calls \ {k}
           /\ call[wire[i]] # Idle /\ call'[wire'[i]] = call[wire[i]]
           /\ \A m : /\ IsAdd(call', wire', i, m) <=> IsAdd(call, wire, i, m)
                     /\ IsRemoval(call', wire', i, m) <=> IsRemoval(call, wire, i, m)
  BY <1>1, SendFacts
<1> HIDE DEF z
<1>5. \A m : ~IsRemoval(call', wire', z + 1, m) /\ (IsAdd(call', wire', z + 1, m) <=> m = n)
  BY <1>3, <1>4 DEF IsAdd, IsRemoval
<1>6. Removing(n) = {d \in Calls : call[d] # Idle /\ call[d].name = n /\ call[d].op = "remove"}
  BY DEF Removing, InFlight
<1>7. \A d \in Calls : call'[d] # Idle /\ call'[d].op = "remove" => call'[d].config = None
  BY <1>3, <1>4 DEF Agree
<1>8. \A d \in stale' : d \in Calls /\ call'[d] # Idle /\ call'[d].op = "remove"
  BY <1>1, <1>4, <1>6 DEF Agree
<1>9. 1..(z + 1) = 1..z \cup {z + 1} /\ z + 1 \notin 1..z /\ \A i \in 1..z : i < z + 1
  BY <1>4
<1>10. ASSUME NEW m \in Names PROVE Underway(call', wire', m) <=> Underway(call, wire, m) \/ m = n
  BY <1>4, <1>5, <1>9 DEF Underway, z
<1>11. \A i \in 1..z : \A m : IsRemoval(call, wire, i, m) =>
         (wire'[i] \in stale' <=> wire[i] \in stale \/ m = n)
  BY <1>1, <1>4, <1>6 DEF IsRemoval
<1>12. \A d \in Calls, m \in Names : Answered(call', stale', d, m) => m # n /\ Answered(call, stale, d, m)
  <2>1. r.step # "replied" /\ Idle.step # "replied"
    BY <1>3 DEF Idle
  <2> QED
    BY <1>1, <1>4, <1>6, <2>1 DEF Answered
<1>13. \A d \in Calls, m \in Names \ {n} : Answered(call, stale, d, m) => Answered(call', stale', d, m)
  <2>1. Idle.step # "replied"
    BY DEF Idle
  <2> QED
    BY <1>1, <1>4, <1>6, <2>1 DEF Answered
<1>14. ASSUME NEW m \in Names PROVE Follows(call', wire', stale', m)
  <2>1. Follows(call, wire, stale, m)
    BY DEF Agree
  <2> SUFFICES ASSUME NEW i \in 1..(z + 1), NEW j \in 1..(z + 1), IsRemoval(call', wire', i, m),
                      wire'[i] \notin stale', IsAdd(call', wire', j, m)
               PROVE  j < i
    BY <1>4 DEF Follows
  <2>2. i \in 1..z /\ IsRemoval(call, wire, i, m)
    BY <1>4, <1>5, <1>9
  <2>3. m # n /\ wire[i] \notin stale
    BY <1>11, <2>2
  <2>4. j \in 1..z /\ IsAdd(call, wire, j, m)
    BY <1>4, <1>5, <1>9, <2>3
  <2> QED
    BY <2>1, <2>2, <2>3, <2>4 DEF Follows, z
<1>15. ASSUME NEW m \in Names PROVE Followed(call', wire', stale', m)
  <2>1. Followed(call, wire, stale, m)
    BY DEF Agree
  <2> SUFFICES ASSUME NEW i \in 1..(z + 1), IsRemoval(call', wire', i, m), wire'[i] \in stale'
               PROVE  \E j \in 1..(z + 1) : i < j /\ IsAdd(call', wire', j, m)
    BY <1>4 DEF Followed
  <2>2. i \in 1..z /\ IsRemoval(call, wire, i, m)
    BY <1>4, <1>5, <1>9
  <2>3. CASE m = n
    BY <1>5, <1>9, <2>2, <2>3
  <2>4. CASE m # n
    <3>1. PICK j \in 1..z : i < j /\ IsAdd(call, wire, j, m)
      BY <1>11, <2>1, <2>2, <2>4 DEF Followed, z
    <3> QED
      BY <1>4, <1>9, <3>1
  <2> QED
    BY <2>3, <2>4
<1>16. ASSUME NEW m \in Names PROVE LastIsListed(call', wire', jobs', m)
  <2>1. LastIsListed(call, wire, jobs, m)
    BY DEF Agree
  <2> SUFFICES ASSUME NEW i \in 1..(z + 1), IsAdd(call', wire', i, m), jobs'[m] # None,
                      \A j \in 1..(z + 1) : IsAdd(call', wire', j, m) => j <= i
               PROVE  call'[wire'[i]].config = jobs'[m]
    BY <1>4 DEF LastIsListed
  <2>2. CASE m = n
    <3>1. z + 1 <= i
      BY <1>5, <1>9, <2>2
    <3>2. i = z + 1
      BY <1>4, <3>1
    <3> QED
      BY <1>2, <1>3, <1>4, <2>2, <3>2
  <2>3. CASE m # n
    <3>1. i \in 1..z /\ IsAdd(call, wire, i, m) /\ jobs[m] # None /\ jobs'[m] = jobs[m]
      BY <1>2, <1>4, <1>5, <1>9, <2>3
    <3>2. \A j \in 1..z : IsAdd(call, wire, j, m) => j <= i
      BY <1>4, <1>9
    <3>3. call[wire[i]].config = jobs[m]
      BY <2>1, <3>1, <3>2 DEF LastIsListed, z
    <3> QED
      BY <1>4, <3>1, <3>3
  <2> QED
    BY <2>2, <2>3
<1>17. \A m \in Names \ {n} : Absent(call, wire, schedulers, m) => Absent(call', wire', schedulers', m)
  BY <1>1, <1>10 DEF Absent
<1>18. \A m \in Names, d \in Calls : Answered(call', stale', d, m) => Absent(call', wire', schedulers', m)
  BY <1>12, <1>17 DEF Agree
<1>19. \A m \in Names : m \notin lost' /\ jobs'[m] = None => Absent(call', wire', schedulers', m)
  BY <1>1, <1>2, <1>17 DEF Agree
<1>20. \A m \in Names : m \notin failed' /\ jobs'[m] # None =>
         \/ Underway(call', wire', m)
         \/ schedulers'[m] = jobs'[m]
         \/ \E d \in Calls : Answered(call', stale', d, m)
  BY <1>1, <1>2, <1>10, <1>13 DEF Agree
<1> QED
  BY <1>7, <1>8, <1>14, <1>15, <1>16, <1>18, <1>19, <1>20 DEF Agree

LEMMA RemoveAgrees ==
  ASSUME JobTypes, Agree, NEW k \in Calls, NEW n \in Names, RemoveJob(k, n)
  PROVE  Agree'
<1> DEFINE r == [step |-> "sent", op |-> "remove", name |-> n, config |-> None]
           z == Len(wire)
<1>1. call[k] = Idle /\ UNCHANGED <<jobs, schedulers, stale, lost, failed>> /\ Send(k, r)
  BY DEF RemoveJob
<1>2. r.step = "sent" /\ r.op = "remove" /\ r.name = n /\ r.config = None /\ r # Idle
  BY DEF Idle
<1> HIDE DEF r
<1>3. /\ z \in Nat /\ Len(wire') = z + 1
      /\ wire'[z + 1] = k /\ call'[k] = r
      /\ \A d \in Calls \ {k} : call'[d] = call[d]
      /\ \A i \in 1..z :
           /\ wire'[i] = wire[i] /\ wire[i] \in Calls \ {k}
           /\ call[wire[i]] # Idle /\ call'[wire'[i]] = call[wire[i]]
           /\ \A m : /\ IsAdd(call', wire', i, m) <=> IsAdd(call, wire, i, m)
                     /\ IsRemoval(call', wire', i, m) <=> IsRemoval(call, wire, i, m)
  BY <1>1, SendFacts
<1> HIDE DEF z
<1>4. k \notin stale
  BY <1>1 DEF Agree
<1>5. \A m : ~IsAdd(call', wire', z + 1, m) /\ (IsRemoval(call', wire', z + 1, m) <=> m = n)
  BY <1>2, <1>3 DEF IsAdd, IsRemoval
<1>6. 1..(z + 1) = 1..z \cup {z + 1} /\ z + 1 \notin 1..z /\ \A i \in 1..z : i < z + 1
  BY <1>3
<1>7. \A d \in Calls : call'[d] # Idle /\ call'[d].op = "remove" => call'[d].config = None
  BY <1>2, <1>3 DEF Agree
<1>8. \A d \in stale' : d \in Calls /\ call'[d] # Idle /\ call'[d].op = "remove"
  BY <1>1, <1>3, <1>4 DEF Agree
<1>9. ASSUME NEW m \in Names PROVE Underway(call', wire', m) <=> Underway(call, wire, m)
  BY <1>3, <1>5, <1>6 DEF Underway, z
<1>10. \A d \in Calls, m \in Names : Answered(call', stale', d, m) <=> Answered(call, stale, d, m)
  <2>1. r.step # "replied" /\ Idle.step # "replied"
    BY <1>2 DEF Idle
  <2> QED
    BY <1>1, <1>3, <2>1 DEF Answered
<1>11. ASSUME NEW m \in Names PROVE Follows(call', wire', stale', m)
  <2>1. Follows(call, wire, stale, m)
    BY DEF Agree
  <2> SUFFICES ASSUME NEW i \in 1..(z + 1), NEW j \in 1..(z + 1), IsRemoval(call', wire', i, m),
                      wire'[i] \notin stale', IsAdd(call', wire', j, m)
               PROVE  j < i
    BY <1>3 DEF Follows
  <2>2. j \in 1..z /\ IsAdd(call, wire, j, m)
    BY <1>3, <1>5, <1>6
  <2>3. CASE i = z + 1
    BY <1>6, <2>2, <2>3
  <2>4. CASE i \in 1..z
    <3>1. IsRemoval(call, wire, i, m) /\ wire[i] \notin stale
      BY <1>1, <1>3, <2>4
    <3> QED
      BY <2>1, <2>2, <2>4, <3>1 DEF Follows, z
  <2> QED
    BY <1>6, <2>3, <2>4
<1>12. ASSUME NEW m \in Names PROVE Followed(call', wire', stale', m)
  <2>1. Followed(call, wire, stale, m)
    BY DEF Agree
  <2> SUFFICES ASSUME NEW i \in 1..(z + 1), IsRemoval(call', wire', i, m), wire'[i] \in stale'
               PROVE  \E j \in 1..(z + 1) : i < j /\ IsAdd(call', wire', j, m)
    BY <1>3 DEF Followed
  <2>2. i \in 1..z /\ IsRemoval(call, wire, i, m) /\ wire[i] \in stale
    BY <1>1, <1>3, <1>4, <1>6
  <2>3. PICK j \in 1..z : i < j /\ IsAdd(call, wire, j, m)
    BY <2>1, <2>2 DEF Followed, z
  <2> QED
    BY <1>3, <1>6, <2>3
<1>13. ASSUME NEW m \in Names PROVE LastIsListed(call', wire', jobs', m)
  <2>1. LastIsListed(call, wire, jobs, m)
    BY DEF Agree
  <2> SUFFICES ASSUME NEW i \in 1..(z + 1), IsAdd(call', wire', i, m), jobs'[m] # None,
                      \A j \in 1..(z + 1) : IsAdd(call', wire', j, m) => j <= i
               PROVE  call'[wire'[i]].config = jobs'[m]
    BY <1>3 DEF LastIsListed
  <2>2. i \in 1..z /\ IsAdd(call, wire, i, m) /\ jobs[m] # None /\ jobs' = jobs
    BY <1>1, <1>3, <1>5, <1>6
  <2>3. \A j \in 1..z : IsAdd(call, wire, j, m) => j <= i
    BY <1>3, <1>6
  <2>4. call[wire[i]].config = jobs[m]
    BY <2>1, <2>2, <2>3 DEF LastIsListed, z
  <2> QED
    BY <1>3, <2>2, <2>4
<1>14. \A m \in Names : Absent(call, wire, schedulers, m) => Absent(call', wire', schedulers', m)
  BY <1>1, <1>9 DEF Absent
<1>15. \A m \in Names, d \in Calls : Answered(call', stale', d, m) => Absent(call', wire', schedulers', m)
  BY <1>10, <1>14 DEF Agree
<1>16. \A m \in Names : m \notin lost' /\ jobs'[m] = None => Absent(call', wire', schedulers', m)
  BY <1>1, <1>14 DEF Agree
<1>17. \A m \in Names : m \notin failed' /\ jobs'[m] # None =>
         \/ Underway(call', wire', m)
         \/ schedulers'[m] = jobs'[m]
         \/ \E d \in Calls : Answered(call', stale', d, m)
  BY <1>1, <1>9, <1>10 DEF Agree
<1> QED
  BY <1>7, <1>8, <1>11, <1>12, <1>13, <1>15, <1>16, <1>17 DEF Agree

\* The command at the head leaves the wire; the others move up.
LEMMA LeaveFacts ==
  ASSUME JobTypes, wire # <<>>, wire' = Tail(wire), NEW r, call' = [call EXCEPT ![Head(wire)] = r]
  PROVE  /\ Len(wire) \in Nat \ {0} /\ Len(wire') = Len(wire) - 1
         /\ wire[1] = Head(wire) /\ wire[1] \in Calls
         /\ call[wire[1]] \in Command /\ call[wire[1]].step = "sent" /\ call'[wire[1]] = r
         /\ \A d \in Calls \ {wire[1]} : call'[d] = call[d]
         /\ \A i \in 1..Len(wire') :
              /\ i + 1 \in 1..Len(wire)
              /\ wire'[i] = wire[i + 1] /\ wire[i + 1] \in Calls \ {wire[1]}
              /\ call'[wire'[i]] = call[wire[i + 1]]
              /\ \A m : /\ IsAdd(call', wire', i, m) <=> IsAdd(call, wire, i + 1, m)
                        /\ IsRemoval(call', wire', i, m) <=> IsRemoval(call, wire, i + 1, m)
         /\ \A i \in 1..Len(wire) : i # 1 => i - 1 \in 1..Len(wire') /\ (i - 1) + 1 = i
<1> DEFINE z == Len(wire)
<1>1. /\ wire[1] = Head(wire) /\ wire[1] \in Calls /\ z \in Nat \ {0}
      /\ call[wire[1]] \in Command /\ call[wire[1]].step = "sent"
      /\ Len(wire') = z - 1
      /\ \A i \in 1..(z - 1) : wire'[i] = wire[i + 1]
  BY HeadFacts
<1>2. call'[wire[1]] = r /\ \A d \in Calls \ {wire[1]} : call'[d] = call[d]
  BY <1>1 DEF JobTypes
<1>3. \A i \in 1..z : wire[i] \in Calls
  BY ElementOfSeq DEF JobTypes
<1>4. \A i, j \in 1..z : wire[i] = wire[j] => i = j
  BY DEF JobTypes
<1> HIDE DEF z
<1>5. \A i \in 1..(z - 1) : i + 1 \in 1..z /\ i + 1 # 1
  BY <1>1
<1>6. 1 \in 1..z /\ \A i \in 1..z : i # 1 => i - 1 \in 1..(z - 1) /\ (i - 1) + 1 = i
  BY <1>1
<1>7. \A i \in 1..(z - 1) : wire[i + 1] \in Calls \ {wire[1]}
  BY <1>3, <1>4, <1>5, <1>6
<1>8. \A i \in 1..(z - 1) : call'[wire'[i]] = call[wire[i + 1]]
  BY <1>1, <1>2, <1>7
<1> QED
  BY <1>1, <1>2, <1>5, <1>6, <1>7, <1>8 DEF IsAdd, IsRemoval, z

\* What holds of the commands in the wire goes on to hold when the first one leaves.
LEMMA LeaveAgrees ==
  ASSUME JobTypes, Agree, wire # <<>>, wire' = Tail(wire), NEW r, call' = [call EXCEPT ![Head(wire)] = r],
         UNCHANGED jobs, stale' = stale \/ stale' = stale \ {Head(wire)},
         Execute(Head(wire)) \/ UNCHANGED schedulers, NEW n \in Names
  PROVE  /\ Follows(call', wire', stale', n)
         /\ Followed(call', wire', stale', n)
         /\ LastIsListed(call', wire', jobs', n)
         /\ Absent(call, wire, schedulers, n) => Absent(call', wire', schedulers', n)
         /\ Underway(call, wire, n) =>
           Underway(call', wire', n) \/ (IsAdd(call, wire, 1, n) /\ (jobs[n] # None => call[wire[1]].config = jobs[n]))
         /\ IsRemoval(call, wire, 1, n) /\ wire[1] \in stale => Underway(call', wire', n)
         /\ IsRemoval(call, wire, 1, n) /\ wire[1] \notin stale => ~Underway(call', wire', n)
<1> DEFINE z == Len(wire)
           y == Len(wire')
<1>1. /\ z \in Nat \ {0} /\ y = z - 1
      /\ wire[1] = Head(wire) /\ wire[1] \in Calls
      /\ call[wire[1]] \in Command /\ call[wire[1]].step = "sent"
      /\ \A i \in 1..y :
           /\ i + 1 \in 1..z
           /\ wire'[i] = wire[i + 1] /\ wire[i + 1] \in Calls \ {wire[1]}
           /\ call'[wire'[i]] = call[wire[i + 1]]
           /\ \A m : /\ IsAdd(call', wire', i, m) <=> IsAdd(call, wire, i + 1, m)
                     /\ IsRemoval(call', wire', i, m) <=> IsRemoval(call, wire, i + 1, m)
      /\ \A i \in 1..z : i # 1 => i - 1 \in 1..y /\ (i - 1) + 1 = i
  BY LeaveFacts
<1> HIDE DEF z, y
<1>2. 1 \in 1..z /\ y \in Nat /\ \A i \in 1..y : i \in Nat
  BY <1>1
<1>3. \A i \in 1..y : wire'[i] \in stale' <=> wire[i + 1] \in stale
  BY <1>1
<1>4. /\ Follows(call, wire, stale, n) /\ Followed(call, wire, stale, n)
      /\ LastIsListed(call, wire, jobs, n)
  BY DEF Agree
<1>5. Follows(call', wire', stale', n)
  <2> SUFFICES ASSUME NEW i \in 1..y, NEW j \in 1..y, IsRemoval(call', wire', i, n), wire'[i] \notin stale',
                      IsAdd(call', wire', j, n)
               PROVE  j < i
    BY DEF Follows, y
  <2>1. /\ i + 1 \in 1..z /\ j + 1 \in 1..z /\ IsRemoval(call, wire, i + 1, n)
        /\ wire[i + 1] \notin stale /\ IsAdd(call, wire, j + 1, n)
    BY <1>1, <1>3
  <2>2. j + 1 < i + 1
    BY <1>4, <2>1 DEF Follows, z
  <2>3. i \in Nat /\ j \in Nat
    BY <1>2
  <2> QED
    BY ONLY <2>2, <2>3
<1>6. ASSUME NEW i \in 1..z, IsRemoval(call, wire, i, n), wire[i] \in stale
      PROVE  \E j \in 1..y : i < j + 1 /\ IsAdd(call', wire', j, n)
  <2>1. PICK j \in 1..z : i < j /\ IsAdd(call, wire, j, n)
    BY <1>4, <1>6 DEF Followed, z
  <2>2. j # 1
    BY <1>2, <2>1
  <2>3. j - 1 \in 1..y /\ (j - 1) + 1 = j
    BY <1>1, <2>2
  <2>4. IsAdd(call', wire', j - 1, n)
    BY <1>1, <2>1, <2>3
  <2> QED
    BY <2>1, <2>3, <2>4
<1>7. Followed(call', wire', stale', n)
  <2> SUFFICES ASSUME NEW i \in 1..y, IsRemoval(call', wire', i, n), wire'[i] \in stale'
               PROVE  \E j \in 1..y : i < j /\ IsAdd(call', wire', j, n)
    BY DEF Followed, y
  <2>1. i + 1 \in 1..z /\ IsRemoval(call, wire, i + 1, n) /\ wire[i + 1] \in stale
    BY <1>1, <1>3
  <2>2. PICK j \in 1..y : i + 1 < j + 1 /\ IsAdd(call', wire', j, n)
    BY <1>6, <2>1
  <2>3. i < j
    BY <1>2, <2>2
  <2> QED
    BY <2>2, <2>3
<1>8. LastIsListed(call', wire', jobs', n)
  <2> SUFFICES ASSUME NEW i \in 1..y, IsAdd(call', wire', i, n), jobs'[n] # None,
                      \A j \in 1..y : IsAdd(call', wire', j, n) => j <= i
               PROVE  call'[wire'[i]].config = jobs'[n]
    BY DEF LastIsListed, y
  <2>1. i + 1 \in 1..z /\ IsAdd(call, wire, i + 1, n) /\ jobs[n] # None
    BY <1>1
  <2>2. ASSUME NEW j \in 1..z, IsAdd(call, wire, j, n) PROVE j <= i + 1
    <3>1. CASE j = 1
      BY <1>2, <3>1
    <3>2. CASE j # 1
      <4>1. j - 1 \in 1..y /\ (j - 1) + 1 = j
        BY <1>1, <3>2
      <4>2. IsAdd(call', wire', j - 1, n)
        BY <1>1, <2>2, <4>1
      <4>3. j - 1 <= i
        BY <4>1, <4>2
      <4> QED
        BY <1>2, <4>3
    <3> QED
      BY <3>1, <3>2
  <2>3. call[wire[i + 1]].config = jobs[n]
    BY <1>4, <2>1, <2>2 DEF LastIsListed, z
  <2> QED
    BY <1>1, <2>3
<1>9. Underway(call', wire', n) => Underway(call, wire, n)
  BY <1>1 DEF Underway, y, z
<1>10. ASSUME Absent(call, wire, schedulers, n) PROVE Absent(call', wire', schedulers', n)
  <2>1. ~IsAdd(call, wire, 1, n) /\ schedulers[n] = None
    BY <1>2, <1>10 DEF Absent, Underway, z
  <2>2. call[wire[1]].name = n => call[wire[1]].config = None
    BY <1>1, <2>1 DEF Agree, IsAdd, Command, Idle
  <2>3. schedulers'[n] = None
    BY <1>1, <2>1, <2>2 DEF Execute, JobTypes
  <2> QED
    BY <1>9, <1>10, <2>3 DEF Absent
<1>11. ASSUME Underway(call, wire, n), ~Underway(call', wire', n)
       PROVE  IsAdd(call, wire, 1, n) /\ (jobs[n] # None => call[wire[1]].config = jobs[n])
  <2>1. ASSUME NEW i \in 1..z, IsAdd(call, wire, i, n) PROVE i = 1
    <3> SUFFICES ASSUME i # 1 PROVE FALSE
      OBVIOUS
    <3>1. i - 1 \in 1..y /\ (i - 1) + 1 = i
      BY <1>1
    <3>2. IsAdd(call', wire', i - 1, n)
      BY <1>1, <2>1, <3>1
    <3> QED
      BY <1>11, <3>1, <3>2 DEF Underway, y
  <2>2. IsAdd(call, wire, 1, n)
    BY <1>11, <2>1 DEF Underway, z
  <2>3. \A j \in 1..z : IsAdd(call, wire, j, n) => j <= 1
    BY <2>1
  <2> QED
    BY <1>2, <1>4, <2>2, <2>3 DEF LastIsListed, z
<1>12. IsRemoval(call, wire, 1, n) /\ wire[1] \in stale => Underway(call', wire', n)
  BY <1>2, <1>6 DEF Underway, y
<1>13. ASSUME IsRemoval(call, wire, 1, n), wire[1] \notin stale PROVE ~Underway(call', wire', n)
  <2> SUFFICES ASSUME NEW i \in 1..y, IsAdd(call', wire', i, n) PROVE FALSE
    BY DEF Underway, y
  <2>1. i + 1 \in 1..z /\ IsAdd(call, wire, i + 1, n)
    BY <1>1
  <2>2. i + 1 < 1
    BY <1>2, <1>4, <1>13, <2>1 DEF Follows, z
  <2>3. i \in Nat
    BY <1>2
  <2> QED
    BY ONLY <2>2, <2>3
<1> QED
  BY <1>5, <1>7, <1>8, <1>10, <1>11, <1>12, <1>13

LEMMA ReplyAgrees ==
  ASSUME JobTypes, Agree, Reply
  PROVE  Agree'
<1> DEFINE k == wire[1]
           c == call[k]
           r == [c EXCEPT !.step = "replied"]
<1>1. /\ k = Head(wire) /\ k \in Calls /\ c \in Command /\ c.step = "sent" /\ call'[k] = r
      /\ \A d \in Calls \ {k} : call'[d] = call[d]
  <2>1. call' = [call EXCEPT ![Head(wire)] = [call[Head(wire)] EXCEPT !.step = "replied"]]
        /\ wire # <<>> /\ wire' = Tail(wire) /\ wire[1] = Head(wire)
    BY HeadFacts DEF Reply
  <2> QED
    BY <2>1, LeaveFacts
<1>2. r.step = "replied" /\ r.op = c.op /\ r.name = c.name /\ r.config = c.config /\ r # Idle /\ c # Idle
  BY <1>1 DEF Command, Idle
<1>3. UNCHANGED <<jobs, stale, lost, failed>> /\ Execute(k) /\ wire # <<>> /\ wire' = Tail(wire)
      /\ call' = [call EXCEPT ![Head(wire)] = r]
  BY <1>1 DEF Reply
<1>4. c.name \in Names /\ schedulers'[c.name] = c.config /\ \A n \in Names \ {c.name} : schedulers'[n] = schedulers[n]
  BY <1>1, <1>3 DEF Command, Execute, JobTypes
<1> HIDE DEF r
<1>5. \A n \in Names :
        /\ Follows(call', wire', stale', n)
        /\ Followed(call', wire', stale', n)
        /\ LastIsListed(call', wire', jobs', n)
        /\ Absent(call, wire, schedulers, n) => Absent(call', wire', schedulers', n)
        /\ Underway(call, wire, n) =>
           Underway(call', wire', n) \/ (IsAdd(call, wire, 1, n) /\ (jobs[n] # None => c.config = jobs[n]))
        /\ IsRemoval(call, wire, 1, n) /\ k \in stale => Underway(call', wire', n)
        /\ IsRemoval(call, wire, 1, n) /\ k \notin stale => ~Underway(call', wire', n)
  BY <1>1, <1>3, LeaveAgrees
<1>6. \A n : /\ IsAdd(call, wire, 1, n) <=> c.op = "add" /\ c.name = n
             /\ IsRemoval(call, wire, 1, n) <=> c.op = "remove" /\ c.name = n
  BY DEF IsAdd, IsRemoval
<1> HIDE DEF k, c
<1>7. \A d \in Calls : call'[d] # Idle /\ call'[d].op = "remove" => call'[d].config = None
  BY <1>1, <1>2 DEF Agree, c
<1>8. \A d \in stale' : d \in Calls /\ call'[d] # Idle /\ call'[d].op = "remove"
  BY <1>1, <1>2, <1>3 DEF Agree, c
<1>9. c.op = "remove" => c.config = None
  BY <1>1, <1>2 DEF Agree, c
<1>10. ASSUME NEW n \in Names, NEW d \in Calls, Answered(call', stale', d, n)
       PROVE  Absent(call', wire', schedulers', n)
  <2>1. CASE d = k
    <3>1. c.op = "remove" /\ c.name = n /\ k \notin stale
      BY <1>1, <1>2, <1>3, <1>10, <2>1 DEF Answered
    <3> QED
      BY <1>4, <1>5, <1>6, <1>9, <3>1 DEF Absent
  <2>2. CASE d # k
    <3>1. Answered(call, stale, d, n)
      BY <1>1, <1>3, <1>10, <2>2 DEF Answered
    <3> QED
      BY <1>5, <3>1 DEF Agree
  <2> QED
    BY <2>1, <2>2
<1>11. \A n \in Names : n \notin lost' /\ jobs'[n] = None => Absent(call', wire', schedulers', n)
  BY <1>3, <1>5 DEF Agree
<1>12. ASSUME NEW n \in Names, n \notin failed', jobs'[n] # None
       PROVE  \/ Underway(call', wire', n)
              \/ schedulers'[n] = jobs'[n]
              \/ \E d \in Calls : Answered(call', stale', d, n)
  <2>0. jobs' = jobs /\ jobs[n] # None /\ n \notin failed
    BY <1>3, <1>12
  <2>1. CASE c.name = n /\ c.op = "add"
    <3>1. Underway(call, wire, n)
      <4>1. 1 \in 1..Len(wire)
        BY <1>3, HeadFacts
      <4> QED
        BY <1>6, <2>1, <4>1 DEF Underway
    <3> QED
      BY <1>4, <1>5, <2>0, <2>1, <3>1
  <2>2. CASE c.name = n /\ c.op = "remove"
    <3>1. CASE k \in stale
      BY <1>5, <1>6, <2>2, <3>1
    <3>2. CASE k \notin stale
      BY <1>1, <1>2, <1>3, <2>2, <3>2 DEF Answered
    <3> QED
      BY <3>1, <3>2
  <2>3. CASE c.name # n
    <3>1. schedulers'[n] = schedulers[n] /\ ~IsAdd(call, wire, 1, n)
      BY <1>4, <1>6, <2>3
    <3>2. \A d \in Calls : Answered(call, stale, d, n) => Answered(call', stale', d, n)
      BY <1>1, <1>2, <1>3, <2>3 DEF Answered, c
    <3> QED
      BY <1>5, <2>0, <3>1, <3>2 DEF Agree
  <2>4. c.op \in {"add", "remove"}
    BY <1>1 DEF Command
  <2> QED
    BY <2>1, <2>2, <2>3, <2>4
<1> QED
  BY <1>5, <1>7, <1>8, <1>10, <1>11, <1>12 DEF Agree

LEMMA FailureAgrees ==
  ASSUME JobTypes, Agree, CommandFails
  PROVE  Agree'
<1> DEFINE k == wire[1]
           c == call[k]
<1>0. wire # <<>> /\ wire' = Tail(wire) /\ wire[1] = Head(wire) /\ call' = [call EXCEPT ![Head(wire)] = Idle]
      /\ UNCHANGED <<jobs, lost>> /\ stale' = stale \ {Head(wire)} /\ failed' = failed \cup {c.name}
      /\ (Execute(Head(wire)) \/ UNCHANGED schedulers)
  BY HeadFacts DEF CommandFails
<1>1. /\ k \in Calls /\ c \in Command /\ c.step = "sent" /\ call'[k] = Idle
      /\ \A d \in Calls \ {k} : call'[d] = call[d]
  BY <1>0, LeaveFacts
<1>2. \A n \in Names \ {c.name} : schedulers'[n] = schedulers[n]
  BY <1>0, <1>1 DEF Command, Execute, JobTypes
<1>3. \A n \in Names :
        /\ Follows(call', wire', stale', n)
        /\ Followed(call', wire', stale', n)
        /\ LastIsListed(call', wire', jobs', n)
        /\ Absent(call, wire, schedulers, n) => Absent(call', wire', schedulers', n)
        /\ Underway(call, wire, n) => Underway(call', wire', n) \/ IsAdd(call, wire, 1, n)
  BY <1>0, LeaveAgrees
<1>4. \A n : IsAdd(call, wire, 1, n) => c.name = n
  BY DEF IsAdd
<1>5. Idle.step # "replied"
  BY DEF Idle
<1> HIDE DEF k, c
<1>6. \A d \in Calls, n \in Names : Answered(call', stale', d, n) => Answered(call, stale, d, n)
  BY <1>0, <1>1, <1>5 DEF Answered, k
<1>7. \A d \in Calls, n \in Names : Answered(call, stale, d, n) => Answered(call', stale', d, n)
  BY <1>0, <1>1 DEF Answered, c
<1>8. \A d \in Calls : call'[d] # Idle /\ call'[d].op = "remove" => call'[d].config = None
  BY <1>1 DEF Agree
<1>9. \A d \in stale' : d \in Calls /\ call'[d] # Idle /\ call'[d].op = "remove"
  BY <1>0, <1>1 DEF Agree, k
<1>10. \A n \in Names, d \in Calls : Answered(call', stale', d, n) => Absent(call', wire', schedulers', n)
  BY <1>3, <1>6 DEF Agree
<1>11. \A n \in Names : n \notin lost' /\ jobs'[n] = None => Absent(call', wire', schedulers', n)
  BY <1>0, <1>3 DEF Agree
<1>12. ASSUME NEW n \in Names, n \notin failed', jobs'[n] # None
       PROVE  \/ Underway(call', wire', n)
              \/ schedulers'[n] = jobs'[n]
              \/ \E d \in Calls : Answered(call', stale', d, n)
  <2>1. jobs' = jobs /\ n \notin failed /\ n # c.name
    BY <1>0, <1>12
  <2>2. schedulers'[n] = schedulers[n] /\ ~IsAdd(call, wire, 1, n)
    BY <1>2, <1>4, <2>1
  <2> QED
    BY <1>3, <1>7, <1>12, <2>1, <2>2 DEF Agree
<1> QED
  BY <1>3, <1>8, <1>9, <1>10, <1>11, <1>12 DEF Agree

LEMMA RepliedAgrees ==
  ASSUME JobTypes, Agree, NEW k \in Calls, Replied(k)
  PROVE  Agree'
<1> DEFINE c == call[k]
<1>1. /\ c \in Command /\ c.step = "replied" /\ c.name \in Names /\ c.op \in {"add", "remove"} /\ c # Idle
      /\ UNCHANGED <<schedulers, wire, failed>> /\ stale' = stale \ {k}
      /\ lost' = IF k \in stale /\ jobs[c.name] # None THEN lost \cup {c.name} ELSE lost
      /\ call' = [call EXCEPT ![k] = Idle]
  BY DEF Replied, JobTypes, Idle, Command
<1>2. call'[k] = Idle /\ Idle.step = "idle" /\ \A d \in Calls \ {k} : call'[d] = call[d]
  BY <1>1 DEF JobTypes, Idle
<1>3. \A n \in Names : /\ c.op = "remove" /\ n = c.name => jobs'[n] = None
                       /\ c.op = "add" \/ n # c.name => jobs'[n] = jobs[n]
  BY <1>1 DEF Replied, JobTypes
<1>4. \A i \in 1..Len(wire) : /\ wire'[i] = wire[i] /\ wire[i] \in Calls \ {k}
                              /\ call'[wire'[i]] = call[wire[i]]
  <2>1. \A i \in 1..Len(wire) : wire[i] \in Calls /\ call[wire[i]].step = "sent"
    BY ElementOfSeq DEF JobTypes
  <2> QED
    BY <1>1, <1>2, <2>1
<1> HIDE DEF c
<1>5. Len(wire') = Len(wire) /\ \A i \in 1..Len(wire), n \in Names :
        /\ IsAdd(call', wire', i, n) <=> IsAdd(call, wire, i, n)
        /\ IsRemoval(call', wire', i, n) <=> IsRemoval(call, wire, i, n)
        /\ wire'[i] \in stale' <=> wire[i] \in stale
  BY <1>1, <1>4 DEF IsAdd, IsRemoval
<1>6. \A n \in Names : Underway(call', wire', n) <=> Underway(call, wire, n)
  BY <1>5 DEF Underway
<1>7. \A n \in Names : Follows(call', wire', stale', n) /\ Followed(call', wire', stale', n)
  <2>1. \A n \in Names : Follows(call, wire, stale, n) /\ Followed(call, wire, stale, n)
    BY DEF Agree
  <2> QED
    BY <1>5, <2>1 DEF Follows, Followed
<1>8. \A n \in Names : LastIsListed(call', wire', jobs', n)
  <2>1. \A n \in Names : LastIsListed(call, wire, jobs, n)
    BY DEF Agree
  <2>2. \A n \in Names : jobs'[n] # None => jobs'[n] = jobs[n]
    BY <1>1, <1>3
  <2> QED
    BY <1>4, <1>5, <2>1, <2>2 DEF LastIsListed
<1>9. \A n \in Names : Absent(call, wire, schedulers, n) => Absent(call', wire', schedulers', n)
  BY <1>1, <1>6 DEF Absent
<1>10. \A d \in Calls, n \in Names : Answered(call', stale', d, n) => Answered(call, stale, d, n)
  BY <1>1, <1>2 DEF Answered
<1>11. \A d \in Calls : call'[d] # Idle /\ call'[d].op = "remove" => call'[d].config = None
  BY <1>2 DEF Agree
<1>12. \A d \in stale' : d \in Calls /\ call'[d] # Idle /\ call'[d].op = "remove"
  BY <1>1, <1>2 DEF Agree
<1>13. \A n \in Names, d \in Calls : Answered(call', stale', d, n) => Absent(call', wire', schedulers', n)
  BY <1>9, <1>10 DEF Agree
<1>14. ASSUME NEW n \in Names, n \notin lost', jobs'[n] = None PROVE Absent(call', wire', schedulers', n)
  <2>1. n \notin lost
    BY <1>1, <1>14
  <2>2. CASE jobs[n] = None
    BY <1>9, <2>1, <2>2 DEF Agree
  <2>3. CASE jobs[n] # None
    <3>1. c.op = "remove" /\ n = c.name
      BY <1>1, <1>3, <1>14, <2>3
    <3>2. k \notin stale
      BY <1>1, <1>14, <2>3, <3>1
    <3>3. Answered(call, stale, k, n)
      BY <1>1, <3>1, <3>2 DEF Answered, c
    <3> QED
      BY <1>9, <3>3 DEF Agree
  <2> QED
    BY <2>2, <2>3
<1>15. ASSUME NEW n \in Names, n \notin failed', jobs'[n] # None
       PROVE  \/ Underway(call', wire', n)
              \/ schedulers'[n] = jobs'[n]
              \/ \E d \in Calls : Answered(call', stale', d, n)
  <2>1. jobs'[n] = jobs[n] /\ n \notin failed /\ ~(c.op = "remove" /\ n = c.name)
    BY <1>1, <1>3, <1>15
  <2>2. ASSUME NEW d \in Calls, Answered(call, stale, d, n) PROVE Answered(call', stale', d, n)
    <3>1. d # k
      BY <2>1, <2>2 DEF Answered, c
    <3> QED
      BY <1>1, <1>2, <2>2, <3>1 DEF Answered
  <2> QED
    BY <1>1, <1>6, <1>15, <2>1, <2>2 DEF Agree
<1> QED
  BY <1>7, <1>8, <1>11, <1>12, <1>13, <1>14, <1>15 DEF Agree

LEMMA AgreeNext ==
  ASSUME JobTypes, Agree, [CronNext]_cronVars
  PROVE  Agree'
<1>1. CASE Manage
  BY <1>1, AddAgrees, RemoveAgrees, ReplyAgrees, FailureAgrees, RepliedAgrees DEF Manage
<1>2. CASE UNCHANGED jobVars
  BY <1>2 DEF Agree, jobVars
<1>3. CASE Control
  BY <1>2, <1>3 DEF Control, Start, Started, StartFails, Stop, WorkerClosed, Stopped
<1>4. CASE Work
  BY <1>2, <1>4 DEF Work, Fire, Take, HandlerEnds, HandlerReturns, HandlerThrows
<1> QED
  BY <1>1, <1>2, <1>3, <1>4 DEF CronNext, cronVars

LEMMA AgreeMeant == JobTypes /\ Agree => ListedIsScheduled
<1> SUFFICES ASSUME JobTypes, Agree, NEW n \in Names, InFlight(n) = {}
             PROVE  /\ jobs[n] # None /\ n \notin failed => schedulers[n] = jobs[n]
                    /\ jobs[n] = None /\ n \notin lost => schedulers[n] = None
  BY DEF ListedIsScheduled
<1>1. \A k \in Calls : ~Answered(call, stale, k, n)
  BY DEF InFlight, Answered, Idle
<1>2. ~Underway(call, wire, n)
  <2>1. \A i \in 1..Len(wire) : wire[i] \in Calls /\ call[wire[i]].step = "sent"
    BY ElementOfSeq DEF JobTypes
  <2> QED
    BY <2>1 DEF InFlight, Underway, IsAdd, Idle
<1> QED
  BY <1>1, <1>2 DEF Agree, Absent

\* However additions, removals, failures and a stopping queue interleave: of a name with no
\* call in flight, what the map has is scheduled as the map says unless a command about it
\* has failed, and what the map has not is not scheduled unless a removal that was called
\* before the name was added again has taken its entry.
THEOREM ListedIsScheduledEver == CronSpec => []ListedIsScheduled
<1> DEFINE Inv == JobTypes /\ LifeTypes /\ Agree
<1>1. CronInit => Inv
  BY TypesInit, AgreeInit
<1>2. Inv /\ [CronNext]_cronVars => Inv'
  BY JobTypesNext, LifeTypesNext, AgreeNext
<1>3. Inv => ListedIsScheduled
  BY AgreeMeant
<1> QED
  BY <1>1, <1>2, <1>3, PTL DEF CronSpec

-----------------------------------------------------------------------------
(* The map of BullScheduler and the repeatable jobs in Redis.              *)

\* SetToSeq makes a sequence that has every element of a finite set.
LEMMA SetToSeqFacts ==
  ASSUME NEW S, IsFiniteSet(S)
  PROVE  SetToSeq(S) \in Seq(S) /\ \A e \in S : \E i \in 1..Len(SetToSeq(S)) : SetToSeq(S)[i] = e
<1> DEFINE n == Cardinality(S)
           f == SetToSeq(S)
<1>1. n \in Nat /\ ExistsBijection(1..n, S)
  BY FS_CardinalityType
<1>2. \E g \in [1..n -> S] : IsInjective(g)
  BY <1>1 DEF ExistsBijection, Bijection, Injection
<1>3. f \in [1..n -> S] /\ IsInjective(f)
  BY <1>2 DEF SetToSeq
<1>4. IsFiniteSet(1..n) /\ Cardinality(1..n) = n
  BY <1>1, FS_Interval
<1> HIDE DEF n, f
<1>5. f \in Injection(1..n, S)
  BY <1>3 DEF Injection
<1>6. f \in Surjection(1..n, S)
  BY <1>4, <1>5, FS_Injection DEF n
<1>7. f \in Seq(S) /\ Len(f) = n
  BY <1>1, <1>3
<1>8. \A e \in S : \E i \in 1..n : f[i] = e
  BY <1>6 DEF Surjection
<1> QED
  BY <1>7, <1>8 DEF f

\* What Redis has been told, and what start() has still to tell it.
Order == [by : BullCalls \cup {"start"}, op : {"add", "remove"}, name : BullNames,
          pattern : BullPatterns \cup {NoJob}]
Entry == [name : BullNames, pattern : BullPatterns \cup {NoJob}]

BullTypes ==
  /\ bullJobs \in [BullNames -> BullPatterns \cup {NoJob}]
  /\ toRedis \in Seq(Order)
  /\ pending \in Seq(Entry)

Waits(entries, n, p) == \E i \in 1..Len(entries) : entries[i].name = n /\ entries[i].pattern = p
Told(orders, n, p) ==
  \E i \in 1..Len(orders) : orders[i].op = "add" /\ orders[i].name = n /\ orders[i].pattern = p

\* A job of the map is in Redis, or on its way there, or still to be sent by start().
\* A removal under way does no harm: its reply takes the job from the map as well.
OnItsWay ==
  /\ BullTypes
  /\ stage \in {"starting", "running"} =>
       \A n \in BullNames \ refused : bullJobs[n] # NoJob =>
         \/ <<n, bullJobs[n]>> \in repeats
         \/ Told(toRedis, n, bullJobs[n])
         \/ Waits(pending, n, bullJobs[n])
  /\ stage = "running" => pending = <<>>

LEMMA OnItsWayInit == BullInit => OnItsWay
<1>1. BullInit => toRedis = <<>> /\ pending = <<>> /\ stage = "new" /\ bullJobs \in [BullNames -> {NoJob}]
  BY DEF BullInit
<1>2. <<>> \in Seq(Order) /\ <<>> \in Seq(Entry)
  OBVIOUS
<1> QED
  BY <1>1, <1>2 DEF OnItsWay, BullTypes

\* The entries of the map, as start() copies them.
Copied == {[name |-> n, pattern |-> bullJobs[n]] : n \in {m \in BullNames : bullJobs[m] # NoJob}}

LEMMA CopiedIsFinite == IsFiniteSet(Copied)
<1> DEFINE D == {m \in BullNames : bullJobs[m] # NoJob}
           f == [n \in D |-> [name |-> n, pattern |-> bullJobs[n]]]
<1>1. IsFiniteSet(D)
  BY BullNamesAssumption, FS_Subset
<1>2. f \in Surjection(D, Copied)
  BY DEF Surjection, Copied
<1> HIDE DEF f, D
<1> QED
  BY <1>1, <1>2, FS_Surjection

\* A command is sent, after those that are on their way.
LEMMA BullSendsFacts ==
  ASSUME BullTypes, NEW by \in BullCalls \cup {"start"}, NEW op \in {"add", "remove"},
         NEW n \in BullNames, NEW p \in BullPatterns \cup {NoJob}, BullSends(by, op, n, p)
  PROVE  /\ toRedis' \in Seq(Order)
         /\ \A m, q : Told(toRedis, m, q) => Told(toRedis', m, q)
         /\ op = "add" => Told(toRedis', n, p)
<1> DEFINE c == [by |-> by, op |-> op, name |-> n, pattern |-> p]
           z == Len(toRedis)
<1>1. c \in Order /\ c.op = op /\ c.name = n /\ c.pattern = p
  BY DEF Order
<1>2. toRedis' = Append(toRedis, c)
  BY DEF BullSends
<1> HIDE DEF c
<1>3. /\ toRedis' \in Seq(Order) /\ Len(toRedis') = z + 1 /\ z \in Nat
      /\ \A i \in 1..z : toRedis'[i] = toRedis[i]
      /\ toRedis'[z + 1] = c
  BY <1>1, <1>2, AppendProperties DEF BullTypes
<1> HIDE DEF z
<1>4. Len(toRedis) = z
  BY DEF z
<1>5. ASSUME NEW m, NEW q, Told(toRedis, m, q) PROVE Told(toRedis', m, q)
  <2>1. PICK i \in 1..z : toRedis[i].op = "add" /\ toRedis[i].name = m /\ toRedis[i].pattern = q
    BY <1>4, <1>5 DEF Told
  <2>2. i \in 1..Len(toRedis') /\ toRedis'[i] = toRedis[i]
    BY <1>3
  <2> QED
    BY <2>1, <2>2 DEF Told
<1>6. ASSUME op = "add" PROVE Told(toRedis', n, p)
  <2>1. z + 1 \in 1..Len(toRedis')
    BY <1>3
  <2>2. toRedis'[z + 1].op = "add" /\ toRedis'[z + 1].name = n /\ toRedis'[z + 1].pattern = p
    BY <1>1, <1>3, <1>6
  <2> QED
    BY <2>1, <2>2 DEF Told
<1> QED
  BY <1>3, <1>5, <1>6

\* The next command is executed or refused; those after it are still on their way.
LEMMA NextCommandFacts ==
  ASSUME BullTypes, toRedis # <<>>, toRedis' = Tail(toRedis)
  PROVE  /\ Head(toRedis) \in Order
         /\ toRedis' \in Seq(Order)
         /\ \A m, q : Told(toRedis, m, q) =>
              \/ Head(toRedis).op = "add" /\ Head(toRedis).name = m /\ Head(toRedis).pattern = q
              \/ Told(toRedis', m, q)
<1>1. toRedis \in Seq(Order) /\ Len(toRedis) \in Nat /\ Head(toRedis) = toRedis[1]
  BY DEF BullTypes
<1>2. /\ Head(toRedis) \in Order /\ toRedis' \in Seq(Order) /\ Len(toRedis') = Len(toRedis) - 1
      /\ \A i \in 1..Len(toRedis') : toRedis'[i] = toRedis[i + 1]
  BY <1>1, HeadTailProperties
<1>3. ASSUME NEW i \in 1..Len(toRedis), i # 1
      PROVE  \E j \in 1..Len(toRedis') : toRedis'[j] = toRedis[i]
  <2> DEFINE j == i - 1
  <2>1. j \in 1..Len(toRedis') /\ j + 1 = i
    BY <1>1, <1>2, <1>3
  <2> HIDE DEF j
  <2> QED
    BY <1>2, <2>1
<1> QED
  BY <1>1, <1>2, <1>3 DEF Told

LEMMA OnItsWayNext == OnItsWay /\ [BullNext]_bullVars => OnItsWay'
<1> SUFFICES ASSUME OnItsWay, [BullNext]_bullVars PROVE OnItsWay'
  OBVIOUS
<1>0. BullTypes
  BY DEF OnItsWay
<1>1. ASSUME NEW k \in BullCalls, NEW n \in BullNames, BullRemove(k, n) PROVE OnItsWay'
  <2>1. UNCHANGED <<repeats, stage, pending, refused>>
    BY <1>1 DEF BullRemove
  <2>2. CASE QueueThere
    <3>1. BullSends(k, "remove", n, bullJobs[n]) /\ UNCHANGED bullJobs
      BY <1>1, <2>2 DEF BullRemove
    <3>2. bullJobs[n] \in BullPatterns \cup {NoJob}
      BY <1>0 DEF BullTypes
    <3>3. toRedis' \in Seq(Order) /\ \A m, q : Told(toRedis, m, q) => Told(toRedis', m, q)
      BY <1>0, <3>1, <3>2, BullSendsFacts
    <3> QED
      BY <2>1, <3>1, <3>3 DEF OnItsWay, BullTypes, Waits
  <2>3. CASE ~QueueThere
    <3>1. Forget(n) /\ UNCHANGED toRedis
      BY <1>1, <2>3 DEF BullRemove
    <3> QED
      BY <2>1, <2>3, <3>1 DEF OnItsWay, BullTypes, QueueThere, Forget
  <2> QED
    BY <2>2, <2>3
<1>2. ASSUME NEW k \in BullCalls, NEW n \in BullNames, NEW p \in BullPatterns, BullAdd(k, n, p)
      PROVE  OnItsWay'
  <2>1. UNCHANGED <<repeats, stage, pending, refused>> /\ bullJobs' = [bullJobs EXCEPT ![n] = p]
    BY <1>2 DEF BullAdd
  <2>2. bullJobs' \in [BullNames -> BullPatterns \cup {NoJob}]
        /\ bullJobs'[n] = p /\ \A m \in BullNames \ {n} : bullJobs'[m] = bullJobs[m]
    BY <1>0, <2>1 DEF BullTypes
  <2>3. CASE QueueThere
    <3>1. BullSends(k, "add", n, p)
      BY <1>2, <2>3 DEF BullAdd
    <3>2. toRedis' \in Seq(Order) /\ (\A m, q : Told(toRedis, m, q) => Told(toRedis', m, q)) /\ Told(toRedis', n, p)
      BY <1>0, <3>1, BullSendsFacts
    <3>3. \A m, q : Waits(pending', m, q) <=> Waits(pending, m, q)
      BY <2>1 DEF Waits
    <3> QED
      BY <2>1, <2>2, <3>2, <3>3 DEF OnItsWay, BullTypes
  <2>4. CASE ~QueueThere
    <3>1. UNCHANGED toRedis
      BY <1>2, <2>4 DEF BullAdd
    <3> QED
      BY <2>1, <2>2, <2>4, <3>1 DEF OnItsWay, BullTypes, QueueThere
  <2> QED
    BY <2>3, <2>4
<1>3. CASE BullStart
  <2>1. pending' = SetToSeq(Copied) /\ UNCHANGED <<bullJobs, repeats, toRedis, refused>> /\ stage' = "starting"
    BY <1>3 DEF BullStart, Copied
  <2>2. pending' \in Seq(Copied) /\ \A e \in Copied : \E i \in 1..Len(pending') : pending'[i] = e
    BY <2>1, CopiedIsFinite, SetToSeqFacts
  <2>3. Copied \subseteq Entry
    BY <1>0 DEF Copied, Entry, BullTypes
  <2>4. pending' \in Seq(Entry)
    BY <2>2, <2>3, SeqMonotonic
  <2>5. ASSUME NEW n \in BullNames, bullJobs[n] # NoJob PROVE Waits(pending', n, bullJobs[n])
    <3>1. [name |-> n, pattern |-> bullJobs[n]] \in Copied
      BY <2>5 DEF Copied
    <3> QED
      BY <2>1, <2>2, <3>1 DEF Waits
  <2> QED
    BY <1>0, <2>1, <2>4, <2>5 DEF OnItsWay, BullTypes
<1>4. CASE StartNext
  <2>1. UNCHANGED <<bullJobs, repeats, refused>> /\ stage = "starting"
    BY <1>4 DEF StartNext
  <2>2. CASE pending # <<>>
    <3> DEFINE e == Head(pending)
    <3>1. BullSends("start", "add", e.name, e.pattern) /\ pending' = Tail(pending) /\ UNCHANGED stage
      BY <1>4, <2>2 DEF StartNext
    <3>2. /\ e \in Entry /\ e = pending[1] /\ pending' \in Seq(Entry) /\ Len(pending') = Len(pending) - 1
          /\ Len(pending) \in Nat
          /\ \A i \in 1..Len(pending') : pending'[i] = pending[i + 1]
      BY <1>0, <2>2, <3>1, HeadTailProperties DEF BullTypes
    <3> HIDE DEF e
    <3>3. e.name \in BullNames /\ e.pattern \in BullPatterns \cup {NoJob}
      BY <3>2 DEF Entry
    <3>4. toRedis' \in Seq(Order) /\ (\A m, q : Told(toRedis, m, q) => Told(toRedis', m, q)) /\ Told(toRedis', e.name, e.pattern)
      BY <1>0, <3>1, <3>3, BullSendsFacts
    <3>5. ASSUME NEW m, NEW q, Waits(pending, m, q) PROVE Told(toRedis', m, q) \/ Waits(pending', m, q)
      <4>1. PICK i \in 1..Len(pending) : pending[i].name = m /\ pending[i].pattern = q
        BY <3>5 DEF Waits
      <4>2. CASE i = 1
        <5>1. e.name = m /\ e.pattern = q
          BY <3>2, <4>1, <4>2
        <5> QED
          BY <3>4, <5>1
      <4>3. CASE i # 1
        <5> DEFINE j == i - 1
        <5>1. j \in 1..Len(pending') /\ j + 1 = i
          BY <3>2, <4>3
        <5> HIDE DEF j
        <5>2. pending'[j] = pending[i]
          BY <3>2, <5>1
        <5>3. pending'[j].name = m /\ pending'[j].pattern = q
          BY <4>1, <5>2
        <5> QED
          BY <5>1, <5>3 DEF Waits
      <4> QED
        BY <4>2, <4>3
    <3>6. ASSUME NEW n \in BullNames \ refused, bullJobs[n] # NoJob
          PROVE  <<n, bullJobs[n]>> \in repeats \/ Told(toRedis', n, bullJobs[n]) \/ Waits(pending', n, bullJobs[n])
      BY <2>1, <3>4, <3>5, <3>6 DEF OnItsWay
    <3> QED
      BY <1>0, <2>1, <3>1, <3>2, <3>4, <3>6 DEF OnItsWay, BullTypes
  <2>3. CASE pending = <<>>
    BY <1>4, <2>1, <2>3 DEF StartNext, OnItsWay, BullTypes, Told, Waits
  <2> QED
    BY <2>2, <2>3
<1>5. ASSUME toRedis # <<>>, NEW ok \in BOOLEAN, BullReplies(Head(toRedis), ok),
             \/ /\ ok /\ UNCHANGED refused
                /\ repeats' = IF Head(toRedis).op = "add"
                              THEN repeats \cup {<<Head(toRedis).name, Head(toRedis).pattern>>}
                              ELSE repeats \ {<<Head(toRedis).name, Head(toRedis).pattern>>}
             \/ ~ok /\ refused' = refused \cup {Head(toRedis).name} /\ UNCHANGED repeats
      PROVE  OnItsWay'
  <2> DEFINE c == Head(toRedis)
  <2>1. /\ c \in Order /\ toRedis' \in Seq(Order)
        /\ \A m, q : Told(toRedis, m, q) =>
             \/ c.op = "add" /\ c.name = m /\ c.pattern = q
             \/ Told(toRedis', m, q)
    BY <1>0, <1>5, NextCommandFacts DEF BullReplies
  <2>2. /\ IF c.op = "remove" /\ ok THEN Forget(c.name) ELSE UNCHANGED bullJobs
        /\ stage' = stage \/ stage' = "failed"
        /\ UNCHANGED pending
    BY <1>5 DEF BullReplies
  <2>3. \/ /\ ok /\ UNCHANGED refused
           /\ repeats' = IF c.op = "add" THEN repeats \cup {<<c.name, c.pattern>>}
                         ELSE repeats \ {<<c.name, c.pattern>>}
        \/ ~ok /\ refused' = refused \cup {c.name} /\ UNCHANGED repeats
    BY <1>5
  <2> HIDE DEF c
  <2>4. c.op \in {"add", "remove"} /\ c.name \in BullNames
    BY <2>1 DEF Order
  <2>5. /\ bullJobs' \in [BullNames -> BullPatterns \cup {NoJob}]
        /\ \A n \in BullNames : bullJobs'[n] = bullJobs[n] \/ bullJobs'[n] = NoJob
        /\ c.op = "remove" /\ ok => bullJobs'[c.name] = NoJob
    BY <1>0, <2>2, <2>4 DEF BullTypes, Forget
  <2>6. ASSUME stage \in {"starting", "running"}, NEW n \in BullNames \ refused', bullJobs'[n] # NoJob
        PROVE  <<n, bullJobs'[n]>> \in repeats' \/ Told(toRedis', n, bullJobs[n]) \/ Waits(pending', n, bullJobs[n])
    <3>1. n \in BullNames \ refused /\ bullJobs'[n] = bullJobs[n] /\ bullJobs[n] # NoJob
      BY <2>3, <2>5, <2>6
    <3>2. CASE <<n, bullJobs[n]>> \in repeats
      BY <2>3, <2>4, <2>5, <2>6, <3>1, <3>2
    <3>3. CASE Told(toRedis, n, bullJobs[n])
      BY <2>1, <2>3, <2>6, <3>1, <3>3
    <3>4. CASE Waits(pending, n, bullJobs[n])
      BY <2>2, <3>1, <3>4 DEF Waits
    <3> QED
      BY <2>6, <3>1, <3>2, <3>3, <3>4 DEF OnItsWay
  <2> QED
    BY <1>0, <2>1, <2>2, <2>5, <2>6 DEF OnItsWay, BullTypes
<1>6. CASE RedisExecutes
  BY <1>5, <1>6 DEF RedisExecutes
<1>7. CASE RedisRefuses
  BY <1>5, <1>7 DEF RedisRefuses
<1>8. CASE BullStop
  BY <1>8 DEF BullStop, OnItsWay, BullTypes
<1>9. CASE UNCHANGED bullVars
  BY <1>9 DEF bullVars, OnItsWay, BullTypes, Told, Waits
<1> QED
  BY <1>1, <1>2, <1>3, <1>4, <1>6, <1>7, <1>8, <1>9 DEF BullNext

LEMMA OnItsWayMeant == OnItsWay => MapIsInRedis
<1>1. 1..Len(<<>>) = {}
  OBVIOUS
<1> QED
  BY <1>1 DEF OnItsWay, MapIsInRedis, Told, Waits

-----------------------------------------------------------------------------
(* Both ways of scheduling.                                                *)

\* A step of the events is a step of one of their sources, and none of the others.
LEMMA EventsStep ==
  ASSUME [EventsNext]_<<source, vars, cronVars, bullVars>>
  PROVE  [Next]_vars /\ [CronNext]_cronVars /\ [BullNext]_bullVars
BY DEF EventsNext

\* However adds and removals, workers, failures and a stopping process interleave,
\* both the manager and the scheduler list what Redis makes fall due, as far as each part says.
THEOREM SchedulesAgreeEver == EventsSpec => []SchedulesAgree
<1>1. EventsInit => CronInit /\ BullInit
  BY DEF EventsInit
<1>2. CronSpec => []ListedIsScheduled
  BY ListedIsScheduledEver
<1> QED
  BY <1>1, <1>2, EventsStep, OnItsWayInit, OnItsWayNext, OnItsWayMeant, PTL
     DEF EventsSpec, CronSpec, SchedulesAgree

\* For any subscriptions, handlers, jobs and calls, the bus and the manager are
\* type-correct: no subscription is listed twice or called twice by one publish().
THEOREM EventsTypeCorrect == EventsSpec => []EventsTypeOK
<1> DEFINE Inv == BusInv /\ JobTypes /\ LifeTypes
<1>1. EventsInit => Inv
  BY BusStarts, TypesInit DEF EventsInit
<1>2. Inv /\ [EventsNext]_<<source, vars, cronVars, bullVars>> => Inv'
  <2> SUFFICES ASSUME Inv, [EventsNext]_<<source, vars, cronVars, bullVars>> PROVE Inv'
    OBVIOUS
  <2>1. [Next]_vars /\ [CronNext]_cronVars
    BY DEF EventsNext
  <2> QED
    BY <2>1, BusStep, JobTypesNext, LifeTypesNext
<1>3. Inv => EventsTypeOK
  BY BusTypes, TypesMeant DEF EventsTypeOK
<1> QED
  BY <1>1, <1>2, <1>3, PTL DEF EventsSpec
=============================================================================
