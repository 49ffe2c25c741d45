------------------------ MODULE ContextRetrievalProofs ------------------------
(***************************************************************************)
(* Proofs about ContextRetrieval: what a selection has to do with the      *)
(* assets that match a request best, what the loop that cuts it down to    *)
(* the budget leaves of it, and hence that an accepted interpretation is   *)
(* what was asked for, whatever the limits and the budget have cut away.   *)
(***************************************************************************)
EXTENDS ContextRetrieval, SequenceTheorems, FiniteSetTheorems, TLAPS

-----------------------------------------------------------------------------
(* The positions of a sequence in a total order.                           *)
TotalOrder(R, I) ==
  /\ \A i \in I : <<i, i>> \in R
  /\ \A i, j \in I : <<i, j>> \in R \/ <<j, i>> \in R
  /\ \A i, j \in I : <<i, j>> \in R /\ <<j, i>> \in R => i = j
  /\ \A i, j, k \in I : <<i, j>> \in R /\ <<j, k>> \in R => <<i, k>> \in R

(* t has the entries of s at the positions I, and pos says which where.    *)
Places(t, s, I, R, pos) ==
  /\ pos \in [1 .. Cardinality(I) -> I]
  /\ \A i \in I : \E k \in 1 .. Cardinality(I) : pos[k] = i
  /\ \A k, l \in 1 .. Cardinality(I) : pos[k] = pos[l] => k = l
  /\ \A k, l \in 1 .. Cardinality(I) : k <= l => <<pos[k], pos[l]>> \in R
  /\ t = [k \in 1 .. Cardinality(I) |-> s[pos[k]]]

LEMMA OrderedPlaces ==
  ASSUME NEW s, NEW I, NEW R, IsFiniteSet(I), TotalOrder(R, I)
  PROVE  Cardinality(I) \in Nat /\ \E pos : Places(Ordered(s, I, R), s, I, R, pos)
<1> DEFINE n == Cardinality(I)
           Ahead(i) == {j \in I : <<j, i>> \in R}
           rank == [i \in I |-> Cardinality(Ahead(i))]
           pos == [k \in 1 .. n |-> CHOOSE i \in I : Cardinality(Ahead(i)) = k]
<1>0. n \in Nat /\ IsFiniteSet(1 .. n) /\ Cardinality(1 .. n) = n
  BY FS_CardinalityType, FS_Interval
<1>1. ASSUME NEW i \in I
      PROVE  IsFiniteSet(Ahead(i)) /\ rank[i] \in 1 .. n
  <2>1. IsFiniteSet(Ahead(i)) /\ Cardinality(Ahead(i)) <= n
    <3>1. Ahead(i) \subseteq I
      OBVIOUS
    <3> QED
      BY <3>1, FS_Subset
  <2>2. i \in Ahead(i)
    BY DEF TotalOrder
  <2>3. Cardinality(Ahead(i)) \in Nat /\ Cardinality(Ahead(i)) # 0
    BY <2>1, <2>2, FS_CardinalityType, FS_EmptySet
  <2> HIDE DEF n, Ahead
  <2> QED
    BY <2>1, <2>3, <1>0
<1>2. ASSUME NEW i \in I, NEW j \in I, <<i, j>> \in R, i # j
      PROVE  rank[i] < rank[j]
  <2>1. Ahead(i) \subseteq Ahead(j) /\ j \in Ahead(j) /\ j \notin Ahead(i)
    BY <1>2 DEF TotalOrder
  <2>2. Ahead(i) \subseteq Ahead(j) \ {j}
    BY <2>1
  <2>3. IsFiniteSet(Ahead(j) \ {j}) /\ Cardinality(Ahead(j) \ {j}) = Cardinality(Ahead(j)) - 1
    <3> HIDE DEF Ahead
    <3> QED
      BY <2>1, <1>1, FS_RemoveElement
  <2>4. Cardinality(Ahead(i)) <= Cardinality(Ahead(j) \ {j})
    <3> HIDE DEF Ahead
    <3> QED
      BY <2>2, <2>3, FS_Subset
  <2>5. rank[i] = Cardinality(Ahead(i)) /\ rank[j] = Cardinality(Ahead(j)) /\ rank[i] \in Nat /\ rank[j] \in Nat
    BY <1>1
  <2> HIDE DEF Ahead, rank
  <2> QED
    BY <2>3, <2>4, <2>5
<1>3. rank \in Injection(I, 1 .. n)
  <2>1. rank \in [I -> 1 .. n]
    <3>1. \A i \in I : rank[i] \in 1 .. n
      BY <1>1
    <3> QED
      BY <3>1
  <2>2. ASSUME NEW i \in I, NEW j \in I, rank[i] = rank[j] PROVE i = j
    <3>1. <<i, j>> \in R \/ <<j, i>> \in R
      BY DEF TotalOrder
    <3>2. rank[i] \in Nat /\ rank[j] \in Nat
      BY <1>1
    <3> HIDE DEF rank
    <3> QED
      BY <3>1, <3>2, <2>2, <1>2
  <2> QED
    BY <2>1, <2>2 DEF Injection, IsInjective
<1>4. \A k \in 1 .. n : \E i \in I : rank[i] = k
  <2>1. rank \in Surjection(I, 1 .. n)
    <3> HIDE DEF rank
    <3> QED
      BY <1>3, <1>0, FS_Injection
  <2> QED
    BY <2>1 DEF Surjection
<1>5. \A k \in 1 .. n : pos[k] \in I /\ rank[pos[k]] = k
  BY <1>4
<1>6. \A i, j \in I : rank[i] = rank[j] => i = j
  BY <1>3 DEF Injection, IsInjective
<1>7. Ordered(s, I, R) = [k \in 1 .. n |-> s[pos[k]]]
  BY DEF Ordered
<1>8. pos \in [1 .. n -> I]
  BY <1>5
<1>9. \A i \in I : rank[i] \in 1 .. n
  BY <1>1
<1> HIDE DEF rank, pos
<1>10. \A i \in I : \E k \in 1 .. n : pos[k] = i
  <2> TAKE i \in I
  <2>1. rank[i] \in 1 .. n /\ pos[rank[i]] \in I /\ rank[pos[rank[i]]] = rank[i]
    BY <1>9, <1>5
  <2> QED
    BY <2>1, <1>6
<1>11. ASSUME NEW k \in 1 .. n, NEW l \in 1 .. n, k <= l PROVE <<pos[k], pos[l]>> \in R
  <2>1. pos[k] \in I /\ pos[l] \in I /\ rank[pos[k]] = k /\ rank[pos[l]] = l
    BY <1>5
  <2>2. CASE pos[k] = pos[l]
    BY <2>1, <2>2 DEF TotalOrder
  <2>3. CASE pos[k] # pos[l]
    <3>1. <<pos[k], pos[l]>> \in R \/ <<pos[l], pos[k]>> \in R
      BY <2>1 DEF TotalOrder
    <3>2. <<pos[l], pos[k]>> \in R => l < k
      BY <2>1, <2>3, <1>2
    <3>3. ~(l < k)
      BY <1>11, <1>0
    <3> QED
      BY <3>1, <3>2, <3>3
  <2> QED
    BY <2>2, <2>3
<1>12. \A k, l \in 1 .. n : pos[k] = pos[l] => k = l
  BY <1>5
<1> HIDE DEF n
<1>13. Cardinality(I) = n
  BY DEF n
<1>14. Places(Ordered(s, I, R), s, I, R, pos)
  BY <1>7, <1>8, <1>10, <1>11, <1>12, <1>13 DEF Places
<1> QED
  BY <1>0, <1>13, <1>14

LEMMA SequenceOf ==
  ASSUME NEW S, NEW n \in Nat, NEW f \in [1 .. n -> S]
  PROVE  f \in Seq(S) /\ Len(f) = n /\ DOMAIN f = 1 .. n
OBVIOUS

Arranges(S, s, I, R) == IsFiniteSet(I) /\ TotalOrder(R, I) /\ \A i \in I : s[i] \in S

LEMMA OrderedFacts ==
  ASSUME NEW S, NEW s, NEW I, NEW R, Arranges(S, s, I, R)
  PROVE  /\ Ordered(s, I, R) \in Seq(S)
         /\ Len(Ordered(s, I, R)) = Cardinality(I) /\ Cardinality(I) \in Nat
         /\ Range(Ordered(s, I, R)) = {s[i] : i \in I}
<1> DEFINE n == Cardinality(I)  t == Ordered(s, I, R)
<1>0. IsFiniteSet(I) /\ TotalOrder(R, I) /\ \A i \in I : s[i] \in S
  BY DEF Arranges
<1>1. n \in Nat
  BY <1>0, OrderedPlaces
<1>2. PICK pos : Places(t, s, I, R, pos)
  BY <1>0, OrderedPlaces
<1>3. /\ pos \in [1 .. n -> I] /\ \A i \in I : \E k \in 1 .. n : pos[k] = i
      /\ t = [k \in 1 .. n |-> s[pos[k]]]
  BY <1>2 DEF Places
<1> HIDE DEF n, t
<1>4. t \in [1 .. n -> S]
  BY <1>0, <1>3
<1>5. t \in Seq(S) /\ Len(t) = n /\ DOMAIN t = 1 .. n
  BY <1>1, <1>4, SequenceOf
<1>6. Range(t) = {s[i] : i \in I}
  BY <1>3 DEF Range
<1> QED
  BY <1>1, <1>5, <1>6 DEF n, t

LEMMA NaturalOrder ==
  ASSUME NEW I \in SUBSET Nat
  PROVE  TotalOrder({q \in I \X I : q[1] <= q[2]}, I)
<1> DEFINE R == {q \in I \X I : q[1] <= q[2]}
<1>1. ASSUME NEW i \in I, NEW j \in I PROVE <<i, j>> \in R <=> i <= j
  OBVIOUS
<1> HIDE DEF R
<1>2. \A i \in I : i \in Nat
  OBVIOUS
<1> QED
  BY <1>1, <1>2 DEF TotalOrder, R

Distinct(s) == \A i, j \in DOMAIN s : s[i] = s[j] => i = j

LEMMA OnlyFacts ==
  ASSUME NEW S, NEW s \in Seq(S), NEW I \in SUBSET (DOMAIN s)
  PROVE  /\ Only(s, I) \in Seq(S) /\ IsFiniteSet(I)
         /\ Len(Only(s, I)) = Cardinality(I) /\ Len(Only(s, I)) <= Len(s)
         /\ Range(Only(s, I)) = {s[i] : i \in I}
         /\ Distinct(s) => Distinct(Only(s, I))
<1> DEFINE R == {q \in I \X I : q[1] <= q[2]}  n == Cardinality(I)  t == Only(s, I)
<1>1. Len(s) \in Nat /\ DOMAIN s = 1 .. Len(s) /\ \A i \in I : s[i] \in S
  BY LenProperties, ElementOfSeq
<1>2. IsFiniteSet(I) /\ n <= Len(s)
  <2>1. IsFiniteSet(DOMAIN s) /\ Cardinality(DOMAIN s) = Len(s)
    BY <1>1, FS_Interval
  <2> QED
    BY <2>1, FS_Subset
<1>3. TotalOrder(R, I)
  <2>1. I \in SUBSET Nat
    BY <1>1
  <2> QED
    BY <2>1, NaturalOrder
<1>4. t = Ordered(s, I, R)
  BY DEF Only
<1>5. t \in Seq(S) /\ Len(t) = n /\ n \in Nat /\ Range(t) = {s[i] : i \in I}
  <2> HIDE DEF R, t
  <2>1. Arranges(S, s, I, R)
    BY <1>1, <1>2, <1>3 DEF Arranges
  <2> QED
    BY <1>4, <2>1, OrderedFacts
<1>6. ASSUME Distinct(s) PROVE Distinct(t)
  <2> HIDE DEF R
  <2>1. PICK pos : Places(t, s, I, R, pos)
    BY <1>2, <1>3, <1>4, OrderedPlaces
  <2> HIDE DEF t
  <2>2. /\ pos \in [1 .. n -> I] /\ \A k, l \in 1 .. n : pos[k] = pos[l] => k = l
        /\ t = [k \in 1 .. n |-> s[pos[k]]]
    BY <2>1 DEF Places
  <2> HIDE DEF n
  <2> QED
    BY <2>2, <1>6 DEF Distinct
<1> QED
  BY <1>2, <1>5, <1>6

LEMMA Extremes ==
  ASSUME NEW n \in Nat, NEW I \in SUBSET (1 .. n), I # {}
  PROVE  Max(I) \in I /\ Min(I) \in I
<1> DEFINE R == {q \in I \X I : q[1] <= q[2]}  c == Cardinality(I)
<1>1. IsFiniteSet(I) /\ c \in Nat /\ c # 0
  <2>1. IsFiniteSet(1 .. n)
    BY FS_Interval
  <2> QED
    BY <2>1, FS_Subset, FS_CardinalityType, FS_EmptySet
<1>2. TotalOrder(R, I)
  <2>1. I \in SUBSET Nat
    OBVIOUS
  <2> QED
    BY <2>1, NaturalOrder
<1>3. PICK pos : Places(Ordered([i \in I |-> i], I, R), [i \in I |-> i], I, R, pos)
  <2> HIDE DEF R
  <2> QED
    BY <1>1, <1>2, OrderedPlaces
<1>4. /\ pos \in [1 .. c -> I] /\ \A i \in I : \E k \in 1 .. c : pos[k] = i
      /\ \A k, l \in 1 .. c : k <= l => <<pos[k], pos[l]>> \in R
  BY <1>3 DEF Places
<1>5. \A k, l \in 1 .. c : k <= l => pos[k] <= pos[l]
  BY <1>4
<1> HIDE DEF R, c
<1>6. 1 \in 1 .. c /\ c \in 1 .. c /\ \A k \in 1 .. c : 1 <= k /\ k <= c
  BY <1>1
<1>7. pos[1] \in I /\ pos[c] \in I
  BY <1>4, <1>6
<1>8. \A i \in I : i <= pos[c] /\ pos[1] <= i
  BY <1>4, <1>5, <1>6
<1>9. \A i, j \in I : i <= j <=> j >= i
  OBVIOUS
<1>10. (\A i \in I : pos[c] >= i) /\ (\A i \in I : pos[1] =< i)
  BY <1>7, <1>8, <1>9
<1> QED
  BY <1>7, <1>10 DEF Max, Min

LEMMA PartFacts ==
  ASSUME NEW S, NEW s, NEW n \in Nat, NEW l \in Nat, \A i \in 1 .. l : s[n + i] \in S
  PROVE  /\ SubSeq(s, n + 1, n + l) \in Seq(S) /\ Len(SubSeq(s, n + 1, n + l)) = l
         /\ \A i \in 1 .. l : SubSeq(s, n + 1, n + l)[i] = s[n + i]
<1> DEFINE a == n + 1  b == n + l
<1>1. a \in Int /\ b \in Int /\ b - a + 1 = l
  OBVIOUS
<1>2. \A i \in a .. b : s[i] \in S
  <2> TAKE i \in a .. b
  <2>1. i - n \in 1 .. l /\ n + (i - n) = i
    OBVIOUS
  <2> QED
    BY <2>1
<1>3. \A i \in 1 .. l : a + i - 1 = n + i
  OBVIOUS
<1>4. (a <= b \/ l = 0) /\ (~(a <= b) => l = 0)
  OBVIOUS
<1> HIDE DEF a, b
<1>5. /\ SubSeq(s, a, b) \in Seq(S) /\ Len(SubSeq(s, a, b)) = IF a <= b THEN b - a + 1 ELSE 0
      /\ \A i \in 1 .. b - a + 1 : SubSeq(s, a, b)[i] = s[a + i - 1]
  BY <1>1, <1>2, SubSeqProperties
<1>6. Len(SubSeq(s, a, b)) = l
  <2>1. CASE a <= b
    BY <2>1, <1>1, <1>5
  <2>2. CASE ~(a <= b)
    BY <2>2, <1>4, <1>5
  <2> QED
    BY <2>1, <2>2
<1>7. \A i \in 1 .. l : SubSeq(s, a, b)[i] = s[n + i]
  BY <1>1, <1>3, <1>5
<1> QED
  BY <1>5, <1>6, <1>7 DEF a, b

LEMMA TakeFacts ==
  ASSUME NEW S, NEW s \in Seq(S), NEW n \in Nat
  PROVE  /\ Take(s, n) \in Seq(S)
         /\ Len(Take(s, n)) = IF Len(s) < n THEN Len(s) ELSE n
         /\ \A i \in 1 .. Len(Take(s, n)) : Take(s, n)[i] = s[i]
         /\ Range(Take(s, n)) \subseteq Range(s)
         /\ Len(s) <= n => Take(s, n) = s
<1> DEFINE l == IF Len(s) < n THEN Len(s) ELSE n  t == Take(s, n)
<1>1. Len(s) \in Nat /\ DOMAIN s = 1 .. Len(s)
  BY LenProperties
<1>2. l \in Nat /\ l <= Len(s) /\ (Len(s) <= n => l = Len(s))
  <2> DEFINE k == Len(s)
  <2> HIDE DEF k
  <2>1. k \in Nat /\ l = IF k < n THEN k ELSE n
    BY <1>1 DEF k
  <2> HIDE DEF l
  <2>2. l \in Nat /\ l <= k /\ (k <= n => l = k)
    BY <2>1
  <2> QED
    BY <2>2 DEF k
<1>3. t = SubSeq(s, 1, l)
  BY DEF Take
<1> HIDE DEF l, t
<1>4. \A i \in 1 .. l : i \in 1 .. Len(s)
  <2> DEFINE k == Len(s)
  <2> HIDE DEF k
  <2>1. k \in Nat /\ l \in Nat /\ l <= k
    BY <1>1, <1>2 DEF k
  <2>2. \A i \in 1 .. l : i \in 1 .. k
    BY <2>1
  <2> QED
    BY <2>2 DEF k
<1>5. t \in Seq(S) /\ Len(t) = l /\ \A i \in 1 .. l : t[i] = s[i]
  <2>1. \A i \in 1 .. l : s[i] \in S
    BY <1>4, ElementOfSeq
  <2>2. /\ t \in Seq(S) /\ Len(t) = IF 1 <= l THEN l - 1 + 1 ELSE 0
        /\ \A i \in 1 .. l - 1 + 1 : t[i] = s[1 + i - 1]
    <3>1. 1 \in Int /\ l \in Int
      BY <1>2
    <3> QED
      BY <1>3, <2>1, <3>1, SubSeqProperties
  <2>3. l \in Nat
    BY <1>2
  <2>4. Len(t) = l
    BY <2>2, <2>3
  <2>5. ASSUME NEW i \in 1 .. l PROVE t[i] = s[i]
    <3>1. i \in 1 .. l - 1 + 1 /\ 1 + i - 1 = i
      BY <2>3
    <3>2. t[i] = s[1 + i - 1]
      BY <2>2, <3>1
    <3> QED
      BY <3>1, <3>2
  <2> QED
    BY <2>2, <2>4, <2>5
<1>6. Range(t) \subseteq Range(s)
  <2>1. DOMAIN t = 1 .. l
    BY <1>5, LenProperties
  <2> QED
    BY <1>1, <1>4, <1>5, <2>1 DEF Range
<1>7. Len(s) <= n => t = s
  BY <1>2, <1>5, SeqEqual
<1> QED
  BY <1>5, <1>6, <1>7 DEF l, t

LEMMA FrontFacts ==
  ASSUME NEW S, NEW s \in Seq(S), s # <<>>
  PROVE  /\ Front(s) \in Seq(S) /\ Len(s) \in Nat \ {0} /\ Len(Front(s)) = Len(s) - 1
         /\ \A i \in 1 .. Len(Front(s)) : Front(s)[i] = s[i]
         /\ Range(Front(s)) \subseteq Range(s)
<1>1. Len(s) \in Nat \ {0}
  BY EmptySeq
<1>2. Front(s) = Take(s, Len(s) - 1) /\ Len(s) - 1 \in Nat /\ ~(Len(s) < Len(s) - 1)
  BY <1>1 DEF Front, Take
<1> QED
  BY <1>1, <1>2, TakeFacts

LEMMA RemovedFacts ==
  ASSUME NEW S, NEW s \in Seq(S), NEW n \in 1 .. Len(s)
  PROVE  /\ RemoveAt(s, n) \in Seq(S) /\ Len(RemoveAt(s, n)) = Len(s) - 1
         /\ \A i \in 1 .. Len(s) - 1 : RemoveAt(s, n)[i] = s[IF i < n THEN i ELSE i + 1]
         /\ Range(RemoveAt(s, n)) \subseteq Range(s)
         /\ \A i \in 1 .. Len(s) : i # n => s[i] \in Range(RemoveAt(s, n))
<1> DEFINE l == Len(s)  a == SubSeq(s, 1, n - 1)  b == SubSeq(s, n + 1, l)  t == RemoveAt(s, n)
<1>1. l \in Nat /\ DOMAIN s = 1 .. l /\ n \in 1 .. l
  BY LenProperties
<1>2. t = a \o b
  BY DEF RemoveAt
<1>3. a \in Seq(S) /\ Len(a) = n - 1 /\ \A i \in 1 .. n - 1 : a[i] = s[i]
  <2>1. Take(s, n - 1) = a /\ n - 1 \in Nat /\ (IF Len(s) < n - 1 THEN Len(s) ELSE n - 1) = n - 1
    BY <1>1 DEF Take
  <2> QED
    BY <2>1, TakeFacts
<1>4. b \in Seq(S) /\ Len(b) = l - n /\ \A i \in 1 .. l - n : b[i] = s[n + i]
  <2>1. n \in Nat /\ l - n \in Nat /\ n + (l - n) = l
    BY <1>1
  <2>2. \A i \in 1 .. l - n : s[n + i] \in S
    BY <1>1, ElementOfSeq
  <2> DEFINE k == l - n
  <2> HIDE DEF k
  <2>3. k \in Nat /\ \A i \in 1 .. k : s[n + i] \in S
    BY <2>1, <2>2 DEF k
  <2>4. /\ SubSeq(s, n + 1, n + k) \in Seq(S) /\ Len(SubSeq(s, n + 1, n + k)) = k
        /\ \A i \in 1 .. k : SubSeq(s, n + 1, n + k)[i] = s[n + i]
    <3>1. n \in Nat
      BY <2>1
    <3> HIDE <1>1, <1>2, <1>3, <2>1
    <3> QED
      BY <2>3, <3>1, PartFacts
  <2>5. n + k = l
    BY <2>1 DEF k
  <2> QED
    BY <2>4, <2>5 DEF k
<1> HIDE DEF a, b, t
<1>5. t \in Seq(S) /\ Len(t) = l - 1
      /\ \A i \in 1 .. l - 1 : t[i] = IF i <= n - 1 THEN a[i] ELSE b[i - (n - 1)]
  <2>1. (n - 1) + (l - n) = l - 1
    BY <1>1
  <2>2. /\ a \o b \in Seq(S) /\ Len(a \o b) = Len(a) + Len(b)
        /\ \A i \in 1 .. Len(a) + Len(b) :
             (a \o b)[i] = IF i <= Len(a) THEN a[i] ELSE b[i - Len(a)]
    BY <1>3, <1>4, ConcatProperties, Zenon
  <2> QED
    BY <1>2, <1>3, <1>4, <2>1, <2>2
<1>6. \A i \in 1 .. l - 1 : t[i] = s[IF i < n THEN i ELSE i + 1]
  <2> TAKE i \in 1 .. l - 1
  <2>1. CASE i < n
    <3>1. i <= n - 1 /\ i \in 1 .. n - 1
      BY <2>1, <1>1
    <3> QED
      BY <3>1, <2>1, <1>3, <1>5
  <2>2. CASE ~(i < n)
    <3>1. ~(i <= n - 1) /\ i - (n - 1) \in 1 .. l - n /\ n + (i - (n - 1)) = i + 1
      BY <2>2, <1>1
    <3>2. t[i] = b[i - (n - 1)]
      BY <3>1, <1>5
    <3>3. b[i - (n - 1)] = s[n + (i - (n - 1))]
      BY <3>1, <1>4
    <3> QED
      BY <2>2, <3>1, <3>2, <3>3
  <2> QED
    BY <2>1, <2>2
<1>7. DOMAIN t = 1 .. l - 1
  BY <1>5, LenProperties
<1>8. Range(t) \subseteq Range(s)
  <2>1. \A i \in 1 .. l - 1 : (IF i < n THEN i ELSE i + 1) \in 1 .. l
    BY <1>1
  <2> QED
    BY <2>1, <1>1, <1>6, <1>7 DEF Range
<1>9. ASSUME NEW i \in 1 .. l, i # n PROVE s[i] \in Range(t)
  <2> DEFINE j == IF i < n THEN i ELSE i - 1
  <2>1. j \in 1 .. l - 1 /\ (IF j < n THEN j ELSE j + 1) = i
    BY <1>1, <1>9
  <2> HIDE DEF j
  <2>2. t[j] = s[i]
    BY <1>6, <2>1
  <2> QED
    BY <1>7, <2>1, <2>2 DEF Range
<1> QED
  BY <1>5, <1>6, <1>8, <1>9 DEF l, t

(* The positions that the loop removes an entry at, or changes one.        *)
LEMMA ChosenPositions ==
  ASSUME Len(result.candidates) \in Nat, Len(result.assets) \in Nat
  PROVE  /\ LastCandidate # 0 =>
              LastCandidate \in 1 .. Len(result.candidates) /\ ~result.candidates[LastCandidate].eligible
         /\ LastAsset # 0 =>
              LastAsset \in 1 .. Len(result.assets)
              /\ ~Contains(result.eligible, result.assets[LastAsset].id)
         /\ FirstAlias # 0 =>
              FirstAlias \in 1 .. Len(result.assets) /\ result.assets[FirstAlias].aliases
<1> DEFINE C == {i \in 1 .. Len(result.candidates) : ~result.candidates[i].eligible}
           A == {i \in 1 .. Len(result.assets) : ~Contains(result.eligible, result.assets[i].id)}
           F == {i \in 1 .. Len(result.assets) : result.assets[i].aliases}
<1>1. /\ C # {} => Max(C) \in C
      /\ A # {} => Max(A) \in A
      /\ F # {} => Min(F) \in F
  BY Extremes
<1>2. /\ LastCandidate = IF C # {} THEN Max(C) ELSE 0
      /\ LastAsset = IF A # {} THEN Max(A) ELSE 0
      /\ FirstAlias = IF F # {} THEN Min(F) ELSE 0
  BY DEF LastCandidate, LastAsset, FirstAlias, SelectLastInSeq, SelectInSeq
<1>3. C # {} => LastCandidate \in C
  BY <1>1, <1>2
<1>4. A # {} => LastAsset \in A
  BY <1>1, <1>2
<1>5. F # {} => FirstAlias \in F
  BY <1>1, <1>2
<1> QED
  BY <1>2, <1>3, <1>4, <1>5
-----------------------------------------------------------------------------
(* What a result about model m is made of.                                 *)
Candidate == [id : Nat, eligible : BOOLEAN]
Entry == [id : Nat, aliases : BOOLEAN]

Results(m) ==
  [kind : {"retrieval"}, terms : Nat, hints : SUBSET {"alarms", "overview"},
   roles : Seq(Range(Roles)), specific : BOOLEAN, clarify : BOOLEAN,
   eligible : Seq(Nat), eligible_count : Nat,
   candidates : Seq(Candidate),
   assets : Seq(Entry),
   relationships : Seq(Range(m.relationships)),
   tags : Seq(Range(m.tags)), alarms : Seq(Range(m.alarms)),
   truncated : [candidates : BOOLEAN, assets : BOOLEAN, relationships : BOOLEAN,
                tags : BOOLEAN, alarms : BOOLEAN, roles : BOOLEAN, budget : BOOLEAN]]

(* What the loop may leave of a selection o: what is gone is reported, no  *)
(* eligible asset is without its candidate and its entry, and of the roles *)
(* and the tags, which belong together, none loses its partner.            *)
Prefix(s, t) == Len(s) <= Len(t) /\ \A i \in 1 .. Len(s) : s[i] = t[i]

SameRequest(r, o) ==
  r.hints = o.hints /\ r.specific = o.specific /\ r.eligible_count = o.eligible_count

ReportsMore(r, o) ==
  /\ o.clarify => r.clarify
  /\ o.truncated.candidates => r.truncated.candidates
  /\ o.truncated.assets => r.truncated.assets
  /\ o.truncated.relationships => r.truncated.relationships
  /\ o.truncated.tags => r.truncated.tags
  /\ o.truncated.alarms => r.truncated.alarms
  /\ o.truncated.roles => r.truncated.roles

CandidatesLeft(r, o) ==
  /\ Range(r.candidates) \subseteq Range(o.candidates)
  /\ \A c \in Range(o.candidates) :
       c \in Range(r.candidates) \/ (~c.eligible /\ r.truncated.candidates)

AssetsLeft(r, o) ==
  /\ Ids(r.assets) \subseteq Ids(o.assets)
  /\ \A id \in Ids(o.assets) :
       id \in Ids(r.assets) \/ (id \notin Range(r.eligible) /\ r.truncated.assets)

RelationshipsLeft(r, o) == r.relationships = o.relationships \/ r.truncated.relationships
AlarmsLeft(r, o) == r.alarms = o.alarms \/ r.truncated.alarms

TagsLeft(r, o) == Prefix(r.tags, o.tags) /\ (r.tags = o.tags \/ r.truncated.tags)

RolesLeft(r, o) ==
  Prefix(r.roles, o.roles) /\ (r.roles = o.roles \/ (r.truncated.roles /\ r.clarify))

Partners(r, o) == Len(r.roles) <= Len(r.tags) \/ r.tags = o.tags

EligibleLeft(r, o) ==
  /\ Range(r.eligible) \subseteq Range(o.eligible)
  /\ r.eligible = o.eligible \/ o.eligible_count > 1

Left(r, o) ==
  /\ SameRequest(r, o) /\ ReportsMore(r, o)
  /\ CandidatesLeft(r, o) /\ AssetsLeft(r, o)
  /\ RelationshipsLeft(r, o) /\ AlarmsLeft(r, o)
  /\ TagsLeft(r, o) /\ RolesLeft(r, o) /\ Partners(r, o)
  /\ EligibleLeft(r, o)

(* q has the fields of r, but for F.                                       *)
Fields == {"terms", "hints", "roles", "specific", "clarify", "eligible", "eligible_count",
           "candidates", "assets", "relationships", "tags", "alarms"}
Flags == {"candidates", "assets", "relationships", "tags", "alarms", "roles"}
OnlyChanges(q, r, F, G) ==
  /\ \A f \in Fields \ F : q[f] = r[f]
  /\ \A g \in Flags \ G : q.truncated[g] = r.truncated[g]
  /\ \A g \in G : q.truncated[g]

LEMMA LeftUnchanged ==
  ASSUME NEW o, NEW r, NEW q, Left(r, o), SameRequest(q, r), ReportsMore(q, r)
  PROVE  /\ SameRequest(q, o) /\ ReportsMore(q, o)
         /\ q.candidates = r.candidates => CandidatesLeft(q, o)
         /\ q.assets = r.assets /\ Range(q.eligible) \subseteq Range(r.eligible) => AssetsLeft(q, o)
         /\ q.relationships = r.relationships => RelationshipsLeft(q, o)
         /\ q.alarms = r.alarms => AlarmsLeft(q, o)
         /\ q.tags = r.tags => TagsLeft(q, o)
         /\ q.roles = r.roles => RolesLeft(q, o)
         /\ q.roles = r.roles /\ q.tags = r.tags => Partners(q, o)
         /\ q.eligible = r.eligible => EligibleLeft(q, o)
<1>1. SameRequest(q, o) /\ ReportsMore(q, o)
  BY DEF Left, SameRequest, ReportsMore
<1>2. q.candidates = r.candidates => CandidatesLeft(q, o)
  BY DEF Left, ReportsMore, CandidatesLeft
<1>3. q.assets = r.assets /\ Range(q.eligible) \subseteq Range(r.eligible) => AssetsLeft(q, o)
  BY DEF Left, ReportsMore, AssetsLeft
<1>4. /\ q.relationships = r.relationships => RelationshipsLeft(q, o)
      /\ q.alarms = r.alarms => AlarmsLeft(q, o)
  BY DEF Left, ReportsMore, RelationshipsLeft, AlarmsLeft
<1>5. /\ q.tags = r.tags => TagsLeft(q, o)
      /\ q.roles = r.roles => RolesLeft(q, o)
  BY DEF Left, ReportsMore, TagsLeft, RolesLeft
<1>6. q.roles = r.roles /\ q.tags = r.tags => Partners(q, o)
  BY DEF Left, Partners
<1>7. q.eligible = r.eligible => EligibleLeft(q, o)
  BY DEF Left, EligibleLeft
<1> QED
  BY <1>1, <1>2, <1>3, <1>4, <1>5, <1>6, <1>7

LEMMA SizeTypes ==
  ASSUME NEW m, NEW r \in Results(m)
  PROVE  /\ r.terms \in Nat /\ Len(r.roles) \in Nat /\ Len(r.eligible) \in Nat
         /\ Len(r.candidates) \in Nat /\ Len(r.assets) \in Nat /\ Len(r.relationships) \in Nat
         /\ Len(r.tags) \in Nat /\ Len(r.alarms) \in Nat
         /\ IsFiniteSet({i \in DOMAIN r.assets : r.assets[i].aliases})
         /\ Described(r) \in Nat /\ Size(r) \in Nat
<1>1. /\ r.terms \in Nat /\ Len(r.roles) \in Nat /\ Len(r.eligible) \in Nat
      /\ Len(r.candidates) \in Nat /\ Len(r.assets) \in Nat /\ Len(r.relationships) \in Nat
      /\ Len(r.tags) \in Nat /\ Len(r.alarms) \in Nat /\ DOMAIN r.assets = 1 .. Len(r.assets)
  BY LenProperties DEF Results
<1>2. /\ IsFiniteSet({i \in DOMAIN r.assets : r.assets[i].aliases})
      /\ Described(r) \in Nat
  <2>1. IsFiniteSet(DOMAIN r.assets)
    BY <1>1, FS_Interval
  <2>2. IsFiniteSet({i \in DOMAIN r.assets : r.assets[i].aliases})
    BY <2>1, FS_Subset
  <2> QED
    BY <2>2, FS_CardinalityType DEF Described
<1>3. Size(r) \in Nat
  <2> DEFINE t == r.terms  a == Len(r.roles)  b == Len(r.eligible)  c == Len(r.candidates)
             d == Len(r.assets)  e == Described(r)  f == Len(r.relationships)
             g == Len(r.tags)  h == Len(r.alarms)
  <2>1. Size(r) = t + a + b + c + d + e + f + g + h
    BY Zenon DEF Size
  <2>2. /\ t \in Nat /\ a \in Nat /\ b \in Nat /\ c \in Nat /\ d \in Nat /\ e \in Nat
        /\ f \in Nat /\ g \in Nat /\ h \in Nat
    BY <1>1, <1>2
  <2> HIDE DEF t, a, b, c, d, e, f, g, h
  <2> QED
    BY <2>1, <2>2
<1> QED
  BY <1>1, <1>2, <1>3

LEMMA SameDescribed ==
  ASSUME NEW q, NEW r, q.assets = r.assets
  PROVE  Described(q) = Described(r)
BY DEF Described

(* One shrinking part makes the result smaller.                            *)
LEMMA SizeShrinks ==
  ASSUME NEW m, NEW r \in Results(m), NEW q \in Results(m),
         q.terms = r.terms \/ q.terms < r.terms,
         q.roles = r.roles \/ Len(q.roles) < Len(r.roles),
         q.eligible = r.eligible \/ Len(q.eligible) < Len(r.eligible),
         q.candidates = r.candidates \/ Len(q.candidates) < Len(r.candidates),
         Len(q.assets) = Len(r.assets) \/ Len(q.assets) < Len(r.assets),
         q.assets = r.assets \/ Described(q) <= Described(r),
         q.relationships = r.relationships \/ Len(q.relationships) < Len(r.relationships),
         q.tags = r.tags \/ Len(q.tags) < Len(r.tags),
         q.alarms = r.alarms \/ Len(q.alarms) < Len(r.alarms),
         \/ q.terms < r.terms \/ Len(q.roles) < Len(r.roles) \/ Len(q.eligible) < Len(r.eligible)
         \/ Len(q.candidates) < Len(r.candidates) \/ Len(q.assets) < Len(r.assets)
         \/ Described(q) < Described(r) \/ Len(q.relationships) < Len(r.relationships)
         \/ Len(q.tags) < Len(r.tags) \/ Len(q.alarms) < Len(r.alarms)
  PROVE  Size(q) < Size(r)
<1>1. /\ r.terms \in Nat /\ Len(r.roles) \in Nat /\ Len(r.eligible) \in Nat
      /\ Len(r.candidates) \in Nat /\ Len(r.assets) \in Nat /\ Len(r.relationships) \in Nat
      /\ Len(r.tags) \in Nat /\ Len(r.alarms) \in Nat /\ Described(r) \in Nat
  BY SizeTypes
<1>2. /\ q.terms \in Nat /\ Len(q.roles) \in Nat /\ Len(q.eligible) \in Nat
      /\ Len(q.candidates) \in Nat /\ Len(q.assets) \in Nat /\ Len(q.relationships) \in Nat
      /\ Len(q.tags) \in Nat /\ Len(q.alarms) \in Nat /\ Described(q) \in Nat
  BY SizeTypes
<1> DEFINE t == q.terms  a == Len(q.roles)  b == Len(q.eligible)  c == Len(q.candidates)
           d == Len(q.assets)  e == Described(q)  f == Len(q.relationships)
           g == Len(q.tags)  h == Len(q.alarms)
           T == r.terms  A == Len(r.roles)  B == Len(r.eligible)  C == Len(r.candidates)
           D == Len(r.assets)  E == Described(r)  F == Len(r.relationships)
           G == Len(r.tags)  H == Len(r.alarms)
<1>3. /\ Size(q) = t + a + b + c + d + e + f + g + h
      /\ Size(r) = T + A + B + C + D + E + F + G + H
  BY Zenon DEF Size
<1>4. /\ t \in Nat /\ a \in Nat /\ b \in Nat /\ c \in Nat /\ d \in Nat
      /\ e \in Nat /\ f \in Nat /\ g \in Nat /\ h \in Nat
      /\ T \in Nat /\ A \in Nat /\ B \in Nat /\ C \in Nat /\ D \in Nat
      /\ E \in Nat /\ F \in Nat /\ G \in Nat /\ H \in Nat
  BY <1>1, <1>2
<1>5. /\ t = T \/ t < T
      /\ a = A \/ a < A
      /\ b = B \/ b < B
      /\ c = C \/ c < C
      /\ d = D \/ d < D
      /\ e = E \/ e <= E
      /\ f = F \/ f < F
      /\ g = G \/ g < G
      /\ h = H \/ h < H
      /\ \/ t < T \/ a < A \/ b < B \/ c < C \/ d < D \/ e < E \/ f < F \/ g < G \/ h < H
  BY SameDescribed
<1> HIDE DEF t, a, b, c, d, e, f, g, h, T, A, B, C, D, E, F, G, H
<1> QED
  BY <1>3, <1>4, <1>5

LEMMA RemovedDescribed ==
  ASSUME NEW m, NEW r \in Results(m), NEW q \in Results(m), NEW n \in 1 .. Len(r.assets),
         q.assets = RemoveAt(r.assets, n)
  PROVE  Described(q) <= Described(r)
<1> DEFINE Q == {i \in DOMAIN q.assets : q.assets[i].aliases}
           R == {i \in DOMAIN r.assets : r.assets[i].aliases}
           at(i) == IF i < n THEN i ELSE i + 1
           f == [i \in Q |-> at(i)]
<1>1. r.assets \in Seq(Entry) /\ q.assets \in Seq(Entry)
  BY DEF Results
<1>2. /\ DOMAIN r.assets = 1 .. Len(r.assets) /\ DOMAIN q.assets = 1 .. Len(q.assets)
      /\ Len(r.assets) \in Nat
  BY <1>1, LenProperties
<1>3. /\ Len(q.assets) = Len(r.assets) - 1
      /\ \A i \in 1 .. Len(r.assets) - 1 : q.assets[i] = r.assets[at(i)]
  <2> DEFINE s == r.assets  S == Entry
  <2>1. s \in Seq(S) /\ n \in 1 .. Len(s)
    BY <1>1
  <2> HIDE DEF s, S
  <2>2. /\ Len(RemoveAt(s, n)) = Len(s) - 1
        /\ \A i \in 1 .. Len(s) - 1 : RemoveAt(s, n)[i] = s[IF i < n THEN i ELSE i + 1]
    BY <2>1, RemovedFacts
  <2> QED
    BY <2>2 DEF s
<1>4. \A i \in Q : at(i) \in R
  <2> TAKE i \in Q
  <2>1. i \in 1 .. Len(r.assets) - 1 /\ q.assets[i].aliases
    BY <1>2, <1>3
  <2>2. at(i) \in 1 .. Len(r.assets)
    BY <1>2, <2>1
  <2>3. r.assets[at(i)].aliases
    BY <1>3, <2>1
  <2> HIDE DEF at
  <2> QED
    BY <1>2, <2>2, <2>3
<1>5. \A i, j \in Q : at(i) = at(j) => i = j
  BY <1>2, <1>3
<1> HIDE DEF Q, R, at
<1>6. f \in Injection(Q, R)
  BY <1>4, <1>5 DEF Injection, IsInjective
<1>7. IsFiniteSet(R)
  BY SizeTypes DEF R
<1>8. Cardinality(Q) <= Cardinality(R)
  BY <1>6, <1>7, FS_Injection
<1> QED
  BY <1>8 DEF Q, R, Described

LEMMA FlagRemoved ==
  ASSUME NEW m, NEW r \in Results(m), NEW q \in Results(m), NEW n \in 1 .. Len(r.assets),
         r.assets[n].aliases, q.assets = [r.assets EXCEPT ![n].aliases = FALSE]
  PROVE  /\ Described(q) < Described(r) /\ Len(q.assets) = Len(r.assets)
         /\ Ids(q.assets) = Ids(r.assets)
<1> DEFINE Q == {i \in DOMAIN q.assets : q.assets[i].aliases}
           R == {i \in DOMAIN r.assets : r.assets[i].aliases}
<1>1. r.assets \in Seq(Entry) /\ q.assets \in Seq(Entry)
  BY DEF Results
<1>2. /\ DOMAIN r.assets = 1 .. Len(r.assets) /\ DOMAIN q.assets = DOMAIN r.assets
      /\ DOMAIN q.assets = 1 .. Len(q.assets)
      /\ Len(r.assets) \in Nat /\ Len(q.assets) \in Nat
  BY <1>1, LenProperties
<1>3. \A i \in DOMAIN r.assets :
         q.assets[i] = IF i = n THEN [r.assets[n] EXCEPT !.aliases = FALSE] ELSE r.assets[i]
  BY <1>2
<1>4. \A i \in DOMAIN r.assets : r.assets[i] \in [id : Nat, aliases : BOOLEAN]
  BY <1>1, <1>2, ElementOfSeq DEF Entry
<1>5. \A i \in DOMAIN r.assets :
         q.assets[i].id = r.assets[i].id
         /\ q.assets[i].aliases = IF i = n THEN FALSE ELSE r.assets[i].aliases
  <2> TAKE i \in DOMAIN r.assets
  <2>1. CASE i = n
    <3>1. q.assets[n] = [r.assets[n] EXCEPT !.aliases = FALSE]
      BY <2>1, <1>3
    <3>2. r.assets[n] \in [id : Nat, aliases : BOOLEAN]
      BY <2>1, <1>4
    <3>3. q.assets[n].id = r.assets[n].id /\ q.assets[n].aliases = FALSE
      <4> DEFINE e == r.assets[n]  d == q.assets[n]
      <4>1. d = [e EXCEPT !.aliases = FALSE] /\ e \in [id : Nat, aliases : BOOLEAN]
        BY <3>1, <3>2
      <4> HIDE DEF d, e
      <4>2. d.id = e.id /\ d.aliases = FALSE
        BY <4>1
      <4> QED
        BY <4>2 DEF d, e
    <3> QED
      BY <2>1, <3>3
  <2>2. CASE i # n
    BY <1>3, <2>2
  <2> QED
    BY <2>1, <2>2
<1>6. Len(q.assets) = Len(r.assets)
  BY <1>2
<1>7. Ids(q.assets) = Ids(r.assets)
  BY <1>2, <1>5 DEF Ids
<1>8. Q = R \ {n} /\ n \in R
  BY <1>2, <1>5
<1>9. IsFiniteSet(R) /\ Cardinality(R) \in Nat
  BY SizeTypes, FS_CardinalityType DEF R
<1> HIDE DEF Q, R
<1>10. Cardinality(Q) = Cardinality(R) - 1
  BY <1>8, <1>9, FS_RemoveElement
<1>11. Described(q) = Cardinality(Q) /\ Described(r) = Cardinality(R)
  BY DEF Q, R, Described
<1> QED
  BY <1>6, <1>7, <1>9, <1>10, <1>11

LEMMA CandidateRemoved ==
  ASSUME NEW m, NEW o \in Results(m), NEW r \in Results(m), NEW q \in Results(m),
         Left(r, o), OnlyChanges(q, r, {"candidates"}, {"candidates"}),
         NEW n \in 1 .. Len(r.candidates), ~r.candidates[n].eligible,
         q.candidates = RemoveAt(r.candidates, n)
  PROVE  Left(q, o) /\ Size(q) < Size(r)
<1>1. /\ SameRequest(q, r) /\ ReportsMore(q, r)
      /\ q.terms = r.terms
      /\ q.roles = r.roles
      /\ q.eligible = r.eligible
      /\ q.assets = r.assets
      /\ q.relationships = r.relationships
      /\ q.tags = r.tags
      /\ q.alarms = r.alarms
  BY DEF OnlyChanges, Fields, Flags, SameRequest, ReportsMore
<1>2. /\ Len(q.candidates) < Len(r.candidates)
      /\ Range(q.candidates) \subseteq Range(r.candidates)
      /\ \A c \in Range(r.candidates) : c \in Range(q.candidates) \/ ~c.eligible
  <2> DEFINE s == r.candidates  t == q.candidates
  <2>1. s \in Seq(Candidate) /\ n \in 1 .. Len(s) /\ t = RemoveAt(s, n)
    BY DEF Results
  <2>2. ~s[n].eligible
    OBVIOUS
  <2> HIDE DEF s, t
  <2>3. Len(s) \in Nat /\ DOMAIN s = 1 .. Len(s)
    BY <2>1, LenProperties
  <2>4. /\ Len(t) = Len(s) - 1 /\ Range(t) \subseteq Range(s)
        /\ \A i \in 1 .. Len(s) : i # n => s[i] \in Range(t)
    BY <2>1, RemovedFacts
  <2>5. \A c \in Range(s) : c \in Range(t) \/ ~c.eligible
    BY <2>2, <2>3, <2>4 DEF Range
  <2>6. Len(t) < Len(s)
    BY <2>3, <2>4
  <2> QED
    BY <2>4, <2>5, <2>6 DEF s, t
<1>3. q.truncated.candidates
  BY DEF OnlyChanges
<1>4. CandidatesLeft(q, o)
  BY <1>2, <1>3 DEF Left, CandidatesLeft
<1>5. Left(q, o)
  BY <1>1, <1>4, LeftUnchanged DEF Left
<1> QED
  BY <1>1, <1>2, <1>5, SizeShrinks

LEMMA AssetRemoved ==
  ASSUME NEW m, NEW o \in Results(m), NEW r \in Results(m), NEW q \in Results(m),
         Left(r, o), OnlyChanges(q, r, {"assets"}, {"assets"}),
         NEW n \in 1 .. Len(r.assets), ~Contains(r.eligible, r.assets[n].id),
         q.assets = RemoveAt(r.assets, n)
  PROVE  Left(q, o) /\ Size(q) < Size(r)
<1>1. /\ SameRequest(q, r) /\ ReportsMore(q, r)
      /\ q.terms = r.terms
      /\ q.roles = r.roles
      /\ q.eligible = r.eligible
      /\ q.candidates = r.candidates
      /\ q.relationships = r.relationships
      /\ q.tags = r.tags
      /\ q.alarms = r.alarms
  BY DEF OnlyChanges, Fields, Flags, SameRequest, ReportsMore
<1>2. /\ Len(q.assets) < Len(r.assets)
      /\ Ids(q.assets) \subseteq Ids(r.assets)
      /\ \A id \in Ids(r.assets) : id \in Ids(q.assets) \/ ~Contains(r.eligible, id)
  <2> DEFINE s == r.assets  t == q.assets
  <2>1. s \in Seq(Entry) /\ n \in 1 .. Len(s) /\ t = RemoveAt(s, n)
    BY DEF Results
  <2>2. ~Contains(r.eligible, s[n].id)
    OBVIOUS
  <2> HIDE DEF s, t
  <2>3. Len(s) \in Nat /\ DOMAIN s = 1 .. Len(s)
    BY <2>1, LenProperties
  <2>4. /\ Len(t) = Len(s) - 1 /\ Range(t) \subseteq Range(s)
        /\ \A i \in 1 .. Len(s) : i # n => s[i] \in Range(t)
    BY <2>1, RemovedFacts
  <2>5. Ids(s) = {e.id : e \in Range(s)} /\ Ids(t) = {e.id : e \in Range(t)}
    BY DEF Ids, Range
  <2>6. \A id \in Ids(s) : id \in Ids(t) \/ ~Contains(r.eligible, id)
    <3> TAKE id \in Ids(s)
    <3>1. PICK i \in 1 .. Len(s) : id = s[i].id
      BY <2>3 DEF Ids
    <3> QED
      BY <2>2, <2>4, <2>5, <3>1
  <2>7. Len(t) < Len(s)
    BY <2>3, <2>4
  <2> QED
    BY <2>4, <2>5, <2>6, <2>7 DEF s, t
<1>3. q.truncated.assets
  BY DEF OnlyChanges
<1>4. \A id : Contains(r.eligible, id) <=> id \in Range(r.eligible)
  <2>1. DOMAIN r.eligible = 1 .. Len(r.eligible)
    BY LenProperties DEF Results
  <2> QED
    BY <2>1 DEF Contains, Range
<1>5. AssetsLeft(q, o)
  BY <1>1, <1>2, <1>3, <1>4 DEF Left, AssetsLeft
<1>6. Left(q, o)
  BY <1>1, <1>5, LeftUnchanged DEF Left
<1>7. Described(q) <= Described(r)
  BY RemovedDescribed
<1> QED
  BY <1>1, <1>2, <1>6, <1>7, SizeShrinks

LEMMA RelationshipRemoved ==
  ASSUME NEW m, NEW o \in Results(m), NEW r \in Results(m), NEW q \in Results(m),
         Left(r, o), OnlyChanges(q, r, {"relationships"}, {"relationships"}),
         r.relationships # <<>>, q.relationships = Front(r.relationships)
  PROVE  Left(q, o) /\ Size(q) < Size(r)
<1>1. /\ SameRequest(q, r) /\ ReportsMore(q, r)
      /\ q.terms = r.terms
      /\ q.roles = r.roles
      /\ q.eligible = r.eligible
      /\ q.candidates = r.candidates
      /\ q.assets = r.assets
      /\ q.tags = r.tags
      /\ q.alarms = r.alarms
  BY DEF OnlyChanges, Fields, Flags, SameRequest, ReportsMore
<1>2. Len(q.relationships) < Len(r.relationships)
  <2> DEFINE S == Range(m.relationships)
  <2>1. r.relationships \in Seq(S)
    BY DEF Results
  <2> HIDE DEF S
  <2>2. Len(r.relationships) \in Nat /\ Len(q.relationships) = Len(r.relationships) - 1
    BY <2>1, FrontFacts
  <2> QED
    BY <2>2
<1>3. q.truncated.relationships
  BY DEF OnlyChanges
<1>4. RelationshipsLeft(q, o)
  BY <1>3 DEF RelationshipsLeft
<1>5. Left(q, o)
  BY <1>1, <1>4, LeftUnchanged DEF Left
<1> QED
  BY <1>1, <1>2, <1>5, SizeShrinks

LEMMA AlarmRemoved ==
  ASSUME NEW m, NEW o \in Results(m), NEW r \in Results(m), NEW q \in Results(m),
         Left(r, o), OnlyChanges(q, r, {"alarms"}, {"alarms"}),
         r.alarms # <<>>, q.alarms = Front(r.alarms)
  PROVE  Left(q, o) /\ Size(q) < Size(r)
<1>1. /\ SameRequest(q, r) /\ ReportsMore(q, r)
      /\ q.terms = r.terms
      /\ q.roles = r.roles
      /\ q.eligible = r.eligible
      /\ q.candidates = r.candidates
      /\ q.assets = r.assets
      /\ q.relationships = r.relationships
      /\ q.tags = r.tags
  BY DEF OnlyChanges, Fields, Flags, SameRequest, ReportsMore
<1>2. Len(q.alarms) < Len(r.alarms)
  <2> DEFINE S == Range(m.alarms)
  <2>1. r.alarms \in Seq(S)
    BY DEF Results
  <2> HIDE DEF S
  <2>2. Len(r.alarms) \in Nat /\ Len(q.alarms) = Len(r.alarms) - 1
    BY <2>1, FrontFacts
  <2> QED
    BY <2>2
<1>3. q.truncated.alarms
  BY DEF OnlyChanges
<1>4. AlarmsLeft(q, o)
  BY <1>3 DEF AlarmsLeft
<1>5. Left(q, o)
  BY <1>1, <1>4, LeftUnchanged DEF Left
<1> QED
  BY <1>1, <1>2, <1>5, SizeShrinks

LEMMA PrefixFront ==
  ASSUME NEW S, NEW s \in Seq(S), NEW t, s # <<>>, Prefix(s, t), Len(t) \in Nat
  PROVE  Prefix(Front(s), t) /\ Len(s) \in Nat /\ Len(Front(s)) = Len(s) - 1
<1> DEFINE f == Front(s)
<1>1. Len(s) \in Nat \ {0} /\ Len(f) = Len(s) - 1 /\ \A i \in 1 .. Len(f) : f[i] = s[i]
  BY FrontFacts
<1>2. Len(s) <= Len(t) /\ \A i \in 1 .. Len(s) : s[i] = t[i]
  BY DEF Prefix
<1> HIDE DEF f
<1>3. Len(f) <= Len(t)
  BY <1>1, <1>2
<1>4. ASSUME NEW i \in 1 .. Len(f) PROVE f[i] = t[i]
  <2>1. i \in 1 .. Len(s)
    BY <1>1
  <2> QED
    BY <1>1, <1>2, <2>1
<1>5. Prefix(f, t)
  BY <1>3, <1>4 DEF Prefix
<1> QED
  BY <1>1, <1>5 DEF f

LEMMA TagRemoved ==
  ASSUME NEW m, NEW o \in Results(m), NEW r \in Results(m), NEW q \in Results(m),
         Left(r, o), OnlyChanges(q, r, {"tags"}, {"tags"}),
         Len(r.tags) > Len(r.roles), q.tags = Front(r.tags)
  PROVE  Left(q, o) /\ Size(q) < Size(r)
<1>1. /\ SameRequest(q, r) /\ ReportsMore(q, r)
      /\ q.terms = r.terms
      /\ q.roles = r.roles
      /\ q.eligible = r.eligible
      /\ q.candidates = r.candidates
      /\ q.assets = r.assets
      /\ q.relationships = r.relationships
      /\ q.alarms = r.alarms
  BY DEF OnlyChanges, Fields, Flags, SameRequest, ReportsMore
<1>2. /\ Prefix(q.tags, o.tags) /\ Len(q.tags) < Len(r.tags)
      /\ Len(r.tags) \in Nat /\ Len(q.tags) = Len(r.tags) - 1
  <2> DEFINE S == Range(m.tags)  s == r.tags  t == o.tags
  <2>1. s \in Seq(S) /\ t \in Seq(S) /\ Prefix(s, t)
    BY DEF Results, Left, TagsLeft
  <2>2. s # <<>>
    <3>1. Len(<<>>) = 0 /\ Len(r.roles) \in Nat
      BY SizeTypes
    <3> QED
      BY <3>1
  <2>3. q.tags = Front(s)
    OBVIOUS
  <2> HIDE DEF S, s, t
  <2>4. Len(t) \in Nat
    BY <2>1, LenProperties
  <2>5. Prefix(Front(s), t) /\ Len(s) \in Nat /\ Len(Front(s)) = Len(s) - 1
    BY <2>1, <2>2, <2>4, PrefixFront
  <2>6. Len(Front(s)) < Len(s)
    BY <2>5
  <2> QED
    BY <2>3, <2>5, <2>6 DEF s, t
<1>3. q.truncated.tags
  BY DEF OnlyChanges
<1>4. TagsLeft(q, o)
  BY <1>2, <1>3 DEF TagsLeft
<1>5. Partners(q, o)
  <2>1. Len(r.roles) \in Nat /\ q.roles = r.roles
    BY <1>1, SizeTypes
  <2> QED
    BY <1>2, <2>1 DEF Partners
<1>6. Left(q, o)
  BY <1>1, <1>4, <1>5, LeftUnchanged DEF Left
<1> QED
  BY <1>1, <1>2, <1>6, SizeShrinks

LEMMA RoleRemoved ==
  ASSUME NEW m, NEW o \in Results(m), NEW r \in Results(m), NEW q \in Results(m),
         Left(r, o), OnlyChanges(q, r, {"roles", "clarify"}, {"roles"}),
         r.roles # <<>>, q.clarify, q.roles = Front(r.roles)
  PROVE  Left(q, o) /\ Size(q) < Size(r)
<1>1. /\ SameRequest(q, r) /\ ReportsMore(q, r)
      /\ q.terms = r.terms
      /\ q.eligible = r.eligible
      /\ q.candidates = r.candidates
      /\ q.assets = r.assets
      /\ q.relationships = r.relationships
      /\ q.tags = r.tags
      /\ q.alarms = r.alarms
  BY DEF OnlyChanges, Fields, Flags, SameRequest, ReportsMore
<1>2. /\ Prefix(q.roles, o.roles) /\ Len(q.roles) < Len(r.roles)
      /\ Len(r.roles) \in Nat /\ Len(q.roles) = Len(r.roles) - 1
  <2> DEFINE S == Range(Roles)  s == r.roles  t == o.roles
  <2>1. s \in Seq(S) /\ t \in Seq(S) /\ Prefix(s, t)
    BY DEF Results, Left, RolesLeft
  <2>2. s # <<>>
    OBVIOUS
  <2>3. q.roles = Front(s)
    OBVIOUS
  <2> HIDE DEF S, s, t
  <2>4. Len(t) \in Nat
    BY <2>1, LenProperties
  <2>5. Prefix(Front(s), t) /\ Len(s) \in Nat /\ Len(Front(s)) = Len(s) - 1
    BY <2>1, <2>2, <2>4, PrefixFront
  <2>6. Len(Front(s)) < Len(s)
    BY <2>5
  <2> QED
    BY <2>3, <2>5, <2>6 DEF s, t
<1>3. q.truncated.roles /\ q.clarify
  BY DEF OnlyChanges
<1>4. RolesLeft(q, o)
  BY <1>2, <1>3 DEF RolesLeft
<1>5. Partners(q, o)
  <2>1. Len(r.tags) \in Nat /\ q.tags = r.tags
    BY <1>1, SizeTypes
  <2>2. CASE r.tags = o.tags
    BY <2>1, <2>2 DEF Partners
  <2>3. CASE Len(r.roles) <= Len(r.tags)
    BY <1>2, <2>1, <2>3 DEF Partners
  <2> QED
    BY <2>2, <2>3 DEF Left, Partners
<1>6. Left(q, o)
  BY <1>1, <1>4, <1>5, LeftUnchanged DEF Left
<1> QED
  BY <1>1, <1>2, <1>6, SizeShrinks

LEMMA AliasesRemoved ==
  ASSUME NEW m, NEW o \in Results(m), NEW r \in Results(m), NEW q \in Results(m),
         Left(r, o), OnlyChanges(q, r, {"assets"}, {"assets"}),
         NEW n \in 1 .. Len(r.assets), r.assets[n].aliases,
         q.assets = [r.assets EXCEPT ![n].aliases = FALSE]
  PROVE  Left(q, o) /\ Size(q) < Size(r)
<1>1. /\ SameRequest(q, r) /\ ReportsMore(q, r)
      /\ q.terms = r.terms
      /\ q.roles = r.roles
      /\ q.eligible = r.eligible
      /\ q.candidates = r.candidates
      /\ q.relationships = r.relationships
      /\ q.tags = r.tags
      /\ q.alarms = r.alarms
  BY DEF OnlyChanges, Fields, Flags, SameRequest, ReportsMore
<1>2. /\ Described(q) < Described(r) /\ Len(q.assets) = Len(r.assets)
      /\ Ids(q.assets) = Ids(r.assets)
  BY FlagRemoved
<1>3. AssetsLeft(q, o)
  BY <1>1, <1>2 DEF Left, AssetsLeft, ReportsMore
<1>4. Left(q, o)
  BY <1>1, <1>3, LeftUnchanged DEF Left
<1>5. Described(q) <= Described(r)
  <2> DEFINE a == Described(q)  b == Described(r)
  <2>1. a \in Nat /\ b \in Nat /\ a < b
    BY <1>2, SizeTypes
  <2> HIDE DEF a, b
  <2>2. a <= b
    BY <2>1
  <2> QED
    BY <2>2 DEF a, b
<1> QED
  BY <1>1, <1>2, <1>4, <1>5, SizeShrinks

LEMMA TermRemoved ==
  ASSUME NEW m, NEW o \in Results(m), NEW r \in Results(m), NEW q \in Results(m),
         Left(r, o), OnlyChanges(q, r, {"terms"}, {}),
         q.terms < r.terms
  PROVE  Left(q, o) /\ Size(q) < Size(r)
<1>1. /\ SameRequest(q, r) /\ ReportsMore(q, r)
      /\ q.roles = r.roles
      /\ q.eligible = r.eligible
      /\ q.candidates = r.candidates
      /\ q.assets = r.assets
      /\ q.relationships = r.relationships
      /\ q.tags = r.tags
      /\ q.alarms = r.alarms
  BY DEF OnlyChanges, Fields, Flags, SameRequest, ReportsMore
<1>2. Left(q, o)
  BY <1>1, LeftUnchanged DEF Left
<1> QED
  BY <1>1, <1>2, SizeShrinks

LEMMA EligibleRemoved ==
  ASSUME NEW m, NEW o \in Results(m), NEW r \in Results(m), NEW q \in Results(m),
         Left(r, o), OnlyChanges(q, r, {"eligible"}, {}),
         r.eligible # <<>>, r.eligible_count > 1, q.eligible = Front(r.eligible)
  PROVE  Left(q, o) /\ Size(q) < Size(r)
<1>1. /\ SameRequest(q, r) /\ ReportsMore(q, r)
      /\ q.terms = r.terms
      /\ q.roles = r.roles
      /\ q.candidates = r.candidates
      /\ q.assets = r.assets
      /\ q.relationships = r.relationships
      /\ q.tags = r.tags
      /\ q.alarms = r.alarms
  BY DEF OnlyChanges, Fields, Flags, SameRequest, ReportsMore
<1>2. Len(q.eligible) < Len(r.eligible) /\ Range(q.eligible) \subseteq Range(r.eligible)
  <2>1. r.eligible \in Seq(Nat)
    BY DEF Results
  <2>2. Len(r.eligible) \in Nat /\ Len(q.eligible) = Len(r.eligible) - 1
        /\ Range(q.eligible) \subseteq Range(r.eligible)
    BY <2>1, FrontFacts
  <2> QED
    BY <2>2
<1>3. EligibleLeft(q, o)
  BY <1>2 DEF Left, EligibleLeft, SameRequest
<1>4. Left(q, o)
  BY <1>1, <1>2, <1>3, LeftUnchanged DEF Left
<1> QED
  BY <1>1, <1>2, <1>4, SizeShrinks

-----------------------------------------------------------------------------
(* Every removal of the loop is one of these.                              *)
Shrinks(m, o, r, q) == q \in Results(m) /\ Left(q, o) /\ Size(q) < Size(r)

LEMMA RemoveCandidateStep ==
  ASSUME NEW m, NEW o \in Results(m), NEW r \in Results(m), Left(r, o), result = r, RemoveCandidate
  PROVE  Shrinks(m, o, r, result')
<1> DEFINE q == result'  n == LastCandidate  s == RemoveAt(r.candidates, n)
<1>1. n \in 1 .. Len(r.candidates) /\ ~r.candidates[n].eligible
  <2>1. LastCandidate # 0
    BY DEF RemoveCandidate, Turn, Removable
  <2> QED
    BY <2>1, SizeTypes, ChosenPositions
<1>2. s \in Seq(Candidate)
  <2> DEFINE t == r.candidates
  <2>1. t \in Seq(Candidate) /\ n \in 1 .. Len(t)
    BY <1>1 DEF Results
  <2> HIDE DEF t, n
  <2>2. RemoveAt(t, n) \in Seq(Candidate)
    BY <2>1, RemovedFacts
  <2> QED
    BY <2>2 DEF t
<1>3. q = [[r EXCEPT !.candidates = s, !.truncated.candidates = TRUE]
             EXCEPT !.truncated.budget = TRUE]
  BY DEF RemoveCandidate, Cut
<1> HIDE DEF q, s
<1>4. q \in Results(m)
  BY <1>2, <1>3 DEF Results
<1>5. OnlyChanges(q, r, {"candidates"}, {"candidates"}) /\ q.candidates = s
  BY <1>2, <1>3 DEF Results, OnlyChanges, Fields, Flags
<1> QED
  BY <1>1, <1>4, <1>5, CandidateRemoved DEF Shrinks, q, s

LEMMA RemoveAssetStep ==
  ASSUME NEW m, NEW o \in Results(m), NEW r \in Results(m), Left(r, o), result = r, RemoveAsset
  PROVE  Shrinks(m, o, r, result')
<1> DEFINE q == result'  n == LastAsset  s == RemoveAt(r.assets, n)
<1>1. n \in 1 .. Len(r.assets) /\ ~Contains(r.eligible, r.assets[n].id)
  <2>1. LastAsset # 0
    BY DEF RemoveAsset, Turn, Removable
  <2>2. Len(result.candidates) \in Nat /\ Len(result.assets) \in Nat
    BY SizeTypes
  <2>3. n \in 1 .. Len(result.assets) /\ ~Contains(result.eligible, result.assets[n].id)
    BY <2>1, <2>2, ChosenPositions
  <2> QED
    BY <2>3
<1>2. s \in Seq(Entry)
  <2> DEFINE t == r.assets
  <2>1. t \in Seq(Entry) /\ n \in 1 .. Len(t)
    BY <1>1 DEF Results
  <2> HIDE DEF t, n
  <2>2. RemoveAt(t, n) \in Seq(Entry)
    BY <2>1, RemovedFacts
  <2> QED
    BY <2>2 DEF t
<1>3. q = [[r EXCEPT !.assets = s, !.truncated.assets = TRUE]
             EXCEPT !.truncated.budget = TRUE]
  BY DEF RemoveAsset, Cut
<1> HIDE DEF q, s
<1>4. q \in Results(m)
  BY <1>2, <1>3 DEF Results
<1>5. OnlyChanges(q, r, {"assets"}, {"assets"}) /\ q.assets = s
  BY <1>2, <1>3 DEF Results, OnlyChanges, Fields, Flags
<1> QED
  BY <1>1, <1>4, <1>5, AssetRemoved DEF Shrinks, q, s

LEMMA RemoveRelationshipStep ==
  ASSUME NEW m, NEW o \in Results(m), NEW r \in Results(m), Left(r, o), result = r, RemoveRelationship
  PROVE  Shrinks(m, o, r, result')
<1> DEFINE q == result'  S == Range(m.relationships)  s == Front(r.relationships)
<1>1. r.relationships # <<>>
  BY DEF RemoveRelationship, Turn, Removable
<1>2. s \in Seq(S)
  <2> DEFINE t == r.relationships
  <2>1. t \in Seq(S) /\ t # <<>>
    BY <1>1 DEF Results
  <2> HIDE DEF t, S
  <2>2. Front(t) \in Seq(S)
    BY <2>1, FrontFacts
  <2> QED
    BY <2>2 DEF t
<1>3. q = [[r EXCEPT !.relationships = s, !.truncated.relationships = TRUE]
             EXCEPT !.truncated.budget = TRUE]
  BY DEF RemoveRelationship, Cut
<1> HIDE DEF q, s
<1>4. q \in Results(m)
  BY <1>2, <1>3 DEF Results
<1>5. OnlyChanges(q, r, {"relationships"}, {"relationships"}) /\ q.relationships = s
  BY <1>2, <1>3 DEF Results, OnlyChanges, Fields, Flags
<1> QED
  BY <1>1, <1>4, <1>5, RelationshipRemoved DEF Shrinks, q, s

LEMMA RemoveAlarmStep ==
  ASSUME NEW m, NEW o \in Results(m), NEW r \in Results(m), Left(r, o), result = r, RemoveAlarm
  PROVE  Shrinks(m, o, r, result')
<1> DEFINE q == result'  S == Range(m.alarms)  s == Front(r.alarms)
<1>1. r.alarms # <<>>
  BY DEF RemoveAlarm, Turn, Removable
<1>2. s \in Seq(S)
  <2> DEFINE t == r.alarms
  <2>1. t \in Seq(S) /\ t # <<>>
    BY <1>1 DEF Results
  <2> HIDE DEF t, S
  <2>2. Front(t) \in Seq(S)
    BY <2>1, FrontFacts
  <2> QED
    BY <2>2 DEF t
<1>3. q = [[r EXCEPT !.alarms = s, !.truncated.alarms = TRUE]
             EXCEPT !.truncated.budget = TRUE]
  BY DEF RemoveAlarm, Cut
<1> HIDE DEF q, s
<1>4. q \in Results(m)
  BY <1>2, <1>3 DEF Results
<1>5. OnlyChanges(q, r, {"alarms"}, {"alarms"}) /\ q.alarms = s
  BY <1>2, <1>3 DEF Results, OnlyChanges, Fields, Flags
<1> QED
  BY <1>1, <1>4, <1>5, AlarmRemoved DEF Shrinks, q, s

LEMMA RemoveTagStep ==
  ASSUME NEW m, NEW o \in Results(m), NEW r \in Results(m), Left(r, o), result = r, RemoveTag
  PROVE  Shrinks(m, o, r, result')
<1> DEFINE q == result'  S == Range(m.tags)  s == Front(r.tags)
<1>1. Len(r.tags) > Len(r.roles) /\ r.tags # <<>>
  <2>1. Len(r.tags) > Len(r.roles)
    BY DEF RemoveTag, Turn, Removable
  <2>2. Len(r.roles) \in Nat /\ Len(<<>>) = 0
    BY SizeTypes
  <2> QED
    BY <2>1, <2>2
<1>2. s \in Seq(S)
  <2> DEFINE t == r.tags
  <2>1. t \in Seq(S) /\ t # <<>>
    BY SizeTypes, <1>1 DEF Results
  <2> HIDE DEF t, S
  <2>2. Front(t) \in Seq(S)
    BY <2>1, FrontFacts
  <2> QED
    BY <2>2 DEF t
<1>3. q = [[r EXCEPT !.tags = s, !.truncated.tags = TRUE]
             EXCEPT !.truncated.budget = TRUE]
  BY DEF RemoveTag, Cut
<1> HIDE DEF q, s
<1>4. q \in Results(m)
  BY <1>2, <1>3 DEF Results
<1>5. OnlyChanges(q, r, {"tags"}, {"tags"}) /\ q.tags = s
  BY <1>2, <1>3 DEF Results, OnlyChanges, Fields, Flags
<1> QED
  BY <1>1, <1>4, <1>5, TagRemoved DEF Shrinks, q, s

LEMMA RemoveRoleStep ==
  ASSUME NEW m, NEW o \in Results(m), NEW r \in Results(m), Left(r, o), result = r, RemoveRole
  PROVE  Shrinks(m, o, r, result')
<1> DEFINE q == result'  S == Range(Roles)  s == Front(r.roles)
<1>1. r.roles # <<>>
  BY DEF RemoveRole, Turn, Removable
<1>2. s \in Seq(S)
  <2> DEFINE t == r.roles
  <2>1. t \in Seq(S) /\ t # <<>>
    BY <1>1 DEF Results
  <2> HIDE DEF t, S
  <2>2. Front(t) \in Seq(S)
    BY <2>1, FrontFacts
  <2> QED
    BY <2>2 DEF t
<1>3. q = [[r EXCEPT !.roles = s, !.clarify = TRUE, !.truncated.roles = TRUE]
             EXCEPT !.truncated.budget = TRUE]
  BY DEF RemoveRole, Cut
<1> HIDE DEF q, s
<1>4. q \in Results(m)
  BY <1>2, <1>3 DEF Results
<1>5. OnlyChanges(q, r, {"roles", "clarify"}, {"roles"}) /\ q.roles = s /\ q.clarify
  BY <1>2, <1>3 DEF Results, OnlyChanges, Fields, Flags
<1> QED
  BY <1>1, <1>4, <1>5, RoleRemoved DEF Shrinks, q, s

LEMMA RemoveEligibleStep ==
  ASSUME NEW m, NEW o \in Results(m), NEW r \in Results(m), Left(r, o), result = r, RemoveEligible
  PROVE  Shrinks(m, o, r, result')
<1> DEFINE q == result'  S == Nat  s == Front(r.eligible)
<1>1. r.eligible # <<>> /\ r.eligible_count > 1
  BY DEF RemoveEligible, Turn, Removable
<1>2. s \in Seq(S)
  <2> DEFINE t == r.eligible
  <2>1. t \in Seq(S) /\ t # <<>>
    BY <1>1 DEF Results
  <2> HIDE DEF t, S
  <2>2. Front(t) \in Seq(S)
    BY <2>1, FrontFacts
  <2> QED
    BY <2>2 DEF t
<1>3. q = [[r EXCEPT !.eligible = s]
             EXCEPT !.truncated.budget = TRUE]
  BY DEF RemoveEligible, Cut
<1> HIDE DEF q, s
<1>4. q \in Results(m)
  BY <1>2, <1>3 DEF Results
<1>5. OnlyChanges(q, r, {"eligible"}, {}) /\ q.eligible = s
  BY <1>2, <1>3 DEF Results, OnlyChanges, Fields, Flags
<1> QED
  BY <1>1, <1>4, <1>5, EligibleRemoved DEF Shrinks, q, s

LEMMA RemoveAliasesStep ==
  ASSUME NEW m, NEW o \in Results(m), NEW r \in Results(m), Left(r, o), result = r, RemoveAliases
  PROVE  Shrinks(m, o, r, result')
<1> DEFINE q == result'  n == FirstAlias  s == [r.assets EXCEPT ![n].aliases = FALSE]
<1>1. n \in 1 .. Len(r.assets) /\ r.assets[n].aliases
  <2>1. FirstAlias # 0
    BY DEF RemoveAliases, Turn, Removable
  <2> QED
    BY <2>1, SizeTypes, ChosenPositions
<1>2. s \in Seq(Entry)
  <2> DEFINE t == r.assets  e == [t[n] EXCEPT !.aliases = FALSE]
  <2>1. t \in Seq(Entry) /\ n \in 1 .. Len(t)
    BY <1>1 DEF Results
  <2>2. s = [t EXCEPT ![n] = e]
    OBVIOUS
  <2> HIDE DEF t, n, s
  <2>3. e \in Entry
    <3>1. t[n] \in [id : Nat, aliases : BOOLEAN]
      BY <2>1, ElementOfSeq DEF Entry
    <3> QED
      BY <3>1 DEF Entry
  <2> HIDE DEF e
  <2>4. [t EXCEPT ![n] = e] \in Seq(Entry)
    BY <2>1, <2>3, ExceptSeq
  <2> QED
    BY <2>2, <2>4
<1>3. q = [[r EXCEPT !.assets = s, !.truncated.assets = TRUE]
             EXCEPT !.truncated.budget = TRUE]
  BY DEF RemoveAliases, Cut
<1> HIDE DEF q, s
<1>4. q \in Results(m)
  BY <1>2, <1>3 DEF Results
<1>5. OnlyChanges(q, r, {"assets"}, {"assets"}) /\ q.assets = s
  BY <1>2, <1>3 DEF Results, OnlyChanges, Fields, Flags
<1> QED
  BY <1>1, <1>4, <1>5, AliasesRemoved DEF Shrinks, q, s

LEMMA RemoveTermStep ==
  ASSUME NEW m, NEW o \in Results(m), NEW r \in Results(m), Left(r, o), result = r, RemoveTerm
  PROVE  Shrinks(m, o, r, result')
<1> DEFINE q == result'  s == r.terms - 1
<1>1. r.terms > 0 /\ r.terms \in Nat
  BY SizeTypes DEF RemoveTerm, Turn, Removable
<1>2. s \in Nat /\ s < r.terms
  BY <1>1
<1>3. q = [[r EXCEPT !.terms = s]
             EXCEPT !.truncated.budget = TRUE]
  BY DEF RemoveTerm, Cut
<1> HIDE DEF q, s
<1>4. q \in Results(m)
  BY <1>2, <1>3 DEF Results
<1>5. OnlyChanges(q, r, {"terms"}, {}) /\ q.terms = s
  BY <1>2, <1>3 DEF Results, OnlyChanges, Fields, Flags
<1> QED
  BY <1>2, <1>4, <1>5, TermRemoved DEF Shrinks, q, s

-----------------------------------------------------------------------------
(* What a selection o has to do with the assets that match request p best. *)
Evaluated(m, p, o) ==
  LET best == Best(m, p)
  IN /\ IsFiniteSet(best) /\ o.eligible_count = Cardinality(best)
     /\ Range(o.eligible) \subseteq best /\ Len(o.eligible) <= Cardinality(best)
     /\ best # {} => o.eligible # <<>>
     /\ ~o.clarify => Cardinality(best) <= 1 /\ (o.specific => o.eligible # <<>>)
     /\ o.eligible_count > 1 => o.clarify
     /\ ~o.specific => \A a \in Range(m.assets) : Score(a, p) < 80

NamesCandidates(m, p, o) ==
  /\ ~o.truncated.candidates =>
       /\ Range(o.eligible) = Best(m, p)
       /\ \A a \in Range(m.assets) : Score(a, p) > 0 => a.id \in Ids(o.candidates)
  /\ \A id \in Range(o.eligible) :
       id \in Ids(o.assets) /\ [id |-> id, eligible |-> TRUE] \in Range(o.candidates)

NamesNeighbours(m, p, o) ==
  /\ Cardinality(Best(m, p)) = 1 /\ ~o.truncated.assets =>
       \A r \in Range(m.relationships) :
         {r.from, r.to} \cap Best(m, p) # {} => {r.from, r.to} \subseteq Ids(o.assets)
  /\ ~o.truncated.relationships =>
       \A r \in Range(m.relationships) :
         {r.from, r.to} \subseteq Ids(o.assets) => r \in Range(o.relationships)

NamesMeasurements(m, p, o) ==
  LET best == Best(m, p)
  IN best # {} =>
       /\ \A t \in Range(o.tags) : t.asset \in best
       /\ Range(o.eligible) = best =>
            /\ ~o.truncated.tags => \A t \in Range(m.tags) : t.asset \in best => t \in Range(o.tags)
            /\ ~o.truncated.alarms =>
                 \A a \in Range(m.alarms) : a.asset \in best => a \in Range(o.alarms)
            /\ NamedRoles(m, p, best) \subseteq Range(o.roles)

PairsRoles(o) ==
  /\ Distinct(o.roles)
  /\ \A i \in 1 .. Len(o.roles) : i <= Len(o.tags) => o.tags[i].role = o.roles[i]
  /\ Len(o.roles) <= Len(o.tags) \/ Len(o.tags) = TagLimit

Faithful(m, p, o) ==
  /\ o \in Results(m)
  /\ Evaluated(m, p, o)
  /\ NamesCandidates(m, p, o)
  /\ NamesNeighbours(m, p, o)
  /\ NamesMeasurements(m, p, o)
  /\ PairsRoles(o)

(* The inductive invariant: what is left of the selection, and what an     *)
(* accepted interpretation rests on.                                       *)
Supported ==
  /\ ~result.clarify
  /\ answer.anchor = NoAsset => ~result.specific
  /\ answer.anchor # NoAsset => Contains(result.eligible, answer.anchor)
  /\ answer.roles \subseteq {result.tags[i].role : i \in DOMAIN result.tags}
  /\ Range(result.roles) \subseteq answer.roles

RetrievalInvariant ==
  /\ model \in Models /\ prompt \in Prompts
  /\ stage # "received" =>
       /\ result \in Results(model)
       /\ Left(result, Selection(model, prompt))
  /\ stage = "accepted" => Supported
  /\ RulesAreAccepted

-----------------------------------------------------------------------------
(* The model and the score.                                                *)
LEMMA ModelFacts ==
  ASSUME NEW m \in Models
  PROVE  /\ m.assets \in Seq(Range(m.assets)) /\ m.relationships \in Seq(Range(m.relationships))
         /\ m.tags \in Seq(Range(m.tags)) /\ m.alarms \in Seq(Range(m.alarms))
         /\ Len(m.assets) \in Nat /\ DOMAIN m.assets = 1 .. Len(m.assets) /\ IsFiniteSet(DOMAIN m.assets)
         /\ \A i \in DOMAIN m.assets : m.assets[i].id \in Nat
         /\ \A i, j \in DOMAIN m.assets : m.assets[i].id = m.assets[j].id => i = j
         /\ Ids(m.assets) \subseteq Nat /\ IsFiniteSet(Ids(m.assets))
         /\ \A r \in Range(m.relationships) : {r.from, r.to} \subseteq Ids(m.assets)
         /\ \A t \in Range(m.tags) : t.role \in Range(Roles)
<1>1. /\ m.assets \in Seq(Range(m.assets)) /\ m.relationships \in Seq(Range(m.relationships))
      /\ m.tags \in Seq(Range(m.tags)) /\ m.alarms \in Seq(Range(m.alarms))
      /\ \A i \in DOMAIN m.assets : m.assets[i].id \in Nat
      /\ \A i, j \in DOMAIN m.assets : m.assets[i].id = m.assets[j].id => i = j
      /\ \A r \in Range(m.relationships) : {r.from, r.to} \subseteq {a.id : a \in Range(m.assets)}
      /\ \A i \in DOMAIN m.tags : m.tags[i].role \in Range(Roles)
  BY RetrievalAssumption
<1>2. Len(m.assets) \in Nat /\ DOMAIN m.assets = 1 .. Len(m.assets)
  BY <1>1, LenProperties
<1>3. IsFiniteSet(DOMAIN m.assets)
  BY <1>2, FS_Interval
<1>4. Ids(m.assets) = {a.id : a \in Range(m.assets)} /\ Ids(m.assets) \subseteq Nat
  BY <1>1 DEF Ids, Range
<1>5. IsFiniteSet(Ids(m.assets))
  <2> DEFINE f == [i \in DOMAIN m.assets |-> m.assets[i].id]
  <2>1. f \in Surjection(DOMAIN m.assets, Ids(m.assets))
    BY DEF Surjection, Ids
  <2> QED
    BY <2>1, <1>3, FS_Surjection
<1>6. \A r \in Range(m.relationships) : {r.from, r.to} \subseteq Ids(m.assets)
  BY <1>1, <1>4
<1>7. \A t \in Range(m.tags) : t.role \in Range(Roles)
  BY <1>1 DEF Range
<1> QED
  BY <1>1, <1>2, <1>3, <1>4, <1>5, <1>6, <1>7

LEMMA WorthType ==
  ASSUME NEW terms, IsFiniteSet(terms)
  PROVE  Worth(terms) \in Nat
<1>1. IsFiniteSet(terms \cap ShortTerms) /\ IsFiniteSet(terms \ ShortTerms)
  <2>1. terms \cap ShortTerms \subseteq terms /\ terms \ ShortTerms \subseteq terms
    OBVIOUS
  <2> QED
    BY <2>1, FS_Subset
<1> DEFINE a == Cardinality(terms \cap ShortTerms)  b == Cardinality(terms \ ShortTerms)
<1>2. a \in Nat /\ b \in Nat
  BY <1>1, FS_CardinalityType
<1>3. Worth(terms) = 4 * a + 12 * b
  BY DEF Worth
<1> HIDE DEF a, b
<1> QED
  BY <1>2, <1>3

LEMMA ScoreType ==
  ASSUME NEW a, NEW p \in Prompts
  PROVE  Score(a, p) \in Nat
<1> DEFINE w == Worth(AssetTerms(a) \cap p.terms)
           b == Bonus(AllPresent(a.id_terms, p), 80)
           c == Bonus(AllPresent(a.name_terms, p), 100)
           d == Bonus(\E alias \in a.aliases : AllPresent(alias, p), 90)
<1>1. w \in Nat
  <2>1. IsFiniteSet(p.terms) /\ AssetTerms(a) \cap p.terms \subseteq p.terms
    BY RetrievalAssumption
  <2>2. IsFiniteSet(AssetTerms(a) \cap p.terms)
    BY <2>1, FS_Subset
  <2> QED
    BY <2>2, WorthType
<1>2. b \in Nat /\ c \in Nat /\ d \in Nat
  BY DEF Bonus
<1>3. Score(a, p) = IF NumberConflict(a, p) THEN 0 ELSE w + b + c + d
  BY DEF Score
<1> HIDE DEF w, b, c, d
<1> QED
  BY <1>1, <1>2, <1>3

(* The assets that score, the best first.                                  *)
ScoredEntry == [id : Nat, score : Nat]
EntryOf(a, p) == [id |-> a.id, score |-> Score(a, p)]

LEMMA ScoredFacts ==
  ASSUME NEW m \in Models, NEW p \in Prompts
  PROVE  LET s == Scored(m, p)
         IN  /\ s \in Seq(ScoredEntry)
             /\ Range(s) = {EntryOf(a, p) : a \in {b \in Range(m.assets) : Score(b, p) > 0}}
             /\ \A k, l \in DOMAIN s : s[k].id = s[l].id => k = l
             /\ \A k \in DOMAIN s : s[k].score <= s[1].score
<1> DEFINE entry == [i \in DOMAIN m.assets |-> EntryOf(m.assets[i], p)]
           I == {i \in DOMAIN m.assets : entry[i].score > 0}
           R == {q \in I \X I : ~Better(entry[q[2]], entry[q[1]])}
           s == Scored(m, p)
           n == Cardinality(I)
<1>1. IsFiniteSet(I)
  <2>1. I \subseteq DOMAIN m.assets
    OBVIOUS
  <2> QED
    BY <2>1, ModelFacts, FS_Subset
<1>2. \A i \in I : entry[i] = EntryOf(m.assets[i], p)
  OBVIOUS
<1>3. /\ \A i \in DOMAIN m.assets : entry[i].id = m.assets[i].id /\ entry[i].score = Score(m.assets[i], p)
      /\ \A i \in DOMAIN m.assets : entry[i].id \in Nat /\ entry[i].score \in Nat
  BY ModelFacts, ScoreType DEF EntryOf
<1>4. /\ \A i \in I : entry[i].id \in Nat /\ entry[i].score \in Nat /\ entry[i] \in ScoredEntry
      /\ \A i, j \in I : entry[i].id = entry[j].id => i = j
  <2>1. \A i \in I : i \in DOMAIN m.assets
    OBVIOUS
  <2>2. \A i \in I : entry[i].id \in Nat /\ entry[i].score \in Nat
    BY <2>1, <1>3
  <2>3. \A i, j \in I : entry[i].id = entry[j].id => i = j
    BY <2>1, <1>3, ModelFacts
  <2>4. \A i \in I : entry[i] \in ScoredEntry
    BY <1>2, <2>1, ModelFacts, ScoreType DEF ScoredEntry, EntryOf
  <2> QED
    BY <2>2, <2>3, <2>4
<1>5. \A i, j \in I : <<i, j>> \in R <=> ~Better(entry[j], entry[i])
  OBVIOUS
<1>6. s = Ordered(entry, I, R)
  BY DEF Scored, EntryOf
<1> HIDE DEF entry, R
<1>7. \A i, j \in I : <<i, j>> \in R <=>
        entry[i].score > entry[j].score
        \/ (entry[i].score = entry[j].score /\ entry[i].id <= entry[j].id)
  <2> TAKE i, j \in I
  <2> DEFINE a == entry[i].score  b == entry[j].score  c == entry[i].id  d == entry[j].id
  <2>1. a \in Nat /\ b \in Nat /\ c \in Nat /\ d \in Nat
    BY <1>4
  <2>2. <<i, j>> \in R <=> ~(b > a \/ (b = a /\ d < c))
    BY <1>5 DEF Better
  <2> HIDE DEF a, b, c, d
  <2>3. <<i, j>> \in R <=> a > b \/ (a = b /\ c <= d)
    BY <2>1, <2>2
  <2> QED
    BY <2>3 DEF a, b, c, d
<1>8. TotalOrder(R, I)
  <2> DEFINE c == [i \in I |-> entry[i].score]  d == [i \in I |-> entry[i].id]
  <2>0. /\ \A i \in I : c[i] \in Nat /\ d[i] \in Nat
        /\ \A i, j \in I : d[i] = d[j] => i = j
        /\ \A i, j \in I : <<i, j>> \in R <=> c[i] > c[j] \/ (c[i] = c[j] /\ d[i] <= d[j])
    BY <1>4, <1>7
  <2> HIDE DEF I, c, d
  <2>1. \A i \in I : <<i, i>> \in R
    <3> TAKE i \in I
    <3>1. c[i] = c[i] /\ d[i] <= d[i]
      BY <2>0
    <3> QED
      BY <2>0, <3>1
  <2>2. \A i, j \in I : <<i, j>> \in R \/ <<j, i>> \in R
    <3> TAKE i, j \in I
    <3>1. c[i] > c[j] \/ (c[i] = c[j] /\ d[i] <= d[j])
          \/ c[j] > c[i] \/ (c[j] = c[i] /\ d[j] <= d[i])
      BY <2>0
    <3> QED
      BY <2>0, <3>1
  <2>3. \A i, j \in I : <<i, j>> \in R /\ <<j, i>> \in R => i = j
    BY <2>0
  <2>4. \A i, j, k \in I : <<i, j>> \in R /\ <<j, k>> \in R => <<i, k>> \in R
    BY <2>0
  <2> QED
    BY <2>1, <2>2, <2>3, <2>4 DEF TotalOrder
<1> HIDE DEF s
<1>9. PICK pos : Places(s, entry, I, R, pos)
  BY <1>1, <1>6, <1>8, OrderedPlaces
<1>10. n \in Nat /\ s \in Seq(ScoredEntry) /\ Len(s) = n /\ Range(s) = {entry[i] : i \in I}
  <2> DEFINE S == ScoredEntry
  <2>1. \A i \in I : entry[i] \in S
    BY <1>4
  <2> HIDE DEF I, S
  <2>2. /\ Ordered(entry, I, R) \in Seq(S)
        /\ Len(Ordered(entry, I, R)) = Cardinality(I) /\ Cardinality(I) \in Nat
        /\ Range(Ordered(entry, I, R)) = {entry[i] : i \in I}
    <3>1. Arranges(S, entry, I, R)
      BY <1>1, <1>8, <2>1 DEF Arranges
    <3> QED
      BY <3>1, OrderedFacts
  <2> QED
    BY <1>6, <2>2 DEF S
<1>11. DOMAIN s = 1 .. n
  BY <1>10, LenProperties
<1>12. Range(s) = {EntryOf(a, p) : a \in {b \in Range(m.assets) : Score(b, p) > 0}}
  <2>1. I = {i \in DOMAIN m.assets : Score(m.assets[i], p) > 0}
    BY <1>3
  <2>2. Range(s) = {EntryOf(m.assets[i], p) : i \in I}
    BY <1>2, <1>10
  <2> HIDE DEF I
  <2> QED
    BY <2>1, <2>2 DEF Range
<1>13. /\ pos \in [1 .. n -> I]
       /\ \A k, l \in 1 .. n : pos[k] = pos[l] => k = l
       /\ \A k, l \in 1 .. n : k <= l => <<pos[k], pos[l]>> \in R
       /\ s = [k \in 1 .. n |-> entry[pos[k]]]
  BY <1>9 DEF Places
<1> HIDE DEF I, n
<1>14. \A k, l \in DOMAIN s : s[k].id = s[l].id => k = l
  BY <1>4, <1>11, <1>13
<1>15. ASSUME NEW k \in DOMAIN s PROVE s[k].score <= s[1].score
  <2>1. k \in 1 .. n /\ 1 \in 1 .. n /\ 1 <= k
    BY <1>10, <1>11
  <2>2. pos[1] \in I /\ pos[k] \in I /\ <<pos[1], pos[k]>> \in R
    BY <2>1, <1>13
  <2>3. s[1] = entry[pos[1]] /\ s[k] = entry[pos[k]]
    BY <2>1, <1>13
  <2> QED
    BY <2>2, <2>3, <1>4, <1>7
<1> QED
  BY <1>10, <1>12, <1>14, <1>15 DEF s

(* The assets that match best are those whose entries are eligible.        *)
LEMMA BestFacts ==
  ASSUME NEW m \in Models, NEW p \in Prompts
  PROVE  LET s == Scored(m, p)
             E == {k \in DOMAIN s : IsEligible(s, s[k])}
         IN  /\ Best(m, p) = {s[k].id : k \in E}
             /\ IsFiniteSet(E) /\ IsFiniteSet(Best(m, p)) /\ Cardinality(Best(m, p)) = EligibleCount(s)
             /\ Best(m, p) \subseteq Ids(m.assets)
             /\ E # {} => 1 \in E
<1> DEFINE s == Scored(m, p)
           E == {k \in DOMAIN s : IsEligible(s, s[k])}
           B == Best(m, p)
<1>1. /\ s \in Seq(ScoredEntry)
      /\ Range(s) = {EntryOf(a, p) : a \in {b \in Range(m.assets) : Score(b, p) > 0}}
      /\ \A k, l \in DOMAIN s : s[k].id = s[l].id => k = l
      /\ \A k \in DOMAIN s : s[k].score <= s[1].score
  BY ScoredFacts
<1> HIDE DEF s
<1>2. Len(s) \in Nat /\ DOMAIN s = 1 .. Len(s)
  BY <1>1, LenProperties
<1>3. \A k \in DOMAIN s : 1 \in DOMAIN s /\ s[k].score \in Nat
  <2> TAKE k \in DOMAIN s
  <2>1. 1 \in DOMAIN s
    BY <1>2
  <2>2. s[k] \in ScoredEntry
    BY <1>1, <1>2, ElementOfSeq
  <2> QED
    BY <2>1, <2>2 DEF ScoredEntry
<1>4. IsFiniteSet(E) /\ Cardinality(E) = EligibleCount(s)
  <2>1. IsFiniteSet(DOMAIN s)
    BY <1>2, FS_Interval
  <2>2. IsFiniteSet(E)
    BY <2>1, FS_Subset
  <2> QED
    BY <2>2 DEF EligibleCount
<1>5. \A x : x \in B <=>
        \E b \in Range(m.assets) :
          x = b.id /\ Score(b, p) >= 12 /\ \A c \in Range(m.assets) : Score(c, p) <= Score(b, p)
  BY DEF Best
<1>6. \A k \in DOMAIN s : \E a \in Range(m.assets) :
         Score(a, p) > 0 /\ s[k].id = a.id /\ s[k].score = Score(a, p)
  <2> TAKE k \in DOMAIN s
  <2>1. s[k] \in Range(s)
    BY DEF Range
  <2>2. PICK a \in Range(m.assets) : Score(a, p) > 0 /\ s[k] = EntryOf(a, p)
    BY <1>1, <2>1
  <2> QED
    BY <2>2 DEF EntryOf
<1>7. \A a \in Range(m.assets) : Score(a, p) > 0 =>
         \E k \in DOMAIN s : s[k].id = a.id /\ s[k].score = Score(a, p)
  <2> SUFFICES ASSUME NEW a \in Range(m.assets), Score(a, p) > 0
               PROVE  \E k \in DOMAIN s : s[k].id = a.id /\ s[k].score = Score(a, p)
    OBVIOUS
  <2>1. EntryOf(a, p) \in Range(s)
    BY <1>1
  <2>2. PICK k \in DOMAIN s : s[k] = EntryOf(a, p)
    BY <2>1 DEF Range
  <2> QED
    BY <2>2 DEF EntryOf
<1>8. \A k \in DOMAIN s : k \in E <=> s[k].score >= 12 /\ s[k].score = s[1].score
  BY DEF IsEligible
<1>9. ASSUME NEW k \in E PROVE s[k].id \in B
  <2>1. k \in DOMAIN s /\ s[k].score >= 12 /\ s[k].score = s[1].score
    BY <1>8
  <2>2. PICK a \in Range(m.assets) : s[k].id = a.id /\ s[k].score = Score(a, p)
    BY <1>6, <2>1
  <2>3. ASSUME NEW c \in Range(m.assets) PROVE Score(c, p) <= Score(a, p)
    <3>1. Score(c, p) \in Nat /\ Score(a, p) \in Nat
      BY ScoreType
    <3>2. CASE Score(c, p) > 0
      <4>1. PICK l \in DOMAIN s : s[l].score = Score(c, p)
        BY <1>7, <3>2
      <4> QED
        BY <1>1, <2>1, <2>2, <4>1
    <3>3. CASE ~(Score(c, p) > 0)
      BY <3>1, <3>3
    <3> QED
      BY <3>2, <3>3
  <2> QED
    BY <1>5, <2>1, <2>2, <2>3
<1>10. ASSUME NEW x \in B PROVE \E k \in E : x = s[k].id
  <2>1. PICK b \in Range(m.assets) :
          x = b.id /\ Score(b, p) >= 12 /\ \A c \in Range(m.assets) : Score(c, p) <= Score(b, p)
    BY <1>5
  <2>2. Score(b, p) > 0 /\ Score(b, p) \in Nat
    BY <2>1, ScoreType
  <2>3. PICK k \in DOMAIN s : s[k].id = b.id /\ s[k].score = Score(b, p)
    BY <1>7, <2>2
  <2>4. 1 \in DOMAIN s /\ s[1].score \in Nat /\ s[k].score <= s[1].score
    BY <1>1, <1>3
  <2>5. PICK a \in Range(m.assets) : s[1].score = Score(a, p)
    BY <1>6, <2>4
  <2>6. s[1].score <= s[k].score
    BY <2>1, <2>3, <2>5
  <2>7. s[k].score = s[1].score
    <3> DEFINE u == s[k].score  v == s[1].score
    <3>1. u \in Nat /\ v \in Nat /\ u <= v /\ v <= u
      BY <2>2, <2>3, <2>4, <2>6
    <3> HIDE DEF u, v
    <3>2. u = v
      BY <3>1
    <3> QED
      BY <3>2 DEF u, v
  <2> QED
    BY <1>8, <2>1, <2>3, <2>7
<1> HIDE DEF B
<1>11. B = {s[k].id : k \in E}
  BY <1>9, <1>10
<1>12. IsFiniteSet(B) /\ Cardinality(B) = Cardinality(E)
  <2> DEFINE f == [k \in E |-> s[k].id]
  <2>1. f \in [E -> B] /\ (\A x \in B : \E k \in E : f[k] = x)
    BY <1>11
  <2>2. \A k, l \in E : f[k] = f[l] => k = l
    BY <1>1
  <2> HIDE DEF f, E
  <2>3. f \in Surjection(E, B) /\ f \in Injection(E, B)
    BY <2>1, <2>2 DEF Surjection, Injection, IsInjective
  <2> QED
    BY <2>3, <1>4, FS_Surjection
<1>13. B \subseteq Ids(m.assets)
  BY <1>5 DEF B, Ids, Range
<1>14. E # {} => 1 \in E
  BY <1>3, <1>8
<1> QED
  BY <1>4, <1>11, <1>12, <1>13, <1>14 DEF B, s

(* The candidates and the eligible IDs.                                    *)
LEMMA EligibleFacts ==
  ASSUME NEW m \in Models, NEW p \in Prompts
  PROVE  LET s == Scored(m, p)
             c == Candidates(s)
             e == EligibleOf(c)
         IN  /\ c \in Seq(Candidate) /\ Len(c) <= CandidateLimit /\ Len(c) <= Len(s)
             /\ \A i \in 1 .. Len(c) : c[i] = [id |-> s[i].id, eligible |-> IsEligible(s, s[i])]
             /\ e \in Seq(Nat) /\ Range(e) \subseteq Best(m, p)
             /\ Len(e) \in Nat /\ Len(e) <= EligibleCount(s) /\ Len(e) <= CandidateLimit
             /\ EligibleCount(s) \in Nat
             /\ Best(m, p) # {} => e # <<>>
             /\ EligibleCount(s) <= Len(e) => Range(e) = Best(m, p)
             /\ \A id \in Range(e) : [id |-> id, eligible |-> TRUE] \in Range(c)
<1> DEFINE s == Scored(m, p)
           c == Candidates(s)
           e == EligibleOf(c)
           B == Best(m, p)
           E == {k \in DOMAIN s : IsEligible(s, s[k])}
           C == {i \in DOMAIN c : c[i].eligible}
           t == Take(s, CandidateLimit)
           chosen == Only(c, C)
<1>1. s \in Seq(ScoredEntry)
  BY ScoredFacts
<1>2. /\ B = {s[k].id : k \in E} /\ IsFiniteSet(E) /\ Cardinality(E) = EligibleCount(s)
      /\ (E # {} => 1 \in E)
  BY BestFacts DEF EligibleCount
<1>3. c = [i \in DOMAIN t |-> [id |-> t[i].id, eligible |-> IsEligible(s, t[i])]]
  BY DEF Candidates
<1>4. e = [k \in DOMAIN chosen |-> chosen[k].id]
  BY DEF EligibleOf
<1> HIDE DEF s, c, e, B
<1>5. Len(s) \in Nat /\ DOMAIN s = 1 .. Len(s) /\ CandidateLimit \in Nat \ {0}
  BY <1>1, LenProperties, RetrievalAssumption
<1>6. /\ t \in Seq(ScoredEntry) /\ Len(t) = (IF Len(s) < CandidateLimit THEN Len(s) ELSE CandidateLimit)
      /\ \A i \in 1 .. Len(t) : t[i] = s[i]
  BY <1>1, <1>5, TakeFacts
<1> HIDE DEF t
<1>7. /\ DOMAIN t = 1 .. Len(t) /\ Len(t) \in Nat /\ Len(t) <= Len(s) /\ Len(t) <= CandidateLimit
      /\ (Len(s) > 0 => Len(t) > 0)
  <2> DEFINE k == Len(s)  l == Len(t)
  <2>1. k \in Nat /\ l = (IF k < CandidateLimit THEN k ELSE CandidateLimit) /\ CandidateLimit \in Nat \ {0}
    BY <1>5, <1>6
  <2> HIDE DEF k, l
  <2>2. l \in Nat /\ l <= k /\ l <= CandidateLimit /\ (k > 0 => l > 0)
    BY <2>1
  <2>3. DOMAIN t = 1 .. Len(t)
    BY <1>6, LenProperties
  <2> QED
    BY <2>2, <2>3 DEF k, l
<1>8. \A i \in 1 .. Len(t) : i \in DOMAIN s /\ s[i] \in ScoredEntry
  <2> DEFINE k == Len(s)  l == Len(t)
  <2>1. k \in Nat /\ l \in Nat /\ l <= k /\ DOMAIN s = 1 .. k
    BY <1>5, <1>7
  <2> HIDE DEF k, l
  <2>2. \A i \in 1 .. l : i \in DOMAIN s
    BY <2>1
  <2> QED
    BY <2>2, <1>1, <1>5, ElementOfSeq DEF l
<1>9. /\ c \in Seq(Candidate) /\ Len(c) = Len(t) /\ DOMAIN c = 1 .. Len(t)
      /\ \A i \in 1 .. Len(t) : c[i] = [id |-> s[i].id, eligible |-> IsEligible(s, s[i])]
  <2>1. \A i \in 1 .. Len(t) : c[i] = [id |-> s[i].id, eligible |-> IsEligible(s, s[i])]
    BY <1>3, <1>6, <1>7
  <2>2. ASSUME NEW i \in 1 .. Len(t) PROVE c[i] \in Candidate
    <3>1. IsEligible(s, s[i]) \in BOOLEAN
      BY DEF IsEligible
    <3>2. s[i].id \in Nat
      BY <1>8 DEF ScoredEntry
    <3> DEFINE b == IsEligible(s, s[i])  x == c[i]  u == s[i].id
    <3>3. x = [id |-> u, eligible |-> b] /\ u \in Nat /\ b \in BOOLEAN
      BY <2>1, <3>1, <3>2
    <3> HIDE DEF b, x, u
    <3>4. x \in Candidate
      BY <3>3 DEF Candidate
    <3> QED
      BY <3>4 DEF x
  <2>3. c \in [1 .. Len(t) -> Candidate]
    BY <1>3, <1>7, <2>2
  <2> QED
    BY <1>7, <2>1, <2>3, SequenceOf
<1>10. C \subseteq E /\ \A i \in C : i \in 1 .. Len(t) /\ c[i].id = s[i].id /\ c[i].eligible = TRUE
  <2>1. ASSUME NEW i \in C PROVE i \in 1 .. Len(t) /\ c[i].id = s[i].id /\ c[i].eligible = TRUE /\ i \in E
    <3>1. i \in 1 .. Len(t) /\ c[i].eligible
      BY <1>9
    <3>2. c[i] = [id |-> s[i].id, eligible |-> IsEligible(s, s[i])]
      BY <3>1, <1>9
    <3>3. c[i].id = s[i].id /\ c[i].eligible = IsEligible(s, s[i])
      BY <3>2
    <3>4. i \in E /\ IsEligible(s, s[i]) = TRUE
      BY <3>1, <3>3, <1>8 DEF IsEligible
    <3> QED
      BY <3>1, <3>3, <3>4
  <2> QED
    BY <2>1
<1>11. /\ chosen \in Seq(Candidate) /\ IsFiniteSet(C) /\ Len(chosen) = Cardinality(C)
       /\ Len(chosen) <= Len(c) /\ Range(chosen) = {c[i] : i \in C}
  BY <1>9, OnlyFacts
<1> HIDE DEF chosen
<1>12. /\ e \in Seq(Nat) /\ Len(e) = Cardinality(C) /\ Len(e) \in Nat /\ DOMAIN e = DOMAIN chosen
       /\ Range(e) = {x.id : x \in Range(chosen)}
  <2>1. Len(chosen) \in Nat /\ DOMAIN chosen = 1 .. Len(chosen)
    BY <1>11, LenProperties
  <2>2. \A k \in 1 .. Len(chosen) : chosen[k] \in Candidate
    BY <1>11, ElementOfSeq
  <2>3. e \in [1 .. Len(chosen) -> Nat]
    BY <1>4, <2>1, <2>2 DEF Candidate
  <2>4. e \in Seq(Nat) /\ Len(e) = Len(chosen) /\ DOMAIN e = 1 .. Len(chosen)
    BY <2>1, <2>3, SequenceOf
  <2>5. Range(e) = {x.id : x \in Range(chosen)}
    BY <1>4 DEF Range
  <2> QED
    BY <1>11, <2>1, <2>4, <2>5
<1>13. Range(e) = {s[i].id : i \in C}
  BY <1>10, <1>11, <1>12
<1>14. Range(e) \subseteq B
  BY <1>2, <1>10, <1>13
<1> HIDE DEF C, E
<1>15. Cardinality(C) <= Cardinality(E) /\ (Cardinality(E) = Cardinality(C) => E = C)
  BY <1>2, <1>10, FS_Subset
<1>16. EligibleCount(s) \in Nat
  BY <1>2, FS_CardinalityType
<1>17. EligibleCount(s) <= Len(e) => Range(e) = B
  <2> SUFFICES ASSUME EligibleCount(s) <= Len(e) PROVE Range(e) = B
    OBVIOUS
  <2>1. Cardinality(E) = Cardinality(C)
    BY <1>2, <1>12, <1>15, <1>16
  <2> QED
    BY <2>1, <1>2, <1>13, <1>15
<1>18. B # {} => e # <<>>
  <2> SUFFICES ASSUME B # {} PROVE e # <<>>
    OBVIOUS
  <2>1. 1 \in E
    BY <1>2
  <2>2. 1 \in DOMAIN s /\ IsEligible(s, s[1])
    BY <2>1 DEF E
  <2>3. 1 \in 1 .. Len(t)
    BY <2>2, <1>5, <1>7
  <2>4. c[1].eligible
    BY <2>2, <2>3, <1>9
  <2>5. 1 \in C
    BY <2>3, <2>4, <1>9 DEF C
  <2>6. Cardinality(C) # 0
    BY <2>5, <1>11, FS_EmptySet
  <2> QED
    BY <2>6, <1>12, EmptySeq
<1>19. \A id \in Range(e) : [id |-> id, eligible |-> TRUE] \in Range(c)
  <2> TAKE id \in Range(e)
  <2>1. PICK i \in C : id = s[i].id
    BY <1>13
  <2>2. i \in 1 .. Len(t) /\ c[i].eligible = TRUE /\ c[i] = [id |-> s[i].id, eligible |-> IsEligible(s, s[i])]
    BY <1>9, <1>10
  <2>3. c[i] = [id |-> id, eligible |-> TRUE]
    <3> DEFINE b == IsEligible(s, s[i])  x == c[i]
    <3>1. x = [id |-> id, eligible |-> b] /\ x.eligible = TRUE
      BY <2>1, <2>2
    <3> HIDE DEF b, x
    <3>2. b = TRUE
      BY <3>1
    <3> QED
      BY <3>1, <3>2 DEF x
  <2>4. i \in DOMAIN c
    BY <2>2, <1>9
  <2> QED
    BY <2>3, <2>4 DEF Range
<1>20. Len(e) <= EligibleCount(s) /\ Len(e) <= CandidateLimit
  <2>1. Len(e) <= EligibleCount(s)
    BY <1>2, <1>12, <1>15
  <2>2. Len(e) <= Len(t) /\ Len(t) <= CandidateLimit
    BY <1>7, <1>9, <1>11, <1>12
  <2> DEFINE k == Len(e)  l == Len(t)
  <2>3. k \in Nat /\ l \in Nat /\ k <= l /\ l <= CandidateLimit /\ CandidateLimit \in Nat
    BY <2>2, <1>5, <1>7, <1>12
  <2> HIDE DEF k, l
  <2>4. k <= CandidateLimit
    BY <2>3
  <2> QED
    BY <2>1, <2>4 DEF k
<1> HIDE DEF C, E
<1> QED
  BY <1>7, <1>9, <1>12, <1>14, <1>16, <1>17, <1>18, <1>19, <1>20 DEF s, c, e, B

-----------------------------------------------------------------------------
(* Induction over the natural numbers, from their well-founded order.      *)
Below == {q \in Nat \X Nat : q[1] < q[2]}

LEMMA Induction ==
  ASSUME NEW S, 0 \in S, \A n \in Nat : n \in S => n + 1 \in S
  PROVE  Nat \subseteq S
<1> SUFFICES ASSUME NEW k \in Nat, k \notin S PROVE FALSE
  OBVIOUS
<1>1. IsWellFoundedOn(Below, Nat)
  BY NatLessThanWellFounded DEF OpToRel, Below
<1> DEFINE T == Nat \ S
<1>2. T \in SUBSET Nat /\ T # {}
  OBVIOUS
<1>3. PICK n \in T : \A l \in T : ~(<<l, n>> \in Below)
  BY <1>1, <1>2, WFMin, Zenon
<1>4. n \in Nat /\ n # 0 /\ n - 1 \in Nat /\ n - 1 + 1 = n /\ n - 1 < n
  BY <1>3
<1>5. <<n - 1, n>> \in Below
  BY <1>4 DEF Below
<1>6. n - 1 \in S
  BY <1>3, <1>4, <1>5
<1> QED
  BY <1>3, <1>4, <1>6

(* The expansion of a scope, one relationship after the other.             *)
Expands(A, rels, start, l) ==
  A = [k \in 0 .. l |-> IF k = 0 THEN start ELSE Expand(A[k - 1], rels[k])]

LEMMA ExpansionExists ==
  ASSUME NEW rels, NEW start, NEW l \in Nat
  PROVE  \E A : Expands(A, rels, start, l)
<1> DEFINE S == {n \in Nat : \E A : A = [k \in 0 .. n |-> IF k = 0 THEN start
                                                         ELSE Expand(A[k - 1], rels[k])]}
<1>1. 0 \in S
  <2> DEFINE A == [k \in 0 .. 0 |-> start]
  <2>1. A = [k \in 0 .. 0 |-> IF k = 0 THEN start ELSE Expand(A[k - 1], rels[k])]
    OBVIOUS
  <2> QED
    BY <2>1
<1>2. ASSUME NEW n \in Nat, n \in S PROVE n + 1 \in S
  <2>1. PICK A : A = [k \in 0 .. n |-> IF k = 0 THEN start ELSE Expand(A[k - 1], rels[k])]
    BY <1>2
  <2> DEFINE B == [k \in 0 .. n + 1 |-> IF k \in 0 .. n THEN A[k] ELSE Expand(A[n], rels[k])]
  <2>2. ASSUME NEW k \in 0 .. n + 1
        PROVE  B[k] = IF k = 0 THEN start ELSE Expand(B[k - 1], rels[k])
    <3>1. CASE k = 0
      <4>1. 0 \in 0 .. n /\ 0 \in 0 .. n + 1
        OBVIOUS
      <4> QED
        BY <2>1, <3>1, <4>1
    <3>2. CASE k # 0 /\ k \in 0 .. n
      <4>1. k - 1 \in 0 .. n /\ k - 1 \in 0 .. n + 1
        BY <3>2
      <4>2. B[k - 1] = A[k - 1] /\ B[k] = A[k]
        BY <3>2, <4>1
      <4> HIDE DEF B
      <4>3. A[k] = Expand(A[k - 1], rels[k])
        BY <2>1, <3>2
      <4> QED
        BY <3>2, <4>2, <4>3
    <3>3. CASE k = n + 1
      <4>1. n \in 0 .. n /\ n \in 0 .. n + 1 /\ k - 1 = n /\ k # 0 /\ k \notin 0 .. n
        BY <3>3
      <4> QED
        BY <4>1
    <3> QED
      BY <3>1, <3>2, <3>3
  <2>3. B = [k \in 0 .. n + 1 |-> B[k]]
    OBVIOUS
  <2> HIDE DEF B
  <2>4. B = [k \in 0 .. n + 1 |-> IF k = 0 THEN start ELSE Expand(B[k - 1], rels[k])]
    BY <2>2, <2>3
  <2> QED
    BY <2>4
<1> HIDE DEF S
<1>3. l \in S
  BY <1>1, <1>2, Induction
<1> QED
  BY <1>3 DEF S, Expands

(* What the relationships touch is in the scope, or the cut is known.      *)
Touches(r, ids) == {r.from, r.to} \cap ids # {}
Inside(r, ids) == {r.from, r.to} \subseteq ids

Extends(e, scope, r) ==
  /\ scope.ids \subseteq e.ids /\ e.ids \subseteq scope.ids \cup {r.from, r.to}
  /\ e.cut \in BOOLEAN /\ (scope.cut => e.cut)
  /\ Touches(r, scope.ids) => Inside(r, e.ids) \/ e.cut

LEMMA ExpandFacts ==
  ASSUME NEW scope, scope.cut \in BOOLEAN, NEW r
  PROVE  Extends(Expand(scope, r), scope, r)
<1> DEFINE e == Expand(scope, r)
           room == Touches(r, scope.ids) /\ Cardinality(scope.ids) < AssetLimit
<1>1. CASE room
  <2>1. e.ids = scope.ids \cup {r.from, r.to} /\ e.cut = scope.cut
    BY <1>1 DEF Expand, Touches
  <2> QED
    BY <2>1 DEF Inside, Extends
<1>2. CASE ~room
  <2>1. e.ids = scope.ids /\ e.cut = (scope.cut \/ (r.from \in scope.ids) # (r.to \in scope.ids))
    BY <1>2 DEF Expand, Touches
  <2>2. Touches(r, scope.ids) => Inside(r, scope.ids) \/ (r.from \in scope.ids) # (r.to \in scope.ids)
    BY DEF Touches, Inside
  <2> HIDE DEF e, room
  <2>3. e.cut \in BOOLEAN /\ (scope.cut => e.cut)
    BY <2>1
  <2>4. Touches(r, scope.ids) => Inside(r, e.ids) \/ e.cut
    BY <2>1, <2>2
  <2> QED
    BY <2>1, <2>3, <2>4 DEF e, Extends
<1> QED
  BY <1>1, <1>2

(* The relationships and the scope start are among the assets V; scope e   *)
(* covers what the relationships add to start, or says that it does not.   *)
Expandable(rels, V, start) ==
  /\ Len(rels) \in Nat /\ DOMAIN rels = 1 .. Len(rels)
  /\ start.cut \in BOOLEAN /\ start.ids \subseteq V
  /\ \A r \in Range(rels) : Inside(r, V)

Covers(rels, V, start, e) ==
  /\ start.ids \subseteq e.ids /\ e.ids \subseteq V
  /\ e.cut \in BOOLEAN /\ (start.cut => e.cut)
  /\ \A r \in Range(rels) : Touches(r, start.ids) => Inside(r, e.ids) \/ e.cut

LEMMA ExpandedFacts ==
  ASSUME NEW rels, NEW start, NEW V, Expandable(rels, V, start)
  PROVE  Covers(rels, V, start, Expanded(rels, start))
<1> USE DEF Expandable
<1> DEFINE l == Len(rels)
           A == CHOOSE B : Expands(B, rels, start, l)
<1>1. A = [k \in 0 .. l |-> IF k = 0 THEN start ELSE Expand(A[k - 1], rels[k])]
  <2>0. l \in Nat
    OBVIOUS
  <2> HIDE DEF l
  <2>1. \E B : Expands(B, rels, start, l)
    BY <2>0, ExpansionExists
  <2>2. Expands(A, rels, start, l)
    BY <2>1, Zenon
  <2> QED
    BY <2>2 DEF Expands
<1>2. Expanded(rels, start) = A[l]
  BY DEF Expanded, Expands
<1> HIDE DEF A
<1>3. A[0] = start /\ \A k \in 0 .. l : k # 0 => A[k] = Expand(A[k - 1], rels[k])
  BY <1>1
<1> HIDE DEF l
<1> DEFINE Good(k) ==
             /\ start.ids \subseteq A[k].ids /\ A[k].ids \subseteq V
             /\ A[k].cut \in BOOLEAN /\ (start.cut => A[k].cut)
             /\ \A j \in 1 .. k : Touches(rels[j], start.ids) => Inside(rels[j], A[k].ids) \/ A[k].cut
           S == {k \in Nat : k <= l => Good(k)}
<1>4. 0 \in S
  <2>1. \A j \in 1 .. 0 : FALSE
    OBVIOUS
  <2>2. Good(0)
    BY <1>3, <2>1
  <2> HIDE DEF Good
  <2> QED
    BY <2>2
<1>5. ASSUME NEW k \in Nat, k \in S PROVE k + 1 \in S
  <2> SUFFICES ASSUME k + 1 <= l PROVE Good(k + 1)
    BY DEF S
  <2>1. l \in Nat /\ k <= l /\ k + 1 \in 0 .. l /\ k + 1 # 0 /\ (k + 1) - 1 = k /\ k + 1 \in 1 .. l
    BY DEF l
  <2>2. Good(k)
    BY <1>5, <2>1 DEF S
  <2>3. A[k + 1] = Expand(A[k], rels[k + 1])
    BY <1>3, <2>1
  <2>4. Inside(rels[k + 1], V)
    BY <2>1 DEF Range, l
  <2> DEFINE a == A[k]  b == A[k + 1]  r == rels[k + 1]
  <2>5. /\ a.ids \subseteq b.ids /\ b.ids \subseteq a.ids \cup {r.from, r.to}
        /\ b.cut \in BOOLEAN /\ (a.cut => b.cut)
        /\ Touches(r, a.ids) => Inside(r, b.ids) \/ b.cut
    <3>1. a.cut \in BOOLEAN /\ b = Expand(a, r)
      BY <2>2, <2>3
    <3> HIDE DEF a, b, r
    <3>2. Extends(b, a, r)
      BY <3>1, ExpandFacts
    <3> QED
      BY <3>2 DEF Extends
  <2>6. start.ids \subseteq b.ids /\ b.ids \subseteq V /\ (start.cut => b.cut)
    BY <2>2, <2>4, <2>5 DEF Inside
  <2>7. ASSUME NEW j \in 1 .. k + 1, Touches(rels[j], start.ids)
        PROVE  Inside(rels[j], b.ids) \/ b.cut
    <3>1. CASE j = k + 1
      <4>1. Touches(r, a.ids)
        BY <2>2, <2>7, <3>1 DEF Touches
      <4> QED
        BY <2>5, <3>1, <4>1
    <3>2. CASE j # k + 1
      <4>1. j \in 1 .. k
        BY <3>2
      <4>2. Inside(rels[j], a.ids) \/ a.cut
        BY <2>2, <2>7, <4>1
      <4> QED
        BY <2>5, <4>2 DEF Inside
    <3> QED
      BY <3>1, <3>2
  <2> QED
    BY <2>5, <2>6, <2>7
<1> HIDE DEF S
<1>6. l \in Nat
  BY DEF l
<1>7. l \in S
  BY <1>4, <1>5, <1>6, Induction
<1>8. Good(l)
  BY <1>6, <1>7 DEF S
<1>9. \A r \in Range(rels) : Touches(r, start.ids) => Inside(r, A[l].ids) \/ A[l].cut
  BY <1>8 DEF Range, l
<1> QED
  BY <1>2, <1>8, <1>9 DEF Covers

-----------------------------------------------------------------------------
(* The scope, and what the selection takes of the model for it.            *)
LEMMA ScopeFacts ==
  ASSUME NEW m \in Models, NEW e \in Seq(Nat), Range(e) \subseteq Ids(m.assets),
         NEW specific \in BOOLEAN
  PROVE  LET scope == Scope(m, e, specific)
         IN  /\ scope.ids \subseteq Ids(m.assets) /\ Range(e) \subseteq scope.ids
             /\ scope.cut \in BOOLEAN
             /\ e # <<>> /\ Cardinality(Range(e)) = 1 =>
                  \A r \in Range(m.relationships) :
                    Touches(r, Range(e)) => Inside(r, scope.ids) \/ scope.cut
<1> DEFINE whole == e = <<>> /\ ~specific
           start == [ids |-> IF whole THEN Ids(Take(m.assets, AssetLimit)) ELSE Range(e),
                     cut |-> whole /\ Len(m.assets) > AssetLimit]
           scope == Scope(m, e, specific)
           V == Ids(m.assets)
           rels == m.relationships
<1>1. scope = IF Cardinality(start.ids) = 1 THEN Expanded(rels, start) ELSE start
  BY DEF Scope
<1>2. Ids(Take(m.assets, AssetLimit)) \subseteq V
  <2> DEFINE s == m.assets  t == Take(s, AssetLimit)
  <2>1. s \in Seq(Range(s)) /\ AssetLimit \in Nat
    BY ModelFacts, RetrievalAssumption
  <2> HIDE DEF s
  <2>2. Range(t) \subseteq Range(s)
    BY <2>1, TakeFacts
  <2>3. Ids(t) = {x.id : x \in Range(t)} /\ Ids(s) = {x.id : x \in Range(s)}
    BY DEF Ids, Range
  <2> QED
    BY <2>2, <2>3 DEF s
<1>3. /\ start.ids \subseteq V /\ start.cut \in BOOLEAN /\ Range(e) \subseteq start.ids
      /\ (e # <<>> => start.ids = Range(e))
  <2>1. e = <<>> => Range(e) = {}
    BY DEF Range
  <2> QED
    BY <1>2, <2>1
<1>4. Len(rels) \in Nat /\ DOMAIN rels = 1 .. Len(rels) /\ \A r \in Range(rels) : Inside(r, V)
  BY ModelFacts, LenProperties DEF Inside
<1> HIDE DEF start, V, rels
<1>5. Covers(rels, V, start, Expanded(rels, start))
  <2>1. Expandable(rels, V, start)
    BY <1>3, <1>4 DEF Expandable
  <2> QED
    BY <2>1, ExpandedFacts
<1>6. CASE Cardinality(start.ids) = 1
  <2>1. scope = Expanded(rels, start)
    BY <1>1, <1>6
  <2> HIDE DEF scope
  <2> QED
    BY <1>3, <1>5, <2>1 DEF scope, V, rels, Covers
<1>7. CASE Cardinality(start.ids) # 1
  <2>1. scope = start
    BY <1>1, <1>7
  <2> HIDE DEF scope
  <2> QED
    BY <1>3, <1>7, <2>1 DEF scope, V, rels
<1> QED
  BY <1>6, <1>7

LEMMA JoinFacts ==
  ASSUME NEW S, NEW s \in Seq(S), NEW t \in Seq(S)
  PROVE  /\ s \o t \in Seq(S) /\ Len(s) \in Nat /\ Len(t) \in Nat /\ Len(s \o t) = Len(s) + Len(t)
         /\ \A i \in 1 .. Len(s) : (s \o t)[i] = s[i]
         /\ Range(s \o t) = Range(s) \cup Range(t)
<1> DEFINE a == Len(s)  b == Len(t)  u == s \o t
<1>1. a \in Nat /\ b \in Nat /\ DOMAIN s = 1 .. a /\ DOMAIN t = 1 .. b
  BY LenProperties
<1>2. /\ u \in Seq(S) /\ Len(u) = a + b
      /\ \A i \in 1 .. a + b : u[i] = IF i <= a THEN s[i] ELSE t[i - a]
  BY ConcatProperties
<1> HIDE DEF a, b, u
<1>3. \A i \in 1 .. a : u[i] = s[i]
  BY <1>1, <1>2
<1>4. Range(u) = Range(s) \cup Range(t)
  BY RangeConcatenation DEF u
<1> QED
  BY <1>1, <1>2, <1>3, <1>4 DEF a, b, u

LEMMA ScopeAssetsFacts ==
  ASSUME NEW m \in Models, NEW e \in Seq(Nat), NEW ids,
         ids \subseteq Ids(m.assets), Range(e) \subseteq ids
  PROVE  LET s == ScopeAssets(m, e, ids)
         IN  /\ s \in Seq(Entry) /\ Len(s) \in Nat /\ Len(e) \in Nat /\ Len(e) <= Len(s)
             /\ DOMAIN s = 1 .. Len(s)
             /\ \A k \in 1 .. Len(e) : s[k].id = e[k]
             /\ Ids(s) = ids
<1> DEFINE I == {i \in DOMAIN m.assets : m.assets[i].id \in ids \ Range(e)}
           others == Only(m.assets, I)
           rest == [k \in DOMAIN others |-> others[k].id]
           listed == e \o rest
           aliased == {a.id : a \in {b \in Range(m.assets) : b.aliases # {}}}
           s == ScopeAssets(m, e, ids)
<1>1. s = [k \in DOMAIN listed |-> [id |-> listed[k], aliases |-> listed[k] \in aliased]]
  BY DEF ScopeAssets
<1>2. others \in Seq(Range(m.assets)) /\ Range(others) = {m.assets[i] : i \in I}
  <2> DEFINE S == Range(m.assets)  t == m.assets
  <2>1. t \in Seq(S) /\ I \in SUBSET (DOMAIN t)
    BY ModelFacts
  <2> HIDE DEF S, t, I
  <2>2. Only(t, I) \in Seq(S) /\ Range(Only(t, I)) = {t[i] : i \in I}
    BY <2>1, OnlyFacts
  <2> QED
    BY <2>2 DEF S, t
<1>3. \A x \in Range(m.assets) : x.id \in Nat
  BY ModelFacts DEF Range
<1>4. rest \in Seq(Nat) /\ Range(rest) = ids \ Range(e)
  <2> HIDE DEF others
  <2>1. Len(others) \in Nat /\ DOMAIN others = 1 .. Len(others)
    BY <1>2, LenProperties
  <2>2. \A k \in 1 .. Len(others) : others[k] \in Range(m.assets)
    BY <1>2, ElementOfSeq
  <2>3. rest \in [1 .. Len(others) -> Nat]
    BY <1>3, <2>1, <2>2
  <2>4. rest \in Seq(Nat)
    BY <2>1, <2>3, SequenceOf
  <2>5. Range(rest) = {x.id : x \in Range(others)}
    BY DEF Range
  <2>6. Range(rest) = {m.assets[i].id : i \in I}
    BY <1>2, <2>5
  <2>7. {m.assets[i].id : i \in I} = ids \ Range(e)
    BY DEF Ids
  <2> QED
    BY <2>4, <2>6, <2>7
<1> HIDE DEF rest, aliased
<1>5. /\ listed \in Seq(Nat) /\ Len(e) \in Nat /\ Len(rest) \in Nat /\ Len(listed) = Len(e) + Len(rest)
      /\ \A i \in 1 .. Len(e) : listed[i] = e[i]
      /\ Range(listed) = Range(e) \cup Range(rest)
  BY <1>4, JoinFacts
<1>6. Range(listed) = ids
  BY <1>4, <1>5
<1> HIDE DEF listed, s
<1> DEFINE n == Len(listed)
<1>7. n \in Nat /\ DOMAIN listed = 1 .. n /\ \A k \in 1 .. n : listed[k] \in Nat
  BY <1>5, LenProperties, ElementOfSeq
<1>8. Len(e) <= n /\ \A k \in 1 .. Len(e) : k \in 1 .. n
  <2> DEFINE a == Len(e)  b == Len(rest)
  <2>1. a \in Nat /\ b \in Nat /\ n = a + b
    BY <1>5
  <2> HIDE DEF a, b, n
  <2>2. a <= n /\ \A k \in 1 .. a : k \in 1 .. n
    BY <2>1
  <2> QED
    BY <2>2 DEF a
<1> HIDE DEF n
<1>9. \A k \in 1 .. n : s[k] = [id |-> listed[k], aliases |-> listed[k] \in aliased]
  BY <1>1, <1>7
<1>10. s \in [1 .. n -> Entry]
  <2>1. ASSUME NEW k \in 1 .. n
        PROVE  [id |-> listed[k], aliases |-> listed[k] \in aliased] \in Entry
    BY <1>7 DEF Entry
  <2> QED
    BY <1>1, <1>7, <2>1
<1>11. s \in Seq(Entry) /\ Len(s) = n /\ DOMAIN s = 1 .. n
  BY <1>7, <1>10, SequenceOf
<1>12. \A k \in 1 .. n : s[k].id = listed[k]
  <2> TAKE k \in 1 .. n
  <2> DEFINE x == s[k]  u == listed[k]  b == u \in aliased
  <2>1. x = [id |-> u, aliases |-> b]
    BY <1>9
  <2> HIDE DEF x, u, b
  <2>2. x.id = u
    BY <2>1
  <2> QED
    BY <2>2 DEF x, u
<1>13. Ids(s) = ids
  <2>1. Ids(s) = {s[k].id : k \in 1 .. n}
    BY <1>11 DEF Ids
  <2>2. Range(listed) = {listed[k] : k \in 1 .. n}
    BY <1>7 DEF Range
  <2>3. {s[k].id : k \in 1 .. n} = {listed[k] : k \in 1 .. n}
    BY <1>12
  <2> QED
    BY <1>6, <2>1, <2>2, <2>3
<1>14. \A k \in 1 .. Len(e) : s[k].id = e[k]
  BY <1>5, <1>8, <1>12
<1> QED
  BY <1>5, <1>7, <1>8, <1>11, <1>13, <1>14 DEF s

LEMMA AmongFacts ==
  ASSUME NEW S, NEW rels \in Seq(S), NEW ids
  PROVE  /\ Among(rels, ids) \in Seq(S)
         /\ Range(Among(rels, ids)) = {r \in Range(rels) : Inside(r, ids)}
<1> DEFINE I == {i \in DOMAIN rels : {rels[i].from, rels[i].to} \subseteq ids}
<1>1. Only(rels, I) \in Seq(S) /\ Range(Only(rels, I)) = {rels[i] : i \in I}
  <2>1. I \in SUBSET (DOMAIN rels)
    OBVIOUS
  <2> HIDE DEF I
  <2> QED
    BY <2>1, OnlyFacts
<1>2. {rels[i] : i \in I} = {r \in Range(rels) : Inside(r, ids)}
  BY DEF Range, Inside
<1>3. Among(rels, ids) = Only(rels, I)
  BY DEF Among
<1> QED
  BY <1>1, <1>2, <1>3

LEMMA OfFacts ==
  ASSUME NEW S, NEW s \in Seq(S), NEW ids
  PROVE  /\ Of(s, ids) \in Seq(S)
         /\ Range(Of(s, ids)) = {x \in Range(s) : x.asset \in ids}
<1> DEFINE I == {i \in DOMAIN s : s[i].asset \in ids}
<1>1. Only(s, I) \in Seq(S) /\ Range(Only(s, I)) = {s[i] : i \in I}
  <2>1. I \in SUBSET (DOMAIN s)
    OBVIOUS
  <2> HIDE DEF I
  <2> QED
    BY <2>1, OnlyFacts
<1>2. {s[i] : i \in I} = {x \in Range(s) : x.asset \in ids}
  BY DEF Range
<1>3. Of(s, ids) = Only(s, I)
  BY DEF Of
<1> QED
  BY <1>1, <1>2, <1>3

LEMMA RoleHintsFacts ==
  ASSUME NEW tags, NEW p
  PROVE  LET h == RoleHints(tags, p)
         IN  /\ h \in Seq(Range(Roles)) /\ Distinct(h)
             /\ Range(h) = {role \in Range(Roles) : \E t \in Range(tags) : t.role = role /\ Named(t, p)}
<1> DEFINE S == Range(Roles)
           I == {i \in DOMAIN Roles : \E t \in Range(tags) : t.role = Roles[i] /\ Named(t, p)}
<1>1. Roles \in Seq(S) /\ Distinct(Roles)
  BY RetrievalAssumption DEF Distinct
<1>2. Only(Roles, I) \in Seq(S) /\ Distinct(Only(Roles, I)) /\ Range(Only(Roles, I)) = {Roles[i] : i \in I}
  <2>1. I \in SUBSET (DOMAIN Roles)
    OBVIOUS
  <2> HIDE DEF I, S
  <2> QED
    BY <1>1, <2>1, OnlyFacts
<1>3. {Roles[i] : i \in I} = {role \in S : \E t \in Range(tags) : t.role = role /\ Named(t, p)}
  <2>1. S = {Roles[i] : i \in DOMAIN Roles}
    BY DEF Range
  <2> HIDE DEF S
  <2> QED
    BY <2>1
<1>4. RoleHints(tags, p) = Only(Roles, I)
  BY DEF RoleHints
<1> QED
  BY <1>2, <1>3, <1>4

LEMMA OrderedTagsFacts ==
  ASSUME NEW S, NEW tags \in Seq(S), NEW h \in Seq(Range(Roles)), Distinct(h),
         \A k \in DOMAIN h : \E t \in Range(tags) : t.role = h[k]
  PROVE  LET o == OrderedTags(tags, h)
         IN  /\ o \in Seq(S) /\ Len(o) \in Nat /\ Len(o) <= Len(tags)
             /\ Range(o) = Range(tags)
             /\ Len(h) \in Nat /\ Len(h) <= Len(o)
             /\ \A i \in 1 .. Len(h) : o[i].role = h[i]
<1> DEFINE n == Len(tags)  l == Len(h)
           F(k) == {i \in 1 .. n : tags[i].role = h[k]}
           at == [k \in DOMAIN h |-> IF F(k) # {} THEN Min(F(k)) ELSE 0]
           hinted == [k \in DOMAIN h |-> tags[at[k]]]
           J == {i \in DOMAIN tags : tags[i] \notin Range(hinted)}
           P == {i \in DOMAIN tags : tags[i] \in Range(hinted)}
           others == Only(tags, J)
           o == OrderedTags(tags, h)
<1>1. n \in Nat /\ DOMAIN tags = 1 .. n /\ l \in Nat /\ DOMAIN h = 1 .. l
  BY LenProperties
<1>2. hinted = [k \in DOMAIN h |-> tags[SelectInSeq(tags, LAMBDA t : t.role = h[k])]]
  BY DEF SelectInSeq
<1>3. o = hinted \o others
  BY <1>2 DEF OrderedTags
<1>4. \A k \in DOMAIN h : at[k] \in 1 .. n /\ tags[at[k]].role = h[k]
  <2> TAKE k \in DOMAIN h
  <2>1. F(k) # {}
    BY <1>1 DEF Range
  <2>2. Min(F(k)) \in F(k)
    BY <1>1, <2>1, Extremes
  <2> QED
    BY <2>1, <2>2
<1> HIDE DEF at, n, l
<1>5. \A k \in DOMAIN h : hinted[k] = tags[at[k]] /\ hinted[k] \in S /\ hinted[k] \in Range(tags)
  <2> TAKE k \in DOMAIN h
  <2>1. at[k] \in 1 .. Len(tags) /\ at[k] \in DOMAIN tags
    BY <1>1, <1>4 DEF n
  <2> QED
    BY <2>1, ElementOfSeq DEF Range
<1>6. hinted \in Seq(S) /\ Len(hinted) = l /\ DOMAIN hinted = 1 .. l
  <2>1. hinted \in [1 .. l -> S]
    BY <1>1, <1>5
  <2> HIDE DEF hinted
  <2> QED
    BY <1>1, <2>1, SequenceOf
<1>7. Range(hinted) \subseteq Range(tags)
  BY <1>1, <1>5, <1>6 DEF Range
<1>8. \A k \in DOMAIN h : at[k] \in P
  BY <1>1, <1>4, <1>6 DEF Range
<1>9. \A j, k \in DOMAIN h : at[j] = at[k] => j = k
  BY <1>4 DEF Distinct
<1>10. \A k \in 1 .. l : hinted[k].role = h[k]
  BY <1>1, <1>4, <1>5
<1> HIDE DEF hinted
<1>11. /\ others \in Seq(S) /\ IsFiniteSet(J) /\ Len(others) = Cardinality(J)
       /\ Range(others) = {tags[i] : i \in J}
  <2>1. J \in SUBSET (DOMAIN tags)
    OBVIOUS
  <2> HIDE DEF J
  <2> QED
    BY <2>1, OnlyFacts
<1> HIDE DEF others
<1>12. IsFiniteSet(DOMAIN tags) /\ Cardinality(DOMAIN tags) = n
  BY <1>1, FS_Interval
<1>13. IsFiniteSet(P) /\ Cardinality(P) \in Nat /\ Cardinality(J) = n - Cardinality(P)
  <2>1. J = DOMAIN tags \ P /\ DOMAIN tags \cap P = P /\ P \subseteq DOMAIN tags
    OBVIOUS
  <2>2. IsFiniteSet(P)
    BY <1>12, <2>1, FS_Subset
  <2> HIDE DEF J, P
  <2> QED
    BY <1>12, <2>1, <2>2, FS_Difference, FS_CardinalityType
<1>14. l <= Cardinality(P)
  <2> HIDE DEF P
  <2>1. at \in [DOMAIN h -> P]
    BY <1>8 DEF at
  <2>2. at \in Injection(DOMAIN h, P)
    BY <1>9, <2>1 DEF Injection, IsInjective
  <2>3. Cardinality(DOMAIN h) <= Cardinality(P)
    BY <1>13, <2>2, FS_Injection
  <2>4. Cardinality(DOMAIN h) = l
    <3>1. l \in Nat /\ DOMAIN h = 1 .. l
      BY <1>1
    <3>2. Cardinality(1 .. l) = l
      <4> HIDE <1>1
      <4> QED
        BY <3>1, FS_Interval
    <3> QED
      BY <3>1, <3>2
  <2> QED
    BY <2>3, <2>4
<1>15. Range(hinted) \cup Range(others) = Range(tags)
  <2>1. Range(tags) = {tags[i] : i \in DOMAIN tags}
    BY DEF Range
  <2> QED
    BY <1>7, <1>11, <2>1
<1>16. /\ o \in Seq(S) /\ Len(o) = l + Len(others) /\ Len(others) \in Nat
       /\ \A i \in 1 .. l : o[i] = hinted[i]
       /\ Range(o) = Range(tags)
  <2> DEFINE u == hinted  v == others
  <2>1. u \in Seq(S) /\ v \in Seq(S)
    BY <1>6, <1>11
  <2> HIDE DEF u, v
  <2>2. /\ u \o v \in Seq(S) /\ Len(v) \in Nat /\ Len(u \o v) = Len(u) + Len(v)
        /\ \A i \in 1 .. Len(u) : (u \o v)[i] = u[i]
        /\ Range(u \o v) = Range(u) \cup Range(v)
    BY <2>1, JoinFacts
  <2> QED
    BY <1>3, <1>6, <1>15, <2>2 DEF u, v
<1> HIDE DEF o, P, J
<1>17. Len(o) \in Nat /\ Len(o) <= n /\ l <= Len(o)
  <2> DEFINE a == Cardinality(P)  b == Len(others)  c == Len(o)
  <2>1. a \in Nat /\ b \in Nat /\ c = l + b /\ b = n - a /\ l <= a /\ n \in Nat /\ l \in Nat
    BY <1>1, <1>11, <1>13, <1>14, <1>16
  <2> HIDE DEF a, b, c
  <2>2. c \in Nat /\ c <= n /\ l <= c
    BY <2>1
  <2> QED
    BY <2>2 DEF c
<1>18. \A i \in 1 .. l : o[i].role = h[i]
  BY <1>10, <1>16
<1> QED
  BY <1>1, <1>16, <1>17, <1>18 DEF o, n, l

-----------------------------------------------------------------------------
(* The selection.                                                          *)
LEMMA SelectionFaithful ==
  ASSUME NEW m \in Models, NEW p \in Prompts
  PROVE  Faithful(m, p, Selection(m, p))
<1> DEFINE B == Best(m, p)
           s == Scored(m, p)
           n == EligibleCount(s)
           specific == Specific(m, p, s)
           c == Candidates(s)
           e == EligibleOf(c)
           scope == Scope(m, e, specific)
           measured == IF e = <<>> THEN scope.ids ELSE Range(e)
           assets == ScopeAssets(m, e, scope.ids)
           rels == Among(m.relationships, scope.ids)
           tags == Of(m.tags, measured)
           alarms == Of(m.alarms, measured)
           roles == RoleHints(tags, p)
           ordered == OrderedTags(tags, roles)
           A == Take(assets, AssetLimit)
           R == Take(rels, RelationshipLimit)
           T == Take(ordered, TagLimit)
           L == Take(alarms, AlarmLimit)
           cut == [candidates |-> Len(s) > Len(c) \/ n > Len(e),
                   assets |-> scope.cut \/ Len(assets) > AssetLimit,
                   relationships |-> Len(rels) > RelationshipLimit,
                   tags |-> Len(tags) > TagLimit,
                   alarms |-> Len(alarms) > AlarmLimit,
                   roles |-> FALSE, budget |-> FALSE]
           hints == TaskHints(p, roles)
           clarify == n > 1 \/ (specific /\ e = <<>>)
           o == Selection(m, p)
<1>1. o = [kind |-> "retrieval", terms |-> Cardinality(p.terms),
           hints |-> hints, roles |-> roles, specific |-> specific,
           clarify |-> clarify, eligible |-> e, eligible_count |-> n, candidates |-> c,
           assets |-> A, relationships |-> R, tags |-> T, alarms |-> L, truncated |-> cut]
  BY DEF Selection
<1>2. /\ s \in Seq(ScoredEntry)
      /\ Range(s) = {EntryOf(a, p) : a \in {b \in Range(m.assets) : Score(b, p) > 0}}
  BY ScoredFacts
<1>3. IsFiniteSet(B) /\ Cardinality(B) = n /\ B \subseteq Ids(m.assets)
  BY BestFacts
<1>4. /\ c \in Seq(Candidate) /\ Len(c) <= CandidateLimit /\ Len(c) <= Len(s)
      /\ \A i \in 1 .. Len(c) : c[i] = [id |-> s[i].id, eligible |-> IsEligible(s, s[i])]
      /\ e \in Seq(Nat) /\ Range(e) \subseteq B
      /\ Len(e) \in Nat /\ Len(e) <= n /\ Len(e) <= CandidateLimit
      /\ n \in Nat
      /\ B # {} => e # <<>>
      /\ n <= Len(e) => Range(e) = B
      /\ \A id \in Range(e) : [id |-> id, eligible |-> TRUE] \in Range(c)
  BY EligibleFacts
<1>5. /\ specific \in BOOLEAN
      /\ ~specific => \A i \in DOMAIN s : ~(s[i].score >= 80)
  BY DEF Specific
<1>6. hints \in SUBSET {"alarms", "overview"}
  BY DEF TaskHints
<1> HIDE DEF B, s, n, specific, c, e, hints
<1>7. /\ scope.ids \subseteq Ids(m.assets) /\ Range(e) \subseteq scope.ids
      /\ scope.cut \in BOOLEAN
      /\ e # <<>> /\ Cardinality(Range(e)) = 1 =>
           \A r \in Range(m.relationships) :
             Touches(r, Range(e)) => Inside(r, scope.ids) \/ scope.cut
  <2>1. Range(e) \subseteq Ids(m.assets)
    BY <1>3, <1>4
  <2> QED
    BY <1>4, <1>5, <2>1, ScopeFacts
<1> HIDE DEF scope
<1>8. /\ assets \in Seq(Entry) /\ Len(assets) \in Nat /\ Len(e) <= Len(assets)
      /\ DOMAIN assets = 1 .. Len(assets)
      /\ \A k \in 1 .. Len(e) : assets[k].id = e[k]
      /\ Ids(assets) = scope.ids
  <2> DEFINE ids == scope.ids
  <2>1. ids \subseteq Ids(m.assets) /\ Range(e) \subseteq ids
    BY <1>7
  <2> HIDE DEF ids
  <2> QED
    BY <1>4, <2>1, ScopeAssetsFacts DEF ids
<1>9. /\ rels \in Seq(Range(m.relationships))
      /\ Range(rels) = {r \in Range(m.relationships) : Inside(r, scope.ids)}
  BY ModelFacts, AmongFacts
<1>10. /\ tags \in Seq(Range(m.tags)) /\ Range(tags) = {t \in Range(m.tags) : t.asset \in measured}
       /\ alarms \in Seq(Range(m.alarms)) /\ Range(alarms) = {a \in Range(m.alarms) : a.asset \in measured}
  <2> HIDE DEF measured
  <2> QED
    BY ModelFacts, OfFacts
<1> HIDE DEF assets, rels, tags, alarms
<1>11. /\ roles \in Seq(Range(Roles)) /\ Distinct(roles)
       /\ Range(roles) = {role \in Range(Roles) : \E t \in Range(tags) : t.role = role /\ Named(t, p)}
  BY RoleHintsFacts
<1> HIDE DEF roles
<1>12. /\ ordered \in Seq(Range(m.tags)) /\ Len(ordered) \in Nat /\ Len(ordered) <= Len(tags)
       /\ Range(ordered) = Range(tags)
       /\ Len(roles) \in Nat /\ Len(roles) <= Len(ordered)
       /\ \A i \in 1 .. Len(roles) : ordered[i].role = roles[i]
  <2>1. \A k \in DOMAIN roles : \E t \in Range(tags) : t.role = roles[k]
    BY <1>11 DEF Range
  <2> DEFINE S == Range(m.tags)
  <2>2. tags \in Seq(S)
    BY <1>10
  <2> HIDE DEF S, ordered
  <2>3. OrderedTags(tags, roles) \in Seq(S)
        /\ Len(OrderedTags(tags, roles)) \in Nat /\ Len(OrderedTags(tags, roles)) <= Len(tags)
        /\ Range(OrderedTags(tags, roles)) = Range(tags)
        /\ Len(roles) \in Nat /\ Len(roles) <= Len(OrderedTags(tags, roles))
        /\ \A i \in 1 .. Len(roles) : OrderedTags(tags, roles)[i].role = roles[i]
    BY <1>11, <2>1, <2>2, OrderedTagsFacts
  <2> QED
    BY <2>3 DEF S, ordered
<1> HIDE DEF ordered
<1>13. /\ CandidateLimit \in Nat \ {0} /\ RelationshipLimit \in Nat /\ AlarmLimit \in Nat
       /\ AssetLimit \in Nat /\ CandidateLimit <= AssetLimit /\ TagLimit \in Nat
  BY RetrievalAssumption
<1>14. /\ A \in Seq(Entry) /\ Len(A) = (IF Len(assets) < AssetLimit THEN Len(assets) ELSE AssetLimit)
       /\ \A i \in 1 .. Len(A) : A[i] = assets[i]
       /\ Range(A) \subseteq Range(assets)
       /\ Len(assets) <= AssetLimit => A = assets
  BY <1>8, <1>13, TakeFacts
<1>15. /\ R \in Seq(Range(m.relationships)) /\ (Len(rels) <= RelationshipLimit => R = rels)
  BY <1>9, <1>13, TakeFacts
<1>16. /\ T \in Seq(Range(m.tags)) /\ Len(T) = (IF Len(ordered) < TagLimit THEN Len(ordered) ELSE TagLimit)
       /\ \A i \in 1 .. Len(T) : T[i] = ordered[i]
       /\ Range(T) \subseteq Range(ordered)
       /\ Len(ordered) <= TagLimit => T = ordered
  BY <1>12, <1>13, TakeFacts
<1>17. /\ L \in Seq(Range(m.alarms)) /\ (Len(alarms) <= AlarmLimit => L = alarms)
  BY <1>10, <1>13, TakeFacts
<1> HIDE DEF A, R, T, L
<1>18. cut \in [candidates : BOOLEAN, assets : BOOLEAN, relationships : BOOLEAN,
                tags : BOOLEAN, alarms : BOOLEAN, roles : BOOLEAN, budget : BOOLEAN]
  BY <1>7
<1>19. /\ cut.candidates = (Len(s) > Len(c) \/ n > Len(e))
       /\ cut.assets = (scope.cut \/ Len(assets) > AssetLimit)
       /\ cut.relationships = (Len(rels) > RelationshipLimit)
       /\ cut.tags = (Len(tags) > TagLimit)
       /\ cut.alarms = (Len(alarms) > AlarmLimit)
  OBVIOUS
<1> HIDE DEF cut, o
<1>20. /\ ~cut.assets => ~scope.cut /\ Len(assets) <= AssetLimit
       /\ ~cut.relationships => Len(rels) <= RelationshipLimit
       /\ ~cut.tags => Len(ordered) <= TagLimit
       /\ ~cut.alarms => Len(alarms) <= AlarmLimit
  <2> DEFINE la == Len(assets)  lr == Len(rels)  lt == Len(tags)  lo == Len(ordered)  ll == Len(alarms)
  <2>1. la \in Nat /\ lr \in Nat /\ lt \in Nat /\ lo \in Nat /\ ll \in Nat /\ lo <= lt
    BY <1>8, <1>9, <1>10, <1>12, LenProperties
  <2>2. /\ ~cut.assets => ~scope.cut /\ ~(la > AssetLimit)
        /\ ~cut.relationships => ~(lr > RelationshipLimit)
        /\ ~cut.tags => ~(lt > TagLimit)
        /\ ~cut.alarms => ~(ll > AlarmLimit)
    BY <1>19
  <2>3. /\ ~cut.assets => ~scope.cut /\ la <= AssetLimit
        /\ ~cut.relationships => lr <= RelationshipLimit
        /\ ~cut.tags => lo <= TagLimit
        /\ ~cut.alarms => ll <= AlarmLimit
    <3> HIDE DEF la, lr, lt, lo, ll
    <3> QED
      BY <1>13, <2>1, <2>2
  <2> QED
    BY <2>3
<1>21. /\ o.roles = roles /\ o.specific = specific /\ o.clarify = clarify
       /\ o.eligible = e /\ o.eligible_count = n /\ o.candidates = c
       /\ o.assets = A /\ o.relationships = R /\ o.tags = T /\ o.alarms = L /\ o.truncated = cut
  <2> HIDE DEF clarify
  <2> QED
    BY <1>1
<1>22. o \in Results(m)
  <2>1. Cardinality(p.terms) \in Nat /\ clarify \in BOOLEAN
    BY RetrievalAssumption, FS_CardinalityType, <1>5
  <2> DEFINE k == Cardinality(p.terms)
  <2> HIDE DEF clarify, k
  <2>2. o = [kind |-> "retrieval", terms |-> k,
             hints |-> hints, roles |-> roles, specific |-> specific,
             clarify |-> clarify, eligible |-> e, eligible_count |-> n, candidates |-> c,
             assets |-> A, relationships |-> R, tags |-> T, alarms |-> L, truncated |-> cut]
    BY <1>1 DEF k
  <2>3. k \in Nat
    BY <2>1 DEF k
  <2> QED
    BY <1>4, <1>5, <1>6, <1>11, <1>14, <1>15, <1>16, <1>17, <1>18, <2>1, <2>2, <2>3 DEF Results

<1> HIDE DEF clarify
<1>23. clarify = (n > 1 \/ (specific /\ e = <<>>))
  BY DEF clarify
<1>24. ~specific => \A a \in Range(m.assets) : Score(a, p) < 80
  <2> SUFFICES ASSUME ~specific, NEW a \in Range(m.assets), Score(a, p) >= 80
               PROVE  FALSE
    BY ScoreType
  <2>1. Score(a, p) \in Nat
    BY ScoreType
  <2>2. EntryOf(a, p) \in Range(s)
    BY <1>2, <2>1
  <2>3. PICK i \in DOMAIN s : s[i] = EntryOf(a, p)
    BY <2>2 DEF Range
  <2>4. s[i].score = Score(a, p)
    BY <2>3 DEF EntryOf
  <2> QED
    BY <1>5, <2>4
<1>25. Evaluated(m, p, o)
  <2>1. Best(m, p) = B
    BY DEF B
  <2> QED
    <3> DEFINE le == Len(e)
    <3>1. le \in Nat /\ n \in Nat /\ le <= n /\ (n > 1 \/ n <= 1)
      BY <1>4
    <3>2. o.eligible_count = n /\ o.eligible = e /\ o.clarify = clarify /\ o.specific = specific
      BY <1>21
    <3>3. ~clarify => n <= 1 /\ (specific => e # <<>>)
      BY <1>23, <3>1
    <3>4. n > 1 => clarify
      BY <1>23
    <3> QED
      BY <1>3, <1>4, <1>24, <2>1, <3>2, <3>3, <3>4 DEF Evaluated
<1>26. NamesCandidates(m, p, o)
  <2>1. ASSUME ~cut.candidates
        PROVE  Range(e) = B /\ \A a \in Range(m.assets) : Score(a, p) > 0 => a.id \in Ids(c)
    <3>1. Len(s) \in Nat /\ DOMAIN s = 1 .. Len(s) /\ Len(c) \in Nat /\ DOMAIN c = 1 .. Len(c)
      BY <1>2, <1>4, LenProperties
    <3> DEFINE lc == Len(c)  ls == Len(s)  le == Len(e)
    <3>2. ~(ls > lc) /\ ~(n > le)
      BY <1>19, <2>1
    <3>3. lc \in Nat /\ ls \in Nat /\ le \in Nat /\ DOMAIN s = 1 .. ls /\ DOMAIN c = 1 .. lc
      BY <1>4, <3>1
    <3>4. Range(e) = B
      BY <1>4, <3>2, <3>3
    <3>5. DOMAIN s \subseteq 1 .. Len(c) /\ 1 .. Len(c) = DOMAIN c
      <4> HIDE DEF ls, lc
      <4>1. 1 .. ls \subseteq 1 .. lc
        BY <3>2, <3>3
      <4> QED
        BY <3>3, <4>1 DEF lc
    <3>6. ASSUME NEW a \in Range(m.assets), Score(a, p) > 0
          PROVE  a.id \in Ids(c)
      <4>1. EntryOf(a, p) \in Range(s)
        BY <1>2, <3>6
      <4>2. PICK i \in DOMAIN s : s[i] = EntryOf(a, p)
        BY <4>1 DEF Range
      <4>3. s[i].id = a.id
        BY <4>2 DEF EntryOf
      <4>4. i \in DOMAIN c /\ i \in 1 .. Len(c)
        BY <3>5
      <4>5. c[i] = [id |-> s[i].id, eligible |-> IsEligible(s, s[i])]
        BY <1>4, <4>4
      <4>6. c[i].id = s[i].id
        BY <4>5
      <4> QED
        BY <4>3, <4>4, <4>6 DEF Ids
    <3> QED
      BY <3>4, <3>6
  <2>2. ASSUME NEW id \in Range(e)
        PROVE  id \in Ids(A) /\ [id |-> id, eligible |-> TRUE] \in Range(c)
    <3>1. PICK k \in DOMAIN e : e[k] = id
      BY DEF Range
    <3>2. k \in 1 .. Len(e)
      BY <1>4, LenProperties
    <3> DEFINE le == Len(e)  la == Len(assets)  l == Len(A)
    <3>3. le \in Nat /\ la \in Nat /\ le <= la /\ le <= CandidateLimit
      BY <1>4, <1>8
    <3>4. l = IF la < AssetLimit THEN la ELSE AssetLimit
      BY <1>14
    <3>5. k \in 1 .. l /\ k \in 1 .. le
      <4>1. k \in 1 .. le
        BY <3>2
      <4> HIDE DEF le, la, l
      <4> QED
        BY <1>13, <3>3, <3>4, <4>1
    <3>6. k \in DOMAIN A /\ A[k].id = id
      BY <1>8, <1>14, <3>1, <3>2, <3>5, LenProperties
    <3> QED
      BY <1>4, <3>6 DEF Ids
  <2>3. Best(m, p) = B
    BY DEF B
  <2> QED
    BY <1>21, <2>1, <2>2, <2>3 DEF NamesCandidates
<1>27. Ids(A) \subseteq scope.ids
  <2>1. ASSUME NEW i \in DOMAIN A
        PROVE  A[i].id \in Ids(assets)
    <3>1. A[i] \in Range(assets)
      BY <1>14 DEF Range
    <3> QED
      BY <3>1 DEF Range, Ids
  <2> QED
    BY <1>8, <2>1 DEF Ids
<1>28. NamesNeighbours(m, p, o)
  <2>1. ASSUME Cardinality(B) = 1, ~cut.assets, NEW r \in Range(m.relationships), Touches(r, B)
        PROVE  Inside(r, Ids(A))
    <3>1. B # {} /\ e # <<>> /\ Range(e) # {}
      <4>1. B # {}
        BY <2>1, FS_EmptySet
      <4>2. e # <<>>
        BY <1>4, <4>1
      <4> QED
        <5>1. DOMAIN e = 1 .. Len(e) /\ Len(e) # 0 /\ Len(e) \in Nat
          BY <1>4, <4>2, LenProperties, EmptySeq
        <5>2. 1 \in DOMAIN e
          BY <5>1
        <5> QED
          BY <4>1, <4>2, <5>2 DEF Range
    <3>2. PICK x : B = {x}
      BY <1>3, <2>1, FS_Singleton
    <3>3. Range(e) = B
      BY <1>4, <3>1, <3>2
    <3>4. Inside(r, scope.ids) \/ scope.cut
      BY <1>7, <2>1, <3>1, <3>3
    <3>5. ~scope.cut /\ Len(assets) <= AssetLimit
      BY <1>20, <2>1
    <3>6. Ids(A) = scope.ids
      BY <1>8, <1>14, <3>5
    <3> QED
      BY <3>4, <3>5, <3>6
  <2>2. ASSUME ~cut.relationships, NEW r \in Range(m.relationships), Inside(r, Ids(A))
        PROVE  r \in Range(R)
    <3>1. Inside(r, scope.ids)
      BY <1>27, <2>2 DEF Inside
    <3>2. r \in Range(rels)
      BY <1>9, <3>1
    <3> QED
      BY <1>15, <1>20, <2>2, <3>2
  <2>3. Best(m, p) = B
    BY DEF B
  <2> QED
    BY <1>21, <2>1, <2>2, <2>3 DEF NamesNeighbours, Touches, Inside
<1>29. NamesMeasurements(m, p, o)
  <2> SUFFICES ASSUME B # {}
               PROVE  /\ \A t \in Range(T) : t.asset \in B
                      /\ Range(e) = B =>
                           /\ ~cut.tags => \A t \in Range(m.tags) : t.asset \in B => t \in Range(T)
                           /\ ~cut.alarms => \A a \in Range(m.alarms) : a.asset \in B => a \in Range(L)
                           /\ NamedRoles(m, p, B) \subseteq Range(roles)
    BY <1>21 DEF NamesMeasurements, B
  <2>1. e # <<>> /\ measured = Range(e)
    BY <1>4
  <2> HIDE DEF measured
  <2>2. \A t \in Range(T) : t.asset \in B
    BY <1>4, <1>10, <1>12, <1>16, <2>1
  <2>3. ASSUME Range(e) = B, ~cut.tags, NEW t \in Range(m.tags), t.asset \in B
        PROVE  t \in Range(T)
    <3>1. t \in Range(ordered)
      BY <1>10, <1>12, <2>1, <2>3
    <3> QED
      BY <1>16, <1>20, <2>3, <3>1
  <2>4. ASSUME Range(e) = B, ~cut.alarms, NEW a \in Range(m.alarms), a.asset \in B
        PROVE  a \in Range(L)
    <3>1. a \in Range(alarms)
      BY <1>10, <2>1, <2>4
    <3> QED
      BY <1>17, <1>20, <2>4, <3>1
  <2>5. ASSUME Range(e) = B
        PROVE  NamedRoles(m, p, B) \subseteq Range(roles)
    <3> SUFFICES ASSUME NEW t \in Range(m.tags), t.asset \in B, Named(t, p)
                 PROVE  t.role \in Range(roles)
      BY DEF NamedRoles
    <3>1. t \in Range(tags)
      BY <1>10, <2>1, <2>5
    <3>2. t.role \in Range(Roles)
      BY ModelFacts
    <3> QED
      BY <1>11, <3>1, <3>2
  <2> QED
    BY <2>2, <2>3, <2>4, <2>5
<1>30. PairsRoles(o)
  <2> DEFINE lr == Len(roles)  lt == Len(T)  lo == Len(ordered)
  <2>1. lr \in Nat /\ lo \in Nat /\ lr <= lo
    BY <1>12
  <2>2. lt = IF lo < TagLimit THEN lo ELSE TagLimit
    BY <1>16
  <2>3. lr <= lt \/ lt = TagLimit
    <3> HIDE DEF lr, lt, lo
    <3> QED
      BY <1>13, <2>1, <2>2
  <2>4. ASSUME NEW i \in 1 .. lr, i <= lt
        PROVE  T[i].role = roles[i]
    <3>1. i \in 1 .. lt
      <4> HIDE DEF lr, lt, lo
      <4> QED
        BY <1>13, <2>1, <2>2, <2>4
    <3>2. T[i] = ordered[i]
      BY <1>16, <3>1
    <3>3. ordered[i].role = roles[i]
      BY <1>12
    <3> QED
      BY <3>2, <3>3
  <2> QED
    BY <1>11, <1>21, <2>3, <2>4 DEF PairsRoles
<1> QED
  BY <1>22, <1>25, <1>26, <1>28, <1>29, <1>30 DEF Faithful, o

LEMMA LeftReflexive ==
  ASSUME NEW m, NEW o \in Results(m)
  PROVE  Left(o, o)
<1>1. o.tags \in Seq(Range(m.tags)) /\ o.roles \in Seq(Range(Roles))
  BY DEF Results
<1>2. Len(o.tags) \in Nat /\ Len(o.roles) \in Nat
  BY <1>1, LenProperties
<1>3. Prefix(o.tags, o.tags) /\ Prefix(o.roles, o.roles)
  BY <1>2 DEF Prefix
<1> QED
  BY <1>3 DEF Left, SameRequest, ReportsMore, CandidatesLeft, AssetsLeft, RelationshipsLeft,
              AlarmsLeft, TagsLeft, RolesLeft, Partners, EligibleLeft

-----------------------------------------------------------------------------
(* The steps.                                                              *)
Removal ==
  \/ RemoveCandidate \/ RemoveAsset \/ RemoveRelationship \/ RemoveAlarm \/ RemoveTag
  \/ RemoveRole \/ RemoveAliases \/ RemoveTerm \/ RemoveEligible

LEMMA RemovalFacts ==
  ASSUME RetrievalInvariant, Removal
  PROVE  /\ stage = "fitting" /\ UNCHANGED <<model, prompt, stage, answer>>
         /\ Shrinks(model, Selection(model, prompt), result, result')
<1> DEFINE o == Selection(model, prompt)
<1>1. stage = "fitting" /\ UNCHANGED <<model, prompt, stage, answer>>
  BY DEF Removal, RemoveCandidate, RemoveAsset, RemoveRelationship, RemoveAlarm, RemoveTag,
         RemoveRole, RemoveAliases, RemoveTerm, RemoveEligible, Turn, Cut, request
<1>2. result \in Results(model) /\ Left(result, o)
  BY <1>1 DEF RetrievalInvariant
<1>3. o \in Results(model)
  BY SelectionFaithful DEF RetrievalInvariant, Faithful
<1> HIDE DEF o
<1>4. Shrinks(model, o, result, result')
  <2>1. CASE RemoveCandidate
    BY <1>2, <1>3, <2>1, RemoveCandidateStep
  <2>2. CASE RemoveAsset
    BY <1>2, <1>3, <2>2, RemoveAssetStep
  <2>3. CASE RemoveRelationship
    BY <1>2, <1>3, <2>3, RemoveRelationshipStep
  <2>4. CASE RemoveAlarm
    BY <1>2, <1>3, <2>4, RemoveAlarmStep
  <2>5. CASE RemoveTag
    BY <1>2, <1>3, <2>5, RemoveTagStep
  <2>6. CASE RemoveRole
    BY <1>2, <1>3, <2>6, RemoveRoleStep
  <2>7. CASE RemoveAliases
    BY <1>2, <1>3, <2>7, RemoveAliasesStep
  <2>8. CASE RemoveTerm
    BY <1>2, <1>3, <2>8, RemoveTermStep
  <2>9. CASE RemoveEligible
    BY <1>2, <1>3, <2>9, RemoveEligibleStep
  <2> QED
    BY <2>1, <2>2, <2>3, <2>4, <2>5, <2>6, <2>7, <2>8, <2>9 DEF Removal
<1> QED
  BY <1>1, <1>4 DEF o

LEMMA DecisionSupported ==
  ASSUME NEW reply, NEW interpreter, Decide(reply, interpreter), stage' = "accepted",
         reply.task \notin {Absent, Null} =>
           reply.task.anchor \in Ids(model.assets) \cup {NoAsset, UnknownAsset, Null}
  PROVE  Supported'
<1> DEFINE task == reply.task
           roles == IF task.roles = Absent THEN {} ELSE task.roles
<1>1. SchemaAccepts(reply) /\ reply.status = "ready" /\ ScopeAccepts(task) /\ task.anchor # UnknownAsset
  BY DEF Decide
<1>2. task \notin {Absent, Null} /\ task.anchor # Null
  BY <1>1 DEF SchemaAccepts
<1>3. task.anchor = NoAsset \/ task.anchor \in Ids(model.assets)
  BY <1>1, <1>2
<1>4. result' = result
  BY DEF Decide
<1>5. answer'.anchor = task.anchor /\ answer'.roles = roles
  BY DEF Decide
<1> HIDE DEF task, roles
<1>6. ~result.clarify /\ AnchorAccepted(task) /\ RolesAccepted(task)
  BY <1>1 DEF ScopeAccepts
<1>7. /\ task.anchor = NoAsset => ~result.specific
      /\ task.anchor # NoAsset => Contains(result.eligible, task.anchor)
  BY <1>3, <1>6 DEF AnchorAccepted
<1>8. /\ roles \subseteq {result.tags[i].role : i \in DOMAIN result.tags}
      /\ Range(result.roles) \subseteq roles
  <2>1. CASE task.roles = Absent
    <3>1. result.roles = <<>> /\ roles = {}
      BY <1>6, <2>1 DEF RolesAccepted, roles
    <3>2. Range(result.roles) = {}
      BY <3>1 DEF Range
    <3> QED
      BY <3>1, <3>2
  <2>2. CASE task.roles # Absent
    BY <1>6, <2>2 DEF RolesAccepted, roles
  <2> QED
    BY <2>1, <2>2
<1> QED
  BY <1>4, <1>5, <1>6, <1>7, <1>8 DEF Supported

LEMMA PlaceholdersRemoved ==
  ASSUME NEW m, NEW reply \in Replies(m)
  PROVE  LET plain == RemoveNullPlaceholders(reply)
         IN  plain.task \notin {Absent, Null} =>
               plain.task.anchor \in Ids(m.assets) \cup {NoAsset, UnknownAsset, Null}
<1> DEFINE plain == RemoveNullPlaceholders(reply)
           task == reply.task
           anchor == IF task.anchor = Null THEN NoAsset ELSE task.anchor
           roles == IF task.roles = {} THEN Absent ELSE task.roles
<1>1. task \in {Absent, Null} \cup RawTasks(m)
  BY DEF Replies
<1>2. CASE task \in {Absent, Null}
  BY <1>2 DEF RemoveNullPlaceholders, Replies
<1>3. CASE task \notin {Absent, Null}
  <2>1. task \in RawTasks(m)
    BY <1>1, <1>3
  <2> DEFINE new == [task EXCEPT !.anchor = anchor, !.roles = roles]
  <2>2. plain.task = new
    <3> DEFINE field == IF task \in {Absent, Null} THEN Absent ELSE new
    <3>1. plain = [reply EXCEPT !.message = IF @ = "null" THEN "absent" ELSE @, !.task = field]
      BY DEF RemoveNullPlaceholders
    <3>2. field = new
      BY <1>3
    <3> HIDE DEF new, plain, field
    <3> QED
      BY <3>1, <3>2 DEF Replies
  <2>3. new.anchor = anchor
    <3> HIDE DEF anchor, roles, task
    <3> QED
      BY <2>1 DEF RawTasks
  <2>4. anchor \in Ids(m.assets) \cup {NoAsset, UnknownAsset, Null}
    BY <2>1 DEF RawTasks
  <2> HIDE DEF anchor, new, plain
  <2> QED
    BY <2>2, <2>3, <2>4 DEF plain
<1> QED
  BY <1>2, <1>3

(* What is asked of an anchor, a rule's anchor fulfils.                    *)
LEMMA RuleAnchorAccepted ==
  ASSUME NEW task, NEW m, NEW p, NEW o, o \in Results(m), Evaluated(m, p, o),
         result \in Results(m), Left(result, o), ~result.clarify, task.anchor = RuleAnchor
  PROVE  AnchorAccepted(task)
<1> DEFINE n == Cardinality(Best(m, p))  e == result.eligible  k == Len(e)
<1>1. ~o.clarify /\ o.eligible_count = n /\ n \in Nat /\ o.specific = result.specific
  BY FS_CardinalityType DEF Evaluated, Left, ReportsMore, SameRequest
<1>2. n <= 1
  BY <1>1 DEF Evaluated
<1>3. e = o.eligible
  <2>1. e = o.eligible \/ n > 1
    BY <1>1 DEF Left, EligibleLeft
  <2> HIDE DEF n
  <2> QED
    BY <1>1, <1>2, <2>1
<1>4. e \in Seq(Nat) /\ k \in Nat /\ k <= n /\ (result.specific => e # <<>>)
  BY <1>1, <1>3, LenProperties DEF Results, Evaluated
<1>5. k = 0 \/ k = 1
  <2> HIDE DEF n, k
  <2> QED
    BY <1>1, <1>2, <1>4
<1>6. CASE k = 1
  <2>1. RuleAnchor = e[1] /\ 1 \in 1 .. Len(e) /\ 1 \in DOMAIN e
    BY <1>4, <1>6, LenProperties DEF RuleAnchor
  <2>2. e[1] \in Nat
    BY <1>4, <2>1, ElementOfSeq
  <2>3. task.anchor # NoAsset
    BY <2>1, <2>2, RetrievalAssumption
  <2>4. Contains(e, task.anchor)
    BY <2>1 DEF Contains
  <2> QED
    BY <2>3, <2>4 DEF AnchorAccepted
<1>7. CASE k = 0
  <2>1. e = <<>>
    BY <1>4, <1>7, EmptySeq
  <2>2. RuleAnchor = NoAsset
    BY <1>7 DEF RuleAnchor
  <2> QED
    BY <1>4, <2>1, <2>2 DEF AnchorAccepted
<1> QED
  BY <1>5, <1>6, <1>7

(* The roles that are left have tags that are left, as long as they are no *)
(* more than an interpretation may have.                                   *)
LEMMA RuleRolesAccepted ==
  ASSUME NEW task, NEW m, NEW o, o \in Results(m), PairsRoles(o),
         result \in Results(m), Left(result, o),
         task.roles = (IF result.roles = <<>> THEN Absent ELSE Range(result.roles)),
         result.roles # <<>> => Cardinality(Range(result.roles)) <= MaxRoles
  PROVE  RolesAccepted(task)
<1> DEFINE q == result.roles  t == result.tags  lq == Len(q)  lt == Len(t)
           lp == Len(o.roles)  lo == Len(o.tags)
<1>1. q \in Seq(Range(Roles)) /\ lq \in Nat /\ lt \in Nat /\ lp \in Nat /\ lo \in Nat
      /\ DOMAIN q = 1 .. lq /\ DOMAIN t = 1 .. lt /\ DOMAIN o.roles = 1 .. lp /\ DOMAIN o.tags = 1 .. lo
  <2>1. q \in Seq(Range(Roles)) /\ t \in Seq(Range(m.tags))
        /\ o.roles \in Seq(Range(Roles)) /\ o.tags \in Seq(Range(m.tags))
    BY DEF Results
  <2> QED
    BY <2>1, LenProperties
<1>2. CASE q = <<>>
  BY <1>2 DEF RolesAccepted
<1>3. CASE q # <<>>
  <2>1. task.roles = Range(q) /\ Range(q) \in SUBSET Range(Roles)
    BY <1>1, <1>3 DEF Range
  <2>2. Absent # Range(q)
    BY <2>1, RetrievalAssumption
  <2>3. /\ lq <= lp /\ \A i \in 1 .. lq : q[i] = o.roles[i]
        /\ lt <= lo /\ \A i \in 1 .. lt : t[i] = o.tags[i]
        /\ lq <= lt \/ t = o.tags
    BY DEF Left, RolesLeft, TagsLeft, Prefix, Partners
  <2>4. /\ \A i, j \in 1 .. lp : o.roles[i] = o.roles[j] => i = j
        /\ \A i \in 1 .. lp : i <= lo => o.tags[i].role = o.roles[i]
        /\ lp <= lo \/ lo = TagLimit
    BY <1>1 DEF PairsRoles, Distinct
  <2>5. Cardinality(Range(q)) = lq
    <3>1. q \in Bijection(1 .. lq, Range(q))
      <4>1. \A i, j \in 1 .. lq : q[i] = q[j] => i = j
        <5> HIDE DEF q, lq, lp
        <5> QED
          BY <1>1, <2>3, <2>4
      <4>2. q \in [1 .. lq -> Range(q)]
        BY <1>1, SeqDef DEF Range
      <4>3. \A x \in Range(q) : \E i \in 1 .. lq : q[i] = x
        BY <1>1 DEF Range
      <4> QED
        <5> DEFINE I == 1 .. lq
        <5>1. DOMAIN q = I
          BY <1>1
        <5> HIDE DEF q, I
        <5> QED
          BY <4>1, <4>2, <4>3, <5>1 DEF Bijection, Injection, Surjection, IsInjective, I
    <3>2. IsFiniteSet(1 .. lq) /\ Cardinality(1 .. lq) = lq
      <4> HIDE DEF lq
      <4> QED
        BY <1>1, FS_Interval
    <3> QED
      BY <3>1, <3>2, FS_Bijection DEF ExistsBijection
  <2>6. lq <= MaxRoles /\ MaxRoles \in Nat /\ TagLimit \in Nat /\ MaxRoles <= TagLimit
    BY <1>3, <2>5, RetrievalAssumption
  <2>7. lq <= lt
    <3>1. t = o.tags => lt = lo
      OBVIOUS
    <3> HIDE DEF q, t, lq, lt, lp, lo
    <3> QED
      BY <1>1, <2>3, <2>4, <2>6, <3>1
  <2>8. ASSUME NEW i \in 1 .. lq
        PROVE  i \in 1 .. lt /\ t[i].role = q[i]
    <3> HIDE DEF q, t, lq, lt, lp, lo
    <3>1. i \in 1 .. lt /\ i \in 1 .. lp /\ i <= lo
      BY <1>1, <2>3, <2>7
    <3> QED
      BY <2>3, <2>4, <3>1
  <2>9. Range(q) \subseteq {t[i].role : i \in DOMAIN t}
    BY <1>1, <2>8 DEF Range
  <2> QED
    BY <2>1, <2>2, <2>9 DEF RolesAccepted
<1> QED
  BY <1>2, <1>3

LEMMA RuleReplyAccepted ==
  ASSUME RetrievalInvariant, stage = "returned", ~RulesAsk, SchemaAccepts(RuleReply)
  PROVE  ScopeAccepts(RuleReply.task)
<1> DEFINE o == Selection(model, prompt)
           kind == CHOOSE x \in result.hints : TRUE
           roles == IF result.roles = <<>> THEN Absent ELSE Range(result.roles)
           task == [kind |-> kind, anchor |-> RuleAnchor, roles |-> roles]
<1>1. result \in Results(model) /\ Left(result, o) /\ model \in Models /\ prompt \in Prompts
  BY DEF RetrievalInvariant
<1>2. o \in Results(model) /\ Evaluated(model, prompt, o) /\ PairsRoles(o)
  BY <1>1, SelectionFaithful DEF Faithful
<1>3. ~result.clarify /\ Cardinality(result.hints) = 1
  BY DEF RulesAsk
<1>4. RuleReply.task = task
  BY DEF RuleReply
<1>5. kind \in result.hints
  <2>1. result.hints # {}
    BY <1>3, FS_EmptySet
  <2> QED
    BY <2>1
<1> HIDE DEF o, kind, roles
<1>6. task.kind = kind /\ task.anchor = RuleAnchor /\ task.roles = roles
  OBVIOUS
<1>7. result.roles # <<>> => Cardinality(Range(result.roles)) <= MaxRoles
  <2> SUFFICES ASSUME result.roles # <<>>
               PROVE  Cardinality(Range(result.roles)) <= MaxRoles
    OBVIOUS
  <2>1. roles = Range(result.roles)
    BY DEF roles
  <2>2. Range(result.roles) \in SUBSET Range(Roles)
    BY <1>1 DEF Results, Range
  <2>3. roles # Absent
    BY <2>1, <2>2, RetrievalAssumption
  <2>4. RuleReply.status = "ready"
    BY DEF RuleReply
  <2>5. Cardinality(roles) \in 1 .. MaxRoles
    BY <1>4, <1>6, <2>3, <2>4 DEF SchemaAccepts
  <2> QED
    BY <2>1, <2>5, RetrievalAssumption
<1> HIDE DEF task
<1>8. AnchorAccepted(task)
  BY <1>1, <1>2, <1>3, <1>6, RuleAnchorAccepted
<1>9. RolesAccepted(task)
  BY <1>1, <1>2, <1>6, <1>7, RuleRolesAccepted DEF roles
<1> QED
  BY <1>3, <1>4, <1>5, <1>6, <1>8, <1>9 DEF ScopeAccepts

-----------------------------------------------------------------------------
(* The invariant, and what it says.                                        *)
LEMMA InvariantInit ==
  ASSUME Init
  PROVE  RetrievalInvariant
BY DEF Init, RetrievalInvariant, RulesAreAccepted

(* A step that leaves request and result alone, and accepts nothing new.   *)
LEMMA InvariantKept ==
  ASSUME RetrievalInvariant, UNCHANGED <<request, result>>, stage # "received",
         stage' = "accepted" => Supported',
         RulesAreAccepted'
  PROVE  RetrievalInvariant'
<1>1. model' = model /\ prompt' = prompt /\ result' = result
  BY DEF request
<1>2. result \in Results(model) /\ Left(result, Selection(model, prompt))
      /\ model \in Models /\ prompt \in Prompts
  BY DEF RetrievalInvariant
<1>3. result' \in Results(model') /\ Left(result', Selection(model', prompt'))
      /\ model' \in Models /\ prompt' \in Prompts
  BY <1>1, <1>2
<1> QED
  BY <1>3 DEF RetrievalInvariant

LEMMA RuleAnchorDeclared ==
  ASSUME RetrievalInvariant, stage = "returned"
  PROVE  RuleAnchor = NoAsset \/ RuleAnchor \in Ids(model.assets)
<1> DEFINE o == Selection(model, prompt)  e == result.eligible
<1>1. result \in Results(model) /\ Left(result, o) /\ model \in Models /\ prompt \in Prompts
  BY DEF RetrievalInvariant
<1>2. Range(o.eligible) \subseteq Best(model, prompt)
  BY <1>1, SelectionFaithful DEF Faithful, Evaluated
<1>3. Best(model, prompt) \subseteq Ids(model.assets)
  BY <1>1, BestFacts
<1>4. Range(e) \subseteq Range(o.eligible)
  BY <1>1 DEF Left, EligibleLeft
<1>5. e \in Seq(Nat)
  BY <1>1 DEF Results
<1>6. CASE Len(e) = 1
  <2>1. 1 \in DOMAIN e
    BY <1>5, <1>6, LenProperties
  <2>2. RuleAnchor = e[1]
    BY <1>6 DEF RuleAnchor
  <2>3. e[1] \in Range(e)
    BY <2>1 DEF Range
  <2> QED
    BY <1>2, <1>3, <1>4, <2>2, <2>3
<1>7. CASE Len(e) # 1
  BY <1>7 DEF RuleAnchor
<1> QED
  BY <1>6, <1>7

LEMMA InvariantStep ==
  ASSUME RetrievalInvariant, [Next]_vars
  PROVE  RetrievalInvariant'
<1>1. CASE Select
  <2>1. model' = model /\ prompt' = prompt /\ stage' = "fitting" /\ result' = Selection(model, prompt)
    BY <1>1 DEF Select, request
  <2>2. model \in Models /\ prompt \in Prompts
    BY DEF RetrievalInvariant
  <2>3. Selection(model, prompt) \in Results(model)
    BY <2>2, SelectionFaithful DEF Faithful
  <2>4. Left(Selection(model, prompt), Selection(model, prompt))
    BY <2>3, LeftReflexive
  <2>5. result' \in Results(model') /\ Left(result', Selection(model', prompt'))
    BY <2>1, <2>3, <2>4
  <2> QED
    BY <2>1, <2>2, <2>5 DEF RetrievalInvariant, RulesAreAccepted
<1>2. CASE Removal
  <2>1. stage = "fitting" /\ stage' = stage /\ model' = model /\ prompt' = prompt
    BY <1>2, RemovalFacts
  <2>2. result' \in Results(model) /\ Left(result', Selection(model, prompt))
    BY <1>2, RemovalFacts DEF Shrinks
  <2>3. model \in Models /\ prompt \in Prompts
    BY DEF RetrievalInvariant
  <2>4. result' \in Results(model') /\ Left(result', Selection(model', prompt'))
    BY <2>1, <2>2
  <2> QED
    BY <2>1, <2>3, <2>4 DEF RetrievalInvariant, RulesAreAccepted
<1>3. CASE Return \/ Refuse \/ AskProvider \/ ProviderFails
  <2>1. UNCHANGED <<request, result>> /\ stage # "received"
        /\ stage' \in {"returned", "refused", "asked", "failed"}
    BY <1>3 DEF Return, Refuse, AskProvider, ProviderFails
  <2> QED
    BY <2>1, InvariantKept DEF RulesAreAccepted
<1>4. ASSUME NEW strict \in BOOLEAN, ProviderAnswers(strict)
      PROVE  RetrievalInvariant'
  <2>1. PICK reply \in Replies(model) :
          Decide(IF strict THEN RemoveNullPlaceholders(reply) ELSE reply, "provider")
    BY <1>4 DEF ProviderAnswers
  <2> DEFINE plain == IF strict THEN RemoveNullPlaceholders(reply) ELSE reply
  <2>2. plain.task \notin {Absent, Null} =>
          plain.task.anchor \in Ids(model.assets) \cup {NoAsset, UnknownAsset, Null}
    <3>1. CASE strict
      BY <3>1, PlaceholdersRemoved
    <3>2. CASE ~strict
      BY <3>2 DEF Replies, RawTasks
    <3> QED
      BY <3>1, <3>2
  <2>3. Decide(plain, "provider")
    BY <2>1
  <2> HIDE DEF plain
  <2>4. stage' = "accepted" => Supported'
    BY <2>2, <2>3, DecisionSupported
  <2>5. stage' # "accepted" => answer'.interpreter = "provider"
    BY <2>3 DEF Decide
  <2>6. UNCHANGED <<request, result>> /\ stage # "received"
    BY <1>4, <2>3 DEF Decide, ProviderAnswers
  <2> QED
    BY <2>4, <2>5, <2>6, InvariantKept DEF RulesAreAccepted
<1>5. CASE RulesAnswer
  <2>1. stage = "returned" /\ Decide(RuleReply, "rules")
    BY <1>5 DEF RulesAnswer
  <2>2. stage' # "mismatch"
    <3> SUFFICES ASSUME stage' = "mismatch"
                 PROVE  FALSE
      OBVIOUS
    <3>1. SchemaAccepts(RuleReply) /\ RuleReply.status = "ready" /\ ~ScopeAccepts(RuleReply.task)
      BY <2>1 DEF Decide
    <3>2. ~RulesAsk
      BY <3>1 DEF RuleReply
    <3> QED
      BY <2>1, <3>1, <3>2, RuleReplyAccepted
  <2>3. stage' = "accepted" => Supported'
    <3> SUFFICES ASSUME stage' = "accepted"
                 PROVE  Supported'
      OBVIOUS
    <3>1. RuleReply.status = "ready"
      BY <2>1 DEF Decide
    <3>2. RuleReply.task.anchor = RuleAnchor
      BY <3>1 DEF RuleReply
    <3>3. RuleAnchor = NoAsset \/ RuleAnchor \in Ids(model.assets)
      BY <2>1, RuleAnchorDeclared
    <3> QED
      BY <2>1, <3>2, <3>3, DecisionSupported
  <2>4. UNCHANGED <<request, result>>
    BY <2>1 DEF Decide
  <2> QED
    BY <2>1, <2>2, <2>3, <2>4, InvariantKept DEF RulesAreAccepted
<1>6. CASE UNCHANGED vars
  <2>1. model' = model /\ prompt' = prompt /\ stage' = stage /\ result' = result /\ answer' = answer
    BY <1>6 DEF vars
  <2> QED
    BY <2>1 DEF RetrievalInvariant, RulesAreAccepted, Supported
<1> QED
  BY <1>1, <1>2, <1>3, <1>4, <1>5, <1>6 DEF Next, Retrieve, Removal, Done

(* What can be read off the invariant of a result r that is left of o.     *)
LEMMA LeftFacts ==
  ASSUME NEW m, NEW p, NEW o, NEW r, Faithful(m, p, o), r \in Results(m), Left(r, o)
  PROVE  /\ Range(r.eligible) \subseteq Range(o.eligible) /\ Range(o.eligible) \subseteq Best(m, p)
         /\ ~r.clarify => ~o.clarify /\ r.roles = o.roles
         /\ r.specific = o.specific
         /\ Range(r.tags) \subseteq Range(o.tags)
         /\ ~r.truncated.candidates => ~o.truncated.candidates /\ Range(o.candidates) \subseteq Range(r.candidates)
         /\ ~r.truncated.assets => ~o.truncated.assets /\ Ids(o.assets) \subseteq Ids(r.assets)
         /\ Ids(r.assets) \subseteq Ids(o.assets)
         /\ ~r.truncated.relationships => ~o.truncated.relationships /\ r.relationships = o.relationships
         /\ ~r.truncated.tags => ~o.truncated.tags /\ r.tags = o.tags
         /\ ~r.truncated.alarms => ~o.truncated.alarms /\ r.alarms = o.alarms
         /\ ~r.truncated.roles => r.roles = o.roles
         /\ Range(r.eligible) \subseteq Ids(r.assets) \cap Ids(r.candidates)
<1>1. /\ Range(r.eligible) \subseteq Range(o.eligible) /\ Range(o.eligible) \subseteq Best(m, p)
      /\ ~r.clarify => ~o.clarify /\ r.roles = o.roles
      /\ r.specific = o.specific
  BY DEF Faithful, Evaluated, Left, EligibleLeft, ReportsMore, RolesLeft, SameRequest
<1>2. Range(r.tags) \subseteq Range(o.tags)
  <2> DEFINE s == r.tags  t == o.tags  k == Len(s)  l == Len(t)
  <2>1. s \in Seq(Range(m.tags)) /\ t \in Seq(Range(m.tags))
    BY DEF Faithful, Results
  <2>2. k \in Nat /\ l \in Nat /\ DOMAIN s = 1 .. k /\ DOMAIN t = 1 .. l
    BY <2>1, LenProperties
  <2>3. k <= l /\ \A i \in 1 .. k : s[i] = t[i]
    BY DEF Left, TagsLeft, Prefix
  <2>4. 1 .. k \subseteq 1 .. l
    <3> HIDE DEF k, l
    <3> QED
      BY <2>2, <2>3
  <2> HIDE DEF s, t, k, l
  <2>5. Range(s) \subseteq Range(t)
    BY <2>2, <2>3, <2>4 DEF Range
  <2> QED
    BY <2>5 DEF s, t
<1>3. /\ ~r.truncated.candidates => ~o.truncated.candidates /\ Range(o.candidates) \subseteq Range(r.candidates)
      /\ ~r.truncated.assets => ~o.truncated.assets /\ Ids(o.assets) \subseteq Ids(r.assets)
      /\ Ids(r.assets) \subseteq Ids(o.assets)
  BY DEF Left, ReportsMore, CandidatesLeft, AssetsLeft
<1>4. /\ ~r.truncated.relationships => ~o.truncated.relationships /\ r.relationships = o.relationships
      /\ ~r.truncated.tags => ~o.truncated.tags /\ r.tags = o.tags
      /\ ~r.truncated.alarms => ~o.truncated.alarms /\ r.alarms = o.alarms
      /\ ~r.truncated.roles => r.roles = o.roles
  BY DEF Left, ReportsMore, RelationshipsLeft, TagsLeft, AlarmsLeft, RolesLeft
<1>5. ASSUME NEW id \in Range(r.eligible)
      PROVE  id \in Ids(r.assets) /\ id \in Ids(r.candidates)
  <2>1. id \in Ids(o.assets) /\ [id |-> id, eligible |-> TRUE] \in Range(o.candidates)
    BY <1>1, <1>5 DEF Faithful, NamesCandidates
  <2>2. id \in Ids(r.assets)
    BY <1>5, <2>1 DEF Left, AssetsLeft
  <2> DEFINE c == [id |-> id, eligible |-> TRUE]
  <2>3. c.id = id /\ c.eligible
    OBVIOUS
  <2> HIDE DEF c
  <2>4. c \in Range(r.candidates)
    BY <2>1, <2>3 DEF c, Left, CandidatesLeft
  <2> QED
    BY <2>2, <2>3, <2>4 DEF Ids, Range
<1> QED
  BY <1>1, <1>2, <1>3, <1>4, <1>5

LEMMA InRange ==
  ASSUME NEW S, NEW s \in Seq(S), NEW e
  PROVE  Contains(s, e) <=> e \in Range(s)
BY LenProperties DEF Contains, Range

LEMMA AcceptedMatches ==
  ASSUME RetrievalInvariant
  PROVE  AcceptedMatchesRequest
<1> DEFINE B == Best(model, prompt)  o == Selection(model, prompt)
<1> SUFFICES ASSUME stage = "accepted"
             PROVE  /\ Cardinality(B) <= 1
                    /\ answer.anchor # NoAsset => B = {answer.anchor}
                    /\ answer.anchor = NoAsset => \A a \in Range(model.assets) : Score(a, prompt) < 80
                    /\ NamedRoles(model, prompt, B) \subseteq answer.roles
                    /\ B # {} => answer.roles \subseteq
                         {t.role : t \in {u \in Range(model.tags) : u.asset \in B}}
  BY DEF AcceptedMatchesRequest
<1>1. /\ model \in Models /\ prompt \in Prompts /\ Supported
      /\ result \in Results(model) /\ Left(result, o)
  BY DEF RetrievalInvariant
<1>2. Faithful(model, prompt, o)
  BY <1>1, SelectionFaithful
<1> HIDE DEF B, o
<1>3. /\ Range(result.eligible) \subseteq Range(o.eligible) /\ Range(o.eligible) \subseteq B
      /\ ~o.clarify /\ result.roles = o.roles /\ result.specific = o.specific
      /\ Range(result.tags) \subseteq Range(o.tags)
  BY <1>1, <1>2, LeftFacts DEF B, Supported
<1>4. /\ IsFiniteSet(B) /\ Cardinality(B) <= 1
      /\ B # {} => o.eligible # <<>>
      /\ ~o.specific => \A a \in Range(model.assets) : Score(a, prompt) < 80
  BY <1>2, <1>3 DEF Faithful, Evaluated, B
<1>5. ASSUME NEW x \in B
      PROVE  B = {x}
  <2>1. Cardinality(B) \in Nat /\ Cardinality(B) # 0
    BY <1>4, FS_CardinalityType, FS_EmptySet
  <2>2. Cardinality(B) = 1
    BY <1>4, <2>1
  <2> QED
    BY <1>4, <2>2, FS_Singleton
<1>6. answer.anchor # NoAsset => B = {answer.anchor}
  <2> SUFFICES ASSUME answer.anchor # NoAsset
               PROVE  B = {answer.anchor}
    OBVIOUS
  <2>1. result.eligible \in Seq(Nat)
    BY <1>1 DEF Results
  <2>2. answer.anchor \in Range(result.eligible)
    BY <1>1, <2>1, InRange DEF Supported
  <2> QED
    BY <1>3, <1>5, <2>2
<1>7. answer.anchor = NoAsset => \A a \in Range(model.assets) : Score(a, prompt) < 80
  BY <1>1, <1>3, <1>4 DEF Supported
<1>8. B # {} => Range(o.eligible) = B
  <2> SUFFICES ASSUME B # {}
               PROVE  Range(o.eligible) = B
    OBVIOUS
  <2>1. o.eligible \in Seq(Nat) /\ o.eligible # <<>>
    BY <1>2, <1>4 DEF Faithful, Results
  <2>2. DOMAIN o.eligible = 1 .. Len(o.eligible) /\ Len(o.eligible) \in Nat /\ Len(o.eligible) # 0
    BY <2>1, LenProperties, EmptySeq
  <2>3. o.eligible[1] \in Range(o.eligible)
    BY <2>2 DEF Range
  <2> QED
    BY <1>3, <1>5, <2>3
<1>9. NamedRoles(model, prompt, B) \subseteq answer.roles
  <2>1. CASE B = {}
    BY <2>1 DEF NamedRoles
  <2>2. CASE B # {}
    BY <1>1, <1>2, <1>3, <1>8, <2>2 DEF Faithful, NamesMeasurements, Supported, B
  <2> QED
    BY <2>1, <2>2
<1>10. ASSUME B # {}, NEW role \in answer.roles
       PROVE  role \in {t.role : t \in {u \in Range(model.tags) : u.asset \in B}}
  <2>1. PICK i \in DOMAIN result.tags : role = result.tags[i].role
    BY <1>1, <1>10 DEF Supported
  <2> DEFINE t == result.tags[i]
  <2>2. t \in Range(result.tags) /\ t \in Range(o.tags)
    BY <1>3 DEF Range
  <2>3. t \in Range(model.tags)
    <3>1. result.tags \in Seq(Range(model.tags))
      BY <1>1 DEF Results
    <3> QED
      BY <3>1, ElementOfSeq, LenProperties
  <2>4. t.asset \in B
    BY <1>2, <1>10, <2>2 DEF Faithful, NamesMeasurements, B
  <2> QED
    BY <2>1, <2>3, <2>4
<1> QED
  BY <1>4, <1>6, <1>7, <1>9, <1>10

LEMMA OmissionsReported ==
  ASSUME RetrievalInvariant
  PROVE  OmissionsAreReported
<1> DEFINE B == Best(model, prompt)  o == Selection(model, prompt)  cut == result.truncated
           neighbours == UNION {{r.from, r.to} : r \in
                           {q \in Range(model.relationships) : {q.from, q.to} \cap B # {}}}
<1> SUFFICES ASSUME stage \in {"returned", "accepted", "clarified"}
             PROVE  /\ (\E a \in Range(model.assets) :
                          Score(a, prompt) > 0 /\ a.id \notin Ids(result.candidates)) => cut.candidates
                    /\ (Cardinality(B) = 1 /\ ~(neighbours \subseteq Ids(result.assets))) => cut.assets
                    /\ (\E r \in Range(model.relationships) :
                          {r.from, r.to} \subseteq Ids(result.assets)
                          /\ ~Contains(result.relationships, r)) => cut.relationships
                    /\ (\E t \in Range(model.tags) : t.asset \in B /\ ~Contains(result.tags, t)) =>
                         cut.tags \/ cut.candidates
                    /\ (\E a \in Range(model.alarms) : a.asset \in B /\ ~Contains(result.alarms, a)) =>
                         cut.alarms \/ cut.candidates
                    /\ ~(NamedRoles(model, prompt, B) \subseteq Range(result.roles)) =>
                         cut.roles \/ cut.candidates
                    /\ Range(result.eligible) \subseteq Ids(result.assets) \cap Ids(result.candidates)
  BY DEF OmissionsAreReported
<1>1. /\ model \in Models /\ prompt \in Prompts
      /\ result \in Results(model) /\ Left(result, o)
  BY DEF RetrievalInvariant
<1>2. Faithful(model, prompt, o)
  BY <1>1, SelectionFaithful
<1> HIDE DEF B, o, cut
<1>3. /\ ~cut.candidates => ~o.truncated.candidates /\ Range(o.candidates) \subseteq Range(result.candidates)
      /\ ~cut.assets => ~o.truncated.assets /\ Ids(o.assets) \subseteq Ids(result.assets)
      /\ Ids(result.assets) \subseteq Ids(o.assets)
      /\ ~cut.relationships => ~o.truncated.relationships /\ result.relationships = o.relationships
      /\ ~cut.tags => ~o.truncated.tags /\ result.tags = o.tags
      /\ ~cut.alarms => ~o.truncated.alarms /\ result.alarms = o.alarms
      /\ ~cut.roles => result.roles = o.roles
      /\ Range(result.eligible) \subseteq Ids(result.assets) \cap Ids(result.candidates)
  BY <1>1, <1>2, LeftFacts DEF cut
<1>4. /\ result.relationships \in Seq(Range(model.relationships))
      /\ result.tags \in Seq(Range(model.tags)) /\ result.alarms \in Seq(Range(model.alarms))
  BY <1>1 DEF Results
<1>5. ASSUME ~cut.candidates
      PROVE  /\ Range(o.eligible) = B
             /\ \A a \in Range(model.assets) : Score(a, prompt) > 0 => a.id \in Ids(result.candidates)
  <2>1. /\ Range(o.eligible) = B
        /\ \A a \in Range(model.assets) : Score(a, prompt) > 0 => a.id \in Ids(o.candidates)
    BY <1>2, <1>3, <1>5 DEF Faithful, NamesCandidates, B
  <2>2. Ids(o.candidates) \subseteq Ids(result.candidates)
    BY <1>3, <1>5 DEF Ids, Range
  <2> QED
    BY <2>1, <2>2
<1>6. ASSUME Cardinality(B) = 1, ~cut.assets
      PROVE  neighbours \subseteq Ids(result.assets)
  <2>1. ASSUME NEW r \in Range(model.relationships), {r.from, r.to} \cap B # {}
        PROVE  {r.from, r.to} \subseteq Ids(result.assets)
    BY <1>2, <1>3, <1>6, <2>1 DEF Faithful, NamesNeighbours, B
  <2> QED
    BY <2>1
<1>7. ASSUME ~cut.relationships, NEW r \in Range(model.relationships),
             {r.from, r.to} \subseteq Ids(result.assets)
      PROVE  Contains(result.relationships, r)
  <2>1. r \in Range(result.relationships)
    BY <1>2, <1>3, <1>7 DEF Faithful, NamesNeighbours
  <2> QED
    BY <1>4, <2>1, InRange
<1>8. ASSUME ~cut.tags, ~cut.candidates, NEW t \in Range(model.tags), t.asset \in B
      PROVE  Contains(result.tags, t)
  <2>1. t \in Range(result.tags)
    BY <1>2, <1>3, <1>5, <1>8 DEF Faithful, NamesMeasurements, B
  <2> QED
    BY <1>4, <2>1, InRange
<1>9. ASSUME ~cut.alarms, ~cut.candidates, NEW a \in Range(model.alarms), a.asset \in B
      PROVE  Contains(result.alarms, a)
  <2>1. a \in Range(result.alarms)
    BY <1>2, <1>3, <1>5, <1>9 DEF Faithful, NamesMeasurements, B
  <2> QED
    BY <1>4, <2>1, InRange
<1>10. ASSUME ~cut.roles, ~cut.candidates
       PROVE  NamedRoles(model, prompt, B) \subseteq Range(result.roles)
  <2>1. CASE B = {}
    BY <2>1 DEF NamedRoles
  <2>2. CASE B # {}
    BY <1>2, <1>3, <1>5, <1>10, <2>2 DEF Faithful, NamesMeasurements, B
  <2> QED
    BY <2>1, <2>2
<1> HIDE DEF neighbours
<1> QED
  BY <1>3, <1>5, <1>6, <1>7, <1>8, <1>9, <1>10

-----------------------------------------------------------------------------
THEOREM RetrievalInvariantHolds ==
  Spec => []RetrievalInvariant
<1>1. Init => RetrievalInvariant
  BY InvariantInit
<1>2. RetrievalInvariant /\ [Next]_vars => RetrievalInvariant'
  BY InvariantStep
<1> QED
  BY <1>1, <1>2, PTL DEF Spec

(* For every model, request and budget, an interpretation that is accepted *)
(* is what was asked for: ScopeAccepts looks at the evidence that retrieve *)
(* returned, and whatever its limits and its loop have cut away, the       *)
(* anchor is the one asset of the whole model that matches best, a request *)
(* that names an asset has an anchor, and the roles are those it names.    *)
THEOREM AcceptedInterpretationsMatch ==
  Spec => []AcceptedMatchesRequest
BY RetrievalInvariantHolds, AcceptedMatches, PTL

(* The rules never contradict the evidence they read: their anchor is an   *)
(* eligible asset, or there is none and the request names none, and every  *)
(* role that is still hinted has its tag in the evidence, because the loop *)
(* takes tags only while there are more of them than roles.                *)
THEOREM RulesNeverMismatch ==
  Spec => []RulesAreAccepted
<1>1. RetrievalInvariant => RulesAreAccepted
  BY DEF RetrievalInvariant
<1> QED
  BY <1>1, RetrievalInvariantHolds, PTL

(* Whatever retrieve() leaves out, by a limit or in its loop, one of the   *)
(* truncated flags of the result says so, and an asset that it calls       *)
(* eligible keeps its entry and its candidate.                             *)
THEOREM NothingIsLeftOutSilently ==
  Spec => []OmissionsAreReported
BY RetrievalInvariantHolds, OmissionsReported, PTL

(* Every iteration of the loop of retrieve() makes the result smaller, so  *)
(* that it returns or refuses after as many iterations as the selection    *)
(* has entries.                                                            *)
THEOREM EveryCutShrinksTheResult ==
  Spec => LoopShrinksResult
<1> DEFINE Smaller == stage = "fitting" => stage' # "fitting" \/ Size(result') < Size(result)
<1>1. ASSUME RetrievalInvariant, Next
      PROVE  Smaller
  <2>1. CASE Removal
    BY <1>1, <2>1, RemovalFacts DEF Shrinks
  <2>2. CASE Return \/ Refuse
    BY <2>2 DEF Return, Refuse
  <2>3. CASE ~Removal /\ ~(Return \/ Refuse)
    BY <1>1, <2>3 DEF Next, Retrieve, Removal, Select, AskProvider, ProviderFails, ProviderAnswers,
                      RulesAnswer, Done
  <2> QED
    BY <2>1, <2>2, <2>3
<1>2. RetrievalInvariant /\ [Next]_vars => [Smaller]_vars
  BY <1>1
<1> QED
  BY <1>2, RetrievalInvariantHolds, PTL DEF Spec, LoopShrinksResult
=============================================================================
