-------------------------- MODULE Orderbook_proofs --------------------------
(***************************************************************************)
(* The order book keeps its tree, its map of prices and its levels in      *)
(* step, and the walk of the matcher over them is a queue by price and     *)
(* time, for all orders and prices.                                        *)
(***************************************************************************)
EXTENDS Orderbook, SequenceTheorems, FiniteSetTheorems, NaturalsInduction,
        WellFoundedInduction, TLAPS

\* Every non-empty set of numbers has a least one.
LEMMA Least ==
  ASSUME NEW S \in SUBSET Nat, S # {}
  PROVE  \E n \in S : \A m \in Nat : m < n => m \notin S
<1>1. PICK n \in S : \A m \in SetLessThan(n, OpToRel(<, Nat), Nat) : m \notin S
  BY NatLessThanWellFounded, WFMin DEF SetLessThan
<1> QED
  BY <1>1 DEF SetLessThan, OpToRel

-----------------------------------------------------------------------------
(***************************************************************************)
(* Sorted sequences. An order is a set of pairs.                           *)
(***************************************************************************)

Elements(s) == {s[i] : i \in 1..Len(s)}

SortedBy(s, R) == \A i, j \in 1..Len(s) : i < j => <<s[i], s[j]>> \in R

Strict(R) == \A x, y : <<x, y>> \in R => <<y, x>> \notin R

\* There is one way to sort a set by a strict order.
LEMMA SortedUnique ==
  ASSUME NEW T, NEW s \in Seq(T), NEW t \in Seq(T), NEW R, Strict(R),
         SortedBy(s, R), SortedBy(t, R), Elements(s) = Elements(t)
  PROVE  s = t
<1>1. Len(s) \in Nat /\ Len(t) \in Nat
  BY LenProperties
<1>2. \A i, j \in 1..Len(s) : i < j => s[i] # s[j]
  BY DEF SortedBy, Strict
<1>3. \A i, j \in 1..Len(t) : i < j => t[i] # t[j]
  BY DEF SortedBy, Strict
<1>4. \A i \in 1..Len(s) : \E k \in 1..Len(t) : s[i] = t[k]
  BY DEF Elements
<1>5. \A i \in 1..Len(t) : \E k \in 1..Len(s) : t[i] = s[k]
  BY DEF Elements
<1> DEFINE Bad == {i \in 1..Len(s) : i > Len(t) \/ s[i] # t[i]}
<1>6. ASSUME Bad # {} PROVE FALSE
  <2>1. PICK i \in Bad : \A m \in Nat : m < i => m \notin Bad
    <3>1. Bad \in SUBSET Nat
      BY <1>1
    <3> HIDE DEF Bad
    <3> QED
      BY <1>6, <3>1, Least
  <2>2. \A m \in 1..(i - 1) : m <= Len(t) /\ s[m] = t[m]
    BY <1>1, <2>1
  <2>3. PICK k \in 1..Len(t) : s[i] = t[k]
    BY <1>4
  <2>4. k >= i
    BY <1>1, <1>2, <2>2, <2>3
  <2>5. i \in 1..Len(t) /\ s[i] # t[i]
    BY <1>1, <2>3, <2>4
  <2>6. <<t[i], s[i]>> \in R
    BY <1>1, <2>3, <2>4, <2>5 DEF SortedBy
  <2>7. PICK m \in 1..Len(s) : t[i] = s[m]
    BY <1>5, <2>5
  <2>8. m > i
    BY <1>1, <1>3, <2>2, <2>5, <2>7
  <2>9. <<s[i], t[i]>> \in R
    BY <1>1, <2>7, <2>8 DEF SortedBy
  <2> QED
    BY <2>6, <2>9 DEF Strict
<1>7. \A i \in 1..Len(s) : i <= Len(t) /\ s[i] = t[i]
  BY <1>1, <1>6
<1>8. Len(t) = Len(s)
  <2> SUFFICES ASSUME Len(s) < Len(t) PROVE FALSE
    <3>1. Len(s) <= Len(t)
      <4>1. CASE Len(s) = 0
        BY <1>1, <4>1
      <4>2. CASE Len(s) # 0
        BY <1>1, <1>7, <4>2
      <4> QED
        BY <4>1, <4>2
    <3> QED
      BY <1>1, <3>1
  <2>1. Len(t) \in 1..Len(t)
    BY <1>1
  <2>2. PICK k \in 1..Len(s) : t[Len(t)] = s[k]
    BY <1>5, <2>1
  <2>3. s[k] = t[k] /\ k \in 1..Len(t) /\ k < Len(t)
    BY <1>1, <1>7, <2>2
  <2> QED
    BY <1>3, <2>1, <2>2, <2>3
<1> QED
  BY <1>7, <1>8, SeqEqual

\* A sequence with one element more
LEMMA Inserted ==
  ASSUME NEW T, NEW q \in Seq(T), NEW k \in 0..Len(q), NEW e \in T
  PROVE  /\ InsertAt(q, k + 1, e) \in Seq(T)
         /\ Len(InsertAt(q, k + 1, e)) = Len(q) + 1
         /\ \A i \in 1..(Len(q) + 1) : InsertAt(q, k + 1, e)[i] =
              IF i <= k THEN q[i] ELSE IF i = k + 1 THEN e ELSE q[i - 1]
<1>1. Len(q) \in Nat /\ k \in Nat /\ k <= Len(q) /\ \A i \in 1..Len(q) : q[i] \in T
  BY LenProperties, ElementOfSeq
<1>2. PICK a : a = SubSeq(q, 1, k)
  OBVIOUS
<1>3. PICK b : b = SubSeq(q, k + 1, Len(q))
  OBVIOUS
<1>4. a \in Seq(T) /\ Len(a) = k /\ \A i \in 1..k : a[i] = q[i]
  <2>1. \A i \in 1..k : q[i] \in T
    BY <1>1
  <2>2. /\ SubSeq(q, 1, k) \in Seq(T)
        /\ Len(SubSeq(q, 1, k)) = IF 1 <= k THEN k - 1 + 1 ELSE 0
        /\ \A i \in 1..(k - 1 + 1) : SubSeq(q, 1, k)[i] = q[1 + i - 1]
    BY <1>1, <2>1, SubSeqProperties
  <2> QED
    BY <1>1, <1>2, <2>2
<1>5. b \in Seq(T) /\ Len(b) = Len(q) - k /\ \A i \in 1..(Len(q) - k) : b[i] = q[k + i]
  <2>1. \A i \in (k + 1)..Len(q) : q[i] \in T
    BY <1>1
  <2>2. /\ SubSeq(q, k + 1, Len(q)) \in Seq(T)
        /\ Len(SubSeq(q, k + 1, Len(q))) = IF k + 1 <= Len(q) THEN Len(q) - (k + 1) + 1 ELSE 0
        /\ \A i \in 1..(Len(q) - (k + 1) + 1) : SubSeq(q, k + 1, Len(q))[i] = q[(k + 1) + i - 1]
    <3>1. k + 1 \in Int /\ Len(q) \in Int
      BY <1>1
    <3> QED
      BY <2>1, <3>1, SubSeqProperties
  <2> QED
    BY <1>1, <1>3, <2>2
<1>6. <<e>> \in Seq(T) /\ Len(<<e>>) = 1 /\ <<e>>[1] = e
  OBVIOUS
<1>7. PICK c : c = a \o <<e>>
  OBVIOUS
<1>8. c \in Seq(T) /\ Len(c) = k + 1 /\ \A i \in 1..(k + 1) : c[i] = IF i <= k THEN q[i] ELSE e
  <2>1. /\ a \o <<e>> \in Seq(T) /\ Len(a \o <<e>>) = k + 1
        /\ \A i \in 1..(k + 1) : (a \o <<e>>)[i] = IF i <= k THEN a[i] ELSE <<e>>[i - k]
    BY <1>4, <1>6, ConcatProperties
  <2> QED
    BY <1>1, <1>4, <1>6, <1>7, <2>1
<1>9. InsertAt(q, k + 1, e) = c \o b
  <2>1. InsertAt(q, k + 1, e) = SubSeq(q, 1, (k + 1) - 1) \o <<e>> \o SubSeq(q, k + 1, Len(q))
    BY DEF InsertAt
  <2>2. (k + 1) - 1 = k
    BY <1>1
  <2> QED
    BY <1>2, <1>3, <1>7, <2>1, <2>2
<1>10. /\ c \o b \in Seq(T) /\ Len(c \o b) = Len(q) + 1
       /\ \A i \in 1..(Len(q) + 1) : (c \o b)[i] = IF i <= k + 1 THEN c[i] ELSE b[i - (k + 1)]
  <2>1. /\ c \o b \in Seq(T) /\ Len(c \o b) = Len(c) + Len(b)
        /\ \A i \in 1..(Len(c) + Len(b)) : (c \o b)[i] = IF i <= Len(c) THEN c[i] ELSE b[i - Len(c)]
    BY <1>5, <1>8, ConcatProperties
  <2>2. Len(c) + Len(b) = Len(q) + 1
    BY <1>1, <1>5, <1>8
  <2> QED
    BY <1>8, <2>1, <2>2
<1>11. \A i \in 1..(Len(q) + 1) : (c \o b)[i] =
              IF i <= k THEN q[i] ELSE IF i = k + 1 THEN e ELSE q[i - 1]
  <2> SUFFICES ASSUME NEW i \in 1..(Len(q) + 1)
               PROVE  (c \o b)[i] = IF i <= k THEN q[i] ELSE IF i = k + 1 THEN e ELSE q[i - 1]
    OBVIOUS
  <2>1. CASE i <= k + 1
    <3>1. i \in 1..(k + 1) /\ (c \o b)[i] = c[i]
      BY <1>1, <1>10, <2>1
    <3> QED
      BY <1>1, <1>8, <3>1
  <2>2. CASE ~(i <= k + 1)
    <3>1. (c \o b)[i] = b[i - (k + 1)]
      BY <1>10, <2>2
    <3>2. i - (k + 1) \in 1..(Len(q) - k) /\ k + (i - (k + 1)) = i - 1
      BY <1>1, <2>2
    <3>3. b[i - (k + 1)] = q[i - 1]
      BY <1>5, <3>2
    <3>4. ~(i <= k) /\ i # k + 1
      BY <1>1, <2>2
    <3> QED
      BY <3>1, <3>3, <3>4
  <2> QED
    BY <2>1, <2>2
<1>12. PICK d : d = c \o b
  OBVIOUS
<1>13. /\ d \in Seq(T)
       /\ Len(d) = Len(q) + 1
       /\ \A i \in 1..(Len(q) + 1) : d[i] =
            IF i <= k THEN q[i] ELSE IF i = k + 1 THEN e ELSE q[i - 1]
  BY <1>10, <1>11, <1>12
<1>14. InsertAt(q, k + 1, e) = d
  BY <1>9, <1>12
<1> QED
  BY <1>13, <1>14, Zenon

\* A sequence with one element less
LEMMA Removed ==
  ASSUME NEW T, NEW q \in Seq(T), NEW k \in 1..Len(q)
  PROVE  /\ RemoveAt(q, k) \in Seq(T)
         /\ Len(RemoveAt(q, k)) = Len(q) - 1
         /\ \A i \in 1..(Len(q) - 1) : RemoveAt(q, k)[i] = IF i < k THEN q[i] ELSE q[i + 1]
<1>1. Len(q) \in Nat /\ k \in Nat /\ 1 <= k /\ k <= Len(q) /\ \A i \in 1..Len(q) : q[i] \in T
  BY LenProperties, ElementOfSeq
<1>2. PICK a : a = SubSeq(q, 1, k - 1)
  OBVIOUS
<1>3. PICK b : b = SubSeq(q, k + 1, Len(q))
  OBVIOUS
<1>4. a \in Seq(T) /\ Len(a) = k - 1 /\ \A i \in 1..(k - 1) : a[i] = q[i]
  <2>1. \A i \in 1..(k - 1) : q[i] \in T
    BY <1>1
  <2>2. /\ SubSeq(q, 1, k - 1) \in Seq(T)
        /\ Len(SubSeq(q, 1, k - 1)) = IF 1 <= k - 1 THEN (k - 1) - 1 + 1 ELSE 0
        /\ \A i \in 1..((k - 1) - 1 + 1) : SubSeq(q, 1, k - 1)[i] = q[1 + i - 1]
    <3>1. 1 \in Int /\ k - 1 \in Int
      BY <1>1
    <3> QED
      BY <2>1, <3>1, SubSeqProperties
  <2> QED
    BY <1>1, <1>2, <2>2
<1>5. b \in Seq(T) /\ Len(b) = Len(q) - k /\ \A i \in 1..(Len(q) - k) : b[i] = q[k + i]
  <2>1. \A i \in (k + 1)..Len(q) : q[i] \in T
    BY <1>1
  <2>2. /\ SubSeq(q, k + 1, Len(q)) \in Seq(T)
        /\ Len(SubSeq(q, k + 1, Len(q))) = IF k + 1 <= Len(q) THEN Len(q) - (k + 1) + 1 ELSE 0
        /\ \A i \in 1..(Len(q) - (k + 1) + 1) : SubSeq(q, k + 1, Len(q))[i] = q[(k + 1) + i - 1]
    <3>1. k + 1 \in Int /\ Len(q) \in Int
      BY <1>1
    <3> QED
      BY <2>1, <3>1, SubSeqProperties
  <2> QED
    BY <1>1, <1>3, <2>2
<1>6. RemoveAt(q, k) = a \o b
  BY <1>2, <1>3 DEF RemoveAt
<1>7. /\ a \o b \in Seq(T) /\ Len(a \o b) = Len(a) + Len(b)
      /\ \A i \in 1..(Len(a) + Len(b)) : (a \o b)[i] = IF i <= Len(a) THEN a[i] ELSE b[i - Len(a)]
  BY <1>4, <1>5, ConcatProperties
<1>8. Len(a) + Len(b) = Len(q) - 1
  BY <1>1, <1>4, <1>5
<1>9. \A i \in 1..(Len(q) - 1) : (a \o b)[i] = IF i < k THEN q[i] ELSE q[i + 1]
  <2> SUFFICES ASSUME NEW i \in 1..(Len(q) - 1)
               PROVE  (a \o b)[i] = IF i < k THEN q[i] ELSE q[i + 1]
    OBVIOUS
  <2>1. (a \o b)[i] = IF i <= k - 1 THEN a[i] ELSE b[i - (k - 1)]
    BY <1>4, <1>7, <1>8
  <2>2. CASE i < k
    <3>1. i \in 1..(k - 1) /\ i <= k - 1
      BY <1>1, <2>2
    <3> QED
      BY <1>4, <2>1, <2>2, <3>1
  <2>3. CASE ~(i < k)
    <3>1. i - (k - 1) \in 1..(Len(q) - k) /\ k + (i - (k - 1)) = i + 1 /\ ~(i <= k - 1)
      BY <1>1, <2>3
    <3> QED
      BY <1>5, <2>1, <2>3, <3>1
  <2> QED
    BY <2>2, <2>3
<1> QED
  BY <1>6, <1>7, <1>8, <1>9

\* Where to insert: behind the elements that e does not precede
LEMMA Cut ==
  ASSUME NEW T, NEW q \in Seq(T), NEW R, NEW e,
         \A i, j \in 1..Len(q) : i < j /\ <<e, q[i]>> \in R => <<e, q[j]>> \in R
  PROVE  \E k \in 0..Len(q) : \A i \in 1..Len(q) : i <= k <=> <<e, q[i]>> \notin R
<1>1. Len(q) \in Nat
  BY LenProperties
<1> DEFINE After == {i \in 1..(Len(q) + 1) : i <= Len(q) => <<e, q[i]>> \in R}
<1>2. PICK m \in After : \A i \in Nat : i < m => i \notin After
  <2>1. After \in SUBSET Nat /\ Len(q) + 1 \in After
    BY <1>1
  <2> HIDE DEF After
  <2> QED
    BY <2>1, Least
<1>3. m - 1 \in 0..Len(q)
  BY <1>1
<1>4. ASSUME NEW i \in 1..Len(q) PROVE i <= m - 1 <=> <<e, q[i]>> \notin R
  <2>1. CASE i <= m - 1
    BY <1>1, <1>2, <2>1
  <2>2. CASE ~(i <= m - 1)
    <3>1. m \in 1..Len(q) /\ <<e, q[m]>> \in R /\ (m < i \/ m = i)
      BY <1>1, <2>2
    <3> QED
      BY <2>2, <3>1
  <2> QED
    BY <2>1, <2>2
<1> QED
  BY <1>3, <1>4

\* An element that goes behind those before it and ahead of the others keeps
\* the sequence sorted.
LEMMA InsertedSorted ==
  ASSUME NEW T, NEW q \in Seq(T), NEW k \in 0..Len(q), NEW e \in T, NEW R,
         SortedBy(q, R),
         \A i \in 1..Len(q) : IF i <= k THEN <<q[i], e>> \in R ELSE <<e, q[i]>> \in R
  PROVE  /\ InsertAt(q, k + 1, e) \in Seq(T)
         /\ SortedBy(InsertAt(q, k + 1, e), R)
         /\ Elements(InsertAt(q, k + 1, e)) = Elements(q) \cup {e}
<1>1. Len(q) \in Nat
  BY LenProperties
<1>2. PICK d : d = InsertAt(q, k + 1, e)
  OBVIOUS
<1>3. /\ d \in Seq(T)
      /\ Len(d) = Len(q) + 1
      /\ \A i \in 1..(Len(q) + 1) : d[i] =
           IF i <= k THEN q[i] ELSE IF i = k + 1 THEN e ELSE q[i - 1]
  <2>1. /\ InsertAt(q, k + 1, e) \in Seq(T)
        /\ Len(InsertAt(q, k + 1, e)) = Len(q) + 1
        /\ \A i \in 1..(Len(q) + 1) : InsertAt(q, k + 1, e)[i] =
             IF i <= k THEN q[i] ELSE IF i = k + 1 THEN e ELSE q[i - 1]
    BY Inserted
  <2> QED
    BY <1>2, <2>1, Zenon
<1>4. SortedBy(d, R)
  <2> SUFFICES ASSUME NEW i \in 1..(Len(q) + 1), NEW j \in 1..(Len(q) + 1), i < j
               PROVE  <<d[i], d[j]>> \in R
    BY <1>3 DEF SortedBy
  <2>1. CASE j <= k
    <3>1. i \in 1..Len(q) /\ j \in 1..Len(q) /\ d[i] = q[i] /\ d[j] = q[j]
      BY <1>1, <1>3, <2>1
    <3> QED
      BY <3>1 DEF SortedBy
  <2>2. CASE j = k + 1
    <3>1. d[i] = q[i] /\ d[j] = e /\ i <= k /\ i \in 1..Len(q)
      BY <1>1, <1>3, <2>2
    <3> QED
      BY <3>1
  <2>3. CASE j > k + 1 /\ i <= k
    BY <1>1, <1>3, <2>3 DEF SortedBy
  <2>4. CASE j > k + 1 /\ i = k + 1
    <3>1. d[i] = e /\ d[j] = q[j - 1] /\ j - 1 \in 1..Len(q) /\ ~(j - 1 <= k)
      BY <1>1, <1>3, <2>4
    <3> QED
      BY <3>1
  <2>5. CASE j > k + 1 /\ i > k + 1
    <3>1. i - 1 \in 1..Len(q) /\ j - 1 \in 1..Len(q) /\ i - 1 < j - 1
      BY <1>1, <2>5
    <3>2. d[i] = q[i - 1] /\ d[j] = q[j - 1]
      BY <1>1, <1>3, <2>5
    <3> QED
      BY <3>1, <3>2 DEF SortedBy
  <2> QED
    BY <1>1, <2>1, <2>2, <2>3, <2>4, <2>5
<1>5. Elements(d) = Elements(q) \cup {e}
  <2>1. ASSUME NEW i \in 1..(Len(q) + 1) PROVE d[i] \in Elements(q) \cup {e}
    <3>1. CASE i <= k
      <4>1. i \in 1..Len(q) /\ d[i] = q[i]
        BY <1>1, <1>3, <3>1
      <4> QED
        BY <4>1 DEF Elements
    <3>2. CASE i = k + 1
      BY <1>1, <1>3, <3>2
    <3>3. CASE i > k + 1
      <4>1. i - 1 \in 1..Len(q) /\ d[i] = q[i - 1]
        BY <1>1, <1>3, <3>3
      <4> QED
        BY <4>1 DEF Elements
    <3> QED
      BY <1>1, <3>1, <3>2, <3>3
  <2>2. ASSUME NEW i \in 1..Len(q) PROVE q[i] \in Elements(d)
    <3>1. CASE i <= k
      <4>1. i \in 1..Len(d) /\ d[i] = q[i]
        BY <1>1, <1>3, <3>1
      <4> QED
        BY <4>1 DEF Elements
    <3>2. CASE ~(i <= k)
      <4>1. i + 1 \in 1..Len(d) /\ d[i + 1] = q[i]
        BY <1>1, <1>3, <3>2
      <4> QED
        BY <4>1 DEF Elements
    <3> QED
      BY <3>1, <3>2
  <2>3. e \in Elements(d)
    <3>1. k + 1 \in 1..Len(d) /\ d[k + 1] = e
      BY <1>1, <1>3
    <3> QED
      BY <3>1 DEF Elements
  <2> QED
    BY <1>3, <2>1, <2>2, <2>3 DEF Elements
<1> QED
  BY <1>2, <1>3, <1>4, <1>5, Zenon

\* A sorted sequence stays sorted, and loses one element, without one of its
\* places.
LEMMA RemovedSorted ==
  ASSUME NEW T, NEW q \in Seq(T), NEW k \in 1..Len(q), NEW R, Strict(R), SortedBy(q, R)
  PROVE  /\ RemoveAt(q, k) \in Seq(T)
         /\ SortedBy(RemoveAt(q, k), R)
         /\ Elements(RemoveAt(q, k)) = Elements(q) \ {q[k]}
<1>1. Len(q) \in Nat
  BY LenProperties
<1>2. PICK d : d = RemoveAt(q, k)
  OBVIOUS
<1>3. /\ d \in Seq(T)
      /\ Len(d) = Len(q) - 1
      /\ \A i \in 1..(Len(q) - 1) : d[i] = IF i < k THEN q[i] ELSE q[i + 1]
  BY <1>2, Removed, Zenon
<1>4. SortedBy(d, R)
  <2> SUFFICES ASSUME NEW i \in 1..(Len(q) - 1), NEW j \in 1..(Len(q) - 1), i < j
               PROVE  <<d[i], d[j]>> \in R
    BY <1>3 DEF SortedBy
  <2>1. PICK m \in 1..Len(q) : m = (IF i < k THEN i ELSE i + 1) /\ d[i] = q[m]
    BY <1>1, <1>3
  <2>2. PICK n \in 1..Len(q) : n = (IF j < k THEN j ELSE j + 1) /\ d[j] = q[n]
    BY <1>1, <1>3
  <2>3. m < n
    BY <1>1, <2>1, <2>2
  <2> QED
    BY <2>1, <2>2, <2>3 DEF SortedBy
<1>5. ASSUME NEW i \in 1..Len(q), i # k PROVE q[i] # q[k]
  <2>1. CASE i < k
    BY <2>1 DEF SortedBy, Strict
  <2>2. CASE k < i
    BY <2>2 DEF SortedBy, Strict
  <2> QED
    BY <1>1, <1>5, <2>1, <2>2
<1>6. Elements(d) = Elements(q) \ {q[k]}
  <2>1. ASSUME NEW i \in 1..(Len(q) - 1) PROVE d[i] \in Elements(q) \ {q[k]}
    <3>1. CASE i < k
      <4>1. i \in 1..Len(q) /\ d[i] = q[i] /\ i # k
        BY <1>1, <1>3, <3>1
      <4> QED
        BY <1>5, <4>1 DEF Elements
    <3>2. CASE ~(i < k)
      <4>1. i + 1 \in 1..Len(q) /\ d[i] = q[i + 1] /\ i + 1 # k
        BY <1>1, <1>3, <3>2
      <4> QED
        BY <1>5, <4>1 DEF Elements
    <3> QED
      BY <3>1, <3>2
  <2>2. ASSUME NEW i \in 1..Len(q), i # k PROVE q[i] \in Elements(d)
    <3>1. CASE i < k
      <4>1. i \in 1..Len(d) /\ d[i] = q[i]
        BY <1>1, <1>3, <3>1
      <4> QED
        BY <4>1 DEF Elements
    <3>2. CASE ~(i < k)
      <4>1. i - 1 \in 1..Len(d) /\ d[i - 1] = q[i]
        BY <1>1, <1>3, <2>2, <3>2
      <4> QED
        BY <4>1 DEF Elements
    <3> QED
      BY <3>1, <3>2
  <2> QED
    BY <1>3, <2>1, <2>2 DEF Elements
<1> QED
  BY <1>2, <1>3, <1>4, <1>6, Zenon

\* Two sorted sequences, one before the other
LEMMA Concatenated ==
  ASSUME NEW T, NEW a \in Seq(T), NEW b \in Seq(T), NEW R,
         SortedBy(a, R), SortedBy(b, R),
         \A x \in Elements(a), y \in Elements(b) : <<x, y>> \in R
  PROVE  /\ a \o b \in Seq(T)
         /\ SortedBy(a \o b, R)
         /\ Elements(a \o b) = Elements(a) \cup Elements(b)
<1>1. Len(a) \in Nat /\ Len(b) \in Nat
  BY LenProperties
<1>2. PICK c : c = a \o b
  OBVIOUS
<1>3. /\ c \in Seq(T) /\ Len(c) = Len(a) + Len(b)
      /\ \A i \in 1..(Len(a) + Len(b)) : c[i] = IF i <= Len(a) THEN a[i] ELSE b[i - Len(a)]
  BY <1>2, ConcatProperties
<1>4. SortedBy(c, R)
  <2> SUFFICES ASSUME NEW i \in 1..(Len(a) + Len(b)), NEW j \in 1..(Len(a) + Len(b)), i < j
               PROVE  <<c[i], c[j]>> \in R
    BY <1>3 DEF SortedBy
  <2>1. CASE j <= Len(a)
    <3>1. i \in 1..Len(a) /\ j \in 1..Len(a) /\ c[i] = a[i] /\ c[j] = a[j]
      BY <1>1, <1>3, <2>1
    <3> QED
      BY <3>1 DEF SortedBy
  <2>2. CASE i <= Len(a) /\ ~(j <= Len(a))
    <3>1. i \in 1..Len(a) /\ j - Len(a) \in 1..Len(b) /\ c[i] = a[i] /\ c[j] = b[j - Len(a)]
      BY <1>1, <1>3, <2>2
    <3> QED
      BY <3>1 DEF Elements
  <2>3. CASE ~(i <= Len(a))
    <3>1. i - Len(a) \in 1..Len(b) /\ j - Len(a) \in 1..Len(b) /\ i - Len(a) < j - Len(a)
      BY <1>1, <2>3
    <3>2. c[i] = b[i - Len(a)] /\ c[j] = b[j - Len(a)]
      BY <1>1, <1>3, <2>3
    <3> QED
      BY <3>1, <3>2 DEF SortedBy
  <2> QED
    BY <1>1, <2>1, <2>2, <2>3
<1>5. Elements(c) = Elements(a) \cup Elements(b)
  <2>1. ASSUME NEW i \in 1..(Len(a) + Len(b)) PROVE c[i] \in Elements(a) \cup Elements(b)
    <3>1. CASE i <= Len(a)
      <4>1. i \in 1..Len(a) /\ c[i] = a[i]
        BY <1>1, <1>3, <3>1
      <4> QED
        BY <4>1 DEF Elements
    <3>2. CASE ~(i <= Len(a))
      <4>1. i - Len(a) \in 1..Len(b) /\ c[i] = b[i - Len(a)]
        BY <1>1, <1>3, <3>2
      <4> QED
        BY <4>1 DEF Elements
    <3> QED
      BY <3>1, <3>2
  <2>2. ASSUME NEW i \in 1..Len(a) PROVE a[i] \in Elements(c)
    <3>1. i \in 1..Len(c) /\ c[i] = a[i]
      BY <1>1, <1>3
    <3> QED
      BY <3>1 DEF Elements
  <2>3. ASSUME NEW i \in 1..Len(b) PROVE b[i] \in Elements(c)
    <3>1. i + Len(a) \in 1..Len(c) /\ ~(i + Len(a) <= Len(a)) /\ (i + Len(a)) - Len(a) = i
      BY <1>1, <1>3
    <3>2. c[i + Len(a)] = b[i]
      BY <1>1, <1>3, <3>1
    <3> QED
      BY <3>1, <3>2 DEF Elements
  <2> QED
    BY <1>3, <2>1, <2>2, <2>3 DEF Elements
<1> QED
  BY <1>2, <1>3, <1>4, <1>5, Zenon

\* h[i] is the concatenation of the first i sequences of ss.
Flattened(ss, n, h) ==
  h = [i \in 1..n |-> IF i = 1 THEN ss[i] ELSE h[i - 1] \o ss[i]]

\* The recursion of FlattenSeq defines a function.
LEMMA FlattenedExists ==
  ASSUME NEW ss, NEW n \in Nat
  PROVE  \E h : Flattened(ss, n, h)
<1> DEFINE Bad == {k \in 0..n : ~ \E h : Flattened(ss, k, h)}
<1>1. ASSUME Bad # {} PROVE FALSE
  <2>1. PICK k \in Bad : \A m \in Nat : m < k => m \notin Bad
    <3>1. Bad \in SUBSET Nat
      OBVIOUS
    <3> HIDE DEF Bad
    <3> QED
      BY <1>1, <3>1, Least
  <2>2. k # 0
    <3>1. Flattened(ss, 0, [i \in 1..0 |-> ss])
      BY DEF Flattened
    <3> QED
      BY <3>1
  <2>3. k - 1 \in 0..n /\ k - 1 < k
    BY <2>2
  <2>4. PICK h : Flattened(ss, k - 1, h)
    BY <2>1, <2>3
  <2> DEFINE g == [i \in 1..k |-> IF i = k THEN IF k = 1 THEN ss[k] ELSE h[k - 1] \o ss[k]
                                  ELSE h[i]]
  <2>5. Flattened(ss, k, g)
    <3>1. \A i \in 1..(k - 1) : h[i] = IF i = 1 THEN ss[i] ELSE h[i - 1] \o ss[i]
      BY <2>4 DEF Flattened
    <3>2. ASSUME NEW i \in 1..k PROVE g[i] = IF i = 1 THEN ss[i] ELSE g[i - 1] \o ss[i]
      <4>1. CASE i = 1
        <5>1. CASE k = 1
          BY <4>1, <5>1
        <5>2. CASE k # 1
          <6>1. 1 \in 1..(k - 1)
            BY <2>2, <5>2
          <6> QED
            BY <3>1, <4>1, <5>2, <6>1
        <5> QED
          BY <5>1, <5>2
      <4>2. CASE i # 1 /\ i = k
        <5>1. g[k] = h[k - 1] \o ss[k]
          BY <4>2
        <5>2. k - 1 \in 1..k /\ k - 1 # k
          BY <4>2
        <5>3. g[k - 1] = h[k - 1]
          BY <5>2
        <5> QED
          BY <4>2, <5>1, <5>3
      <4>3. CASE i # 1 /\ i # k
        <5>1. i \in 1..(k - 1) /\ i - 1 \in 1..k /\ i - 1 # k
          BY <4>3
        <5> QED
          BY <3>1, <4>3, <5>1
      <4> QED
        BY <4>1, <4>2, <4>3
    <3> QED
      BY <3>2 DEF Flattened
  <2> QED
    BY <2>5
<1>2. n \in 0..n
  OBVIOUS
<1> QED
  BY <1>1, <1>2

\* The concatenation of sorted blocks, each before the next, is sorted.
LEMMA FlattenSorted ==
  ASSUME NEW T, NEW ss \in Seq(Seq(T)), NEW R,
         \A i \in 1..Len(ss) : SortedBy(ss[i], R),
         \A i, j \in 1..Len(ss) : i < j =>
           \A x \in Elements(ss[i]), y \in Elements(ss[j]) : <<x, y>> \in R
  PROVE  /\ FlattenSeq(ss) \in Seq(T)
         /\ SortedBy(FlattenSeq(ss), R)
         /\ Elements(FlattenSeq(ss)) = UNION {Elements(ss[i]) : i \in 1..Len(ss)}
<1>1. Len(ss) \in Nat /\ \A i \in 1..Len(ss) : ss[i] \in Seq(T)
  BY LenProperties, ElementOfSeq
<1>2. CASE Len(ss) = 0
  <2>1. FlattenSeq(ss) = ss /\ ss = <<>>
    BY <1>2, EmptySeq DEF FlattenSeq
  <2>2. <<>> \in Seq(T) /\ Elements(<<>>) = {} /\ SortedBy(<<>>, R)
    BY DEF Elements, SortedBy
  <2>3. UNION {Elements(ss[i]) : i \in 1..Len(ss)} = {}
    BY <1>2
  <2> QED
    BY <2>1, <2>2, <2>3, Zenon
<1>3. CASE Len(ss) # 0
  <2> DEFINE h == CHOOSE f : Flattened(ss, Len(ss), f)
  <2>1. FlattenSeq(ss) = h[Len(ss)]
    BY <1>3 DEF FlattenSeq, Flattened
  <2>2. Flattened(ss, Len(ss), h)
    BY <1>1, FlattenedExists
  <2> HIDE DEF h
  <2>3. \A i \in 1..Len(ss) : h[i] = IF i = 1 THEN ss[i] ELSE h[i - 1] \o ss[i]
    BY <2>2 DEF Flattened
  <2> DEFINE Good(i) == /\ h[i] \in Seq(T)
                        /\ SortedBy(h[i], R)
                        /\ Elements(h[i]) = UNION {Elements(ss[j]) : j \in 1..i}
             Bad == {i \in 1..Len(ss) : ~Good(i)}
  <2>4. ASSUME Bad # {} PROVE FALSE
    <3>1. PICK k \in Bad : \A m \in Nat : m < k => m \notin Bad
      <4>1. Bad \in SUBSET Nat
        BY <1>1
      <4> HIDE DEF Bad
      <4> QED
        BY <2>4, <4>1, Least
    <3>2. CASE k = 1
      <4>1. h[1] = ss[1] /\ 1 \in 1..Len(ss)
        BY <2>3, <3>2
      <4>2. UNION {Elements(ss[j]) : j \in 1..1} = Elements(ss[1])
        OBVIOUS
      <4> QED
        BY <1>1, <3>1, <3>2, <4>1, <4>2
    <3>3. CASE k # 1
      <4>1. k \in 1..Len(ss) /\ k - 1 \in 1..Len(ss) /\ k - 1 < k /\ k - 1 \in Nat
        BY <1>1, <3>3
      <4>2. Good(k - 1)
        BY <3>1, <4>1
      <4>3. h[k] = h[k - 1] \o ss[k]
        BY <2>3, <3>3, <4>1
      <4>4. ASSUME NEW x \in Elements(h[k - 1]), NEW y \in Elements(ss[k]) PROVE <<x, y>> \in R
        <5>1. PICK j \in 1..(k - 1) : x \in Elements(ss[j])
          BY <4>2
        <5>2. j \in 1..Len(ss) /\ j < k
          BY <1>1, <4>1
        <5> QED
          BY <4>1, <5>1, <5>2
      <4>5. h[k] \in Seq(T) /\ SortedBy(h[k], R) /\ Elements(h[k]) = Elements(h[k - 1]) \cup Elements(ss[k])
        <5>1. ss[k] \in Seq(T) /\ SortedBy(ss[k], R)
          BY <1>1, <4>1
        <5>2. h[k - 1] \in Seq(T) /\ SortedBy(h[k - 1], R)
          BY <4>2
        <5>3. /\ h[k - 1] \o ss[k] \in Seq(T) /\ SortedBy(h[k - 1] \o ss[k], R)
              /\ Elements(h[k - 1] \o ss[k]) = Elements(h[k - 1]) \cup Elements(ss[k])
          <6>1. PICK a : a = h[k - 1]
            OBVIOUS
          <6>2. PICK b : b = ss[k]
            OBVIOUS
          <6>3. a \in Seq(T) /\ b \in Seq(T) /\ SortedBy(a, R) /\ SortedBy(b, R)
            BY <5>1, <5>2, <6>1, <6>2
          <6>4. \A x \in Elements(a), y \in Elements(b) : <<x, y>> \in R
            BY <4>4, <6>1, <6>2
          <6>5. /\ a \o b \in Seq(T) /\ SortedBy(a \o b, R)
                /\ Elements(a \o b) = Elements(a) \cup Elements(b)
            BY <6>3, <6>4, Concatenated
          <6> QED
            BY <6>1, <6>2, <6>5, Zenon
        <5> QED
          BY <4>3, <5>3, Zenon
      <4>6. UNION {Elements(ss[j]) : j \in 1..k} = (UNION {Elements(ss[j]) : j \in 1..(k - 1)}) \cup Elements(ss[k])
        <5>1. 1..k = 1..(k - 1) \cup {k}
          BY <4>1
        <5>2. \A j : j \in 1..k <=> j \in 1..(k - 1) \/ j = k
          BY <5>1
        <5>3. ASSUME NEW x
              PROVE  (\E j \in 1..k : x \in Elements(ss[j]))
                       <=> (\E j \in 1..(k - 1) : x \in Elements(ss[j])) \/ x \in Elements(ss[k])
          BY <5>2, Zenon
        <5>4. PICK A : A = UNION {Elements(ss[j]) : j \in 1..k}
          OBVIOUS
        <5>5. PICK B : B = UNION {Elements(ss[j]) : j \in 1..(k - 1)}
          OBVIOUS
        <5>6. \A x : x \in A <=> \E j \in 1..k : x \in Elements(ss[j])
          BY <5>4
        <5>7. \A x : x \in B <=> \E j \in 1..(k - 1) : x \in Elements(ss[j])
          BY <5>5
        <5>8. A = B \cup Elements(ss[k])
          BY <5>3, <5>6, <5>7, Zenon
        <5> QED
          BY <5>4, <5>5, <5>8, Zenon
      <4>7. Elements(h[k]) = UNION {Elements(ss[j]) : j \in 1..k}
        BY <4>2, <4>5, <4>6
      <4>8. Good(k)
        BY <4>5, <4>7
      <4> QED
        BY <3>1, <4>8
    <3> QED
      BY <3>2, <3>3
  <2>5. Len(ss) \in 1..Len(ss)
    BY <1>1, <1>3
  <2>6. Good(Len(ss))
    BY <2>4, <2>5
  <2> QED
    BY <2>1, <2>6, Zenon
<1> QED
  BY <1>2, <1>3

\* The order of prices on a side, the best one first
PriceOrder(side) ==
  {e \in Int \X Int : IF side = "bid" THEN e[1] > e[2] ELSE e[1] < e[2]}

\* There is a place for one more element in a sorted sequence.
LEMMA SortedInserted ==
  ASSUME NEW R, NEW T, NEW q \in Seq(T), NEW e \in T, SortedBy(q, R),
         \A i, j \in 1..Len(q) : i < j /\ <<e, q[i]>> \in R => <<e, q[j]>> \in R,
         \A i \in 1..Len(q) : <<e, q[i]>> \in R \/ <<q[i], e>> \in R
  PROVE  \E s \in Seq(T) : /\ SortedBy(s, R)
                            /\ Elements(s) = Elements(q) \cup {e}
                            /\ Len(s) = Len(q) + 1
<1>1. PICK k \in 0..Len(q) : \A i \in 1..Len(q) : i <= k <=> <<e, q[i]>> \notin R
  BY Cut
<1>2. \A i \in 1..Len(q) : IF i <= k THEN <<q[i], e>> \in R ELSE <<e, q[i]>> \in R
  BY <1>1
<1>3. /\ InsertAt(q, k + 1, e) \in Seq(T)
      /\ SortedBy(InsertAt(q, k + 1, e), R)
      /\ Elements(InsertAt(q, k + 1, e)) = Elements(q) \cup {e}
  BY <1>2, InsertedSorted
<1>4. Len(InsertAt(q, k + 1, e)) = Len(q) + 1
  BY Inserted
<1> QED
  BY <1>3, <1>4

\* A finite set of prices can be sorted.
LEMMA PricesSort ==
  ASSUME NEW side, NEW S \in SUBSET Int, IsFiniteSet(S)
  PROVE  \E s \in Seq(Int) : /\ SortedBy(s, PriceOrder(side))
                             /\ Elements(s) = S
                             /\ Len(s) = Cardinality(S)
<1> DEFINE R == PriceOrder(side)
           Sorts(U, s) == SortedBy(s, R) /\ Elements(s) = U /\ Len(s) = Cardinality(U)
           Unsorted(U) == U \in SUBSET Int /\ IsFiniteSet(U) /\ ~ \E s \in Seq(Int) : Sorts(U, s)
           Bad == {n \in Nat : \E U : Unsorted(U) /\ Cardinality(U) = n}
<1>1. ASSUME Bad # {} PROVE FALSE
  <2>1. PICK n \in Bad : \A m \in Nat : m < n => m \notin Bad
    <3>1. Bad \in SUBSET Nat
      OBVIOUS
    <3> HIDE DEF Bad
    <3> QED
      BY <1>1, <3>1, Least
  <2>2. PICK U : Unsorted(U) /\ Cardinality(U) = n
    BY <2>1
  <2>3. U # {}
    <3>1. <<>> \in Seq(Int) /\ Sorts({}, <<>>)
      BY FS_EmptySet DEF SortedBy, Elements
    <3> QED
      BY <2>2, <3>1
  <2>4. PICK e \in U : TRUE
    BY <2>3
  <2>5. IsFiniteSet(U \ {e}) /\ Cardinality(U \ {e}) = n - 1 /\ n - 1 \in Nat
    <3>1. IsFiniteSet(U \ {e}) /\ Cardinality(U \ {e}) = n - 1
      BY <2>2, <2>4, FS_RemoveElement
    <3>2. Cardinality(U \ {e}) \in Nat
      BY <3>1, FS_CardinalityType
    <3> QED
      BY <3>1, <3>2
  <2>6. PICK q \in Seq(Int) : Sorts(U \ {e}, q)
    <3>1. n - 1 < n /\ n - 1 \notin Bad
      BY <2>1, <2>5
    <3>2. ~Unsorted(U \ {e})
      BY <2>5, <3>1
    <3> QED
      BY <2>2, <2>5, <3>2
  <2>7. /\ \A i, j \in 1..Len(q) : i < j /\ <<e, q[i]>> \in R => <<e, q[j]>> \in R
        /\ \A i \in 1..Len(q) : <<e, q[i]>> \in R \/ <<q[i], e>> \in R
    <3>1. Len(q) \in Nat /\ \A i \in 1..Len(q) : q[i] \in Int
      BY LenProperties, ElementOfSeq
    <3>2. e \in Int /\ \A i \in 1..Len(q) : q[i] # e
      BY <2>2, <2>6 DEF Elements
    <3>3. \A i, j \in 1..Len(q) : i < j => <<q[i], q[j]>> \in R
      BY <2>6 DEF SortedBy
    <3>4. \A x, y \in Int : <<x, y>> \in R <=> IF side = "bid" THEN x > y ELSE x < y
      BY DEF PriceOrder
    <3> HIDE DEF R, Bad
    <3>5. \A i \in 1..Len(q) : <<e, q[i]>> \in R \/ <<q[i], e>> \in R
      BY <3>1, <3>2, <3>4
    <3>6. \A i, j \in 1..Len(q) : i < j /\ <<e, q[i]>> \in R => <<e, q[j]>> \in R
      <4> SUFFICES ASSUME NEW i \in 1..Len(q), NEW j \in 1..Len(q), i < j, <<e, q[i]>> \in R
                   PROVE  <<e, q[j]>> \in R
        OBVIOUS
      <4>1. q[i] \in Int /\ q[j] \in Int /\ e \in Int
        BY <3>1, <3>2
      <4>2. <<q[i], q[j]>> \in R
        BY <3>3
      <4> QED
        BY <3>4, <4>1, <4>2
    <3> QED
      BY <3>5, <3>6
  <2>8. PICK s \in Seq(Int) : /\ SortedBy(s, R)
                              /\ Elements(s) = Elements(q) \cup {e}
                              /\ Len(s) = Len(q) + 1
    <3>1. e \in Int /\ SortedBy(q, R)
      BY <2>2, <2>6
    <3>2. PICK T : T = Int
      OBVIOUS
    <3>3. q \in Seq(T) /\ e \in T
      BY <3>1, <3>2
    <3> HIDE DEF R, Bad
    <3>4. \E s \in Seq(T) : /\ SortedBy(s, R)
                             /\ Elements(s) = Elements(q) \cup {e}
                             /\ Len(s) = Len(q) + 1
      BY <2>7, <3>1, <3>3, SortedInserted
    <3> QED
      BY <3>2, <3>4
  <2>9. Elements(s) = U
    BY <2>4, <2>6, <2>8
  <2>10. Len(s) = Cardinality(U)
    BY <2>2, <2>5, <2>6, <2>8
  <2> QED
    BY <2>2, <2>8, <2>9, <2>10
<1>2. Cardinality(S) \in Nat
  BY FS_CardinalityType
<1> QED
  BY <1>1, <1>2

\* What GetBidPricesDesc and GetAskPricesAsc return
LEMMA GetPricesSorts ==
  ASSUME NEW side \in Sides, prices[side] \in SUBSET Int, IsFiniteSet(prices[side])
  PROVE  /\ GetPrices(side) \in Seq(Int)
         /\ SortedBy(GetPrices(side), PriceOrder(side))
         /\ Elements(GetPrices(side)) = prices[side]
<1> DEFINE S == prices[side]
           D == 1..Cardinality(S)
           Ordered(s) == \A i, j \in 1..Len(s) : i < j => IF side = "bid" THEN s[i] > s[j] ELSE s[i] < s[j]
<1>1. Cardinality(S) \in Nat
  BY FS_CardinalityType
<1>2. GetPrices(side) = CHOOSE s \in SetToSeqs(S) : Ordered(s)
  BY DEF GetPrices, IsSorted
<1>3. \E s \in SetToSeqs(S) : Ordered(s)
  <2>1. PICK s \in Seq(Int) : /\ SortedBy(s, PriceOrder(side))
                              /\ Elements(s) = S
                              /\ Len(s) = Cardinality(S)
    BY PricesSort
  <2>2. \A i \in D : s[i] \in S
    BY <2>1 DEF Elements
  <2>3. s \in [D -> S]
    BY <2>1, <2>2, LenProperties
  <2>4. \A i, j \in D : i < j => IF side = "bid" THEN s[i] > s[j] ELSE s[i] < s[j]
    BY <2>1 DEF SortedBy, PriceOrder
  <2>5. \A i, j \in D : i # j => s[i] # s[j]
    BY <1>1, <2>2, <2>4
  <2> QED
    BY <2>1, <2>3, <2>4, <2>5 DEF SetToSeqs
<1>4. PICK s : s = GetPrices(side)
  OBVIOUS
<1>5. s \in SetToSeqs(S) /\ Ordered(s)
  BY <1>2, <1>3, <1>4
<1>6. s \in [D -> S] /\ \A i, j \in D : i # j => s[i] # s[j]
  BY <1>5 DEF SetToSeqs
<1>7. s \in Seq(Int) /\ Len(s) = Cardinality(S)
  BY <1>1, <1>6
<1>8. SortedBy(s, PriceOrder(side))
  BY <1>5, <1>6, <1>7 DEF SortedBy, PriceOrder
<1>9. Elements(s) = S
  <2>1. s \in Injection(D, S)
    BY <1>6 DEF Injection, IsInjective
  <2>2. Cardinality(D) = Cardinality(S)
    BY <1>1, FS_Interval
  <2>3. s \in Surjection(D, S)
    BY <2>1, <2>2, FS_Injection
  <2> QED
    BY <1>7, <2>3 DEF Surjection, Elements
<1> QED
  BY <1>4, <1>7, <1>8, <1>9

-----------------------------------------------------------------------------
(***************************************************************************)
(* The orders of a level                                                   *)
(***************************************************************************)

\* Every order is there once, and they all have the price of the level.
LevelHolds(ids, p) ==
  \A i \in 1..Len(ids) :
    Price[ids[i]] = p /\ \A j \in 1..Len(ids) : ids[i] = ids[j] => i = j

Precedes(ids, x, y) ==
  \E i, j \in 1..Len(ids) : i < j /\ ids[i] = x /\ ids[j] = y

\* priceLevel.InsertOrder: the order is the last of its level.
LEMMA Appended ==
  ASSUME NEW ids \in Seq(Orders), NEW o \in Orders, LevelHolds(ids, Price[o]),
         ~Contains(ids, o)
  PROVE  /\ Append(ids, o) \in Seq(Orders)
         /\ Append(ids, o) # <<>>
         /\ LevelHolds(Append(ids, o), Price[o])
         /\ \A x : Contains(Append(ids, o), x) <=> Contains(ids, x) \/ x = o
         /\ \A x, y : Precedes(ids, x, y) => Precedes(Append(ids, o), x, y)
         /\ \A x : Contains(ids, x) => Precedes(Append(ids, o), x, o)
<1>1. PICK t : t = Append(ids, o)
  OBVIOUS
<1>2. /\ Len(ids) \in Nat /\ t \in Seq(Orders) /\ Len(t) = Len(ids) + 1
      /\ \A i \in 1..Len(ids) : t[i] = ids[i]
      /\ t[Len(ids) + 1] = o
  BY <1>1, LenProperties, AppendProperties
<1>3. \A i \in 1..Len(ids) : ids[i] # o
  BY DEF Contains
<1>4. t # <<>>
  BY <1>2
<1>5. LevelHolds(t, Price[o])
  <2> SUFFICES ASSUME NEW i \in 1..(Len(ids) + 1), NEW j \in 1..(Len(ids) + 1)
               PROVE  Price[t[i]] = Price[o] /\ (t[i] = t[j] => i = j)
    BY <1>2 DEF LevelHolds
  <2>1. i \in 1..Len(ids) \/ i = Len(ids) + 1
    BY <1>2
  <2>2. j \in 1..Len(ids) \/ j = Len(ids) + 1
    BY <1>2
  <2> QED
    BY <1>2, <1>3, <2>1, <2>2 DEF LevelHolds
<1>6. \A i : i \in 1..Len(t) <=> i \in 1..Len(ids) \/ i = Len(ids) + 1
  BY <1>2
<1>7. \A x : Contains(t, x) <=> Contains(ids, x) \/ x = o
  BY <1>2, <1>6 DEF Contains
<1>8. ASSUME NEW x, NEW y, Precedes(ids, x, y) PROVE Precedes(t, x, y)
  <2>1. PICK i, j \in 1..Len(ids) : i < j /\ ids[i] = x /\ ids[j] = y
    BY <1>8 DEF Precedes
  <2>2. i \in 1..Len(t) /\ j \in 1..Len(t) /\ t[i] = x /\ t[j] = y
    BY <1>2, <1>6, <2>1
  <2> QED
    BY <2>1, <2>2 DEF Precedes
<1>9. ASSUME NEW x, Contains(ids, x) PROVE Precedes(t, x, o)
  <2>1. PICK i \in 1..Len(ids) : ids[i] = x
    BY <1>9 DEF Contains
  <2>2. i \in 1..Len(t) /\ Len(ids) + 1 \in 1..Len(t) /\ i < Len(ids) + 1 /\ t[i] = x
    BY <1>2, <1>6, <2>1
  <2> QED
    BY <1>2, <2>2 DEF Precedes
<1> QED
  BY <1>1, <1>2, <1>4, <1>5, <1>7, <1>8, <1>9, Zenon

\* priceLevel.RemoveOrder: the others keep their order.
LEMMA RemovedFirst ==
  ASSUME NEW ids \in Seq(Orders), NEW o \in Orders, LevelHolds(ids, Price[o]),
         Contains(ids, o)
  PROVE  /\ RemoveFirst(ids, o) \in Seq(Orders)
         /\ LevelHolds(RemoveFirst(ids, o), Price[o])
         /\ \A x : Contains(RemoveFirst(ids, o), x) <=> Contains(ids, x) /\ x # o
         /\ \A x, y : x # o /\ y # o /\ Precedes(ids, x, y)
                        => Precedes(RemoveFirst(ids, o), x, y)
<1>1. Len(ids) \in Nat
  BY LenProperties
<1>2. PICK k \in 1..Len(ids) : ids[k] = o
  BY DEF Contains
<1>3. \A i \in 1..Len(ids) : ids[i] = o <=> i = k
  BY <1>2 DEF LevelHolds
<1>4. RemoveFirst(ids, o) = RemoveAt(ids, k)
  <2>1. {i \in 1..Len(ids) : ids[i] = o} = {k}
    BY <1>3
  <2>2. Min({k}) = k
    BY <1>1 DEF Min
  <2>3. SelectInSeq(ids, LAMBDA v : v = o) = k
    BY <2>1, <2>2 DEF SelectInSeq
  <2> QED
    BY <1>2, <2>3 DEF RemoveFirst
<1>5. PICK t : t = RemoveFirst(ids, o)
  OBVIOUS
<1>6. /\ t \in Seq(Orders)
      /\ Len(t) = Len(ids) - 1
      /\ \A i \in 1..(Len(ids) - 1) : t[i] = IF i < k THEN ids[i] ELSE ids[i + 1]
  BY <1>4, <1>5, Removed, Zenon
<1> DEFINE Old(i) == IF i < k THEN i ELSE i + 1
           New(i) == IF i < k THEN i ELSE i - 1
<1>7. \A i \in 1..Len(t) : Old(i) \in 1..Len(ids) /\ Old(i) # k /\ t[i] = ids[Old(i)]
  BY <1>1, <1>6
<1>8. \A i, j \in 1..Len(t) : Old(i) = Old(j) => i = j
  BY <1>1, <1>6
<1>9. ASSUME NEW i \in 1..Len(ids), i # k
      PROVE  New(i) \in 1..Len(t) /\ t[New(i)] = ids[i]
  <2>1. CASE i < k
    BY <1>1, <1>6, <2>1
  <2>2. CASE k < i
    <3>1. i - 1 \in 1..(Len(ids) - 1) /\ ~(i - 1 < k) /\ (i - 1) + 1 = i /\ ~(i < k)
      BY <1>1, <2>2
    <3> QED
      BY <1>6, <3>1
  <2> QED
    BY <1>1, <1>9, <2>1, <2>2
<1>10. \A i, j \in 1..Len(ids) : i # k /\ j # k /\ i < j => New(i) < New(j)
  BY <1>1
<1> HIDE DEF Old, New
<1>11. LevelHolds(t, Price[o])
  BY <1>7, <1>8 DEF LevelHolds
<1>12. \A x : Contains(t, x) <=> Contains(ids, x) /\ x # o
  BY <1>3, <1>7, <1>9 DEF Contains
<1>13. ASSUME NEW x, NEW y, x # o, y # o, Precedes(ids, x, y) PROVE Precedes(t, x, y)
  <2>1. PICK i, j \in 1..Len(ids) : i < j /\ ids[i] = x /\ ids[j] = y
    BY <1>13 DEF Precedes
  <2>2. i # k /\ j # k
    BY <1>2, <1>13, <2>1
  <2> QED
    BY <1>9, <1>10, <2>1, <2>2 DEF Precedes
<1> QED
  BY <1>5, <1>6, <1>11, <1>12, <1>13, Zenon

-----------------------------------------------------------------------------
(***************************************************************************)
(* The invariant of the book                                               *)
(***************************************************************************)

\* The inductive invariant: the map of prices is the set of the tree's keys,
\* which is finite, and every level of the tree has orders, each of them once
\* and all of its price.
BookInv ==
  /\ TypeOK
  /\ \A side \in Sides : IsFiniteSet(prices[side]) /\ prices[side] = tree[side]
  /\ \A side \in Sides : \A p \in tree[side] :
       level[side][p].ids # <<>> /\ LevelHolds(level[side][p].ids, p)

\* InsertOrder keeps the invariant.
LEMMA InsertKeeps ==
  ASSUME BookInv, NEW o \in Orders, NEW a \in Lots \ {0}, InsertOrder(o, a)
  PROVE  BookInv'
<1> DEFINE side == SideOf(a)
           p == Price[o]
           l == IF p \in tree[side] THEN level[side][p] ELSE newPriceLevel
           ids == Append(l.ids, o)
<1>1. side \in Sides /\ p \in Prices /\ p \in Int /\ MaxLot \in Nat /\ a \in Int
  BY ConstantsAssumption DEF SideOf, Sides, Prices, Lots
<1>2. l \in Level /\ l.ids \in Seq(Orders) /\ l.totalAmount \in Int
  BY <1>1 DEF BookInv, TypeOK, Level, newPriceLevel
<1>3. LevelHolds(l.ids, p) /\ ~Contains(l.ids, o)
  <2>1. CASE p \in tree[side]
    BY <1>1, <2>1 DEF BookInv, InsertOrder, GetOrder
  <2>2. CASE p \notin tree[side]
    BY <2>2 DEF newPriceLevel, LevelHolds, Contains
  <2> QED
    BY <2>1, <2>2
<1>4. /\ amount' = [amount EXCEPT ![side][o] = a]
      /\ level' = [level EXCEPT ![side][p] = [ids |-> ids, totalAmount |-> l.totalAmount + a]]
      /\ tree' = [tree EXCEPT ![side] = @ \cup {p}]
      /\ prices' = [prices EXCEPT ![side] = @ \cup {p}]
  BY DEF InsertOrder
<1> HIDE DEF side, p, l
<1>5. ids \in Seq(Orders) /\ ids # <<>> /\ LevelHolds(ids, p)
  <2>1. p = Price[o]
    BY DEF p
  <2> QED
    BY <1>2, <1>3, <2>1, Appended
<1> HIDE DEF ids
<1>6. [ids |-> ids, totalAmount |-> l.totalAmount + a] \in Level
  BY <1>1, <1>2, <1>5 DEF Level
<1>7. TypeOK'
  BY <1>1, <1>4, <1>6 DEF BookInv, TypeOK
<1>8. ASSUME NEW s \in Sides PROVE IsFiniteSet(prices[s])' /\ (prices[s] = tree[s])'
  <2>1. CASE s = side
    <3>1. prices'[s] = prices[s] \cup {p} /\ tree'[s] = tree[s] \cup {p}
      BY <1>4, <2>1 DEF BookInv, TypeOK
    <3>2. IsFiniteSet(prices[s] \cup {p})
      BY FS_AddElement DEF BookInv
    <3> QED
      BY <3>1, <3>2 DEF BookInv
  <2>2. CASE s # side
    BY <1>4, <2>2 DEF BookInv, TypeOK
  <2> QED
    BY <2>1, <2>2
<1>9. ASSUME NEW s \in Sides, NEW r \in tree'[s]
      PROVE  level'[s][r].ids # <<>> /\ LevelHolds(level'[s][r].ids, r)
  <2>1. CASE s = side /\ r = p
    BY <1>1, <1>4, <1>5, <2>1 DEF BookInv, TypeOK
  <2>2. CASE ~(s = side /\ r = p)
    <3>1. r \in tree[s] /\ r \in Prices
      BY <1>4, <1>7, <1>9, <2>2 DEF BookInv, TypeOK
    <3>2. level'[s][r] = level[s][r]
      BY <1>1, <1>4, <2>2, <3>1 DEF BookInv, TypeOK
    <3> QED
      BY <3>1, <3>2 DEF BookInv
  <2> QED
    BY <2>1, <2>2
<1> QED
  BY <1>7, <1>8, <1>9 DEF BookInv, LevelHolds

\* The end of RemoveOrder and ChangeOrder
LEMMA SaveKeeps ==
  ASSUME BookInv, NEW side \in Sides, NEW o \in Orders, NEW ids \in Seq(Orders),
         NEW delta \in Int, SaveLevel(side, o, ids, delta), LevelHolds(ids, Price[o]),
         amount' \in [Sides -> [Orders -> Lots]]
  PROVE  BookInv'
<1> DEFINE p == Price[o]
           gone == IF ids = <<>> THEN {p} ELSE {}
           total == level[side][p].totalAmount + delta
<1>1. p \in Prices
  BY DEF Prices
<1>2. total \in Int /\ level \in [Sides -> [Prices -> Level]]
  BY <1>1 DEF BookInv, TypeOK, Level
<1>3. /\ level' = [level EXCEPT ![side][p] = [ids |-> ids, totalAmount |-> total]]
      /\ tree' = [tree EXCEPT ![side] = @ \ gone]
      /\ prices' = [prices EXCEPT ![side] = @ \ gone]
  BY <1>1, <1>2 DEF SaveLevel
<1>4. [ids |-> ids, totalAmount |-> total] \in Level
  BY <1>2 DEF Level
<1> HIDE DEF total
<1>5. TypeOK'
  <2>1. level' \in [Sides -> [Prices -> Level]]
    BY <1>1, <1>2, <1>3, <1>4
  <2>2. tree' \in [Sides -> SUBSET Prices] /\ prices' \in [Sides -> SUBSET Prices]
    BY <1>3 DEF BookInv, TypeOK
  <2> QED
    BY <2>1, <2>2 DEF TypeOK
<1>6. ASSUME NEW s \in Sides PROVE IsFiniteSet(prices[s])' /\ (prices[s] = tree[s])'
  <2>1. prices'[s] = tree'[s]
    BY <1>3 DEF BookInv, TypeOK
  <2>2. prices'[s] = prices[s] \/ prices'[s] = prices[s] \ {p}
    BY <1>3 DEF BookInv, TypeOK
  <2>3. IsFiniteSet(prices[s]) /\ IsFiniteSet(prices[s] \ {p})
    BY FS_RemoveElement DEF BookInv
  <2> QED
    BY <2>1, <2>2, <2>3
<1>7. ASSUME NEW s \in Sides, NEW r \in tree'[s]
      PROVE  level'[s][r].ids # <<>> /\ LevelHolds(level'[s][r].ids, r)
  <2>1. CASE s = side /\ r = p
    <3>1. ids # <<>>
      BY <1>3, <1>7, <2>1 DEF BookInv, TypeOK
    <3> QED
      BY <1>1, <1>2, <1>3, <2>1, <3>1
  <2>2. CASE ~(s = side /\ r = p)
    <3>1. r \in tree[s] /\ r \in Prices
      BY <1>3, <1>5, <1>7, <2>2 DEF BookInv, TypeOK
    <3>2. level'[s][r] = level[s][r]
      BY <1>1, <1>2, <1>3, <2>2, <3>1
    <3> QED
      BY <3>1, <3>2 DEF BookInv
  <2> QED
    BY <2>1, <2>2
<1> QED
  BY <1>5, <1>6, <1>7 DEF BookInv, LevelHolds

\* The order found is in its level.
LEMMA Found ==
  ASSUME BookInv, NEW side \in Sides, NEW o \in Orders, GetOrder(side, o)
  PROVE  /\ Price[o] \in tree[side] /\ Price[o] \in Prices
         /\ level[side][Price[o]].ids \in Seq(Orders)
         /\ LevelHolds(level[side][Price[o]].ids, Price[o])
         /\ Contains(level[side][Price[o]].ids, o)
         /\ amount[side][o] \in Int
<1>1. Price[o] \in tree[side] /\ Contains(level[side][Price[o]].ids, o)
  BY DEF GetOrder
<1>2. Price[o] \in Prices
  BY DEF Prices
<1>3. level[side][Price[o]] \in Level
  BY <1>2 DEF BookInv, TypeOK
<1>4. amount[side][o] \in Int
  BY ConstantsAssumption DEF BookInv, TypeOK, Lots
<1> QED
  BY <1>1, <1>2, <1>3, <1>4 DEF BookInv, Level

\* RemoveOrder keeps the invariant.
LEMMA RemoveKeeps ==
  ASSUME BookInv, NEW side \in Sides, NEW o \in Orders, RemoveOrder(side, o)
  PROVE  BookInv'
<1>1. GetOrder(side, o)
  BY DEF RemoveOrder
<1> DEFINE ids == RemoveFirst(level[side][Price[o]].ids, o)
<1>2. ids \in Seq(Orders) /\ LevelHolds(ids, Price[o])
  BY <1>1, Found, RemovedFirst
<1>3. amount' \in [Sides -> [Orders -> Lots]]
  <2>1. 0 \in Lots
    BY ConstantsAssumption DEF Lots
  <2> QED
    BY <2>1 DEF RemoveOrder, BookInv, TypeOK
<1>4. -amount[side][o] \in Int
  BY <1>1, Found
<1>5. SaveLevel(side, o, ids, -amount[side][o])
  BY DEF RemoveOrder
<1> HIDE DEF ids
<1> QED
  BY <1>2, <1>3, <1>4, <1>5, SaveKeeps

\* ChangeOrder keeps the invariant.
LEMMA ChangeKeeps ==
  ASSUME BookInv, NEW side \in Sides, NEW o \in Orders, NEW delta \in Lots \ {0},
         ChangeOrder(side, o, delta)
  PROVE  BookInv'
<1>1. GetOrder(side, o)
  BY DEF ChangeOrder
<1> DEFINE old == level[side][Price[o]].ids
           new == amount[side][o] + delta
           ids == IF new = 0 THEN RemoveFirst(old, o) ELSE old
<1>2. ids \in Seq(Orders) /\ LevelHolds(ids, Price[o])
  BY <1>1, Found, RemovedFirst
<1>3. amount' \in [Sides -> [Orders -> Lots]]
  BY DEF ChangeOrder, BookInv, TypeOK
<1>4. delta \in Int
  BY ConstantsAssumption DEF Lots
<1>5. SaveLevel(side, o, ids, delta)
  BY DEF ChangeOrder
<1> HIDE DEF ids
<1> QED
  BY <1>2, <1>3, <1>4, <1>5, SaveKeeps

\* The invariant holds in every state of the book.
LEMMA BookInvHolds == Spec => []BookInv
<1>1. Init => BookInv
  <2>1. 0 \in Lots
    BY ConstantsAssumption DEF Lots
  <2> QED
    BY <2>1, FS_EmptySet DEF Init, BookInv, TypeOK, newPriceLevel, Level
<1>2. BookInv /\ [Next]_vars => BookInv'
  <2> SUFFICES ASSUME BookInv, [Next]_vars PROVE BookInv'
    OBVIOUS
  <2>1. CASE UNCHANGED vars
    BY <2>1 DEF vars, BookInv, TypeOK, LevelHolds
  <2>2. CASE Next
    <3>1. PICK o \in Orders :
            \/ \E a \in Lots \ {0} : InsertOrder(o, a)
            \/ \E side \in Sides :
                 \/ RemoveOrder(side, o)
                 \/ \E delta \in Lots \ {0} : ChangeOrder(side, o, delta)
      BY <2>2 DEF Next
    <3> QED
      BY <3>1, InsertKeeps, RemoveKeeps, ChangeKeeps
  <2> QED
    BY <2>1, <2>2
<1> QED
  BY <1>1, <1>2, PTL DEF Spec

-----------------------------------------------------------------------------
(***************************************************************************)
(* What the matcher reads                                                  *)
(***************************************************************************)

Entries == [id : Orders, amount : Lots]

Entry(side, o) == [id |-> o, amount |-> amount[side][o]]

\* The orders of a side, with their amounts
Held(side) == {Entry(side, o) : o \in {x \in Orders : GetOrder(side, x)}}

\* Price-time priority: the better price, and within a level the place
Before(side) ==
  {e \in Entries \X Entries :
     \/ <<Price[e[1].id], Price[e[2].id]>> \in PriceOrder(side)
     \/ /\ Price[e[1].id] = Price[e[2].id]
        /\ Price[e[1].id] \in tree[side]
        /\ Precedes(level[side][Price[e[1].id]].ids, e[1].id, e[2].id)}

\* No two orders of a side have priority over each other.
LEMMA BeforeStrict ==
  ASSUME BookInv, NEW side \in Sides
  PROVE  Strict(Before(side))
<1> SUFFICES ASSUME NEW x \in Entries, NEW y \in Entries,
                    <<x, y>> \in Before(side), <<y, x>> \in Before(side)
             PROVE  FALSE
  BY DEF Strict, Before
<1>1. x.id \in Orders /\ y.id \in Orders /\ Price[x.id] \in Int /\ Price[y.id] \in Int
  BY ConstantsAssumption DEF Entries
<1>2. ~(<<Price[x.id], Price[y.id]>> \in PriceOrder(side) /\ <<Price[y.id], Price[x.id]>> \in PriceOrder(side))
  BY <1>1 DEF PriceOrder
<1>3. Price[x.id] = Price[y.id] => <<Price[x.id], Price[y.id]>> \notin PriceOrder(side)
  BY <1>1 DEF PriceOrder
<1> DEFINE ids == level[side][Price[x.id]].ids
<1>4. Price[x.id] = Price[y.id] /\ Price[x.id] \in tree[side] /\ Precedes(ids, x.id, y.id) /\ Precedes(ids, y.id, x.id)
  BY <1>2, <1>3 DEF Before
<1>5. LevelHolds(ids, Price[x.id])
  BY <1>4 DEF BookInv
<1>6. PICK i, j \in 1..Len(ids) : i < j /\ ids[i] = x.id /\ ids[j] = y.id
  BY <1>4 DEF Precedes
<1>7. PICK m, n \in 1..Len(ids) : m < n /\ ids[m] = y.id /\ ids[n] = x.id
  BY <1>4 DEF Precedes
<1>8. i = n /\ j = m
  BY <1>5, <1>6, <1>7 DEF LevelHolds
<1> QED
  BY <1>6, <1>7, <1>8

\* The prices the matcher goes through
LEMMA PricesOf ==
  ASSUME BookInv, NEW side \in Sides
  PROVE  /\ GetPrices(side) \in Seq(Int)
         /\ SortedBy(GetPrices(side), PriceOrder(side))
         /\ Elements(GetPrices(side)) = tree[side]
<1>1. Prices \in SUBSET Int
  BY ConstantsAssumption DEF Prices
<1>2. prices[side] \in SUBSET Int /\ IsFiniteSet(prices[side]) /\ prices[side] = tree[side]
  BY <1>1 DEF BookInv, TypeOK
<1> QED
  BY <1>2, GetPricesSorts

\* The orders of one price
LEMMA OrdersOf ==
  ASSUME BookInv, NEW side \in Sides, NEW p \in tree[side]
  PROVE  /\ GetOrdersByPrice(side, p) \in Seq(Entries)
         /\ GetOrdersByPrice(side, p) # <<>>
         /\ SortedBy(GetOrdersByPrice(side, p), Before(side))
         /\ Elements(GetOrdersByPrice(side, p)) = {e \in Held(side) : Price[e.id] = p}
<1> DEFINE ids == level[side][p].ids
           s == GetOrdersByPrice(side, p)
<1>1. ids \in Seq(Orders) /\ ids # <<>> /\ LevelHolds(ids, p) /\ p \in Prices
  BY DEF BookInv, TypeOK, Level
<1>2. Len(ids) \in Nat /\ DOMAIN ids = 1..Len(ids) /\ \A i \in 1..Len(ids) : ids[i] \in Orders
  BY <1>1, LenProperties, ElementOfSeq
<1>3. s = [i \in 1..Len(ids) |-> Entry(side, ids[i])]
  BY <1>2 DEF GetOrdersByPrice, Entry
<1>4. \A o \in Orders : Entry(side, o) \in Entries /\ Entry(side, o).id = o
  BY DEF Entry, Entries, BookInv, TypeOK
<1> HIDE DEF s
<1>5. s \in Seq(Entries) /\ Len(s) = Len(ids) /\ \A i \in 1..Len(ids) : s[i] = Entry(side, ids[i])
  BY <1>2, <1>3, <1>4
<1>6. s # <<>>
  BY <1>1, <1>2, <1>5, EmptySeq
<1>7. SortedBy(s, Before(side))
  <2> SUFFICES ASSUME NEW i \in 1..Len(ids), NEW j \in 1..Len(ids), i < j
               PROVE  <<Entry(side, ids[i]), Entry(side, ids[j])>> \in Before(side)
    BY <1>5 DEF SortedBy
  <2>1. Precedes(ids, ids[i], ids[j])
    BY DEF Precedes
  <2>2. Price[ids[i]] = p /\ Price[ids[j]] = p
    BY <1>1 DEF LevelHolds
  <2> QED
    BY <1>2, <1>4, <2>1, <2>2 DEF Before
<1>8. Elements(s) = {e \in Held(side) : Price[e.id] = p}
  <2>1. ASSUME NEW i \in 1..Len(s) PROVE s[i] \in Held(side) /\ Price[s[i].id] = p
    <3>1. i \in 1..Len(ids) /\ s[i] = Entry(side, ids[i]) /\ ids[i] \in Orders
      BY <1>2, <1>5
    <3>2. Price[ids[i]] = p
      BY <1>1, <3>1 DEF LevelHolds
    <3>3. GetOrder(side, ids[i])
      BY <3>1, <3>2 DEF GetOrder, Contains
    <3> QED
      BY <1>4, <3>1, <3>2, <3>3 DEF Held
  <2>2. ASSUME NEW e \in Held(side), Price[e.id] = p PROVE e \in Elements(s)
    <3>1. PICK o \in Orders : e = Entry(side, o) /\ GetOrder(side, o)
      BY DEF Held
    <3>2. Price[o] = p
      BY <1>4, <2>2, <3>1
    <3>3. PICK i \in 1..Len(ids) : ids[i] = o
      BY <3>1, <3>2 DEF GetOrder, Contains
    <3> QED
      BY <1>5, <3>1, <3>3 DEF Elements
  <2> QED
    BY <2>1, <2>2 DEF Elements
<1> QED
  BY <1>5, <1>6, <1>7, <1>8 DEF s

\* The walk of the matcher has every order of the side, by price and time.
WalkFacts ==
  \A side \in Sides : /\ Walk(side) \in Seq(Entries)
                      /\ SortedBy(Walk(side), Before(side))
                      /\ Elements(Walk(side)) = Held(side)
                      /\ Strict(Before(side))

\* So it is whenever the invariant holds.
LEMMA WalkSorted == BookInv => WalkFacts
<1> SUFFICES ASSUME BookInv, NEW side \in Sides
             PROVE  /\ Walk(side) \in Seq(Entries)
                    /\ SortedBy(Walk(side), Before(side))
                    /\ Elements(Walk(side)) = Held(side)
  BY BeforeStrict DEF WalkFacts
<1> DEFINE ps == GetPrices(side)
           ss == [i \in DOMAIN ps |-> GetOrdersByPrice(side, ps[i])]
<1>1. ps \in Seq(Int) /\ SortedBy(ps, PriceOrder(side)) /\ Elements(ps) = tree[side]
  BY PricesOf
<1>2. Walk(side) = FlattenSeq(ss)
  BY DEF Walk
<1> HIDE DEF ps
<1>3. Len(ps) \in Nat /\ DOMAIN ps = 1..Len(ps)
  BY <1>1, LenProperties
<1>4. \A i \in 1..Len(ps) : ps[i] \in tree[side]
  BY <1>1 DEF Elements
<1>5. ASSUME NEW i \in 1..Len(ps)
      PROVE  /\ GetOrdersByPrice(side, ps[i]) \in Seq(Entries)
             /\ SortedBy(GetOrdersByPrice(side, ps[i]), Before(side))
             /\ Elements(GetOrdersByPrice(side, ps[i])) = {e \in Held(side) : Price[e.id] = ps[i]}
  BY <1>4, OrdersOf
<1>6. /\ ss \in Seq(Seq(Entries)) /\ Len(ss) = Len(ps)
      /\ \A i \in 1..Len(ps) : ss[i] = GetOrdersByPrice(side, ps[i])
  BY <1>3, <1>5
<1> HIDE DEF ss
<1>7. \A i \in 1..Len(ss) : SortedBy(ss[i], Before(side))
  BY <1>5, <1>6
<1>8. ASSUME NEW i \in 1..Len(ss), NEW j \in 1..Len(ss), i < j,
             NEW x \in Elements(ss[i]), NEW y \in Elements(ss[j])
      PROVE  <<x, y>> \in Before(side)
  <2>1. x \in Held(side) /\ Price[x.id] = ps[i]
    BY <1>5, <1>6
  <2>2. y \in Held(side) /\ Price[y.id] = ps[j]
    BY <1>5, <1>6
  <2>3. <<ps[i], ps[j]>> \in PriceOrder(side)
    BY <1>1, <1>6, <1>8 DEF SortedBy
  <2>4. Held(side) \in SUBSET Entries
    BY DEF Held, Entry, Entries, BookInv, TypeOK
  <2> QED
    BY <2>1, <2>2, <2>3, <2>4 DEF Before
<1>9. /\ FlattenSeq(ss) \in Seq(Entries)
      /\ SortedBy(FlattenSeq(ss), Before(side))
      /\ Elements(FlattenSeq(ss)) = UNION {Elements(ss[i]) : i \in 1..Len(ss)}
  BY <1>6, <1>7, <1>8, FlattenSorted
<1>10. UNION {Elements(ss[i]) : i \in 1..Len(ss)} = Held(side)
  <2>1. ASSUME NEW i \in 1..Len(ss), NEW e \in Elements(ss[i]) PROVE e \in Held(side)
    BY <1>5, <1>6
  <2>2. ASSUME NEW e \in Held(side) PROVE \E i \in 1..Len(ss) : e \in Elements(ss[i])
    <3>1. PICK o \in Orders : e = Entry(side, o) /\ GetOrder(side, o)
      BY DEF Held
    <3>2. e.id = o
      BY <3>1 DEF Entry
    <3>3. Price[o] \in Elements(ps)
      BY <1>1, <3>1 DEF GetOrder
    <3>4. PICK i \in 1..Len(ps) : ps[i] = Price[o]
      BY <3>3 DEF Elements
    <3> QED
      BY <1>5, <1>6, <3>2, <3>4
  <2> QED
    BY <2>1, <2>2
<1> QED
  BY <1>2, <1>9, <1>10

\* The best price by the tree is the first of the list.
LEMMA BestIsFirst ==
  ASSUME BookInv, NEW side \in Sides, tree[side] # {}
  PROVE  Head(GetPrices(side)) = Best(side)
<1>1. PICK ps : ps = GetPrices(side)
  OBVIOUS
<1>2. ps \in Seq(Int) /\ SortedBy(ps, PriceOrder(side)) /\ Elements(ps) = tree[side]
  BY <1>1, PricesOf
<1>3. Len(ps) \in Nat /\ Len(ps) # 0 /\ \A i \in 1..Len(ps) : ps[i] \in Int
  BY <1>2, LenProperties, ElementOfSeq DEF Elements
<1>4. 1 \in 1..Len(ps) /\ Head(ps) = ps[1] /\ ps[1] \in tree[side]
  BY <1>2, <1>3 DEF Elements
<1>5. ASSUME NEW q \in tree[side] PROVE q \in Int /\ IF side = "bid" THEN ps[1] >= q ELSE ps[1] <= q
  <2>1. PICK i \in 1..Len(ps) : ps[i] = q
    BY <1>2 DEF Elements
  <2>2. CASE i = 1
    BY <1>3, <2>1, <2>2
  <2>3. CASE i # 1
    <3>1. <<ps[1], ps[i]>> \in PriceOrder(side)
      BY <1>2, <1>3, <1>4, <2>3 DEF SortedBy
    <3> QED
      BY <1>3, <2>1, <3>1 DEF PriceOrder
  <2> QED
    BY <2>2, <2>3
<1>6. PICK b : b = Best(side)
  OBVIOUS
<1>7. b \in tree[side] /\ \A q \in tree[side] : IF side = "bid" THEN b >= q ELSE b <= q
  BY <1>4, <1>5, <1>6 DEF Best
<1>8. b = ps[1]
  BY <1>3, <1>4, <1>5, <1>7
<1> QED
  BY <1>1, <1>4, <1>6, <1>8

\* The tree and the levels keep their types, and the amounts their bounds.
THEOREM TypeCorrect == Spec => []TypeOK
<1>1. BookInv => TypeOK
  BY DEF BookInv
<1> QED
  BY <1>1, BookInvHolds, PTL

\* The two copies of the prices of a side never differ, no level of the tree
\* is empty, and MaxBid and MinAsk are the first prices the matcher takes.
THEOREM PricesInStep == Spec => []PricesAgree
<1>1. BookInv => PricesAgree
  <2> SUFFICES ASSUME BookInv, NEW side \in Sides
               PROVE  /\ prices[side] = tree[side]
                      /\ \A p \in tree[side] : GetOrdersByPrice(side, p) # <<>>
                      /\ tree[side] # {} => Head(GetPrices(side)) = Best(side)
    BY DEF PricesAgree
  <2>1. prices[side] = tree[side]
    BY DEF BookInv
  <2>2. \A p \in tree[side] : GetOrdersByPrice(side, p) # <<>>
    BY OrdersOf
  <2>3. tree[side] # {} => Head(GetPrices(side)) = Best(side)
    BY BestIsFirst
  <2> QED
    BY <2>1, <2>2, <2>3
<1> QED
  BY <1>1, BookInvHolds, PTL

-----------------------------------------------------------------------------
(***************************************************************************)
(* The book implements PriorityBook                                        *)
(***************************************************************************)

\* The same after a step
LEMMA WalkSortedNext == (BookInv => WalkFacts)'
  BY WalkSorted, PTL

\* A sequence of the orders held after a step, sorted, is the next walk.
LEMMA NextWalk ==
  ASSUME BookInv', NEW side \in Sides, NEW c \in Seq(Entries),
         SortedBy(c, Before(side)'), Elements(c) = Held(side)'
  PROVE  Walk(side)' = c
<1>1. PICK R : R = Before(side)'
  OBVIOUS
<1>2. PICK w : w = Walk(side)'
  OBVIOUS
<1>3. WalkFacts'
  BY WalkSortedNext
<1>4. w \in Seq(Entries) /\ SortedBy(w, R) /\ Elements(w) = Elements(c) /\ Strict(R)
  <2>1. Walk(side)' \in Seq(Entries)
    BY <1>3 DEF WalkFacts, Entries
  <2>2. SortedBy(Walk(side)', Before(side)')
    BY <1>3 DEF WalkFacts, SortedBy
  <2>3. Elements(Walk(side)') = Held(side)'
    BY <1>3 DEF WalkFacts, Elements
  <2>4. Strict(Before(side)')
    BY <1>3 DEF WalkFacts, Strict
  <2> QED
    BY <1>1, <1>2, <2>1, <2>2, <2>3, <2>4
<1>5. SortedBy(c, R)
  BY <1>1
<1> QED
  BY <1>2, <1>4, <1>5, SortedUnique

\* A side that a step leaves alone
LEMMA SameWalk ==
  ASSUME BookInv, BookInv', NEW side \in Sides, amount'[side] = amount[side],
         level'[side] = level[side], tree'[side] = tree[side]
  PROVE  Walk(side)' = Walk(side)
<1>1. Before(side)' = Before(side)
  BY DEF Before, Precedes, PriceOrder, Entries
<1>2. Held(side)' = Held(side)
  <2>1. ASSUME NEW o \in Orders PROVE GetOrder(side, o)' <=> GetOrder(side, o)
    BY DEF GetOrder, Contains
  <2>2. ASSUME NEW o \in Orders PROVE Entry(side, o)' = Entry(side, o)
    BY DEF Entry
  <2> QED
    BY <2>1, <2>2 DEF Held
<1>3. /\ Walk(side) \in Seq(Entries) /\ SortedBy(Walk(side), Before(side))
      /\ Elements(Walk(side)) = Held(side)
  BY WalkSorted DEF WalkFacts
<1>4. PICK c : c = Walk(side)
  OBVIOUS
<1>5. c \in Seq(Entries) /\ SortedBy(c, Before(side)') /\ Elements(c) = Held(side)'
  BY <1>1, <1>2, <1>3, <1>4
<1> QED
  BY <1>4, <1>5, NextWalk

\* The amounts and ids of entries
LEMMA HeldFacts ==
  ASSUME BookInv, NEW side \in Sides
  PROVE  /\ Held(side) \in SUBSET Entries
         /\ \A e \in Held(side) : GetOrder(side, e.id) /\ e = Entry(side, e.id)
         /\ \A o \in Orders : GetOrder(side, o) => Entry(side, o) \in Held(side)
         /\ \A o \in Orders : Entry(side, o) \in Entries /\ Entry(side, o).id = o
<1>1. \A o \in Orders : Entry(side, o) \in Entries /\ Entry(side, o).id = o
  BY DEF Entry, Entries, BookInv, TypeOK
<1> QED
  BY <1>1 DEF Held

\* The pairs of Before after a step
LEMMA NextBefore ==
  ASSUME NEW side \in Sides, NEW x \in Entries, NEW y \in Entries
  PROVE  <<x, y>> \in Before(side)' <=>
           \/ <<Price[x.id], Price[y.id]>> \in PriceOrder(side)
           \/ /\ Price[x.id] = Price[y.id] /\ Price[x.id] \in tree'[side]
              /\ Precedes(level'[side][Price[x.id]].ids, x.id, y.id)
  BY DEF Before, Precedes, PriceOrder, Entries

\* The pairs of Before now
LEMMA ThisBefore ==
  ASSUME NEW side \in Sides, NEW x \in Entries, NEW y \in Entries
  PROVE  <<x, y>> \in Before(side) <=>
           \/ <<Price[x.id], Price[y.id]>> \in PriceOrder(side)
           \/ /\ Price[x.id] = Price[y.id] /\ Price[x.id] \in tree[side]
              /\ Precedes(level[side][Price[x.id]].ids, x.id, y.id)
  BY DEF Before

\* The abstract queue after a step that changes one side
LEMMA QueueStep ==
  ASSUME NEW side \in Sides, NEW c, Walk(side)' = c,
         \A s \in Sides : s # side => Walk(s)' = Walk(s)
  PROVE  [s \in Sides |-> Walk(s)]' = [[s \in Sides |-> Walk(s)] EXCEPT ![side] = c]
  OBVIOUS

\* InsertOrder puts the order behind those that are not worse.
LEMMA InsertImplements ==
  ASSUME BookInv, BookInv', NEW o \in Orders, NEW a \in Lots \ {0}, InsertOrder(o, a)
  PROVE  Abstract!Insert(o, a)
<1> DEFINE side == SideOf(a)
           p == Price[o]
           l == IF p \in tree[side] THEN level[side][p] ELSE newPriceLevel
           ids == Append(l.ids, o)
           e == [id |-> o, amount |-> a]
<1>1. side \in Sides /\ p \in Prices /\ p \in Int
  BY ConstantsAssumption DEF SideOf, Sides, Prices
<1>2. l.ids \in Seq(Orders) /\ LevelHolds(l.ids, p) /\ ~Contains(l.ids, o)
  <2>1. CASE p \in tree[side]
    BY <1>1, <2>1 DEF BookInv, TypeOK, Level, InsertOrder, GetOrder
  <2>2. CASE p \notin tree[side]
    BY <2>2 DEF newPriceLevel, LevelHolds, Contains
  <2> QED
    BY <2>1, <2>2
<1>3. /\ \A x : Contains(ids, x) <=> Contains(l.ids, x) \/ x = o
      /\ \A x, y : Precedes(l.ids, x, y) => Precedes(ids, x, y)
      /\ \A x : Contains(l.ids, x) => Precedes(ids, x, o)
  BY <1>2, Appended
<1>4. /\ ~GetOrder(side, o)
      /\ amount' = [amount EXCEPT ![side][o] = a]
      /\ level' = [level EXCEPT ![side][p] = [ids |-> ids, totalAmount |-> l.totalAmount + a]]
      /\ tree' = [tree EXCEPT ![side] = @ \cup {p}]
  BY DEF InsertOrder
<1>5. /\ p \in tree[side] => l.ids = level[side][p].ids
      /\ p \notin tree[side] => \A x : ~Contains(l.ids, x)
  BY DEF newPriceLevel, Contains
<1> HIDE DEF side, l
<1>6. /\ level'[side][p].ids = ids
      /\ \A r \in Prices : r # p => level'[side][r] = level[side][r]
      /\ tree'[side] = tree[side] \cup {p}
      /\ amount'[side][o] = a
      /\ \A x \in Orders : x # o => amount'[side][x] = amount[side][x]
      /\ \A s \in Sides : s # side => amount'[s] = amount[s] /\ level'[s] = level[s] /\ tree'[s] = tree[s]
  BY <1>1, <1>4 DEF BookInv, TypeOK
<1> HIDE DEF ids
<1>7. \A x \in Orders : GetOrder(side, x)' <=> GetOrder(side, x) \/ x = o
  <2> SUFFICES ASSUME NEW x \in Orders PROVE GetOrder(side, x)' <=> GetOrder(side, x) \/ x = o
    OBVIOUS
  <2>1. GetOrder(side, x)' <=> Price[x] \in tree'[side] /\ Contains(level'[side][Price[x]].ids, x)
    BY DEF GetOrder, Contains
  <2>2. Price[x] \in Prices
    BY DEF Prices
  <2>3. CASE Price[x] = p
    BY <1>3, <1>5, <1>6, <2>1, <2>3 DEF GetOrder
  <2>4. CASE Price[x] # p
    BY <1>6, <2>1, <2>2, <2>4 DEF GetOrder
  <2> QED
    BY <2>3, <2>4
<1>8. e \in Entries
  BY DEF Entries
<1>9. Held(side)' = Held(side) \cup {e}
  <2>1. Entry(side, o)' = e
    BY <1>6 DEF Entry
  <2>2. \A x \in Orders : x # o => Entry(side, x)' = Entry(side, x)
    BY <1>6 DEF Entry
  <2>3. Held(side)' = {Entry(side, x)' : x \in {y \in Orders : GetOrder(side, y)'}}
    BY DEF Held
  <2>4. Held(side) = {Entry(side, x) : x \in {y \in Orders : GetOrder(side, y)}}
    BY DEF Held
  <2> QED
    BY <1>4, <1>7, <2>1, <2>2, <2>3, <2>4
<1>10. ASSUME NEW x \in Entries, NEW y \in Entries, <<x, y>> \in Before(side)
       PROVE  <<x, y>> \in Before(side)'
  <2>1. CASE <<Price[x.id], Price[y.id]>> \in PriceOrder(side)
    BY <2>1 DEF Before, PriceOrder, Entries
  <2>2. CASE /\ Price[x.id] = Price[y.id] /\ Price[x.id] \in tree[side]
             /\ Precedes(level[side][Price[x.id]].ids, x.id, y.id)
    <3>1. x.id \in Orders /\ Price[x.id] \in Prices
      BY DEF Entries, Prices
    <3>2. Price[x.id] \in tree'[side]
      BY <1>6, <2>2
    <3>3. Precedes(level'[side][Price[x.id]].ids, x.id, y.id)
      BY <1>3, <1>5, <1>6, <2>2, <3>1
    <3> QED
      BY <2>2, <3>2, <3>3 DEF Before, Precedes, Entries
  <2> QED
    BY <1>10, <2>1, <2>2 DEF Before
<1> DEFINE q == Walk(side)
<1>11. q \in Seq(Entries) /\ SortedBy(q, Before(side)) /\ Elements(q) = Held(side)
  BY <1>1, WalkSorted DEF WalkFacts
<1> HIDE DEF q
<1>12. /\ Len(q) \in Nat /\ DOMAIN q = 1..Len(q)
       /\ \A i \in 1..Len(q) : q[i] \in Entries /\ q[i] \in Held(side) /\ Price[q[i].id] \in Int
  <2>1. Len(q) \in Nat /\ DOMAIN q = 1..Len(q) /\ \A i \in 1..Len(q) : q[i] \in Entries
    BY <1>11, LenProperties, ElementOfSeq
  <2>2. \A i \in 1..Len(q) : q[i] \in Held(side)
    BY <1>11 DEF Elements
  <2> QED
    BY <2>1, <2>2, ConstantsAssumption DEF Entries
<1>13. SortedBy(q, Before(side)')
  BY <1>10, <1>11, <1>12 DEF SortedBy
<1>14. PICK k \in 0..Len(q) : \A i \in 1..Len(q) : i <= k <=> <<p, Price[q[i].id]>> \notin PriceOrder(side)
  <2> DEFINE R == {z \in Entries \X Entries : <<Price[z[1].id], Price[z[2].id]>> \in PriceOrder(side)}
  <2>1. \A i \in 1..Len(q) : <<e, q[i]>> \in R <=> <<p, Price[q[i].id]>> \in PriceOrder(side)
    BY <1>8, <1>12
  <2>2. ASSUME NEW i \in 1..Len(q), NEW j \in 1..Len(q), i < j, <<p, Price[q[i].id]>> \in PriceOrder(side)
        PROVE  <<p, Price[q[j].id]>> \in PriceOrder(side)
    <3>1. <<q[i], q[j]>> \in Before(side)
      BY <1>11, <2>2 DEF SortedBy
    <3>2. <<Price[q[i].id], Price[q[j].id]>> \in PriceOrder(side) \/ Price[q[i].id] = Price[q[j].id]
      BY <1>12, <3>1 DEF Before
    <3> QED
      BY <1>1, <1>12, <2>2, <3>2 DEF PriceOrder
  <2>3. \A i, j \in 1..Len(q) : i < j /\ <<e, q[i]>> \in R => <<e, q[j]>> \in R
    BY <2>1, <2>2
  <2> HIDE DEF R, e
  <2>4. PICK k \in 0..Len(q) : \A i \in 1..Len(q) : i <= k <=> <<e, q[i]>> \notin R
    BY <1>11, <2>3, Cut
  <2> QED
    BY <2>1, <2>4
<1>15. ASSUME NEW i \in 1..Len(q)
       PROVE  IF i <= k THEN <<q[i], e>> \in Before(side)' ELSE <<e, q[i]>> \in Before(side)'
  <2>1. CASE i <= k
    <3>1. <<p, Price[q[i].id]>> \notin PriceOrder(side)
      BY <1>14, <2>1
    <3>2. <<Price[q[i].id], p>> \in PriceOrder(side) \/ Price[q[i].id] = p
      BY <1>1, <1>12, <3>1 DEF PriceOrder
    <3>3. CASE <<Price[q[i].id], p>> \in PriceOrder(side)
      BY <1>1, <1>8, <1>12, <2>1, <3>3, NextBefore
    <3>4. CASE Price[q[i].id] = p
      <4>1. p \in tree[side] /\ Contains(level[side][p].ids, q[i].id)
        BY <1>1, <1>12, <3>4, HeldFacts DEF GetOrder
      <4>2. Precedes(level'[side][p].ids, q[i].id, o) /\ p \in tree'[side]
        BY <1>3, <1>5, <1>6, <4>1
      <4> QED
        BY <1>1, <1>8, <1>12, <2>1, <3>4, <4>2, NextBefore
    <3> QED
      BY <2>1, <3>2, <3>3, <3>4
  <2>2. CASE ~(i <= k)
    <3>1. <<p, Price[q[i].id]>> \in PriceOrder(side)
      BY <1>14, <2>2
    <3> QED
      BY <1>8, <1>12, <2>2, <3>1 DEF Before, PriceOrder, Entries
  <2> QED
    BY <2>1, <2>2
<1>16. PICK c : c = InsertAt(q, k + 1, e)
  OBVIOUS
<1>17. c \in Seq(Entries) /\ SortedBy(c, Before(side)') /\ Elements(c) = Held(side)'
  <2>1. PICK R : R = Before(side)'
    OBVIOUS
  <2>2. SortedBy(q, R) /\ \A i \in 1..Len(q) : IF i <= k THEN <<q[i], e>> \in R ELSE <<e, q[i]>> \in R
    BY <1>13, <1>15, <2>1
  <2> HIDE DEF e
  <2>3. /\ InsertAt(q, k + 1, e) \in Seq(Entries)
        /\ SortedBy(InsertAt(q, k + 1, e), R)
        /\ Elements(InsertAt(q, k + 1, e)) = Elements(q) \cup {e}
    BY <1>8, <1>11, <2>2, InsertedSorted
  <2> QED
    BY <1>9, <1>11, <1>16, <2>1, <2>3
<1>18. Walk(side)' = c
  BY <1>1, <1>17, NextWalk
<1>19. \A s \in Sides : s # side => Walk(s)' = Walk(s)
  BY <1>6, SameWalk
<1>20. [s \in Sides |-> Walk(s)]' = [[s \in Sides |-> Walk(s)] EXCEPT ![side] = InsertAt(q, k + 1, e)]
  BY <1>1, <1>16, <1>18, <1>19, QueueStep
<1>21. \A i \in 1..Len(q) : q[i].id # o
  BY <1>1, <1>4, <1>12, HeldFacts
<1>22. \A i \in 1..Len(q) : i <= k <=> ~Abstract!Better(side, Price[o], Price[q[i].id])
  BY <1>1, <1>12, <1>14 DEF Abstract!Better, PriceOrder
<1>23. [s \in Sides |-> Walk(s)][side] = q
  BY <1>1 DEF q
<1>24. Abstract!SideOf(a) = side
  BY DEF Abstract!SideOf, side, SideOf
<1>25. ~Abstract!Present(side, o)
  BY <1>12, <1>21, <1>23 DEF Abstract!Present
<1> DEFINE Q == [s \in Sides |-> Walk(s)]
<1>26. Q' = [Q EXCEPT ![side] = InsertAt(q, k + 1, e)] /\ Q[side] = q
  BY <1>20, <1>23
<1> HIDE DEF Q
<1>27. \E n \in 0..Len(Q[side]) :
         /\ \A i \in 1..Len(Q[side]) : i <= n <=> ~Abstract!Better(side, Price[o], Price[Q[side][i].id])
         /\ Q' = [Q EXCEPT ![side] = Abstract!InsertAt(Q[side], n + 1, e)]
  <2>1. Abstract!InsertAt(q, k + 1, e) = InsertAt(q, k + 1, e)
    BY DEF InsertAt, Abstract!InsertAt
  <2> QED
    BY <1>22, <1>26, <2>1
<1> QED
  BY <1>24, <1>25, <1>27 DEF Abstract!Insert, Q

\* Where an order that is found stands in the walk
LEMMA Place ==
  ASSUME BookInv, NEW side \in Sides, NEW o \in Orders, GetOrder(side, o)
  PROVE  \E i \in 1..Len(Walk(side)) :
           /\ Walk(side)[i] = Entry(side, o)
           /\ \A j \in 1..Len(Walk(side)) : j # i => Walk(side)[j].id # o
<1> DEFINE q == Walk(side)
<1>1. /\ q \in Seq(Entries) /\ SortedBy(q, Before(side)) /\ Elements(q) = Held(side)
      /\ Strict(Before(side))
  BY WalkSorted DEF WalkFacts
<1> HIDE DEF q
<1>2. PICK i \in 1..Len(q) : q[i] = Entry(side, o)
  BY <1>1, HeldFacts DEF Elements
<1>3. Len(q) \in Nat
  BY <1>1, LenProperties
<1>4. ASSUME NEW j \in 1..Len(q), j # i, q[j].id = o PROVE FALSE
  <2>1. q[j] \in Held(side)
    BY <1>1 DEF Elements
  <2>2. q[j] = q[i]
    BY <1>2, <1>4, <2>1, HeldFacts
  <2>3. CASE i < j
    BY <1>1, <2>2, <2>3 DEF SortedBy, Strict
  <2>4. CASE j < i
    BY <1>1, <2>2, <2>4 DEF SortedBy, Strict
  <2> QED
    BY <1>3, <1>4, <2>3, <2>4
<1> QED
  BY <1>2, <1>4 DEF q

\* An order that leaves its level leaves the queue.
LEMMA LeaveImplements ==
  ASSUME BookInv, BookInv', NEW side \in Sides, NEW o \in Orders, NEW delta \in Int,
         GetOrder(side, o), amount' = [amount EXCEPT ![side][o] = 0],
         SaveLevel(side, o, RemoveFirst(level[side][Price[o]].ids, o), delta)
  PROVE  Abstract!Change(side, o, 0)
<1> DEFINE p == Price[o]
           old == level[side][p].ids
           ids == RemoveFirst(old, o)
           gone == IF ids = <<>> THEN {p} ELSE {}
           q == Walk(side)
<1>1. p \in Prices /\ p \in tree[side] /\ old \in Seq(Orders) /\ LevelHolds(old, p) /\ Contains(old, o)
  BY Found
<1>2. /\ ids \in Seq(Orders)
      /\ \A x : Contains(ids, x) <=> Contains(old, x) /\ x # o
      /\ \A x, y : x # o /\ y # o /\ Precedes(old, x, y) => Precedes(ids, x, y)
  BY <1>1, RemovedFirst
<1>3. /\ level' = [level EXCEPT ![side][p] = [ids |-> ids, totalAmount |-> @.totalAmount + delta]]
      /\ tree' = [tree EXCEPT ![side] = @ \ gone]
  BY DEF SaveLevel
<1> HIDE DEF ids
<1>4. /\ level'[side][p].ids = ids
      /\ \A r \in Prices : r # p => level'[side][r] = level[side][r]
      /\ tree'[side] = tree[side] \ gone
      /\ \A x \in Orders : x # o => amount'[side][x] = amount[side][x]
      /\ \A s \in Sides : s # side => amount'[s] = amount[s] /\ level'[s] = level[s] /\ tree'[s] = tree[s]
  BY <1>1, <1>3 DEF BookInv, TypeOK
<1>5. \A x : Contains(ids, x) => p \in tree'[side]
  BY <1>1, <1>4 DEF Contains
<1>6. ASSUME NEW x \in Orders PROVE GetOrder(side, x)' <=> GetOrder(side, x) /\ x # o
  <2>1. GetOrder(side, x)' <=> Price[x] \in tree'[side] /\ Contains(level'[side][Price[x]].ids, x)
    BY DEF GetOrder, Contains
  <2>2. Price[x] \in Prices
    BY DEF Prices
  <2>3. CASE Price[x] = p
    BY <1>1, <1>2, <1>4, <1>5, <2>1, <2>3 DEF GetOrder
  <2>4. CASE Price[x] # p
    BY <1>4, <2>1, <2>2, <2>4 DEF GetOrder
  <2> QED
    BY <2>3, <2>4
<1>7. Held(side)' = Held(side) \ {Entry(side, o)}
  <2>1. \A x \in Orders : x # o => Entry(side, x)' = Entry(side, x) /\ Entry(side, x) # Entry(side, o)
    BY <1>4 DEF Entry
  <2>2. Held(side)' = {Entry(side, x)' : x \in {y \in Orders : GetOrder(side, y)'}}
    BY DEF Held
  <2>3. Held(side) = {Entry(side, x) : x \in {y \in Orders : GetOrder(side, y)}}
    BY DEF Held
  <2> QED
    BY <1>6, <2>1, <2>2, <2>3
<1>8. ASSUME NEW x \in Entries, NEW y \in Entries, x.id # o, y.id # o, <<x, y>> \in Before(side)
      PROVE  <<x, y>> \in Before(side)'
  <2>1. x.id \in Orders /\ Price[x.id] \in Prices
    BY DEF Entries, Prices
  <2>2. CASE Price[x.id] = p /\ Price[x.id] = Price[y.id]
    <3>1. Precedes(old, x.id, y.id) \/ <<Price[x.id], Price[y.id]>> \in PriceOrder(side)
      BY <1>8, <2>2, ThisBefore
    <3>2. ASSUME Precedes(old, x.id, y.id)
          PROVE  Precedes(ids, x.id, y.id) /\ p \in tree'[side]
      <4>1. Precedes(ids, x.id, y.id)
        BY <1>2, <1>8, <3>2
      <4>2. Contains(ids, x.id)
        BY <4>1 DEF Precedes, Contains
      <4> QED
        BY <1>5, <4>1, <4>2
    <3> QED
      BY <1>4, <2>2, <3>1, <3>2, NextBefore
  <2>3. CASE ~(Price[x.id] = p /\ Price[x.id] = Price[y.id])
    <3>1. CASE <<Price[x.id], Price[y.id]>> \in PriceOrder(side)
      BY <3>1, NextBefore
    <3>2. CASE /\ Price[x.id] = Price[y.id] /\ Price[x.id] \in tree[side]
               /\ Precedes(level[side][Price[x.id]].ids, x.id, y.id)
      <4>1. Price[x.id] # p
        BY <2>3, <3>2
      <4>2. Price[x.id] \in tree'[side] /\ level'[side][Price[x.id]] = level[side][Price[x.id]]
        BY <1>4, <2>1, <3>2, <4>1
      <4> QED
        BY <3>2, <4>2, NextBefore
    <3> QED
      BY <1>8, <3>1, <3>2, ThisBefore
  <2> QED
    BY <2>2, <2>3
<1>9. /\ q \in Seq(Entries) /\ SortedBy(q, Before(side)) /\ Elements(q) = Held(side)
      /\ Strict(Before(side))
  BY WalkSorted DEF WalkFacts
<1>10. PICK i \in 1..Len(q) : q[i] = Entry(side, o)
  BY Place
<1> HIDE DEF q
<1>11. PICK c : c = RemoveAt(q, i)
  OBVIOUS
<1>12. c \in Seq(Entries) /\ SortedBy(c, Before(side)) /\ Elements(c) = Held(side)'
  <2>1. PICK R : R = Before(side)
    OBVIOUS
  <2>2. /\ RemoveAt(q, i) \in Seq(Entries)
        /\ SortedBy(RemoveAt(q, i), R)
        /\ Elements(RemoveAt(q, i)) = Elements(q) \ {q[i]}
    <3>1. SortedBy(q, R) /\ Strict(R)
      BY <1>9, <2>1
    <3> QED
      BY <1>9, <3>1, RemovedSorted
  <2> QED
    BY <1>7, <1>9, <1>10, <1>11, <2>1, <2>2
<1>13. SortedBy(c, Before(side)')
  <2> SUFFICES ASSUME NEW m \in 1..Len(c), NEW n \in 1..Len(c), m < n
               PROVE  <<c[m], c[n]>> \in Before(side)'
    BY DEF SortedBy
  <2>1. c[m] \in Held(side) \ {Entry(side, o)} /\ c[n] \in Held(side) \ {Entry(side, o)}
    BY <1>7, <1>12 DEF Elements
  <2>2. c[m] \in Entries /\ c[n] \in Entries /\ c[m].id # o /\ c[n].id # o
    BY <2>1, HeldFacts
  <2> QED
    BY <1>8, <1>12, <2>2 DEF SortedBy
<1>14. Walk(side)' = c
  BY <1>12, <1>13, NextWalk
<1>15. \A s \in Sides : s # side => Walk(s)' = Walk(s)
  BY <1>4, SameWalk
<1> DEFINE Q == [s \in Sides |-> Walk(s)]
<1>16. Q' = [Q EXCEPT ![side] = RemoveAt(q, i)] /\ Q[side] = q
  BY <1>11, <1>14, <1>15, QueueStep DEF q
<1>17. RemoveAt(q, i) = Abstract!RemoveAt(q, i)
  BY DEF RemoveAt, Abstract!RemoveAt
<1>18. q[i].id = o /\ DOMAIN q = 1..Len(q) /\ Abstract!HasTheSameSign(0, q[i].amount)
  BY <1>9, <1>10, LenProperties DEF Entry, Abstract!HasTheSameSign
<1> HIDE DEF Q
<1>19. \E j \in DOMAIN Q[side] :
         /\ Q[side][j].id = o
         /\ Abstract!HasTheSameSign(0, Q[side][j].amount)
         /\ Q' = [Q EXCEPT ![side] = Abstract!RemoveAt(Q[side], j)]
  BY <1>16, <1>17, <1>18
<1> QED
  BY <1>19 DEF Abstract!Change, Q

\* An order that changes its amount keeps its place.
LEMMA StayImplements ==
  ASSUME BookInv, BookInv', NEW side \in Sides, NEW o \in Orders, NEW delta \in Int,
         NEW new \in Lots \ {0}, GetOrder(side, o), HasTheSameSign(new, amount[side][o]),
         amount' = [amount EXCEPT ![side][o] = new],
         SaveLevel(side, o, level[side][Price[o]].ids, delta)
  PROVE  Abstract!Change(side, o, new)
<1> DEFINE p == Price[o]
           ids == level[side][p].ids
           q == Walk(side)
           e == [id |-> o, amount |-> new]
<1>1. p \in Prices /\ p \in tree[side] /\ ids \in Seq(Orders) /\ Contains(ids, o)
  BY Found
<1>2. ids # <<>>
  BY <1>1 DEF Contains
<1>3. /\ level' = [level EXCEPT ![side][p] = [ids |-> ids, totalAmount |-> @.totalAmount + delta]]
      /\ tree' = [tree EXCEPT ![side] = @ \ {}]
  BY <1>2 DEF SaveLevel
<1>4. /\ \A r \in Prices : level'[side][r].ids = level[side][r].ids
      /\ tree'[side] = tree[side]
      /\ amount'[side][o] = new
      /\ \A x \in Orders : x # o => amount'[side][x] = amount[side][x]
      /\ \A s \in Sides : s # side => amount'[s] = amount[s] /\ level'[s] = level[s] /\ tree'[s] = tree[s]
  BY <1>1, <1>3 DEF BookInv, TypeOK
<1>5. ASSUME NEW x \in Orders PROVE GetOrder(side, x)' <=> GetOrder(side, x)
  <2>1. GetOrder(side, x)' <=> Price[x] \in tree'[side] /\ Contains(level'[side][Price[x]].ids, x)
    BY DEF GetOrder, Contains
  <2>2. Price[x] \in Prices
    BY DEF Prices
  <2> QED
    BY <1>4, <2>1, <2>2 DEF GetOrder
<1>6. e \in Entries
  BY DEF Entries
<1>7. Held(side)' = (Held(side) \ {Entry(side, o)}) \cup {e}
  <2>1. \A x \in Orders : x # o => Entry(side, x)' = Entry(side, x) /\ Entry(side, x) # Entry(side, o)
    BY <1>4 DEF Entry
  <2>2. Entry(side, o)' = e
    BY <1>4 DEF Entry
  <2>3. Held(side)' = {Entry(side, x)' : x \in {y \in Orders : GetOrder(side, y)'}}
    BY DEF Held
  <2>4. Held(side) = {Entry(side, x) : x \in {y \in Orders : GetOrder(side, y)}}
    BY DEF Held
  <2> QED
    BY <1>5, <2>1, <2>2, <2>3, <2>4
<1>8. ASSUME NEW x \in Entries, NEW y \in Entries, NEW u \in Entries, NEW v \in Entries,
             <<x, y>> \in Before(side), u.id = x.id, v.id = y.id
      PROVE  <<u, v>> \in Before(side)'
  <2>1. x.id \in Orders /\ Price[x.id] \in Prices
    BY DEF Entries, Prices
  <2>2. \/ <<Price[x.id], Price[y.id]>> \in PriceOrder(side)
        \/ /\ Price[x.id] = Price[y.id] /\ Price[x.id] \in tree'[side]
           /\ Precedes(level'[side][Price[x.id]].ids, x.id, y.id)
    <3>1. level'[side][Price[x.id]].ids = level[side][Price[x.id]].ids
      BY <1>4, <2>1
    <3> QED
      BY <1>4, <1>8, <3>1, ThisBefore
  <2> QED
    BY <1>8, <2>2, NextBefore
<1>9. q \in Seq(Entries) /\ SortedBy(q, Before(side)) /\ Elements(q) = Held(side)
  BY WalkSorted DEF WalkFacts
<1>10. PICK i \in 1..Len(q) : q[i] = Entry(side, o) /\ \A j \in 1..Len(q) : j # i => q[j].id # o
  BY Place
<1> HIDE DEF q, e
<1>11. Len(q) \in Nat /\ DOMAIN q = 1..Len(q) /\ \A j \in 1..Len(q) : q[j] \in Entries
  BY <1>9, LenProperties, ElementOfSeq
<1>12. PICK c : c = [q EXCEPT ![i] = e]
  OBVIOUS
<1>13. /\ c \in Seq(Entries) /\ Len(c) = Len(q)
       /\ \A j \in 1..Len(q) : c[j] = IF j = i THEN e ELSE q[j]
  BY <1>6, <1>9, <1>11, <1>12
<1>14. e.id = o /\ q[i].id = o /\ q[i].amount = amount[side][o]
  BY <1>10 DEF e, Entry
<1>15. SortedBy(c, Before(side)')
  <2> SUFFICES ASSUME NEW m \in 1..Len(q), NEW n \in 1..Len(q), m < n
               PROVE  <<c[m], c[n]>> \in Before(side)'
    BY <1>13 DEF SortedBy
  <2>1. c[m] \in Entries /\ c[m].id = q[m].id
    BY <1>6, <1>11, <1>13, <1>14
  <2>2. c[n] \in Entries /\ c[n].id = q[n].id
    BY <1>6, <1>11, <1>13, <1>14
  <2>3. <<q[m], q[n]>> \in Before(side)
    BY <1>9 DEF SortedBy
  <2> QED
    BY <1>8, <1>11, <2>1, <2>2, <2>3
<1>16. Elements(c) = Held(side)'
  <2>1. Elements(c) = {c[j] : j \in 1..Len(q)} /\ Held(side) = {q[j] : j \in 1..Len(q)}
    BY <1>9, <1>13 DEF Elements
  <2>2. \A j \in 1..Len(q) : j # i => q[j] # Entry(side, o)
    BY <1>10, <1>14
  <2> QED
    BY <1>7, <1>10, <1>13, <2>1, <2>2
<1>17. Walk(side)' = c
  BY <1>13, <1>15, <1>16, NextWalk
<1>18. \A s \in Sides : s # side => Walk(s)' = Walk(s)
  BY <1>4, SameWalk
<1> DEFINE Q == [s \in Sides |-> Walk(s)]
<1>19. Q' = [Q EXCEPT ![side] = [q EXCEPT ![i] = e]] /\ Q[side] = q
  BY <1>12, <1>17, <1>18, QueueStep DEF q
<1>20. Abstract!HasTheSameSign(new, q[i].amount) /\ new # 0
  BY <1>14 DEF HasTheSameSign, Abstract!HasTheSameSign
<1> HIDE DEF Q
<1>21. \E j \in DOMAIN Q[side] :
         /\ Q[side][j].id = o
         /\ Abstract!HasTheSameSign(new, Q[side][j].amount)
         /\ Q' = [Q EXCEPT ![side] = [Q[side] EXCEPT ![j] = e]]
  BY <1>11, <1>14, <1>19, <1>20
<1> QED
  BY <1>20, <1>21 DEF Abstract!Change, Q, e

\* The walk of the matcher over the book is a queue by price and time that
\* only takes the steps of PriorityBook: nothing overtakes, nothing is lost,
\* and a change of an amount does not cost an order its place.
THEOREM PriceTimePriority == Spec => AbstractSpec
<1>1. Init /\ BookInv => Abstract!Init
  <2> SUFFICES ASSUME Init, BookInv, NEW side \in Sides PROVE Walk(side) = <<>>
    BY DEF Abstract!Init, Abstract!Sides, Sides
  <2>1. PICK q : q = Walk(side)
    OBVIOUS
  <2>2. q \in Seq(Entries) /\ Elements(q) = Held(side)
    BY <2>1, WalkSorted DEF WalkFacts
  <2>3. Held(side) = {}
    BY DEF Held, GetOrder, Init
  <2>4. Len(q) \in Nat /\ ~(1 <= Len(q))
    BY <2>2, <2>3, LenProperties DEF Elements
  <2> QED
    BY <2>1, <2>2, <2>4, EmptySeq
<1>2. BookInv /\ BookInv' /\ [Next]_vars => [Abstract!Next]_(Abstract!vars)
  <2> SUFFICES ASSUME BookInv, BookInv', [Next]_vars
               PROVE  Abstract!Next \/ UNCHANGED [side \in Sides |-> Walk(side)]
    BY DEF Abstract!vars
  <2>1. ASSUME NEW o \in Orders, NEW a \in Lots \ {0}, InsertOrder(o, a) PROVE Abstract!Next
    BY <2>1, InsertImplements DEF Abstract!Next
  <2>2. 0 \in Lots
    BY ConstantsAssumption DEF Lots
  <2>3. ASSUME NEW o \in Orders, NEW side \in Sides, RemoveOrder(side, o) PROVE Abstract!Next
    <3>1. GetOrder(side, o) /\ -amount[side][o] \in Int
      BY <2>3, Found DEF RemoveOrder
    <3>2. Abstract!Change(side, o, 0)
      BY <2>3, <3>1, LeaveImplements DEF RemoveOrder
    <3> QED
      BY <2>2, <3>2 DEF Abstract!Next, Abstract!Sides, Sides
  <2>4. ASSUME NEW o \in Orders, NEW side \in Sides, NEW delta \in Lots \ {0},
               ChangeOrder(side, o, delta)
        PROVE  Abstract!Next
    <3> DEFINE new == amount[side][o] + delta
    <3>1. /\ GetOrder(side, o) /\ delta \in Int /\ new \in Lots
          /\ new = 0 \/ HasTheSameSign(new, amount[side][o])
          /\ amount' = [amount EXCEPT ![side][o] = new]
      BY <2>4, ConstantsAssumption DEF ChangeOrder, Lots
    <3>2. SaveLevel(side, o, IF new = 0 THEN RemoveFirst(level[side][Price[o]].ids, o)
                             ELSE level[side][Price[o]].ids, delta)
      BY <2>4 DEF ChangeOrder
    <3> HIDE DEF new
    <3>3. CASE new = 0
      <4>1. Abstract!Change(side, o, 0)
        BY <3>1, <3>2, <3>3, LeaveImplements
      <4> QED
        BY <2>2, <4>1 DEF Abstract!Next, Abstract!Sides, Sides
    <3>4. CASE new # 0
      <4>1. Abstract!Change(side, o, new)
        BY <3>1, <3>2, <3>4, StayImplements
      <4> QED
        BY <3>1, <4>1 DEF Abstract!Next, Abstract!Sides, Sides
    <3> QED
      BY <3>3, <3>4
  <2>5. CASE UNCHANGED vars
    <3>1. \A side \in Sides : Walk(side)' = Walk(side)
      BY <2>5, SameWalk DEF vars
    <3> QED
      BY <3>1
  <2>6. CASE Next
    BY <2>1, <2>3, <2>4, <2>6 DEF Next
  <2> QED
    BY <2>5, <2>6
<1> QED
  BY <1>1, <1>2, BookInvHolds, PTL DEF Spec, AbstractSpec, Abstract!Spec

=============================================================================
